SPECIFICATION Running
CONSTANTS
    Blocks = {"g", "a1", "a2", "b1", "c2"}
    Genesis = "g"
    Parent <- MCParent
    Ancestors <- MCAncestors
    nChainWork <- MCWork
    Address <- Scattered
    Outcomes <- Refusing
    Revocable = {"a1", "a2"}
    Rejected = {"c2"}
    nReprocess = 1
    ForceStart = TRUE
    DiskFull = FALSE
    TornFlush = FALSE
    None = None
INVARIANTS BestChainActive FailuresExact

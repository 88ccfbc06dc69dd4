SPECIFICATION Spec
CONSTANTS
    Blocks = {"g", "a1", "a2", "a3"}
    Genesis = "g"
    Parent <- MCParent
    Ancestors <- MCAncestors
    nChainWork <- MCWork
    Address <- Ascending
    Outcomes <- AllValid
    Revocable = {"a1"}
    Rejected = {}
    nReprocess = 0
    ForceStart = FALSE
    DiskFull = TRUE
    TornFlush = TRUE
    None = None
INVARIANTS ScriptsChecked DiskLoads

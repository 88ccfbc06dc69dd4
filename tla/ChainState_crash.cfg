SPECIFICATION FairSpec
CONSTANTS
    Blocks = {"g", "a1", "a2", "b1", "b2"}
    Genesis = "g"
    Parent <- MCParent
    Ancestors <- MCAncestors
    nChainWork <- MCWork
    Address <- Ascending
    Outcomes <- LateInvalid
    Revocable = {}
    Rejected = {}
    nReprocess = 1
    ForceStart = TRUE
    DiskFull = TRUE
    TornFlush = TRUE
    None = None
INVARIANT IndexConsistent
PROPERTIES AbortsOnlyFailed BestValidWins

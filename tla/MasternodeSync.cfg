SPECIFICATION FairSpec
CONSTANTS
    p1 = p1  p2 = p2
    Peers <- MCPeers
    Leaving <- MCNew
    PaymentsPeers <- MCNew
    BudgetPeers <- MCNew
    THRESHOLD = 1
INVARIANT SyncedMeansReceived
PROPERTY FinishesOrStarves

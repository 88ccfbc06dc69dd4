SPECIFICATION Spec
CONSTANTS
    Txs <- MCTxs
    CoinBases = {"c1", "c2", "c3", "c4", "d3", "e3"}
    CoinStakes = {}
    vin <- MCVin
    vout <- MCVout
    Blocks = {"g", "a1", "a2", "a3", "a4", "b3", "n3"}
    Genesis = "g"
    Parent <- MCParent
    vtx <- MCVtx
    Maturity = 2
    Nonstandard = {}
    Underpaid = {"u"}
    LowPriority = {"w"}
    BadScripts = {"x"}
    ByHash <- MCByHash
    nTxSize <- MCSize
    Peers = {"m", "n"}
    nMaxOrphanTx = 2
    Lockable = {"r", "s"}
    None = None
INVARIANTS IndexesAgree PoolSpendsAvailable OrphansResolved
PROPERTY Resurrects

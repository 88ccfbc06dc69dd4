CHECK_DEADLOCK FALSE
SPECIFICATION Spec
CONSTANTS
    Txs <- MCTxs
    CoinBases = {"c1", "c2", "c3", "d2"}
    CoinStakes = {"s"}
    vin <- MCVin
    vout <- MCVout
    Blocks = {"g", "a1", "a2", "a3", "a4", "b2", "b3", "e3", "x2", "y3"}
    Genesis = "g"
    Parent <- MCParent
    vtx <- MCVtx
    Maturity = 1
    nCoinCacheSize = 5
    WritesFail = TRUE
    None = None
INVARIANTS EntriesSound TipRepresentsBest DiskRepresentsBest TipCanBeUndone NeverStopped

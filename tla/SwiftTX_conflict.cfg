SPECIFICATION Spec
CONSTANTS
    a = a  b = b  o1 = o1  o2 = o2  m1 = m1  m2 = m2  m3 = m3
    noMasternode = noMasternode  NoLock = NoLock  NoTx = NoTx
    Txs <- MCTxs
    Outpoints <- MCOutpoints
    vin <- MCvin
    Masternodes <- TwoMasternodes
    LockHeight <- MCLockHeight
    Heights <- MCHeights
    Ranked <- RankedForLock
    SIGNATURES_REQUIRED = 1
    LockLife = 1
    ActiveMasternode = noMasternode
    BlockFiltering = TRUE
SYMMETRY Symmetry
INVARIANTS AcceptedLocksHeld NoDoubleSpend
CHECK_DEADLOCK FALSE

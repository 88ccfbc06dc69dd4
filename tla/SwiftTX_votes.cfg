SPECIFICATION FairSpec
CONSTANTS
    a = a  b = b  o1 = o1  o2 = o2  m1 = m1  m2 = m2  m3 = m3
    noMasternode = noMasternode  NoLock = NoLock  NoTx = NoTx
    Txs <- OneTx
    Outpoints <- MCOutpoints
    vin <- MCvin
    Masternodes <- ThreeMasternodes
    LockHeight <- MCLockHeight
    Heights <- MCHeights
    Ranked <- RankedForTip
    SIGNATURES_REQUIRED = 2
    LockLife = 1
    ActiveMasternode = m3
    BlockFiltering = TRUE
INVARIANT ConsensusSound
PROPERTY LocksExpire
CHECK_DEADLOCK FALSE

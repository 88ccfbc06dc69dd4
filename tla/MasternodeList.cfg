SPECIFICATION Spec
CONSTANTS
    v1 = v1
    v2 = v2
    b1 = b1
    b2 = b2
    b3 = b3
    ownKey = ownKey
    otherKey = otherKey
    None = None
    Vins = {v1, v2}
    Broadcasts = {b1, b2, b3}
    Keys = {ownKey, otherKey}
    pubKeyMasternode = ownKey
    vin <- VinOf
    key <- KeyOf
    sigTime <- TimeOf
    OldProtocol = {b1}
    ConfTimes = {4}
    BroadcastPings = {0, 4}
    MNB_SECONDS = 1
    MNP_SECONDS = 1
    PING_SECONDS = 1
    CHECK_SECONDS = 1
    Hour = 1
    EXPIRATION_SECONDS = 2
    REMOVAL_SECONDS = 3
    StartTime = 2
    MaxTime = 4
    MaxFaults = 1
INVARIANT TypeOK
PROPERTIES NewestBroadcast LiveNeverDropped StaleRemoved RemovedCanReturn
CHECK_DEADLOCK FALSE

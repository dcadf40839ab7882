SPECIFICATION FairSpec
CONSTANTS
    None = None
    t1 = t1
    t2 = t2
    k1 = k1
    k2 = k2
    Threads <- MCThreads
    PeerKeys <- MCPeerKeys
    Usages <- MCUsages
    BundleLife = 2
    SpkLife = 0
    OpkLife = 1
    MaxTime = 2
    MaxIdentities = 2
    MaxKeys = 3
    MaxLoads = 1
INVARIANTS
    OneKeyPerId
    OfferedHasSecret
    BundlesVerify
    SessionKeyIsPinned
CHECK_DEADLOCK FALSE
PROPERTY
    RotationRenews

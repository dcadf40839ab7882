SPECIFICATION FairSpec
CONSTANTS
    None = None
    c1 = c1
    c2 = c2
    m1 = m1
    m2 = m2
    x1 = x1
    x2 = x2
    x3 = x3
    Conns <- MCConns
    Versions <- MCVersions
    Expectations <- MCExpectations
    MaxIdentity = 1
    BundleLife = 1
    Msgs <- MCMsgs
    Accepted <- MCAccepted
    Usages <- MCUsages
    MAX_ACTIVE_PEERS = 2
INVARIANTS
    Agreement
    
    
CHECK_DEADLOCK FALSE
PROPERTIES
    
    HalfOpenNoticed
    RepliesGetTheLock

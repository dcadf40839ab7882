CONSTANTS
    Initiator = alice
    Responder = bob
    None = None
    MaxMessages = 6
    MaxSkip = 6
    HeaderEncryption = FALSE
    AgeRotation = FALSE
    MaxDh = 12
    MaxBody = 5
SPECIFICATION FairSpec
INVARIANTS ReceivingChainIsPeers AlwaysDecryptable AtMostOnce
PROPERTIES EventuallyOpened
CHECK_DEADLOCK FALSE

CONSTANTS
    Initiator = alice
    Responder = bob
    None = None
    MaxMessages = 3
    MaxSkip = 1
    HeaderEncryption = FALSE
    AgeRotation = TRUE
    MaxDh = 6
    MaxBody = 3
SPECIFICATION RestartSpec
INVARIANTS NoKeyReuse SkippedBounded
CHECK_DEADLOCK FALSE

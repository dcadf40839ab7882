SPECIFICATION LimiterSpec
SYMMETRY Symmetry
INVARIANTS SlidingLimit 
PROPERTY PenaltyServed
CONSTANTS
  Clients = {c1}
  Operations = {"decrypt", "message_send"}
  Threads = {t1, t2}
  Windows = {"second"}
  Length <- WindowLength
  Second = 3
  Credit = 3
  Wrap = 8
  NewLimits <- ContextLimits
  ServerLimits <- RelayLimits
  NewRps = 1
  ServerRps = 2
  MaxTracked = 1
  Ages = {3}
  None = None
  MaxTime = 4
  MaxStall = 1

SPECIFICATION FairSpec
INVARIANTS  NoGhostRinging
 
CONSTANTS
  Users = {u1}
  Ids = {}
  HttpIds = {w1}
  Signals = {s1}
  Conns = {c1, c2}
  Handlers = {h1}
  None = None
  Signatures = {TRUE}
  Limits <- ServerLimits
  Ageing = {"queue"}

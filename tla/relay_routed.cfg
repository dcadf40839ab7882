SPECIFICATION Spec
SYMMETRY Symmetry
INVARIANTS RoutedIsUnderWay ClientsAreLive
PROPERTY ImplementsMailbox
CONSTANTS
  Users = {u1}
  Ids = {i1}
  HttpIds = {}
  Signals = {}
  Conns = {c1, c2}
  Handlers = {h1, h2}
  None = None
  Signatures = {TRUE, FALSE}
  Limits <- ServerLimits
  Ageing = {"dedup"}

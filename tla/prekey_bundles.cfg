SPECIFICATION Spec
SYMMETRY Symmetry
INVARIANTS ResortPersists ReuseNeedsRace FetchDeletesServed
CONSTANTS
  b1 = b1
  b2 = b2
  b3 = b3
  b4 = b4
  d1 = d1
  d2 = d2
  Roots = {r1}
  Devices = {d1, d2}
  BundleIds = {b1, b2, b3, b4}
  Owner <- MCOwner
  LastResort = {b4}
  Handlers = {h1, h2}
  None = None
  Reuploaded = {b4}
  ShortLived = {b3, b4}

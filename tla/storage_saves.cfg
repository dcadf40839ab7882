SPECIFICATION Spec
SYMMETRY Symmetry
INVARIANTS  NoKeyReuse SavedStays SavedIsLoadable
CONSTANTS
  Threads = {t1, t2}
  None = None
  Torn = Torn
  MaxMessages = 2
  MaxChanges = 4
  MaxSeq = 3
  MaxChains = 3
  Events = {"crash", "io", "unlock"}

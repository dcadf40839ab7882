SPECIFICATION Spec
CONSTANTS
  Users = {u1, u2}
  Challenges = {c1, c2}
  Handlers = {h1, h2}
  None = None
SYMMETRY Symmetry
INVARIANTS TokenFollowsChallenge OneTimeUse 

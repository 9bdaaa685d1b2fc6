SPECIFICATION CreditSpec
CONSTANTS
  u1 = u1
  u2 = u2
  a1 = a1
  a2 = a2
  a3 = a3
  alice = alice
  bob = bob
  Session = {u1, u2}
  Participant = {a1, a2, a3}
  Owner <- OwnerOf
  PostsOverlap = FALSE
  MaxRows = 1
  MaxRuns = 3
  Account = {a1, a2, key, pool}
  Agent = {a1, a2}
  Vault = pool
  Oracle = key
  MaxUint = 9
  Limit = {0, 1}
  Score = {0}
  Funds = 2
  Request = {u1, u2}
  Line = {0, 1}
  Draws = {1}
  TERM = 0
  GRACE = 1
  MaxDay = 2
  MaxLoans = 3
SYMMETRY Symmetry
INVARIANTS
  PartsTypeOK
  PaidForOwnRow
  
  ExposureIsBounded
PROPERTIES
  DefaultOnce
CHECK_DEADLOCK FALSE

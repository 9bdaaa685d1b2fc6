SPECIFICATION Spec
CONSTANTS
  u1 = u1
  u2 = u2
  a = a
  b = b
  c = c
  alice = alice
  bob = bob
  Session = {u1, u2}
  Participant = {a, b, c}
  Owner <- OwnerOf
  PostsOverlap = TRUE
  MaxRows = 2
  MaxRuns = 2
SYMMETRY Symmetry
INVARIANTS
  RecordedTaskIsOwn
CHECK_DEADLOCK FALSE

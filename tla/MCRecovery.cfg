SPECIFICATION Spec
CONSTANTS
  n1 = n1
  n2 = n2
  h1 = h1
  h2 = h2
  w = w
  requester = requester
  arbiter = arbiter
  nobody = nobody
  delivered = delivered
  abandoned = abandoned
PROPERTIES
  PassedWorkIsPaid
  DisputeIsResolved
  InterruptedRaiseCompletes
CHECK_DEADLOCK FALSE

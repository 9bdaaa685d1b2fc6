SPECIFICATION Spec
CONSTANTS
  w1 = w1
  w2 = w2
  h1 = h1
  h2 = h2
  Handler = {h1}
  Worker = {w1, w2}
  Requester = requester
  Arbiter = arbiter
  Caller = {w1, w2, requester, arbiter}
  NoWorker = nobody
  Delivered = delivered
  Abandoned = abandoned
  Result = {delivered, abandoned}
  NoResult = nothing
  MAX_AUTO_REPOSTS = 2
  PostMayTimeOut = FALSE
  OutcomeKnown = TRUE
  Tries = 3
  MaxSpecs = 3
  SpecHash = {1, 2, 3}
  MaxJobs = 3
  MaxInFlight = 1
SYMMETRY Symmetry
INVARIANTS
  FailedWorkerNeverReturns
CHECK_DEADLOCK FALSE

SPECIFICATION Spec
CONSTANTS
  w1 = w1
  w2 = w2
  h1 = h1
  h2 = h2
  Handler = {h1, h2}
  Worker = {w1, w2}
  Requester = requester
  Arbiter = arbiter
  Caller = {w1, w2, requester, arbiter}
  NoWorker = nobody
  Delivered = delivered
  Abandoned = abandoned
  Result = {delivered, abandoned}
  NoResult = nothing
  MAX_AUTO_REPOSTS = 1
  PostMayTimeOut = TRUE
  OutcomeKnown = TRUE
  Tries = 2
  MaxSpecs = 2
  SpecHash = {1, 2}
  MaxJobs = 2
  MaxInFlight = 2
SYMMETRY Symmetry
INVARIANTS
  TypeOK
  SettledForCause
  ReplacedOnlyInDispute
CHECK_DEADLOCK FALSE

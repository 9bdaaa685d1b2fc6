SPECIFICATION FairSpec
CONSTANTS
  Handler = {h1}
  Worker = {w1}
  Requester = requester
  Arbiter = arbiter
  Caller = {w1, requester, arbiter}
  NoWorker = nobody
  Delivered = delivered
  Abandoned = abandoned
  Result = {delivered, abandoned}
  NoResult = nothing
  MAX_AUTO_REPOSTS = 1
  PostMayTimeOut = FALSE
  OutcomeKnown = TRUE
  Tries = 3
  MaxSpecs = 1
  SpecHash = {1}
  MaxJobs = 1
  MaxInFlight = 1
PROPERTIES
  AbandonedIsRefunded
CHECK_DEADLOCK FALSE

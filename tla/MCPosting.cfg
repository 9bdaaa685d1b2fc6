SPECIFICATION PostingSpec
CONSTANTS
  n1 = n1
  n2 = n2
  Instance = {n1, n2}
  Worker = {w}
  Requester = requester
  Arbiter = arbiter
  Caller = {w, requester, arbiter}
  NoWorker = nobody
  Result = {result}
  NoResult = nothing
  Step = 2
  Ceiling = 4
  MAX_RAISES = 2
  RESUMES_PER_PASS = 3
  PostMayTimeOut = FALSE
  RevertThrows = TRUE
  Start <- OneJob
  MaxRows = 3
  SpecHash = {1, 2, 3}
  MaxPosts = 2
  NumSubtasks = 3
  DependsOn <- Builds
  ReviewOf <- OneReview
  Ticker = {n1, n2}
  GradedOnSubmission = FALSE
  ConfirmsOverlap = TRUE
  MaxJobs = 3
  MaxReposts = 1
  MaxLost = 1
  MaxOverlaps = 1
SYMMETRY Symmetry
INVARIANTS
  PartsTypeOK
  
  RaisesClimb
  DependentsBuildOnRealWork
  
CHECK_DEADLOCK FALSE

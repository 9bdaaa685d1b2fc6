SPECIFICATION WorkSpec
CONSTANTS
  agent1 = agent1
  agent2 = agent2
  tick1 = tick1
  tick2 = tick2
  tick3 = tick3
  Agent = {agent1, agent2}
  Nobody = nobody
  Ticks = {tick1, tick2, tick3}
  TickAgent <- ServedBy
  MaxPending = 1
  MaxFaults = 2
  Cycle = {tick1, tick2}
  DEADLINE = 4
  WARN_AT = 2
  GRACE = 2
  NoAge = nobody
  MaxNotices = 2
  MaxDeaths = 1
  MaxPayouts = 2
  Crediter = {tick1, tick2}
  Cleaner = {agent1, agent2}
  Unknown = {}
  Legacy <- OldDuplicates
  MAX_PER_PASS = 1
  MaxEvents = 4
  MaxCrashes = 1
  NumSubtasks = 2
  DependsOn <- BuildsOnRoot
  ReviewOf <- NoReviews
  Ticker = {tick1, tick2}
  GradedOnSubmission = TRUE
  ConfirmsOverlap = FALSE
  MaxJobs = 4
  MaxReposts = 0
  MaxLost = 0
  MaxOverlaps = 1
INVARIANTS
  StagesTypeOK
  
  NoticeBeforeMark
  
PROPERTIES
  PostedJobIsDispatched
  
  PaidWorkIsRecorded
  
CHECK_DEADLOCK FALSE

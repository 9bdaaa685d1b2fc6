SPECIFICATION FairSpec
CONSTANTS
  Caller = {alice, bob}
  Account = {alice, bob, oracle_key, escrow}
  Agent = {alice}
  Oracle = oracle_key
  TaskEscrow = escrow
  Nobody = zeroAddress
  Answer = {right, wrong}
  NoCommitment = zeroHash
  REVEAL_WINDOW = 1
  Limit = {0}
  Score = {0, 1}
  Bounty = {1, 2}
  MaxUint = 3
  MaxTasks = 2
INVARIANTS
  PaidOnlyForOwnAnswer
PROPERTIES
  
  ImplementsEscrow
  
CHECK_DEADLOCK FALSE

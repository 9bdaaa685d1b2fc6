SPECIFICATION ContractsSpec
CONSTANTS
  u1 = u1
  u2 = u2
  owner = owner
  Voter = {a1, a2}
  User = {owner}
  OwnerOf <- OneOwner
  Option = {0, 1, 2}
  OptionId = {0, 1, 2}
  Salt = {0}
  NoHash = noHash
  Beat = {u1, u2}
  Power = {0, 1}
  QUORUM_POWER = 1
  None = none
  Account = {u1, u2, vault}
  Vault = vault
  Nobody = nobody
  Money = {0, 1, 2, 3}
  MaxDeals = 3
  Borrower = {u1, u2}
  WAD = 2
  Price = {1, 2, 3}
  Amount = {1, 2, 3}
  MaxCollateral = 7
  Holder = {owner}
  Call = {u1, u2}
  Stake = {1, 2}
  MAX_LOCK_WEEKS = 2
  ReadersOverlap = FALSE
  MaxEarned = 3
  MaxLocks = 2
  MaxWeek = 4
SYMMETRY Symmetry
INVARIANTS
  PartsTypeOK
  Covered
  SupplyIsOwed
  
  
PROPERTIES
  PositionsAreKept
CHECK_DEADLOCK FALSE

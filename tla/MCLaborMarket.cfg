SPECIFICATION Spec
CONSTANTS
  alice = alice
  bob = bob
  Caller = {alice, bob, arbiter}
  Account = {alice, bob, arbiter, market}
  Agent = {alice, bob}
  Arbiter = arbiter
  Market = market
  NoWorker = zeroAddress
  SpecHash = {spec}
  Result = {result}
  NoResult = nothing
  Limit = {0}
  Score = {0, 1}
  Bounty = {1, 2}
  MaxUint = 3
  MaxJobs = 2
SYMMETRY Symmetry
INVARIANTS
  EscrowCovered
  PayoutNeverReverts
PROPERTIES
  ImplementsEscrow
  AgreementIsBinding
  NoUnilateralRefund
CHECK_DEADLOCK FALSE

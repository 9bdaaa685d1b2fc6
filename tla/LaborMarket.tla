---------------------------- MODULE LaborMarket -----------------------------
(***************************************************************************)
(* contracts/src/LaborMarket.sol over the token and the credit registry:   *)
(* every external function, called by any account in any order.            *)
(***************************************************************************)
EXTENDS MockUSDC, AgentCreditRegistry, LaborJobs

CONSTANTS
  Market,     \* the contract's own address
  Bounty,     \* bounties requesters post (zero included: nothing forbids it)
  MaxJobs     \* bound: jobs posted

ASSUME MarketAssumption ==
  /\ Market \in Account \ Caller
  /\ Caller \subseteq Account
  /\ Arbiter \in Caller
  /\ NoWorker \notin Account
  /\ Agent \subseteq Caller
  /\ Bounty \subseteq Uint
  /\ 0 \in Limit /\ 0 \in Score
  /\ NoResult \notin Result

vars == <<totalSupply, balanceOf, oracle, creditLimit, creditScore, jobs>>

TypeOK ==
  /\ TokenTypeOK
  /\ RegistryTypeOK(Caller)
  /\ jobs \in Seq(Job(Bounty, Score))

Init ==
  /\ TokenInit
  /\ RegistryInit(Arbiter, 0)   \* one deployer key is oracle and arbiter
  /\ jobs = <<>>

-----------------------------------------------------------------------------
\* The contract's external functions.
PostJob(r, bounty, minScore, specHash) ==
  /\ jobCount < MaxJobs
  /\ Transfer(r, Market, bounty)
  /\ Posted(r, bounty, minScore, specHash)
  /\ UNCHANGED registryVars

\* An account the oracle never scored reads as 0 in the registry's mapping.
ScoreOf(w) == IF w \in Agent THEN creditScore[w] ELSE 0

AcceptJob(w, j) ==
  /\ ScoreOf(w) >= jobs[j].minScore
  /\ Accepted(w, j)
  /\ UNCHANGED <<tokenVars, registryVars>>

SubmitWork(w, j, result) ==
  /\ Submitted(w, j, result)
  /\ UNCHANGED <<tokenVars, registryVars>>

ApproveJob(r, j) ==
  /\ Approved(r, j)
  /\ Transfer(Market, jobs[j].worker, jobs[j].bounty)
  /\ UNCHANGED registryVars

RaiseDispute(r, j) ==
  /\ Disputed(r, j)
  /\ UNCHANGED <<tokenVars, registryVars>>

ResolveDispute(a, j, releaseToWorker) ==
  /\ Resolved(a, j, releaseToWorker)
  /\ Transfer(Market, IF releaseToWorker THEN jobs[j].worker ELSE jobs[j].requester,
              jobs[j].bounty)
  /\ UNCHANGED registryVars

CancelJob(r, j) ==
  /\ Cancelled(r, j)
  /\ Transfer(Market, jobs[j].requester, jobs[j].bounty)
  /\ UNCHANGED registryVars

-----------------------------------------------------------------------------
\* What happens around the contract: the token's own functions, called by any
\* account, and the oracle publishing limits and scores.
TokenStep ==
  /\ \/ \E to \in Account : Mint(to, 1)
     \/ \E from \in Caller, to \in Account, amount \in Bounty :
          Transfer(from, to, amount)
  /\ UNCHANGED <<registryVars, jobs>>

RegistryStep ==
  /\ \/ \E sender \in Caller, agent \in Agent, limit \in Limit, score \in Score :
          SetLimit(sender, agent, limit, score)
     \/ \E sender, newOracle \in Caller : SetOracle(sender, newOracle)
  /\ UNCHANGED <<tokenVars, jobs>>

MarketStep(c) ==
  \/ \E bounty \in Bounty, minScore \in Score, specHash \in SpecHash :
       PostJob(c, bounty, minScore, specHash)
  \/ \E j \in JobId :
       \/ AcceptJob(c, j)
       \/ \E result \in Result : SubmitWork(c, j, result)
       \/ ApproveJob(c, j)
       \/ RaiseDispute(c, j)
       \/ \E releaseToWorker \in BOOLEAN : ResolveDispute(c, j, releaseToWorker)
       \/ CancelJob(c, j)

Next == TokenStep \/ RegistryStep \/ \E c \in Caller : MarketStep(c)

Spec == Init /\ [][Next]_vars

-----------------------------------------------------------------------------
(***************************************************************************)
(* The market as an escrow: a job's deal is open until the job settles.    *)
(***************************************************************************)
Payee(job) ==
  IF job.status = "Completed" THEN job.worker
  ELSE IF job.status \in {"Cancelled", "Refunded"} THEN job.requester
  ELSE NoWorker

DealOf(job) == [amount |-> job.bounty, to |-> Payee(job)]

E == INSTANCE Escrow WITH
       Vault <- Market, Nobody <- NoWorker, Money <- Uint, MaxDeals <- MaxJobs,
       balance <- balanceOf, deals <- [j \in JobId |-> DealOf(jobs[j])]

\* The market implements the abstract escrow: a bounty is taken once, held
\* until the job settles, and paid once, whole, to the account the outcome
\* names; no other call of the contract moves its money.
ImplementsEscrow == E!Spec

\* Every escrow still held can be paid at once, whatever the order in which
\* the jobs were posted, disputed, cancelled and settled.
EscrowCovered == E!Covered

\* No release or refund can revert: for every job that may still pay out, the
\* market has the bounty and neither party's balance would overflow (checked
\* arithmetic), so approveJob, resolveDispute and cancelJob never lock funds.
PayoutNeverReverts ==
  \A j \in JobId : jobs[j].status \notin Settled =>
    /\ balanceOf[Market] >= jobs[j].bounty
    /\ \A a \in Caller : balanceOf[a] + jobs[j].bounty <= MaxUint

\* A job that may still pay its worker names one, and a result is recorded
\* exactly from the delivery on: no order of calls reaches a release to
\* address(0) or a dispute about nothing.
PartiesRecorded ==
  \A j \in JobId :
    /\ jobs[j].worker = NoWorker <=> jobs[j].status \in {"Open", "Cancelled"}
    /\ jobs[j].resultHash = NoResult
         <=> jobs[j].status \in {"Open", "Cancelled", "Accepted"}

\* Between acceptance and settlement the parties, the price and a delivered
\* result are fixed: no call lets the requester, another worker or a second
\* delivery replace what was agreed, and a settled job never moves again.
AgreementIsBinding == [][\A j \in JobId : AgreementStands(j)]_vars

\* Once a worker has accepted, the requester cannot take the bounty back alone:
\* the money returns only for delivered work, and only out of a dispute, which
\* is the arbiter's to resolve.
NoUnilateralRefund ==
  [][\A j \in JobId :
       /\ jobs[j].worker # NoWorker
       /\ jobs'[j].status # jobs[j].status
       /\ balanceOf'[jobs[j].requester] > balanceOf[jobs[j].requester]
       => jobs[j].status = "Disputed" /\ jobs[j].resultHash # NoResult]_vars
=============================================================================

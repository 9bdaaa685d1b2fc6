----------------------------- MODULE LaborJobs ------------------------------
(***************************************************************************)
(* The job records of contracts/src/LaborMarket.sol and the state machine  *)
(* each of them goes through.  The money moves in LaborMarket; the modules *)
(* of the off-chain code take the chain's side of a call from here.        *)
(***************************************************************************)
EXTENDS Naturals, Sequences

CONSTANTS
  Caller,     \* accounts that send transactions (never a contract)
  Arbiter,    \* the arbiter fixed at deployment
  NoWorker,   \* address(0)
  SpecHash,   \* spec hashes
  Result,     \* result hashes
  NoResult    \* bytes32(0)

VARIABLE jobs \* mapping(uint256 => Job); jobCount is its length

jobCount == Len(jobs)
JobId == 1 .. jobCount

Status == {"Open", "Accepted", "Submitted", "Completed",
           "Cancelled", "Disputed", "Refunded"}
Settled == {"Completed", "Cancelled", "Refunded"}

Job(Bounties, Scores) ==
  [requester : Caller, worker : Caller \cup {NoWorker}, bounty : Bounties,
   minScore : Scores, status : Status, specHash : SpecHash,
   resultHash : Result \cup {NoResult}]

\* Mutants of the guards below: an accept that overwrites an earlier worker, a
\* dispute before there is a delivery, a second resolution, a cancel after the
\* accept.
CanAccept_Taken(w, j) == jobs[j].status \in {"Open", "Accepted"} /\ w # jobs[j].requester
CanResolve_Again(a, j) == jobs[j].status \in {"Disputed", "Completed"} /\ a = Arbiter
CanCancel_Taken(r, j) == jobs[j].status \in {"Open", "Accepted"} /\ r = jobs[j].requester

CanAccept(w, j) == jobs[j].status = "Open" /\ w # jobs[j].requester
CanSubmit(w, j) == jobs[j].status = "Accepted" /\ w = jobs[j].worker
CanApprove(r, j) == jobs[j].status = "Submitted" /\ r = jobs[j].requester
CanDispute(r, j) == jobs[j].status = "Submitted" /\ r = jobs[j].requester
CanResolve(a, j) == jobs[j].status = "Disputed" /\ a = Arbiter
CanCancel(r, j) == jobs[j].status = "Open" /\ r = jobs[j].requester

Posted(r, bounty, minScore, specHash) ==
  jobs' = Append(jobs, [requester |-> r, worker |-> NoWorker, bounty |-> bounty,
                        minScore |-> minScore, status |-> "Open",
                        specHash |-> specHash, resultHash |-> NoResult])

SetStatus(j, s) == jobs' = [jobs EXCEPT ![j].status = s]

Accepted(w, j) ==
  /\ CanAccept(w, j)
  /\ jobs' = [jobs EXCEPT ![j].worker = w, ![j].status = "Accepted"]

Submitted(w, j, result) ==
  /\ CanSubmit(w, j)
  /\ jobs' = [jobs EXCEPT ![j].resultHash = result, ![j].status = "Submitted"]

\* Mutant of Approved: the job stays Submitted.
Approved_NotClosed(r, j) == CanApprove(r, j) /\ UNCHANGED jobs

Approved(r, j) == CanApprove(r, j) /\ SetStatus(j, "Completed")

Disputed(r, j) == CanDispute(r, j) /\ SetStatus(j, "Disputed")

Resolved(a, j, releaseToWorker) ==
  /\ CanResolve(a, j)
  /\ SetStatus(j, IF releaseToWorker THEN "Completed" ELSE "Refunded")

Cancelled(r, j) == CanCancel(r, j) /\ SetStatus(j, "Cancelled")

-----------------------------------------------------------------------------
(***************************************************************************)
(* The market without its money: any account calls any function, from jobs *)
(* that nobody has taken.  LaborMarket implements it, and so does          *)
(* everything the off-chain settlement makes happen on the chain.          *)
(***************************************************************************)
JobCall(c, Bounties, Scores) ==
  \/ \E bounty \in Bounties, minScore \in Scores, specHash \in SpecHash :
       Posted(c, bounty, minScore, specHash)
  \/ \E j \in JobId :
       \/ Accepted(c, j)
       \/ \E result \in Result : Submitted(c, j, result)
       \/ Approved(c, j)
       \/ Disputed(c, j)
       \/ \E releaseToWorker \in BOOLEAN : Resolved(c, j, releaseToWorker)
       \/ Cancelled(c, j)

JobsInit(Bounties, Scores) ==
  /\ jobs \in Seq(Job(Bounties, Scores))
  /\ \A j \in JobId : /\ jobs[j].status = "Open"
                      /\ jobs[j].worker = NoWorker /\ jobs[j].resultHash = NoResult

JobsSpec(Bounties, Scores) ==
  JobsInit(Bounties, Scores) /\ [][\E c \in Caller : JobCall(c, Bounties, Scores)]_jobs

\* What a step leaves of an agreement: the parties, the price and a delivered
\* result, and all of a settled job.
AgreementStands(j) ==
  /\ jobs'[j].requester = jobs[j].requester /\ jobs'[j].bounty = jobs[j].bounty
  /\ jobs[j].worker # NoWorker => jobs'[j].worker = jobs[j].worker
  /\ jobs[j].resultHash # NoResult => jobs'[j].resultHash = jobs[j].resultHash
  /\ jobs[j].status \in Settled => jobs'[j] = jobs[j]
=============================================================================

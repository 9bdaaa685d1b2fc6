------------------------------- MODULE MCWork ------------------------------
(***************************************************************************)
(* What follows a post, one stage of the run each: the claim, the accept   *)
(* and the dispatch of a job (ClaimDispatch), the sweep that takes it back *)
(* from a silent worker (StaleClaim), the record of its payout             *)
(* (CompletionCredit), and the delegation it may be a subtask of.  The     *)
(* stage is chosen at the start.                                           *)
(***************************************************************************)
EXTENDS ClaimDispatch, StaleClaim, CompletionCredit, Delegation

CONSTANTS agent1, agent2, tick1, tick2, tick3

VARIABLE stage

\* The third request serves the other agent.
ServedBy == [t \in Ticks |-> IF t = tick3 THEN agent2 ELSE agent1]

\* The first job may have been credited twice before there was a guard.
OldDuplicates == <<1>>

\* A root and one subtask that builds on it.
BuildsOnRoot == <<{}, {1}>>
NoReviews == <<0, 0>>

ASSUME Assumptions ==
  ClaimAssumption /\ ClaimsAssumption /\ CreditAssumption /\ DelegationAssumption

workVars == <<stage, claimVars, staleVars, recordVars, delegationVars>>

Stage == {"claim", "stale", "credit", "delegation"}

\* A stage that is not chosen stays in one initial state.
WorkInit ==
  /\ stage \in Stage
  /\ ClaimInit /\ StaleInit /\ RecordInit /\ DelegationInit
  /\ stage # "stale" => quiet = 0
  /\ stage # "credit" => events = <<>>

WorkNext ==
  \/ stage = "claim" /\ ClaimNext /\ UNCHANGED <<stage, staleVars, recordVars, delegationVars>>
  \/ stage = "stale" /\ StaleNext /\ UNCHANGED <<stage, claimVars, recordVars, delegationVars>>
  \/ stage = "credit" /\ RecordNext /\ UNCHANGED <<stage, claimVars, staleVars, delegationVars>>
  \/ stage = "delegation" /\ DelegationNext /\ UNCHANGED <<stage, claimVars, staleVars, recordVars>>

WorkSpec == WorkInit /\ [][WorkNext]_workVars

\* Every stage keeps its types: among others, a claim nobody holds has no age
\* (lib/labor-dispatch.ts: releaseJobClaim).
StagesTypeOK ==
  CASE stage = "claim" -> ClaimTypeOK
    [] stage = "stale" -> StaleTypeOK
    [] stage = "credit" -> RecordTypeOK
    [] stage = "delegation" -> DelegationTypeOK

\* A posted job ends up with a run, whatever dies on the way (lib/auto-mine.ts:
\* autoMineTick).
PostedJobIsDispatched == stage = "claim" /\ ClaimFairness => EventuallyDispatched

\* A job whose worker stays silent does not stay accepted (lib/stale-claim.ts:
\* reclaimAbandonedJobs).
SilentJobIsFreed == stage = "stale" /\ StaleFairness => EventuallyFreed

\* A worker that was paid gets the record of it (lib/credit-reconcile.ts).
PaidWorkIsRecorded == stage = "credit" /\ RecordFairness => EventuallyRecorded

\* A posted delegation is finished, whichever of its subtasks fail
\* (lib/delegation.ts: tickDelegation).
DelegationIsFinished == stage = "delegation" /\ DelegationFairness => DelegationCompletes
=============================================================================

----------------------------- MODULE StaleClaim -----------------------------
(***************************************************************************)
(* lib/stale-claim.ts on one accepted job: the notice to a silent worker,  *)
(* the grace, and the walk that gives the escrow back and marks the        *)
(* worker.  The walk interleaves with other sweeps and with the worker.    *)
(* Ages saturate where no comparison can tell them apart any more.         *)
(***************************************************************************)
EXTENDS Integers

CONSTANTS
  Cycle,       \* ops cycles that reach this sweep at the same time
  DEADLINE,    \* claimDeadlineMs
  WARN_AT,     \* CLAIM_WARN_AT of it
  GRACE,       \* CLAIM_WARN_GRACE of it
  NoAge,     \* neither claimedAt nor a task: nothing to measure from
  MaxNotices,  \* bound: notices recorded
  MaxDeaths    \* bound: sweeps that die

VARIABLES
  onChain,      \* the job on the chain
  quiet,       \* time since the worker's last sign of life
  notices,     \* age of each CLAIM_DEADLINE_WARNED row
  marked,      \* whether the abandonment is on the worker's record
  sweep,       \* what each sweep is doing
  deaths

staleVars == <<onChain, quiet, notices, marked, sweep, deaths>>

ClaimsAssumption ==
  /\ DEADLINE \in Nat /\ WARN_AT \in 0 .. DEADLINE
  /\ GRACE \in 1 .. DEADLINE
  /\ NoAge \notin Nat
  /\ MaxNotices \in Nat /\ MaxDeaths \in Nat

\* "Answer": the worker's own submission.  "Abandoned": the marker hash.
JobStatus == {"Accepted", "Answer", "Abandoned", "Disputed", "Refunded"}
Phase == {"working", "unknown", "warn", "expired"}
Resting == [at |-> "idle"]

StaleTypeOK ==
  /\ onChain \in JobStatus
  /\ quiet \in 0 .. DEADLINE + 1 \cup {NoAge}
  /\ notices \in [1 .. MaxNotices -> 0 .. GRACE \cup {NoAge}]
  /\ marked \in BOOLEAN
  /\ sweep \in [Cycle -> {Resting} \cup [at : {"look", "warn", "submit", "dispute", "resolve", "mark"}]
                        \cup [at : {"decide"}, phase : Phase]]
  /\ deaths \in 0 .. MaxDeaths

StaleInit ==
  /\ onChain = "Accepted"
  /\ quiet \in {0, NoAge}
  /\ notices = [i \in 1 .. MaxNotices |-> NoAge]
  /\ marked = FALSE
  /\ sweep = [s \in Cycle |-> Resting]
  /\ deaths = 0

SweepGoto(s, step) == sweep' = [sweep EXCEPT ![s] = [at |-> step]]
Warned == {notices[i] : i \in 1 .. MaxNotices} \ {NoAge}

-----------------------------------------------------------------------------
Older(age, cap) == IF age = NoAge \/ age = cap THEN age ELSE age + 1

TimePasses ==
  /\ onChain = "Accepted"
  /\ quiet' = Older(quiet, DEADLINE + 1)
  /\ notices' = [i \in 1 .. MaxNotices |-> Older(notices[i], GRACE)]
  /\ UNCHANGED <<onChain, marked, sweep, deaths>>

\* The worker's task reports progress, or the worker answers.
Progress ==
  /\ onChain = "Accepted"
  /\ quiet # 0
  /\ quiet' = 0
  /\ UNCHANGED <<onChain, notices, marked, sweep, deaths>>

Answer ==
  /\ onChain = "Accepted"
  /\ onChain' = "Answer"
  /\ UNCHANGED <<quiet, notices, marked, sweep, deaths>>

-----------------------------------------------------------------------------
ClaimPhase ==
  CASE quiet = NoAge -> "unknown"
    [] quiet # NoAge /\ quiet > DEADLINE -> "expired"
    [] quiet # NoAge /\ quiet > WARN_AT /\ quiet <= DEADLINE -> "warn"
    [] OTHER -> "working"

\* Mutant of ReclaimDecision: the notice only concerns a claim not yet expired.
ReclaimDecision_Unwarned(phase, warned) ==
  CASE phase \in {"working", "unknown"} -> "idle"
    [] phase = "warn" /\ warned = NoAge -> "warn"
    [] phase = "expired" /\ warned \in {NoAge, GRACE} -> "submit"
    [] OTHER -> "idle"

\* Mutant of ReclaimDecision: a claim found expired is neither warned nor reclaimed.
ReclaimDecision_TooLate(phase, warned) ==
  CASE phase = "warn" /\ warned = NoAge -> "warn"
    [] phase = "expired" /\ warned = GRACE -> "submit"
    [] OTHER -> "idle"

\* reclaimDecision: the step the sweep takes next.
ReclaimDecision(phase, warned) ==
  CASE phase \in {"working", "unknown"} -> "idle"
    [] phase \in {"warn", "expired"} /\ warned = NoAge -> "warn"
    [] phase = "expired" /\ warned = GRACE -> "submit"
    [] OTHER -> "idle"

\* reclaimAbandonedJobs: only jobs that are Accepted on the chain are looked at.
SweepStarts(s) ==
  /\ sweep[s] = Resting
  /\ onChain = "Accepted"
  /\ SweepGoto(s, "look")
  /\ UNCHANGED <<onChain, quiet, notices, marked, deaths>>

Look(s) ==
  /\ sweep[s].at = "look"
  /\ sweep' = [sweep EXCEPT ![s] = IF ClaimPhase \in {"working", "unknown"} THEN Resting
                                   ELSE [at |-> "decide", phase |-> ClaimPhase]]
  /\ UNCHANGED <<onChain, quiet, notices, marked, deaths>>

\* Any one of the job's notices is read: the query has no order.
Decide(s) ==
  /\ sweep[s].at = "decide"
  /\ \E warned \in IF Warned = {} THEN {NoAge} ELSE Warned :
       SweepGoto(s, ReclaimDecision(sweep[s].phase, warned))
  /\ UNCHANGED <<onChain, quiet, notices, marked, deaths>>

\* The row is written before anything is sent.
Warn(s) ==
  /\ sweep[s].at = "warn"
  /\ \E i \in 1 .. MaxNotices :
       /\ notices[i] = NoAge
       /\ \A k \in 1 .. i - 1 : notices[k] # NoAge
       /\ notices' = [notices EXCEPT ![i] = 0]
  /\ SweepGoto(s, "idle")
  /\ UNCHANGED <<onChain, quiet, marked, deaths>>

\* A transition of the chain, or it reverts and the job is given up for this pass.
Transition(s, step, from, to, next) ==
  /\ sweep[s].at = step
  /\ IF onChain \in from THEN onChain' = to /\ SweepGoto(s, next)
     ELSE SweepGoto(s, "idle") /\ UNCHANGED onChain
  /\ UNCHANGED <<quiet, notices, marked, deaths>>

InReview == {"Answer", "Abandoned"}

\* submitWork, raiseDispute, resolveDispute: the contract knows a submission by its
\* status only.
Submit(s) == Transition(s, "submit", {"Accepted"}, "Abandoned", "dispute")
Dispute(s) == Transition(s, "dispute", InReview, "Disputed", "resolve")
Resolve(s) == Transition(s, "resolve", {"Disputed"}, "Refunded", "mark")

Mark(s) ==
  /\ sweep[s].at = "mark"
  /\ marked' = TRUE
  /\ SweepGoto(s, "idle")
  /\ UNCHANGED <<onChain, quiet, notices, deaths>>

SweepDies(s) ==
  /\ sweep[s] # Resting
  /\ deaths < MaxDeaths
  /\ deaths' = deaths + 1
  /\ SweepGoto(s, "idle")
  /\ UNCHANGED <<onChain, quiet, notices, marked>>

SweepProceeds(s) ==
  Look(s) \/ Decide(s) \/ Warn(s) \/ Submit(s) \/ Dispute(s) \/ Resolve(s) \/ Mark(s)

StaleNext ==
  \/ TimePasses \/ Progress \/ Answer
  \/ \E s \in Cycle : SweepStarts(s) \/ SweepProceeds(s) \/ SweepDies(s)

StaleSpec == StaleInit /\ [][StaleNext]_staleVars

\* The ops cycle comes round, and a sweep that started runs on.
StaleFairness ==
  /\ WF_staleVars(TimePasses)
  /\ \A s \in Cycle : WF_staleVars(SweepStarts(s)) /\ WF_staleVars(SweepProceeds(s))

FairStaleSpec == StaleSpec /\ StaleFairness

-----------------------------------------------------------------------------
\* Nobody is marked without notice: the whole grace has passed since one was
\* recorded (reclaimDecision, reclaimAbandonedJobs).
NoticeBeforeMark == marked => GRACE \in Warned

\* A job the worker did answer is never walked to a refund, however late the answer
\* comes between the steps of a sweep (reclaimAbandonedJobs).
AnswerStands == [][onChain = "Answer" => onChain' = "Answer"]_staleVars

\* Escrow under a worker that stays silent is freed, and a missed notice does not
\* freeze it (reclaimDecision).
EventuallyFreed ==
  quiet # NoAge => []<>(quiet = 0) \/ <>(onChain # "Accepted")
=============================================================================

-------------------------- MODULE CompletionCredit --------------------------
(***************************************************************************)
(* From a payout to the worker's record: creditWorkerForJob and the        *)
(* dispute resolution of app/actions/labor.ts, the sweep that finds paid   *)
(* jobs nobody recorded (lib/credit-reconcile.ts), the unique index that   *)
(* decides a race of two writers (lib/db/completion-index.ts) and the      *)
(* retraction of the duplicates that keep it from being built              *)
(* (lib/db/completion-dedupe.ts).  A call is the sequence of its database  *)
(* statements; calls interleave between them and may die there.            *)
(***************************************************************************)
EXTENDS Integers, Sequences, FiniteSetsExt

CONSTANTS
  MaxPayouts,   \* bound: jobs, numbered as on the chain
  Crediter,     \* requests and sweeps that credit at the same time
  Cleaner,      \* operators that retract duplicates at the same time
  Unknown,      \* jobs whose worker is no agent of the platform any more
  Legacy,       \* jobs that may have been credited twice before the guards existed, in order
  MAX_PER_PASS, \* credits of one reconciliation
  MaxEvents,    \* bound: completion events ever written
  MaxCrashes    \* bound: calls that die

VARIABLES
  chain,        \* status of each job on the chain
  events,       \* JOB_COMPLETED rows of agent_events, in the order of createdAt
  index,        \* whether agent_events_job_completed_once exists
  rewards,      \* how often score, feed, mail and $LEDGER followed a credit
  caller, cleaner,
  crashes

recordVars == <<chain, events, index, rewards, caller, cleaner, crashes>>

CreditJob == 1 .. MaxPayouts
CreditStatus == {"Submitted", "Disputed", "Sent", "Completed", "Refunded"}
AtRest == [at |-> "idle"]

CreditAssumption ==
  /\ MaxPayouts \in Nat /\ MaxCrashes \in Nat
  /\ Legacy \in Seq(CreditJob)

\* live: the event type is still JOB_COMPLETED.  old: from before the guards.
Event == [job : CreditJob, live : BOOLEAN, old : BOOLEAN]

RecordTypeOK ==
  /\ chain \in [CreditJob -> CreditStatus]
  /\ events \in Seq(Event)
  /\ index \in BOOLEAN
  /\ rewards \in [CreditJob -> Nat]
  /\ crashes \in 0 .. MaxCrashes

\* The first n of them, twice each.
LegacyEvents(n) ==
  [i \in 1 .. 2 * n |-> [job |-> Legacy[(i + 1) \div 2], live |-> TRUE, old |-> TRUE]]

RecordInit ==
  /\ \E n \in 0 .. Len(Legacy) :
       /\ events = LegacyEvents(n)
       /\ chain = [j \in CreditJob |-> IF \E i \in 1 .. n : Legacy[i] = j THEN "Completed" ELSE "Submitted"]
  /\ index = FALSE
  /\ rewards = [j \in CreditJob |-> 0]
  /\ caller = [c \in Crediter |-> AtRest]
  /\ cleaner = [d \in Cleaner |-> {}]
  /\ crashes = 0

Live(j) == {i \in DOMAIN events : events[i].job = j /\ events[i].live}

-----------------------------------------------------------------------------
\* The job on the chain: approved, or disputed and decided.  The resolution is a
\* transaction that is sent and not waited for; it is mined, or it is dropped.
Approve(j) ==
  /\ chain[j] = "Submitted"
  /\ chain' = [chain EXCEPT ![j] = "Completed"]
  /\ UNCHANGED <<events, index, rewards, caller, cleaner, crashes>>

RaiseDispute(j) ==
  /\ chain[j] = "Submitted"
  /\ chain' = [chain EXCEPT ![j] = "Disputed"]
  /\ UNCHANGED <<events, index, rewards, caller, cleaner, crashes>>

ResolutionMined(j) ==
  /\ chain[j] = "Sent"
  /\ chain' \in {[chain EXCEPT ![j] = "Completed"], [chain EXCEPT ![j] = "Disputed"]}
  /\ UNCHANGED <<events, index, rewards, caller, cleaner, crashes>>

RefundRequester(j) ==
  /\ chain[j] = "Disputed"
  /\ chain' = [chain EXCEPT ![j] = "Refunded"]
  /\ UNCHANGED <<events, index, rewards, caller, cleaner, crashes>>

-----------------------------------------------------------------------------
\* A call credits one job, then the rest of its pass.
Crediting(j, rest, fixed) == [at |-> "lookup", job |-> j, rest |-> rest, fixed |-> fixed]

\* creditWorkerForJob returned: what it did is not said, so the pass counts one.
Returned(c) ==
  LET rest == caller[c].rest
      fixed == caller[c].fixed + 1
  IN  IF rest = {} \/ fixed >= MAX_PER_PASS THEN [caller EXCEPT ![c] = AtRest]
      ELSE [caller EXCEPT ![c] = Crediting(Max(rest), rest \ {Max(rest)}, fixed)]

\* An approval, a settlement or a delegation's tick that saw the job paid.
CreditPaid(c, j) ==
  /\ caller[c] = AtRest
  /\ chain[j] = "Completed"
  /\ caller' = [caller EXCEPT ![c] = Crediting(j, {}, 0)]
  /\ UNCHANGED <<chain, events, index, rewards, cleaner, crashes>>

\* resolveDisputeAction credits once the transaction is sent.
ResolveForWorker(c, j) ==
  /\ caller[c] = AtRest
  /\ chain[j] = "Disputed"
  /\ chain' = [chain EXCEPT ![j] = "Sent"]
  /\ caller' = [caller EXCEPT ![c] = Crediting(j, {}, 0)]
  /\ UNCHANGED <<events, index, rewards, cleaner, crashes>>

\* Mutant of Uncredited: only the latest jobs of the board are read.
Uncredited_Recent ==
  {j \in CreditJob : chain[j] = "Completed" /\ Live(j) = {} /\ j > MaxPayouts - MAX_PER_PASS}

\* reconcileUncreditedPayouts: the completed jobs without an event, newest first, as
\* readJobs returns them.
Uncredited == {j \in CreditJob : chain[j] = "Completed" /\ Live(j) = {}}

Reconcile(c) ==
  /\ caller[c] = AtRest
  /\ Uncredited # {}
  /\ LET newest == Max(Uncredited)
     IN  caller' = [caller EXCEPT ![c] = Crediting(newest, Uncredited \ {newest}, 0)]
  /\ UNCHANGED <<chain, events, index, rewards, cleaner, crashes>>

\* A worker that is not found is logged, and that is all.
LookUp(c) ==
  /\ caller[c].at = "lookup"
  /\ caller' = IF caller[c].job \in Unknown THEN Returned(c)
               ELSE [caller EXCEPT ![c].at = "index"]
  /\ UNCHANGED <<chain, events, index, rewards, cleaner, crashes>>

\* ensureCompletionUniqueIndex: it can be built while no job has two live events.
EnsureIndex(c) ==
  LET indexed == index \/ \A j \in CreditJob : Cardinality(Live(j)) <= 1
  IN  /\ caller[c].at = "index"
      /\ index' = indexed
      /\ caller' = [caller EXCEPT ![c] = [at |-> "select", job |-> @.job, rest |-> @.rest,
                                          fixed |-> @.fixed, indexed |-> indexed]]
      /\ UNCHANGED <<chain, events, rewards, cleaner, crashes>>

SelectEvent(c) ==
  /\ caller[c].at = "select"
  /\ caller' = IF Live(caller[c].job) # {} THEN Returned(c)
               ELSE [caller EXCEPT ![c].at = "insert"]
  /\ UNCHANGED <<chain, events, index, rewards, cleaner, crashes>>

\* Mutant of StandsDown: a caller whose insert did nothing goes on.
StandsDown_Never(indexed, written) == FALSE

\* The caller that lost the race leaves the rest to the other one.
StandsDown(indexed, written) == indexed /\ ~written

\* The insert, ON CONFLICT DO NOTHING.
InsertEvent(c) ==
  LET j == caller[c].job
      written == ~(index /\ Live(j) # {})
  IN  /\ caller[c].at = "insert"
      /\ written => Len(events) < MaxEvents
      /\ events' = IF written THEN Append(events, [job |-> j, live |-> TRUE, old |-> FALSE]) ELSE events
      /\ caller' = IF StandsDown(caller[c].indexed, written) THEN Returned(c)
                   ELSE [caller EXCEPT ![c].at = "reward"]
      /\ UNCHANGED <<chain, index, rewards, cleaner, crashes>>

Reward(c) ==
  /\ caller[c].at = "reward"
  /\ rewards' = [rewards EXCEPT ![caller[c].job] = @ + 1]
  /\ caller' = Returned(c)
  /\ UNCHANGED <<chain, events, index, cleaner, crashes>>

CallDies(c) ==
  /\ caller[c] # AtRest
  /\ crashes < MaxCrashes
  /\ crashes' = crashes + 1
  /\ caller' = [caller EXCEPT ![c] = AtRest]
  /\ UNCHANGED <<chain, events, index, rewards, cleaner>>

-----------------------------------------------------------------------------
Duplicated == {j \in CreditJob : Cardinality(Live(j)) > 1}

\* Mutant of PlanDedupe: any one row of a duplicated job is kept.
PlanDedupe_KeepAny(d) ==
  /\ cleaner[d] = {} /\ Duplicated # {}
  /\ \E keep \in UNION {Live(j) : j \in Duplicated} :
       cleaner' = [cleaner EXCEPT ![d] = UNION {Live(j) : j \in Duplicated} \ {keep}]
  /\ UNCHANGED <<chain, events, index, rewards, caller, crashes>>

\* retractDuplicateCompletions reads the duplicates and plans: the earliest row of
\* a job survives.
PlanDedupe(d) ==
  /\ cleaner[d] = {} /\ Duplicated # {}
  /\ cleaner' = [cleaner EXCEPT ![d] = UNION {Live(j) \ {Min(Live(j))} : j \in Duplicated}]
  /\ UNCHANGED <<chain, events, index, rewards, caller, crashes>>

\* One update retracts the planned rows.
RetractDuplicates(d) ==
  /\ cleaner[d] # {}
  /\ events' = [i \in DOMAIN events |-> IF i \in cleaner[d] THEN [events[i] EXCEPT !.live = FALSE]
                                        ELSE events[i]]
  /\ cleaner' = [cleaner EXCEPT ![d] = {}]
  /\ UNCHANGED <<chain, index, rewards, caller, crashes>>

GoOn(c) == LookUp(c) \/ EnsureIndex(c) \/ SelectEvent(c) \/ InsertEvent(c) \/ Reward(c)

RecordNext ==
  \/ \E j \in CreditJob :
       \/ Approve(j)
       \/ RaiseDispute(j)
       \/ ResolutionMined(j)
       \/ RefundRequester(j)
       \/ \E c \in Crediter : CreditPaid(c, j) \/ ResolveForWorker(c, j)
  \/ \E c \in Crediter : Reconcile(c) \/ GoOn(c) \/ CallDies(c)
  \/ \E d \in Cleaner : PlanDedupe(d) \/ RetractDuplicates(d)

RecordSpec == RecordInit /\ [][RecordNext]_recordVars

\* The ops cycle starts a reconciliation with every beat, and only so many die.
RecordFairness == \A c \in Crediter : SF_recordVars(Reconcile(c)) /\ WF_recordVars(GoOn(c))

FairRecordSpec == RecordSpec /\ RecordFairness

-----------------------------------------------------------------------------
\* Work done once is rewarded once: where the index could be built from the start,
\* however many callers see one payout, one of them moves the score and pays the
\* $LEDGER.
RewardOnce ==
  (\A i \in DOMAIN events : ~events[i].old) => \A j \in CreditJob : rewards[j] <= 1

\* No cleaning takes a record away: a job that was ever credited keeps a live event,
\* whatever operators and writers overlap.
OneSurvives == \A i \in DOMAIN events : Live(events[i].job) # {}

\* Both: a payout is recorded and rewarded once, and the record stays.
RecordedOnce == RewardOnce /\ OneSurvives

\* A worker that was paid gets the record of it, whichever call was lost.
EventuallyRecorded ==
  \A j \in CreditJob \ Unknown : chain[j] = "Completed" ~> Live(j) # {}
=============================================================================

----------------------------- MODULE Settlement -----------------------------
(***************************************************************************)
(* The off-chain settlement of Labor Market jobs: the submission callback  *)
(* (app/api/runtime/callback), the recovery sweeps of lib/labor-settle.ts, *)
(* lib/stale-claim.ts and lib/exhausted-refund.ts, and the chain they act  *)
(* on through lib/onchain.                                                 *)
(*                                                                         *)
(* A handler is one serverless invocation running one of these routines on *)
(* one job.  Handlers run concurrently: the sweeps take no lease, or one   *)
(* (20 s) that a single confirmation wait (90 s) outlives.  A handler may  *)
(* die at any await.  Every bounty is the same; the money is LaborMarket's.*)
(*                                                                         *)
(* The requester's and the admin's own clicks are not modelled here.       *)
(***************************************************************************)
EXTENDS LaborJobs, FiniteSets

CONSTANTS
  Handler,           \* concurrent invocations
  Worker,            \* agents that work
  Requester,         \* the agent whose jobs these are
  Delivered,         \* the hash of real work
  Abandoned,         \* the hash recorded for a reclaimed job
  MAX_AUTO_REPOSTS,
  PostMayTimeOut,    \* whether a postJob receipt may be slower than the wait
  OutcomeKnown,      \* whether a call that returns as done has been mined and
                     \* has not reverted; the code does not make sure of it
  Tries,             \* attempts of retry() (3 in the code)
  MaxSpecs,          \* bound: job_specs rows
  MaxJobs,           \* bound: jobs on chain
  MaxInFlight        \* bound: operations in flight

ASSUME SettlementAssumption ==
  /\ Worker \subseteq Caller \ {Requester, Arbiter}
  /\ {Requester, Arbiter} \subseteq Caller
  /\ NoWorker \notin Caller
  /\ Result = {Delivered, Abandoned} /\ Delivered # Abandoned /\ NoResult \notin Result
  /\ SpecHash = 1 .. MaxSpecs
  /\ {PostMayTimeOut, OutcomeKnown} \subseteq BOOLEAN
  /\ {Tries, MaxSpecs, MaxJobs} \subseteq Nat \ {0} /\ MAX_AUTO_REPOSTS \in Nat

VARIABLES
  specs,      \* job_specs rows in the order of their insertion
  inFlight,   \* operations a bundler or the pool took and nobody awaits
  handlers    \* Handler -> where its routine is

vars == <<jobs, specs, inFlight, handlers>>

SpecId == 1 .. Len(specs)
Verdict == {"passed", "failed"}

\* `onchainJobId` is the job the linked task works on; everywhere else the code
\* derives it by matching the spec hash, and so does the model.  `task` is the
\* linked run, the one of workerAgentId.  `verdict` is the testResult the row holds
\* now; `feed` keeps the verdicts ever given and the worker whose output each
\* was about (the append-only JOB_TESTS_* events).
Spec_ ==
  [onchainJobId : 0 .. MaxJobs, workerAgentId : Worker \cup {NoWorker},
   task : {"none", "running", "processing", "completed", "failed"},
   verdict : Verdict \cup {"none"}, feed : SUBSET (Verdict \X Worker),
   repostCount : 0 .. MAX_AUTO_REPOSTS, failedWorkerIds : SUBSET Worker,
   parent : 0 .. MaxSpecs]

FreshSpec == [onchainJobId |-> 0, workerAgentId |-> NoWorker, task |-> "none",
              verdict |-> "none", feed |-> {}, repostCount |-> 0,
              failedWorkerIds |-> {}, parent |-> 0]

\* A routine works on its own copy of the row: the job and the worker it read.
Routine ==
  [pc : {"idle", "submit", "grade", "approve", "dispute", "resolve", "repost",
         "post", "abandon", "record"},
   spec : 0 .. MaxSpecs, job : 0 .. MaxJobs, worker : Worker \cup {NoWorker},
   callback : BOOLEAN, repost : BOOLEAN, child : 0 .. MaxSpecs, tries : 0 .. Tries - 1]

Idle == [pc |-> "idle", spec |-> 0, job |-> 0, worker |-> NoWorker,
         callback |-> FALSE, repost |-> FALSE, child |-> 0, tries |-> 0]

Operation ==
  [op : {"accept", "submit", "approve", "dispute", "resolve"}, job : 1 .. MaxJobs,
   by : Caller, result : Result \cup {NoResult}]
    \cup [op : {"post"}, spec : 1 .. MaxSpecs, try : 0 .. Tries - 1]

TypeOK ==
  /\ jobs \in Seq(Job({1}, {0}))
  /\ specs \in Seq(Spec_)
  /\ inFlight \subseteq Operation
  /\ handlers \in [Handler -> Routine]

\* One job has been posted (app/actions/labor.ts) with its row.
Init ==
  /\ jobs = <<[requester |-> Requester, worker |-> NoWorker, bounty |-> 1,
               minScore |-> 0, status |-> "Open", specHash |-> 1,
               resultHash |-> NoResult]>>
  /\ specs = <<[FreshSpec EXCEPT !.onchainJobId = 1]>>
  /\ inFlight = {}
  /\ handlers = [h \in Handler |-> Idle]

-----------------------------------------------------------------------------
(***************************************************************************)
(* The chain's side of a call.                                             *)
(***************************************************************************)
Op(op, j, by) == [op |-> op, job |-> j, by |-> by, result |-> NoResult]
Submission(j, by, result) == [Op("submit", j, by) EXCEPT !.result = result]
Resolution(j) == Op("resolve", j, Arbiter)

Executes(o) ==
  \/ o.op = "accept" /\ Accepted(o.by, o.job)
  \/ o.op = "submit" /\ Submitted(o.by, o.job, o.result)
  \/ o.op = "approve" /\ Approved(o.by, o.job)
  \/ o.op = "dispute" /\ Disputed(o.by, o.job)
  \/ o.op = "resolve" /\ Resolved(o.by, o.job, FALSE)
  \/ o.op = "post" /\ jobCount < MaxJobs /\ Posted(Requester, 1, 0, o.spec)

\* What the bundler's simulation, or a gas estimate, lets through.
Feasible(o) ==
  \/ o.op = "accept" /\ CanAccept(o.by, o.job)
  \/ o.op = "submit" /\ CanSubmit(o.by, o.job)
  \/ o.op = "approve" /\ CanApprove(o.by, o.job)
  \/ o.op = "dispute" /\ CanDispute(o.by, o.job)
  \/ o.op = "resolve" /\ CanResolve(o.by, o.job)
  \/ o.op = "post"

\* Where a routine goes when it returns: the callback still records the task.
Ended(h) ==
  IF handlers[h].callback
  THEN [Idle EXCEPT !.pc = "record", !.spec = handlers[h].spec,
                    !.worker = handlers[h].worker, !.callback = TRUE]
  ELSE Idle

Goto(h, pc) == handlers' = [handlers EXCEPT ![h].pc = pc]
End(h) == handlers' = [handlers EXCEPT ![h] = Ended(h)]

\* sendAgentCall: the operation is confirmed; or it is refused; or it is accepted
\* and unconfirmed after both waits (UserOpPendingError), and left in flight.  A
\* routine goes on from the first and its catch ends the others.  An operation
\* overtaken between its simulation and its block reverts there: the code, which
\* does not look at the receipt's status, takes it for confirmed.
Overtaken(o) == ~OutcomeKnown /\ ~Feasible(o) /\ UNCHANGED jobs
Confirmed(o) == (Executes(o) \/ Overtaken(o)) /\ UNCHANGED inFlight
Refused == UNCHANGED <<jobs, inFlight>>
Pending(o) ==
  /\ Feasible(o)
  /\ Cardinality(inFlight \cup {o}) <= MaxInFlight
  /\ inFlight' = inFlight \cup {o}
  /\ UNCHANGED jobs

Call(h, o, next) ==
  \/ Confirmed(o) /\ Goto(h, next)
  \/ (Refused \/ Pending(o)) /\ End(h)

\* Long after anybody waited for it, an operation is mined, or reverts or is
\* dropped.
Mine(o) ==
  /\ o \in inFlight
  /\ Executes(o)
  /\ inFlight' = inFlight \ {o}
  /\ UNCHANGED <<specs, handlers>>

Discard(o) ==
  /\ o \in inFlight
  /\ inFlight' = inFlight \ {o}
  /\ UNCHANGED <<jobs, specs, handlers>>

-----------------------------------------------------------------------------
(***************************************************************************)
(* Workers: acceptAndDispatchJob, and auto-mine's self-heal, which         *)
(* dispatches again when the dispatch failed after the accept.             *)
(***************************************************************************)
\* The run exists before the row is linked to it, and may have ended by then:
\* its callback found no row and settled nothing.
Dispatched(s, j, w) ==
  {[specs EXCEPT ![s].workerAgentId = w, ![s].onchainJobId = j, ![s].task = t] :
     t \in {"running", "completed"}}

\* An accept that is never confirmed is dispatched like one that is; a later
\* dispatch takes the row over.  The claim on the row is no guard: it is held
\* for 90 seconds.  Bound: a worker is dispatched once per row.
AcceptAndDispatch(w, j) ==
  /\ LET s == jobs[j].specHash
         o == Op("accept", j, w)
     IN  /\ w \notin specs[s].failedWorkerIds
         /\ specs[s].workerAgentId # w
         /\ Confirmed(o) \/ (~OutcomeKnown /\ Pending(o))
         /\ specs' \in {specs} \cup Dispatched(s, j, w)
  /\ UNCHANGED handlers

Redispatch(j) ==
  /\ LET s == jobs[j].specHash
     IN  /\ jobs[j].status = "Accepted"
         /\ specs[s].task = "none"
         /\ specs' \in Dispatched(s, j, jobs[j].worker)
  /\ UNCHANGED <<jobs, inFlight, handlers>>

-----------------------------------------------------------------------------
(***************************************************************************)
(* Where routines start.                                                   *)
(***************************************************************************)
Start(h, pc, s, j, callback, repost) ==
  handlers' = [handlers EXCEPT ![h] =
    [pc |-> pc, spec |-> s, job |-> j, worker |-> specs[s].workerAgentId,
     callback |-> callback, repost |-> repost, child |-> 0, tries |-> 0]]

\* POST /api/runtime/callback claims the running task (running -> processing),
\* so it is processed once.
Callback(h, s) ==
  /\ handlers[h].pc = "idle"
  /\ specs[s].task = "running"
  /\ specs' = [specs EXCEPT ![s].task = "processing"]
  /\ Start(h, "submit", s, specs[s].onchainJobId, TRUE, TRUE)
  /\ UNCHANGED <<jobs, inFlight>>

\* What a verdict leads to: release, or dispute and repost below the cap.
Drive(s, verdict) ==
  CASE verdict = "passed" -> "approve"
    [] verdict = "failed" /\ specs[s].repostCount < MAX_AUTO_REPOSTS -> "dispute"
    [] OTHER -> "record"

\* Mutant of SweepStuckGraded: a job that has its verdict is left to its callback.
SweepStuckGraded_OnlyUngraded(h, j) ==
  /\ handlers[h].pc = "idle"
  /\ jobs[j].status = "Submitted"
  /\ LET s == jobs[j].specHash
     IN  /\ specs[s].verdict = "none"
         /\ specs[s].task = "completed"
         /\ Start(h, "grade", s, j, FALSE, TRUE)
  /\ UNCHANGED <<jobs, specs, inFlight>>

\* sweepStuckGradedJobs: re-drive a Submitted job's verdict, or grade again
\* when there is none and the output is recorded.
SweepStuckGraded(h, j) ==
  /\ handlers[h].pc = "idle"
  /\ jobs[j].status = "Submitted"
  /\ LET s == jobs[j].specHash
     IN  \/ /\ specs[s].verdict # "none"
            /\ Drive(s, specs[s].verdict) # "record"
            /\ Start(h, Drive(s, specs[s].verdict), s, j, FALSE, TRUE)
         \/ /\ specs[s].verdict = "none"
            /\ specs[s].task = "completed"
            /\ Start(h, "grade", s, j, FALSE, TRUE)
  /\ UNCHANGED <<jobs, specs, inFlight>>

\* Mutant of SweepDisputed: counts the repost it is about to make.
SweepDisputed_OneShort(h, j) ==
  /\ handlers[h].pc = "idle"
  /\ jobs[j].status = "Disputed"
  /\ LET s == jobs[j].specHash
     IN  /\ specs[s].repostCount + 1 < MAX_AUTO_REPOSTS
         /\ Start(h, "resolve", s, j, FALSE, TRUE)
  /\ UNCHANGED <<jobs, specs, inFlight>>

\* sweepDisputedJobs and returnDisputedJobToMarket.
SweepDisputed(h, j) ==
  /\ handlers[h].pc = "idle"
  /\ jobs[j].status = "Disputed"
  /\ LET s == jobs[j].specHash
     IN  /\ specs[s].repostCount < MAX_AUTO_REPOSTS
         /\ Start(h, "resolve", s, j, FALSE, TRUE)
  /\ UNCHANGED <<jobs, specs, inFlight>>

\* reclaimAbandonedJobs.  Time is abstracted: any accepted job may be past its
\* deadline and warned about.
ReclaimAbandoned(h, j) ==
  /\ handlers[h].pc = "idle"
  /\ jobs[j].status = "Accepted"
  /\ Start(h, "abandon", jobs[j].specHash, j, FALSE, FALSE)
  /\ UNCHANGED <<jobs, specs, inFlight>>

\* Mutant of RefundExhausted: takes "not passed" for "failed".
RefundExhausted_NotPassed(h, j) ==
  /\ handlers[h].pc = "idle"
  /\ jobs[j].status = "Submitted"
  /\ LET s == jobs[j].specHash
     IN  /\ specs[s].repostCount >= MAX_AUTO_REPOSTS
         /\ specs[s].verdict # "passed"
         /\ Start(h, "dispute", s, j, FALSE, FALSE)
  /\ UNCHANGED <<jobs, specs, inFlight>>

\* refundExhaustedJobs, once the review window has passed.
RefundExhausted(h, j) ==
  /\ handlers[h].pc = "idle"
  /\ jobs[j].status = "Submitted"
  /\ LET s == jobs[j].specHash
     IN  /\ specs[s].repostCount >= MAX_AUTO_REPOSTS
         /\ specs[s].verdict = "failed"
         /\ Start(h, "dispute", s, j, FALSE, FALSE)
  /\ UNCHANGED <<jobs, specs, inFlight>>

-----------------------------------------------------------------------------
(***************************************************************************)
(* The steps of a routine, one per await that changes something.           *)
(***************************************************************************)
At(h, pc) == handlers[h].pc = pc

\* settleLaborMarketJob submits the work and grades it whatever came of that.
SubmitDelivered(h) ==
  /\ At(h, "submit")
  /\ LET o == Submission(handlers[h].job, handlers[h].worker, Delivered)
     IN  Confirmed(o) \/ Refused \/ Pending(o)
  /\ Goto(h, "grade")
  /\ UNCHANGED specs

\* A grader, an LLM or a test run, gives a verdict or is unavailable.  The
\* settling routine then reads the job's status and goes on only if Submitted.
Grade(h) ==
  /\ At(h, "grade")
  /\ LET s == handlers[h].spec
     IN  \/ \E verdict \in Verdict :
              /\ specs' = [specs EXCEPT ![s].verdict = verdict,
                                      ![s].feed = @ \cup {<<verdict, handlers[h].worker>>}]
              /\ IF Drive(s, verdict) = "record" THEN End(h) ELSE Goto(h, Drive(s, verdict))
         \/ specs' = [specs EXCEPT ![s].verdict = "none"] /\ End(h)
  /\ UNCHANGED <<jobs, inFlight>>

\* autoApprovePassedJob.
Approve(h) ==
  /\ At(h, "approve")
  /\ LET o == Op("approve", handlers[h].job, Requester)
     IN  Confirmed(o) \/ Refused \/ Pending(o)
  /\ End(h)
  /\ UNCHANGED specs

\* The first step of reclaiming: the sweep submits in the name of the worker the
\* chain names.
SubmitAbandoned(h) ==
  /\ At(h, "abandon")
  /\ LET j == handlers[h].job
     IN  Call(h, Submission(j, jobs[j].worker, Abandoned), "dispute")
  /\ UNCHANGED specs

\* Mutant of RaiseDispute: a dispute that fails is passed over and the work goes
\* back to the market.
RaiseDispute_BestEffort(h) ==
  /\ At(h, "dispute")
  /\ LET o == Op("dispute", handlers[h].job, Requester)
     IN  \/ Confirmed(o) /\ Goto(h, "resolve")
         \/ /\ Refused \/ Pending(o)
            /\ IF handlers[h].repost THEN Goto(h, "repost") ELSE End(h)
  /\ UNCHANGED specs

RaiseDispute(h) ==
  /\ At(h, "dispute")
  /\ Call(h, Op("dispute", handlers[h].job, Requester), "resolve")
  /\ UNCHANGED specs

\* resolveDispute returns the hash of a transaction that passed its gas
\* estimate: it is sent, not mined, when the routine takes it for done.
ResolveDispute(h) ==
  /\ At(h, "resolve")
  /\ \/ /\ Pending(Resolution(handlers[h].job))
        /\ IF handlers[h].repost THEN Goto(h, "repost") ELSE End(h)
     \/ Refused /\ End(h)
  /\ UNCHANGED specs

\* Mutants of InsertReplacement: the job's worker is blocked even when the row
\* names none; or only the last worker of the lineage is.
Replace_(h, blocked) ==
  /\ At(h, "repost")
  /\ LET old == handlers[h].spec
     IN  \/ /\ Len(specs) < MaxSpecs
            /\ specs' = Append(specs, [FreshSpec EXCEPT
                 !.repostCount = specs[old].repostCount + 1,
                 !.failedWorkerIds = blocked, !.parent = old])
            /\ handlers' = [handlers EXCEPT ![h].pc = "post", ![h].child = Len(specs) + 1]
         \/ End(h) /\ UNCHANGED specs
  /\ UNCHANGED <<jobs, inFlight>>
InsertReplacement_BlocksNobody(h) ==
  Replace_(h, specs[handlers[h].spec].failedWorkerIds \cup {handlers[h].worker})
InsertReplacement_ForgetsLineage(h) == Replace_(h, {handlers[h].worker} \ {NoWorker})

\* The replacement's row, which carries the lineage and its blocked workers.
InsertReplacement(h) ==
  /\ At(h, "repost")
  /\ LET old == handlers[h].spec
     IN  \/ /\ Len(specs) < MaxSpecs
            /\ specs' = Append(specs, [FreshSpec EXCEPT
                 !.repostCount = specs[old].repostCount + 1,
                 !.failedWorkerIds =
                    specs[old].failedWorkerIds \cup ({handlers[h].worker} \ {NoWorker}),
                 !.parent = old])
            /\ handlers' = [handlers EXCEPT ![h].pc = "post", ![h].child = Len(specs) + 1]
         \/ End(h) /\ UNCHANGED specs
  /\ UNCHANGED <<jobs, inFlight>>

\* retry(() => postJob(...)): a receipt that is late is an error like any
\* other, and the post is sent again while the first may still land.
PostReplacement(h) ==
  /\ At(h, "post")
  /\ LET o == [op |-> "post", spec |-> handlers[h].child, try |-> handlers[h].tries]
     IN  \/ Confirmed(o) /\ End(h)
         \/ Refused /\ End(h)
         \/ /\ PostMayTimeOut
            /\ Pending(o)
            /\ IF handlers[h].tries < Tries - 1
               THEN handlers' = [handlers EXCEPT ![h].tries = @ + 1]
               ELSE End(h)
  /\ UNCHANGED specs

\* The callback's last write, whatever became of its task meanwhile: completed
\* with its output stored, or failed when the bookkeeping after the settlement
\* throws.  The row sees it while it is linked to that run.
RecordTask(h) ==
  /\ At(h, "record")
  /\ LET s == handlers[h].spec
     IN  specs' \in IF specs[s].workerAgentId = handlers[h].worker
                   THEN {[specs EXCEPT ![s].task = end] : end \in {"completed", "failed"}}
                   ELSE {specs}
  /\ handlers' = [handlers EXCEPT ![h] = Idle]
  /\ UNCHANGED <<jobs, inFlight>>

\* reapStuckTasks: no callback for ten (cloud) or thirty minutes.
ReapTask(s) ==
  /\ specs[s].task \in {"running", "processing"}
  /\ specs' = [specs EXCEPT ![s].task = "failed"]
  /\ UNCHANGED <<jobs, inFlight, handlers>>

Crash(h) ==
  /\ handlers[h] # Idle
  /\ handlers' = [handlers EXCEPT ![h] = Idle]
  /\ UNCHANGED <<jobs, specs, inFlight>>

-----------------------------------------------------------------------------
ChainStep == \E o \in inFlight : Mine(o) \/ Discard(o)

WorkerStep ==
  \/ \E w \in Worker, j \in JobId : AcceptAndDispatch(w, j)
  \/ \E j \in JobId : Redispatch(j)
  \/ \E s \in SpecId : ReapTask(s)

Sweep(h, j) ==
  \/ SweepStuckGraded(h, j)
  \/ SweepDisputed(h, j)
  \/ ReclaimAbandoned(h, j)
  \/ RefundExhausted(h, j)

Continue(h) ==
  \/ SubmitDelivered(h) \/ Grade(h) \/ Approve(h)
  \/ SubmitAbandoned(h) \/ RaiseDispute(h) \/ ResolveDispute(h)
  \/ InsertReplacement(h) \/ PostReplacement(h)
  \/ RecordTask(h)

HandlerStep(h) ==
  \/ \E s \in SpecId : Callback(h, s)
  \/ \E j \in JobId : Sweep(h, j)
  \/ Continue(h)
  \/ Crash(h)

Next ==
  \/ ChainStep
  \/ WorkerStep
  \/ \E h \in Handler : HandlerStep(h)

Spec == Init /\ [][Next]_vars

\* The scheduler (cron and traffic) runs every sweep on every job again and
\* again, a handler that does not die goes on, no operation is in flight for
\* ever, and a call that is tried for ever gets through at last.
Fairness ==
  /\ \A h \in Handler : WF_vars(Continue(h))
  /\ SF_vars(\E h \in Handler : Approve(h) /\ jobs' # jobs)
  /\ SF_vars(\E h \in Handler : RaiseDispute(h) /\ jobs' # jobs)
  /\ SF_vars(\E h \in Handler : ResolveDispute(h) /\ inFlight' # inFlight)
  /\ \A j \in 1 .. MaxJobs :
       /\ SF_vars(j \in JobId /\ \E h \in Handler : SweepStuckGraded(h, j))
       /\ SF_vars(j \in JobId /\ \E h \in Handler : SweepDisputed(h, j))
       /\ SF_vars(Mine(Resolution(j)))
  /\ WF_vars(ChainStep)

FairSpec == Spec /\ Fairness

-----------------------------------------------------------------------------
SpecOf(j) == specs[jobs[j].specHash]
HasStatus(j, status) == j \in JobId /\ jobs[j].status = status

\* The rows a row replaces, itself included.
Lineage[s \in 0 .. MaxSpecs] ==
  IF s = 0 THEN {} ELSE {s} \cup (IF s \in SpecId THEN Lineage[specs[s].parent] ELSE {})

\* Two jobs of one row share its worker and its verdict: a late post that was
\* sent again makes such a pair.
PostedOnce(s) ==
  \A i, j \in JobId : jobs[i].specHash = s /\ jobs[j].specHash = s => i = j

\* A grader gave this verdict about the job: about its worker's output, or, where
\* the row has a second job, about that of a worker of either.
Graded(j, verdict) ==
  \E w \in Worker :
    /\ <<verdict, w>> \in SpecOf(j).feed
    /\ PostedOnce(jobs[j].specHash) => w = jobs[j].worker

\* Money moves for a reason on record: a worker is paid only for its own work
\* that a grader passed, and its delivery is disputed or refunded only when a
\* grader failed that work; without a verdict, only an abandoned claim is
\* refunded.  However callbacks, sweeps, late operations and crashes interleave.
SettledForCause ==
  \A j \in JobId :
    /\ jobs[j].status = "Completed" => Graded(j, "passed")
    /\ jobs[j].status \in {"Disputed", "Refunded"} =>
         Graded(j, "failed") \/ jobs[j].resultHash = Abandoned

\* A replacement is never on the market while the work it replaces can still be
\* paid: its parent's job (one of them, where a late post made two) is in dispute
\* or settled, even when the refund it assumes has not been mined.
ReplacedOnlyInDispute ==
  \A j \in JobId : SpecOf(j).parent # 0 =>
    \E i \in JobId :
      jobs[i].specHash = SpecOf(j).parent /\ jobs[i].status \in {"Disputed", "Refunded"}

\* A worker whose delivery was failed and replaced never gets any later
\* replacement of the same work, several reposts down the line included.
FailedWorkerNeverReturns ==
  \A i, j \in JobId :
    (/\ i # j
     /\ PostedOnce(jobs[i].specHash)
     /\ jobs[i].specHash \in Lineage[jobs[j].specHash]
     /\ jobs[i].resultHash = Delivered
     /\ jobs[j].worker # NoWorker)
    => jobs[j].worker # jobs[i].worker

\* Work a grader passed is paid in the end, whatever fails on the way: the
\* callback's release is not the only chance.  While a second grading of the same
\* work still runs the verdict is not final: its failure disputes the job, and its
\* unavailability erases the row's passing verdict.
PassedWorkIsPaid ==
  \A j \in 1 .. MaxJobs :
    (/\ HasStatus(j, "Submitted")
     /\ jobs[j].resultHash = Delivered
     /\ SpecOf(j).verdict = "passed"
     /\ SpecOf(j).feed = {<<"passed", jobs[j].worker>>}
     /\ \A h \in Handler : ~At(h, "grade"))
    ~> HasStatus(j, "Completed")

\* Below the repost cap, a dispute some routine died in is always resolved.
DisputeIsResolved ==
  \A j \in 1 .. MaxJobs :
    (/\ HasStatus(j, "Disputed")
     /\ SpecOf(j).repostCount < MAX_AUTO_REPOSTS)
    ~> HasStatus(j, "Refunded")

\* A reclaim of an abandoned claim that dies halfway is finished by a later pass:
\* once the sweep has submitted in the worker's name, the escrow comes back.
AbandonedIsRefunded ==
  \A j \in 1 .. MaxJobs :
    (j \in JobId /\ jobs[j].resultHash = Abandoned) ~> HasStatus(j, "Refunded")
=============================================================================

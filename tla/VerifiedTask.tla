---------------------------- MODULE VerifiedTask ----------------------------
(***************************************************************************)
(* Verified tasks off chain: the actions of app/actions/verified.ts (start,*)
(* accept, decline, reclaim) and the settlement in the runtime callback,   *)
(* over the task records of contracts/src/VerifiedTaskEscrow.sol.          *)
(*                                                                         *)
(* A session is one invocation of an action by a signed-in owner; a run is *)
(* one agent task with the callback that ends it.  Both may die between    *)
(* two awaits.  The money and the reveal window are VerifiedTaskEscrow's.  *)
(***************************************************************************)
EXTENDS Naturals, Sequences, FiniteSets

CONSTANTS
  Session,
  Participant,
  Owner,          \* Participant -> its owner
  PostsOverlap,   \* whether two starts may have their posts under way at once
  MaxRows,        \* bound: verifiable_tasks rows, and tasks on chain
  MaxRuns         \* bound: agent tasks dispatched

ASSUME VerifiedTaskAssumption ==
  /\ DOMAIN Owner = Participant
  /\ PostsOverlap \in BOOLEAN
  /\ MaxRows \in Nat /\ MaxRuns \in Nat

VARIABLES
  rows,      \* verifiable_tasks, in insertion order
  tasks,     \* the tasks on chain; taskCount is its length
  runs,      \* agent_tasks and, once claimed, their callbacks
  late,      \* operations whose receipt nobody waits for any more
  sessions

vars == <<rows, tasks, runs, late, sessions>>

RowId == 1 .. Len(rows)
TaskId == 1 .. Len(tasks)
RunId == 1 .. Len(runs)

Row ==
  [requester : Participant, solver : Participant, onchainId : 0 .. MaxRows, run : 0 .. MaxRuns,
   status : {"posting", "awaiting_solver", "declined", "solving", "settling",
             "completed", "failed", "error"}]

\* `row` is whose problem and answer hash the task carries, `by` whose answer
\* and salt it is committed to.
Task == [row : 1 .. MaxRows, by : 0 .. MaxRows,
         status : {"Open", "Committed", "Completed", "Cancelled"}]

\* `correct` and `credited` remember the grade and the VERIFIED_TASK_COMPLETED
\* event, which no later write of the row takes back.
Run ==
  [row : 1 .. MaxRows, status : {"running", "processing", "completed", "failed"},
   pc : {"idle", "settle", "commit", "reveal", "complete", "credit"},
   correct : BOOLEAN, credited : BOOLEAN]

SessionState ==
  [pc : {"idle", "post", "count", "record", "dispatch", "link",
         "decline", "declined", "reclaim", "reclaimed"},
   row : 0 .. MaxRows, id : 0 .. MaxRows, run : 0 .. MaxRuns]

Operation == [op : {"post", "commit", "reveal", "cancel"}, row : 1 .. MaxRows,
              task : 0 .. MaxRows]

TypeOK ==
  /\ rows \in Seq(Row)
  /\ tasks \in Seq(Task)
  /\ runs \in Seq(Run)
  /\ late \subseteq Operation
  /\ sessions \in [Session -> SessionState]

Idle == [pc |-> "idle", row |-> 0, id |-> 0, run |-> 0]

Init ==
  /\ rows = <<>> /\ tasks = <<>> /\ runs = <<>>
  /\ late = {}
  /\ sessions = [u \in Session |-> Idle]

-----------------------------------------------------------------------------
(***************************************************************************)
(* The contract, and the outcomes of a call made through an agent account. *)
(***************************************************************************)
PostTask(r) ==
  /\ Len(tasks) < MaxRows
  /\ tasks' = Append(tasks, [row |-> r, by |-> 0, status |-> "Open"])

CommitAnswer(r, t) ==
  /\ tasks[t].status = "Open"
  /\ rows[r].solver # rows[tasks[t].row].requester
  /\ tasks' = [tasks EXCEPT ![t].status = "Committed", ![t].by = r]

RevealAnswer(r, t) ==
  /\ tasks[t].status = "Committed"
  /\ tasks[t].by = r
  /\ tasks' = IF tasks[t].row = r THEN [tasks EXCEPT ![t].status = "Completed"]
              ELSE [tasks EXCEPT ![t].status = "Open", ![t].by = 0]

CancelTask(r, t) ==
  /\ tasks[t].status = "Open"
  /\ rows[r].requester = rows[tasks[t].row].requester
  /\ tasks' = [tasks EXCEPT ![t].status = "Cancelled"]

Op(op, r, t) == [op |-> op, row |-> r, task |-> t]

Executes(o) ==
  \/ o.op = "post" /\ PostTask(o.row)
  \/ o.op = "commit" /\ CommitAnswer(o.row, o.task)
  \/ o.op = "reveal" /\ RevealAnswer(o.row, o.task)
  \/ o.op = "cancel" /\ CancelTask(o.row, o.task)

\* A call throws when it is refused or when its receipt is late; a late
\* operation was possible when it was sent.
Confirmed(o) == Executes(o) /\ UNCHANGED late
Feasible(o) == o.op = "post" \/ tasks[o.task].status = IF o.op = "reveal" THEN "Committed" ELSE "Open"
Thrown(o) ==
  /\ late' \in {late} \cup {late \cup {p} : p \in {q \in {o} : Feasible(q)}}
  /\ UNCHANGED tasks

Land(o) ==
  /\ o \in late
  /\ late' = late \ {o}
  /\ Executes(o) \/ UNCHANGED tasks
  /\ UNCHANGED <<rows, runs, sessions>>

-----------------------------------------------------------------------------
(***************************************************************************)
(* The owners' actions.                                                    *)
(***************************************************************************)
At(u, pc) == sessions[u].pc = pc
Goto(u, pc) == sessions' = [sessions EXCEPT ![u].pc = pc]
End(u) == sessions' = [sessions EXCEPT ![u] = Idle]
RowOf(u) == sessions[u].row
Begin(u, pc, r) ==
  sessions' = [sessions EXCEPT ![u] =
    [pc |-> pc, row |-> r, id |-> IF r \in RowId THEN rows[r].onchainId ELSE 0, run |-> 0]]

\* A post is under way from its start to the read of taskCount after it, and as
\* long as it may still land.
PostUnderWay ==
  \/ \E u \in Session : sessions[u].pc \in {"post", "count"}
  \/ \E o \in late : o.op = "post"

StartVerifiedTask(u, requester, solver) ==
  /\ At(u, "idle")
  /\ requester # solver
  /\ Len(rows) < MaxRows
  /\ PostsOverlap \/ ~PostUnderWay
  /\ rows' = Append(rows, [requester |-> requester, solver |-> solver, onchainId |-> 0,
                           run |-> 0, status |-> "posting"])
  /\ Begin(u, "post", Len(rows) + 1)
  /\ UNCHANGED <<tasks, runs, late>>

PostVerifiedTask(u) ==
  /\ At(u, "post")
  /\ \/ Confirmed(Op("post", RowOf(u), 0)) /\ Goto(u, "count")
     \/ Thrown(Op("post", RowOf(u), 0)) /\ End(u)
  /\ UNCHANGED <<rows, runs>>

\* Mutant of ReadTaskCount: the count is taken to be zero-based.
ReadTaskCount_OffByOne(u) ==
  /\ At(u, "count")
  /\ LET r == RowOf(u)
         crossUser == Owner[rows[r].solver] # Owner[rows[r].requester]
     IN  sessions' = [sessions EXCEPT
           ![u].id = Len(tasks) + 1, ![u].pc = IF crossUser THEN "record" ELSE "dispatch"]
  /\ UNCHANGED <<rows, tasks, runs, late>>

\* The id of the new task is taken to be the taskCount read after the receipt.
ReadTaskCount(u) ==
  /\ At(u, "count")
  /\ LET r == RowOf(u)
         crossUser == Owner[rows[r].solver] # Owner[rows[r].requester]
     IN  sessions' = [sessions EXCEPT
           ![u].id = Len(tasks), ![u].pc = IF crossUser THEN "record" ELSE "dispatch"]
  /\ UNCHANGED <<rows, tasks, runs, late>>

RecordProposal(u) ==
  /\ At(u, "record")
  /\ rows' = [rows EXCEPT ![RowOf(u)].onchainId = sessions[u].id,
                          ![RowOf(u)].status = "awaiting_solver"]
  /\ End(u)
  /\ UNCHANGED <<tasks, runs, late>>

AcceptProposal(u, r) ==
  /\ At(u, "idle")
  /\ rows[r].status = "awaiting_solver"
  /\ Begin(u, "dispatch", r)
  /\ UNCHANGED <<rows, tasks, runs, late>>

\* dispatchSolve: the agent task exists, and may be working, before the row
\* knows of it; when starting the runtime throws, the row never will.
DispatchSolve(u) ==
  /\ At(u, "dispatch")
  /\ Len(runs) < MaxRuns
  /\ runs' = Append(runs, [row |-> RowOf(u), status |-> "running", pc |-> "idle",
                           correct |-> FALSE, credited |-> FALSE])
  /\ \/ sessions' = [sessions EXCEPT ![u].pc = "link", ![u].run = Len(runs) + 1]
     \/ End(u)
  /\ UNCHANGED <<rows, tasks, late>>

LinkSolve(u) ==
  /\ At(u, "link")
  /\ rows' = [rows EXCEPT ![RowOf(u)].run = sessions[u].run,
                          ![RowOf(u)].onchainId = sessions[u].id,
                          ![RowOf(u)].status = "solving"]
  /\ End(u)
  /\ UNCHANGED <<tasks, runs, late>>

RejectProposal(u, r) ==
  /\ At(u, "idle")
  /\ rows[r].status = "awaiting_solver"
  /\ Begin(u, "decline", r)
  /\ UNCHANGED <<rows, tasks, runs, late>>

\* The refund is best effort: the row is marked whether or not it went through.
RefundDeclined(u) ==
  /\ At(u, "decline")
  /\ LET o == Op("cancel", RowOf(u), sessions[u].id)
     IN  Confirmed(o) \/ Thrown(o)
  /\ Goto(u, "declined")
  /\ UNCHANGED <<rows, runs>>

CanReclaim(r) == rows[r].status \in {"failed", "declined"} /\ rows[r].onchainId # 0

ReclaimVerifiedTask(u, r) ==
  /\ At(u, "idle")
  /\ CanReclaim(r)
  /\ Begin(u, "reclaim", r)
  /\ UNCHANGED <<rows, tasks, runs, late>>

CancelReclaimed(u) ==
  /\ At(u, "reclaim")
  /\ LET o == Op("cancel", RowOf(u), sessions[u].id)
     IN  \/ Confirmed(o) /\ Goto(u, "reclaimed")
         \/ Thrown(o) /\ End(u)
  /\ UNCHANGED <<rows, runs>>

Mark(u, pc, status) ==
  /\ At(u, pc)
  /\ rows' = [rows EXCEPT ![RowOf(u)].status = status]
  /\ End(u)
  /\ UNCHANGED <<tasks, runs, late>>

MarkDeclined(u) == Mark(u, "declined", "declined")
MarkReclaimed(u) == Mark(u, "reclaimed", "error")

LoseSession(u) ==
  /\ ~At(u, "idle")
  /\ End(u)
  /\ UNCHANGED <<rows, tasks, runs, late>>

-----------------------------------------------------------------------------
(***************************************************************************)
(* The callback of a run: settleVerifiedTask.                              *)
(***************************************************************************)
RunIs(k, pc) == runs[k].status = "processing" /\ runs[k].pc = pc
RunGoto(k, pc) == runs' = [runs EXCEPT ![k].pc = pc]
RunEnds(k) == runs' = [runs EXCEPT ![k].pc = "idle", ![k].status = "completed"]
SetStatus(r, status) == rows' = [rows EXCEPT ![r].status = status]

\* The task is claimed once; a run no row is linked to, or whose row is not
\* being solved, has nothing to settle.
Callback(k) ==
  /\ runs[k].status = "running"
  /\ LET r == runs[k].row
     IN  IF rows[r].run = k /\ rows[r].status = "solving"
         THEN runs' = [runs EXCEPT ![k].status = "processing", ![k].pc = "settle"]
         ELSE runs' = [runs EXCEPT ![k].status = "completed"]
  /\ UNCHANGED <<rows, tasks, late, sessions>>

\* Mutant of Grade: the output is not compared with the answer.
Grade_AnyOutput(k) ==
  /\ RunIs(k, "settle")
  /\ SetStatus(runs[k].row, "settling")
  /\ runs' \in {[runs EXCEPT ![k].pc = "commit", ![k].correct = c] : c \in BOOLEAN}
  /\ UNCHANGED <<tasks, late, sessions>>

\* The output is compared with the hidden answer.
Grade(k) ==
  /\ RunIs(k, "settle")
  /\ LET r == runs[k].row
     IN  \/ /\ rows[r].onchainId # 0
            /\ SetStatus(r, "settling")
            /\ runs' = [runs EXCEPT ![k].pc = "commit", ![k].correct = TRUE]
         \/ SetStatus(r, "failed") /\ RunEnds(k)
  /\ UNCHANGED <<tasks, late, sessions>>

\* Mutant of SettleCall: a call that throws is passed over.
SettleCall_BestEffort(k, pc, op, next) ==
  /\ RunIs(k, pc)
  /\ LET o == Op(op, runs[k].row, rows[runs[k].row].onchainId)
     IN  Confirmed(o) \/ Thrown(o)
  /\ RunGoto(k, next)
  /\ UNCHANGED <<rows, sessions>>

\* commitAndReveal puts the stored answer on chain, in the solver's name.
SettleCall(k, pc, op, next) ==
  /\ RunIs(k, pc)
  /\ LET r == runs[k].row
         o == Op(op, r, rows[r].onchainId)
     IN  \/ Confirmed(o) /\ RunGoto(k, next) /\ UNCHANGED rows
         \/ Thrown(o) /\ SetStatus(r, "error") /\ RunEnds(k)
  /\ UNCHANGED sessions

Commit(k) == SettleCall(k, "commit", "commit", "reveal")
Reveal(k) == SettleCall(k, "reveal", "reveal", "complete")

Complete(k) ==
  /\ RunIs(k, "complete")
  /\ SetStatus(runs[k].row, "completed")
  /\ RunGoto(k, "credit")
  /\ UNCHANGED <<tasks, late, sessions>>

Credit(k) ==
  /\ RunIs(k, "credit")
  /\ runs' = [runs EXCEPT ![k].pc = "idle", ![k].status = "completed", ![k].credited = TRUE]
  /\ UNCHANGED <<rows, tasks, late, sessions>>

\* The callback dies, or never comes: reapStuckTasks fails the task either way.
LoseRun(k) ==
  /\ runs[k].status \in {"running", "processing"}
  /\ runs' = [runs EXCEPT ![k].status = "failed", ![k].pc = "idle"]
  /\ UNCHANGED <<rows, tasks, late, sessions>>

-----------------------------------------------------------------------------
SessionStep(u) ==
  \/ \E requester, solver \in Participant : StartVerifiedTask(u, requester, solver)
  \/ PostVerifiedTask(u) \/ ReadTaskCount(u) \/ RecordProposal(u)
  \/ DispatchSolve(u) \/ LinkSolve(u)
  \/ \E r \in RowId : AcceptProposal(u, r) \/ RejectProposal(u, r) \/ ReclaimVerifiedTask(u, r)
  \/ RefundDeclined(u) \/ MarkDeclined(u)
  \/ CancelReclaimed(u) \/ MarkReclaimed(u)
  \/ LoseSession(u)

RunStep(k) ==
  Callback(k) \/ Grade(k) \/ Commit(k) \/ Reveal(k) \/ Complete(k) \/ Credit(k) \/ LoseRun(k)

Next ==
  \/ \E u \in Session : SessionStep(u)
  \/ \E k \in RunId : RunStep(k)
  \/ \E o \in late : Land(o)

Spec == Init /\ [][Next]_vars

-----------------------------------------------------------------------------
\* Escrow is released only for work graded correct against that very row, by
\* the platform: the contract cannot tell, since the answer revealed to it is
\* the stored one and not the solver's.
PaidForOwnRow ==
  \A t \in TaskId : tasks[t].status = "Completed" =>
    \E k \in RunId : runs[k].row = tasks[t].row /\ runs[k].correct

\* A solver is credited with a verified completion once per row, and only when
\* the escrow of that row has paid: accepts that race, late operations and dead
\* callbacks neither credit unpaid work nor credit work twice.
CreditedIsPaidOnce ==
  \A k \in RunId : runs[k].credited =>
    /\ \E t \in TaskId : tasks[t].row = runs[k].row /\ tasks[t].status = "Completed"
    /\ \A l \in RunId : runs[l].credited /\ runs[l].row = runs[k].row => l = k

\* The task id recorded with a row is the id of the task posted for that row.
RecordedTaskIsOwn ==
  \A r \in RowId : rows[r].onchainId # 0 => tasks[rows[r].onchainId].row = r
=============================================================================

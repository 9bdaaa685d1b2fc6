---------------------------- MODULE CreditProofs ----------------------------
(***************************************************************************)
(* What an agent is credited with and lent: the rewards of verified tasks, *)
(* and the loans drawn against its record.  The two share no state; each   *)
(* part below stands on its own, and the last puts them together as the    *)
(* run does.                                                               *)
(***************************************************************************)
EXTENDS MCCredit, SumTheorems, SequenceTheorems

-----------------------------------------------------------------------------
(***************************************************************************)
(* VerifiedTask: rewards are paid once, for the row they answer, for every *)
(* set of sessions, participants and owners and any number of rows and     *)
(* runs.                                                                   *)
(***************************************************************************)
\* Writing one element of a sequence, and adding one at its end.
LEMMA Written ==
  ASSUME NEW S, NEW s \in Seq(S), NEW i \in 1 .. Len(s), NEW e \in S
  PROVE  /\ [s EXCEPT ![i] = e] \in Seq(S)
         /\ Len([s EXCEPT ![i] = e]) = Len(s)
         /\ \A j \in 1 .. Len(s) : [s EXCEPT ![i] = e][j] = IF j = i THEN e ELSE s[j]
  BY ExceptSeq

LEMMA Appended ==
  ASSUME NEW S, NEW s \in Seq(S), NEW e \in S
  PROVE  /\ Append(s, e) \in Seq(S)
         /\ Len(s) \in Nat /\ Len(Append(s, e)) = Len(s) + 1
         /\ \A j \in 1 .. Len(s) : Append(s, e)[j] = s[j]
         /\ Append(s, e)[Len(s) + 1] = e
  BY AppendProperties, LenProperties

-----------------------------------------------------------------------------
\* Every reference of one record to another points at something, variable by
\* variable: the types alone let a row name a task, a task a row, or a session
\* a row that is not there.
RowsTyped ==
  /\ rows \in Seq(Row) /\ Len(rows) \in 0 .. MaxRows
  /\ \A r \in RowId : rows[r] \in Row /\ rows[r].onchainId \in 0 .. Len(tasks)
TasksTyped ==
  /\ tasks \in Seq(Task) /\ Len(tasks) \in 0 .. MaxRows
  /\ \A t \in TaskId : tasks[t] \in Task /\ tasks[t].row \in RowId
RunsTyped ==
  /\ runs \in Seq(Run) /\ Len(runs) \in 0 .. MaxRuns
  /\ \A k \in RunId : runs[k] \in Run /\ runs[k].row \in RowId
LateTyped ==
  /\ late \subseteq Operation
  /\ \A o \in late : o.row \in RowId
SessionsTyped ==
  /\ sessions \in [Session -> SessionState]
  /\ \A u \in Session :
       /\ sessions[u].id \in 0 .. Len(tasks)
       /\ sessions[u].pc = "idle" \/ sessions[u].row \in RowId

Typed == RowsTyped /\ TasksTyped /\ RunsTyped /\ LateTyped /\ SessionsTyped

LEMMA TypedImpliesTypeOK == Typed => TypeOK
  BY DEF Typed, RowsTyped, TasksTyped, RunsTyped, LateTyped, SessionsTyped, TypeOK

\* A task that an operation touches keeps its row.
Becomes(t, status, by) ==
  tasks' = [tasks EXCEPT ![t] = [tasks[t] EXCEPT !.status = status, !.by = by]]

LEMMA TaskTouched ==
  ASSUME Typed, NEW t \in TaskId, NEW status \in {"Open", "Committed", "Completed", "Cancelled"},
         NEW by \in 0 .. MaxRows,
         Becomes(t, status, by)
  PROVE  /\ tasks' \in Seq(Task) /\ Len(tasks') = Len(tasks)
         /\ Len(tasks') \in 0 .. MaxRows
         /\ \A s \in TaskId :
              tasks'[s] \in Task /\ tasks'[s].row = tasks[s].row /\ (s # t => tasks'[s] = tasks[s])
         /\ tasks'[t].status = status
  <1> DEFINE new == [tasks[t] EXCEPT !.status = status, !.by = by]
  <1>1. new \in Task /\ new.row = tasks[t].row /\ new.status = status
    BY DEF Typed, TasksTyped, Task
  <1>2. /\ tasks' = [tasks EXCEPT ![t] = new] /\ tasks \in Seq(Task) /\ t \in 1 .. Len(tasks)
        /\ Len(tasks) \in 0 .. MaxRows /\ \A s \in TaskId : tasks[s] \in Task
    BY DEF Typed, TasksTyped, TaskId, Becomes
  <1> HIDE DEF new
  <1>3. /\ tasks' \in Seq(Task) /\ Len(tasks') = Len(tasks)
        /\ \A s \in 1 .. Len(tasks) : tasks'[s] = IF s = t THEN new ELSE tasks[s]
    BY <1>1, <1>2, Written
  <1>4. QED
    BY <1>1, <1>2, <1>3 DEF TaskId

\* Executes, on the three parts of an operation.
Calls(op, r, i) ==
  \/ op = "post" /\ PostTask(r)
  \/ op = "commit" /\ CommitAnswer(r, i)
  \/ op = "reveal" /\ RevealAnswer(r, i)
  \/ op = "cancel" /\ CancelTask(r, i)

\* What an operation on chain does to the tasks: it posts one, or touches one
\* that is there; it completes only by a reveal, and only its own row's task
\* that was committed to by that row.
LEMMA CallTasks ==
  ASSUME Typed, NEW op \in {"post", "commit", "reveal", "cancel"}, NEW r \in RowId, NEW i,
         Calls(op, r, i)
  PROVE  /\ tasks' \in Seq(Task)
         /\ Len(tasks') \in 0 .. MaxRows
         /\ \A t \in TaskId :
              /\ tasks'[t] \in Task /\ tasks'[t].row = tasks[t].row
              /\ tasks[t].status = "Completed" => tasks'[t].status = "Completed"
              /\ tasks'[t].status = "Completed" /\ tasks[t].status # "Completed"
                   => /\ op = "reveal" /\ i = t
                      /\ tasks[t].row = r /\ tasks[t].status = "Committed"
         /\ \/ Len(tasks') = Len(tasks) /\ op # "post"
            \/ /\ op = "post" /\ Len(tasks') = Len(tasks) + 1
               /\ tasks'[Len(tasks')] = [row |-> r, by |-> 0, status |-> "Open"]
         /\ op = "reveal" /\ i \in TaskId /\ tasks[i].row = r
              => tasks[i].status = "Committed" /\ tasks'[i].status = "Completed"
  <1>1. /\ tasks \in Seq(Task) /\ Len(tasks) \in Nat /\ DOMAIN tasks = 1 .. Len(tasks)
        /\ tasks \in [1 .. Len(tasks) -> Task]
        /\ Len(rows) \in 0 .. MaxRows /\ Len(tasks) \in 0 .. MaxRows /\ MaxRows \in Nat
        /\ \A t \in TaskId : tasks[t] \in Task
        /\ r \in 1 .. MaxRows
    BY LenProperties, VerifiedTaskAssumption DEF Typed, TasksTyped, RowsTyped, RowId
  <1>2. CASE op = "post" /\ PostTask(r)
    <2>1. [row |-> r, by |-> 0, status |-> "Open"] \in Task
      BY <1>1 DEF Task
    <2>2. QED
      BY <1>1, <1>2, <2>1, Appended DEF PostTask, TaskId, Typed, TasksTyped
  <1>3. CASE i \notin TaskId /\ op # "post"
    <2>1. tasks' = tasks
      BY <1>1, <1>3 DEF Calls, CommitAnswer, RevealAnswer, CancelTask, TaskId
    <2>2. QED
      BY <1>1, <1>3, <2>1 DEF TaskId
  <1>4. CASE i \in TaskId /\ op = "commit"
    <2>1. CommitAnswer(r, i) /\ tasks \in Seq(Task) /\ i \in DOMAIN tasks /\ r \in 0 .. MaxRows
      BY <1>1, <1>4 DEF Calls, TaskId
    <2>2. Becomes(i, "Committed", r) /\ tasks[i].status = "Open"
      BY <2>1 DEF CommitAnswer, Becomes
    <2>3. QED
      BY <1>4, <2>1, <2>2, TaskTouched
  <1>5. CASE i \in TaskId /\ op = "reveal"
    <2>1. tasks[i].status = "Committed" /\ tasks[i].by \in 0 .. MaxRows
      BY <1>1, <1>5 DEF Calls, RevealAnswer, Task
    <2>2. CASE tasks[i].row = r
      <3>1. Becomes(i, "Completed", tasks[i].by)
        BY <1>1, <1>5, <2>2 DEF Calls, RevealAnswer, TaskId, Becomes, Task
      <3>2. QED
        BY <1>5, <2>1, <2>2, <3>1, TaskTouched
    <2>3. CASE tasks[i].row # r
      <3>1. RevealAnswer(r, i) /\ tasks \in Seq(Task) /\ i \in DOMAIN tasks /\ 0 \in 0 .. MaxRows
        BY <1>1, <1>5 DEF Calls, TaskId
      <3>2. Becomes(i, "Open", 0)
        BY <2>3, <3>1 DEF RevealAnswer, Becomes
      <3>3. QED
        BY <1>5, <2>1, <2>3, <3>1, <3>2, TaskTouched
    <2>4. QED
      BY <2>2, <2>3
  <1>6. CASE i \in TaskId /\ op = "cancel"
    <2>1. /\ Becomes(i, "Cancelled", tasks[i].by)
          /\ tasks[i].status = "Open" /\ tasks[i].by \in 0 .. MaxRows
      BY <1>1, <1>6 DEF Calls, CancelTask, TaskId, Task, Becomes
    <2>2. QED
      BY <1>6, <2>1, TaskTouched
  <1>7. QED
    BY <1>2, <1>3, <1>4, <1>5, <1>6 DEF Calls

-----------------------------------------------------------------------------
\* Rows and tasks are only ever added.
Grown == Len(rows') >= Len(rows) /\ Len(tasks') >= Len(tasks)

\* What a step leaves alone keeps its type.
LEMMA Unmoved ==
  ASSUME Typed, Grown
  PROVE  /\ UNCHANGED rows => RowsTyped'
         /\ UNCHANGED tasks => TasksTyped'
         /\ UNCHANGED runs => RunsTyped'
         /\ UNCHANGED late => LateTyped'
         /\ UNCHANGED sessions => SessionsTyped'
  <1> USE DEF Typed, Grown, RowId, TaskId, RunId
  <1>1. /\ Len(rows) \in Nat /\ Len(tasks) \in Nat /\ Len(rows') >= Len(rows)
        /\ Len(tasks') >= Len(tasks)
    BY VerifiedTaskAssumption DEF RowsTyped, TasksTyped
  <1>2. UNCHANGED rows /\ Len(tasks') \in Nat => RowsTyped'
    BY <1>1 DEF RowsTyped
  <1>3. UNCHANGED tasks => TasksTyped'
    BY <1>1 DEF TasksTyped
  <1>4. QED
    BY <1>1, <1>2, <1>3 DEF RunsTyped, LateTyped, SessionsTyped

\* Writing one record keeps the type of its variable.
RowBecomes(r, new) == rows' = [rows EXCEPT ![r] = new]
RunBecomes(k, new) == runs' = [runs EXCEPT ![k] = new]
SessionBecomes(u, new) == sessions' = [sessions EXCEPT ![u] = new]

LEMMA RowMoved ==
  ASSUME Typed, NEW r \in RowId, NEW new \in Row, new.onchainId \in 0 .. Len(tasks),
         RowBecomes(r, new), Len(tasks') >= Len(tasks)
  PROVE  /\ RowsTyped' /\ Len(rows') = Len(rows)
         /\ rows'[r] = new /\ \A q \in RowId : q # r => rows'[q] = rows[q]
  <1>1. rows \in Seq(Row) /\ Len(rows) \in 0 .. MaxRows /\ r \in 1 .. Len(rows)
        /\ Len(tasks) \in Nat
        /\ \A q \in 1 .. Len(rows) : rows[q] \in Row /\ rows[q].onchainId \in 0 .. Len(tasks)
    BY VerifiedTaskAssumption DEF Typed, RowsTyped, TasksTyped, RowId
  <1>2. /\ rows' \in Seq(Row) /\ Len(rows') = Len(rows)
        /\ \A q \in 1 .. Len(rows) : rows'[q] = IF q = r THEN new ELSE rows[q]
    BY <1>1, Written DEF RowBecomes
  <1>3. QED
    BY <1>1, <1>2 DEF RowsTyped, RowId

LEMMA RunMoved ==
  ASSUME Typed, NEW k \in RunId, NEW new \in Run, new.row = runs[k].row,
         RunBecomes(k, new), Len(rows') >= Len(rows)
  PROVE  /\ RunsTyped' /\ Len(runs') = Len(runs)
         /\ runs'[k] = new /\ \A l \in RunId : l # k => runs'[l] = runs[l]
  <1>1. runs \in Seq(Run) /\ Len(runs) \in 0 .. MaxRuns /\ k \in 1 .. Len(runs)
        /\ Len(rows) \in Nat
        /\ \A l \in 1 .. Len(runs) : runs[l] \in Run /\ runs[l].row \in 1 .. Len(rows)
    BY VerifiedTaskAssumption DEF Typed, RowsTyped, RunsTyped, RunId, RowId
  <1>2. /\ runs' \in Seq(Run) /\ Len(runs') = Len(runs)
        /\ \A l \in 1 .. Len(runs) : runs'[l] = IF l = k THEN new ELSE runs[l]
    BY <1>1, Written DEF RunBecomes
  <1>3. QED
    BY <1>1, <1>2 DEF RunsTyped, RunId, RowId

LEMMA SessionMoved ==
  ASSUME Typed, Grown, NEW u \in Session, NEW new \in SessionState,
         new.id \in 0 .. Len(tasks'), new.pc = "idle" \/ new.row \in RowId',
         SessionBecomes(u, new)
  PROVE  /\ SessionsTyped'
         /\ sessions'[u] = new /\ \A v \in Session : v # u => sessions'[v] = sessions[v]
  <1>1. /\ sessions \in [Session -> SessionState]
        /\ \A v \in Session :
             /\ sessions[v].id \in 0 .. Len(tasks)
             /\ sessions[v].pc = "idle" \/ sessions[v].row \in 1 .. Len(rows)
        /\ Len(rows) \in Nat /\ Len(tasks) \in Nat
        /\ Len(rows') >= Len(rows) /\ Len(tasks') >= Len(tasks)
    BY VerifiedTaskAssumption DEF Typed, RowsTyped, TasksTyped, SessionsTyped, RowId, Grown
  <1>2. /\ sessions' \in [Session -> SessionState]
        /\ sessions'[u] = new /\ \A v \in Session : v # u => sessions'[v] = sessions[v]
    BY <1>1 DEF SessionBecomes
  <1>3. ASSUME NEW v \in Session
        PROVE  /\ sessions'[v].id \in 0 .. Len(tasks')
               /\ sessions'[v].pc = "idle" \/ sessions'[v].row \in RowId'
    BY <1>1, <1>2 DEF RowId
  <1>4. QED
    BY <1>2, <1>3 DEF SessionsTyped

\* A session ends, moves on, or starts an action on a row.
LEMMA SessionEnds ==
  ASSUME Typed, Grown, NEW u \in Session, End(u)
  PROVE  /\ SessionsTyped' /\ sessions'[u] = Idle
         /\ \A v \in Session : v # u => sessions'[v] = sessions[v]
  <1>1. Idle \in SessionState /\ Idle.pc = "idle" /\ Idle.id \in 0 .. Len(tasks')
    BY VerifiedTaskAssumption DEF Idle, SessionState, Typed, TasksTyped, Grown
  <1>2. SessionBecomes(u, Idle)
    BY DEF End, SessionBecomes
  <1>3. QED
    BY <1>1, <1>2, SessionMoved

LEMMA SessionGoes ==
  ASSUME Typed, Grown, NEW u \in Session, ~At(u, "idle"),
         NEW pc \in {"record", "dispatch", "link"},
         NEW id \in 0 .. Len(tasks'), NEW run \in 0 .. MaxRuns, Len(tasks') <= MaxRows,
         sessions' = [sessions EXCEPT ![u] = [sessions[u] EXCEPT !.pc = pc, !.id = id, !.run = run]]
  PROVE  /\ SessionsTyped'
         /\ sessions'[u] = [sessions[u] EXCEPT !.pc = pc, !.id = id, !.run = run]
         /\ \A v \in Session : v # u => sessions'[v] = sessions[v]
  <1> DEFINE new == [sessions[u] EXCEPT !.pc = pc, !.id = id, !.run = run]
  <1>1. /\ sessions[u] \in SessionState /\ sessions[u].row \in RowId
        /\ Len(rows) \in Nat /\ Len(tasks) \in Nat
    BY VerifiedTaskAssumption DEF Typed, RowsTyped, TasksTyped, SessionsTyped, At
  <1>2. id \in 0 .. MaxRows
    BY <1>1, VerifiedTaskAssumption DEF Grown
  <1>3. new \in SessionState /\ new.row = sessions[u].row /\ new.id = id
    BY <1>1, <1>2 DEF SessionState
  <1>4. new.row \in RowId'
    BY <1>1, <1>3 DEF RowId, Grown
  <1>5. SessionBecomes(u, new)
    BY DEF SessionBecomes
  <1> HIDE DEF new
  <1>6. QED
    BY <1>3, <1>4, <1>5, SessionMoved DEF new

LEMMA SessionGoesOn ==
  ASSUME Typed, Grown, NEW u \in Session, ~At(u, "idle"),
         NEW pc \in {"count", "declined", "reclaimed"}, Goto(u, pc)
  PROVE  /\ SessionsTyped'
         /\ sessions'[u] = [sessions[u] EXCEPT !.pc = pc]
         /\ \A v \in Session : v # u => sessions'[v] = sessions[v]
  <1> DEFINE new == [sessions[u] EXCEPT !.pc = pc]
  <1>1. /\ sessions[u] \in SessionState /\ sessions[u].row \in RowId
        /\ Len(rows) \in Nat /\ Len(tasks) \in Nat /\ sessions[u].id \in 0 .. Len(tasks)
    BY VerifiedTaskAssumption DEF Typed, RowsTyped, TasksTyped, SessionsTyped, At
  <1>2. new \in SessionState /\ new.row = sessions[u].row /\ new.id = sessions[u].id
    BY <1>1 DEF SessionState
  <1>3. new.row \in RowId' /\ new.id \in 0 .. Len(tasks')
    BY <1>1, <1>2 DEF RowId, Grown
  <1>4. SessionBecomes(u, new)
    BY DEF SessionBecomes, Goto
  <1> HIDE DEF new
  <1>5. QED
    BY <1>2, <1>3, <1>4, SessionMoved DEF new

LEMMA SessionBegins ==
  ASSUME Typed, Grown, NEW u \in Session, NEW r \in RowId', Len(rows') <= MaxRows,
         NEW pc \in {"post", "dispatch", "decline", "reclaim"}, Begin(u, pc, r)
  PROVE  /\ SessionsTyped'
         /\ sessions'[u] = [pc |-> pc, row |-> r, run |-> 0,
                            id |-> IF r \in RowId THEN rows[r].onchainId ELSE 0]
         /\ \A v \in Session : v # u => sessions'[v] = sessions[v]
  <1> DEFINE id == IF r \in RowId THEN rows[r].onchainId ELSE 0
             new == [pc |-> pc, row |-> r, id |-> id, run |-> 0]
  <1>1. /\ Len(rows) \in Nat /\ Len(tasks) \in 0 .. MaxRows /\ id \in 0 .. Len(tasks)
    BY VerifiedTaskAssumption DEF Typed, RowsTyped, TasksTyped, RowId
  <1>2. id \in 0 .. MaxRows /\ id \in 0 .. Len(tasks') /\ r \in 0 .. MaxRows
    BY <1>1, VerifiedTaskAssumption DEF Grown, RowId
  <1>3. new \in SessionState
    BY <1>2, VerifiedTaskAssumption DEF SessionState
  <1>4. SessionBecomes(u, new)
    BY DEF SessionBecomes, Begin
  <1> HIDE DEF id
  <1>5. QED
    BY <1>2, <1>3, <1>4, SessionMoved DEF id

-----------------------------------------------------------------------------
\* A call, confirmed or not, keeps the types and leaves at most itself behind.
LEMMA CallTyped ==
  ASSUME Typed, NEW op \in {"post", "commit", "reveal", "cancel"}, NEW r \in RowId,
         NEW i \in 0 .. MaxRows, Len(rows') = Len(rows),
         Confirmed(Op(op, r, i)) \/ Thrown(Op(op, r, i))
  PROVE  /\ Grown /\ TasksTyped' /\ LateTyped' /\ Len(tasks') <= MaxRows
         /\ \/ Calls(op, r, i) /\ UNCHANGED late
            \/ UNCHANGED tasks /\ late \subseteq late' /\ late' \subseteq late \cup {Op(op, r, i)}
  <1>1. /\ Len(rows) \in 0 .. MaxRows /\ Len(tasks) \in 0 .. MaxRows /\ MaxRows \in Nat
        /\ late \subseteq Operation /\ \A o \in late : o.row \in RowId
        /\ \A t \in TaskId : tasks[t].row \in RowId /\ tasks[t] \in Task
        /\ tasks \in Seq(Task)
    BY VerifiedTaskAssumption DEF Typed, RowsTyped, TasksTyped, LateTyped
  <1>2. RowId' = RowId /\ r \in 1 .. MaxRows
    BY <1>1 DEF RowId
  <1>3. \/ Calls(op, r, i) /\ UNCHANGED late
        \/ UNCHANGED tasks /\ late \subseteq late' /\ late' \subseteq late \cup {Op(op, r, i)}
    <2>1. CASE Confirmed(Op(op, r, i))
      BY <2>1 DEF Confirmed, Executes, Op, Calls
    <2>2. CASE Thrown(Op(op, r, i))
      BY <2>2 DEF Thrown
    <2>3. QED
      BY <2>1, <2>2
  <1>4. LateTyped'
    <2>1. Op(op, r, i) \in Operation /\ Op(op, r, i).row = r
      BY <1>2 DEF Op, Operation
    <2>2. QED
      BY <1>1, <1>2, <1>3, <2>1 DEF LateTyped
  <1>5. Len(tasks') \in 0 .. MaxRows /\ Len(tasks') >= Len(tasks) /\ TasksTyped'
    <2>1. CASE UNCHANGED tasks
      BY <1>1, <1>2, <2>1 DEF TasksTyped, TaskId
    <2>2. CASE Calls(op, r, i)
      <3>1. /\ tasks' \in Seq(Task) /\ Len(tasks') \in 0 .. MaxRows
            /\ \A t \in TaskId : tasks'[t] \in Task /\ tasks'[t].row = tasks[t].row
            /\ \/ Len(tasks') = Len(tasks)
               \/ /\ Len(tasks') = Len(tasks) + 1
                  /\ tasks'[Len(tasks')] = [row |-> r, by |-> 0, status |-> "Open"]
        BY <2>2, CallTasks
      <3>2. [row |-> r, by |-> 0, status |-> "Open"] \in Task
        BY <1>1, <1>2 DEF Task
      <3>3. ASSUME NEW t \in TaskId'
            PROVE  tasks'[t] \in Task /\ tasks'[t].row \in RowId'
        BY <1>1, <1>2, <3>1, <3>2 DEF TaskId
      <3>4. QED
        BY <1>1, <3>1, <3>3 DEF TasksTyped
    <2>3. QED
      BY <1>3, <2>1, <2>2
  <1>6. QED
    BY <1>1, <1>3, <1>4, <1>5 DEF Grown

\* Every step of a session keeps the types.
LEMMA SessionStepTyped ==
  ASSUME Typed, NEW u \in Session, SessionStep(u)
  PROVE  Typed'
  <1>1. /\ Len(rows) \in 0 .. MaxRows /\ Len(tasks) \in 0 .. MaxRows /\ Len(runs) \in 0 .. MaxRuns
        /\ MaxRows \in Nat /\ MaxRuns \in Nat
        /\ rows \in Seq(Row) /\ runs \in Seq(Run)
        /\ \A r \in RowId : rows[r] \in Row /\ rows[r].onchainId \in 0 .. Len(tasks)
        /\ sessions[u] \in SessionState /\ sessions[u].id \in 0 .. Len(tasks)
        /\ ~At(u, "idle") => RowOf(u) \in RowId
    BY VerifiedTaskAssumption
       DEF Typed, RowsTyped, TasksTyped, RunsTyped, SessionsTyped, At, RowOf
  <1>2. /\ sessions[u].id \in 0 .. MaxRows /\ sessions[u].run \in 0 .. MaxRuns
    BY <1>1 DEF SessionState
  <1>3. Len(rows') = Len(rows) /\ Len(tasks') = Len(tasks) => Grown
    BY <1>1 DEF Grown
  <1>4. ASSUME NEW requester \in Participant, NEW solver \in Participant, StartVerifiedTask(u, requester, solver)
        PROVE  Typed'
    <2> DEFINE row == [requester |-> requester, solver |-> solver, onchainId |-> 0,
                       run |-> 0, status |-> "posting"]
    <2>1. row \in Row /\ row.onchainId = 0
      BY <1>1 DEF Row
    <2>2. /\ rows' = Append(rows, row) /\ UNCHANGED <<tasks, runs, late>>
          /\ Len(rows) < MaxRows /\ Begin(u, "post", Len(rows) + 1)
      BY <1>4 DEF StartVerifiedTask
    <2> HIDE DEF row
    <2>3. /\ rows' \in Seq(Row) /\ Len(rows') = Len(rows) + 1
          /\ \A r \in 1 .. Len(rows) : rows'[r] = rows[r]
          /\ rows'[Len(rows) + 1] = row
      BY <1>1, <2>1, <2>2, Appended
    <2>4. Grown /\ Len(rows) + 1 \in RowId' /\ Len(rows') <= MaxRows
      BY <1>1, <2>2, <2>3 DEF Grown, RowId
    <2>5. RowsTyped'
      BY <1>1, <2>1, <2>2, <2>3 DEF RowsTyped, RowId
    <2>6. QED
      BY <2>2, <2>4, <2>5, Unmoved, SessionBegins DEF Typed
  <1>5. CASE PostVerifiedTask(u)
    <2>1. /\ UNCHANGED <<rows, runs>> /\ RowOf(u) \in RowId /\ ~At(u, "idle")
          /\ Confirmed(Op("post", RowOf(u), 0)) \/ Thrown(Op("post", RowOf(u), 0))
          /\ Goto(u, "count") \/ End(u)
      BY <1>1, <1>5 DEF PostVerifiedTask, At
    <2>2. Grown /\ TasksTyped' /\ LateTyped' /\ Len(tasks') <= MaxRows
      BY <1>1, <2>1, CallTyped
    <2>3. SessionsTyped'
      BY <2>1, <2>2, SessionGoesOn, SessionEnds
    <2>4. QED
      BY <2>1, <2>2, <2>3, Unmoved DEF Typed
  <1>6. CASE ReadTaskCount(u)
    <2>1. PICK pc \in {"record", "dispatch"} :
            sessions' = [sessions EXCEPT ![u].id = Len(tasks), ![u].pc = pc]
      BY <1>6 DEF ReadTaskCount
    <2>2. sessions' = [sessions EXCEPT ![u] =
                  [sessions[u] EXCEPT !.pc = pc, !.id = Len(tasks), !.run = sessions[u].run]]
      BY <1>1, <2>1 DEF SessionState, Typed, SessionsTyped
    <2>3. /\ UNCHANGED <<rows, tasks, runs, late>> /\ ~At(u, "idle") /\ Grown
          /\ Len(tasks) \in 0 .. Len(tasks') /\ Len(tasks') <= MaxRows
      BY <1>1, <1>3, <1>6 DEF ReadTaskCount, At
    <2>4. SessionsTyped'
      BY <1>2, <2>2, <2>3, SessionGoes
    <2>5. QED
      BY <2>3, <2>4, Unmoved DEF Typed
  <1>7. CASE RecordProposal(u)
    <2> DEFINE row == [rows[RowOf(u)] EXCEPT !.onchainId = sessions[u].id, !.status = "awaiting_solver"]
    <2>1. /\ UNCHANGED <<tasks, runs, late>> /\ End(u) /\ RowOf(u) \in RowId
          /\ RowBecomes(RowOf(u), row)
      BY <1>1, <1>7 DEF RecordProposal, At, RowBecomes
    <2>2. row \in Row /\ row.onchainId \in 0 .. Len(tasks) /\ Len(tasks') >= Len(tasks)
      <3>1. rows[RowOf(u)] \in Row /\ Len(tasks') >= Len(tasks)
        BY <1>1, <2>1
      <3>2. row \in Row /\ row.onchainId = sessions[u].id
        BY <1>2, <3>1 DEF Row
      <3>3. QED
        BY <1>1, <3>1, <3>2
    <2> HIDE DEF row
    <2>3. RowsTyped' /\ Grown
      BY <1>3, <2>1, <2>2, RowMoved
    <2>4. QED
      BY <2>1, <2>3, Unmoved, SessionEnds DEF Typed
  <1>8. ASSUME NEW r \in RowId,
               AcceptProposal(u, r) \/ RejectProposal(u, r) \/ ReclaimVerifiedTask(u, r)
        PROVE  Typed'
    <2>1. /\ UNCHANGED <<rows, tasks, runs, late>>
          /\ \E pc \in {"dispatch", "decline", "reclaim"} : Begin(u, pc, r)
      BY <1>8 DEF AcceptProposal, RejectProposal, ReclaimVerifiedTask
    <2>2. Grown /\ r \in RowId' /\ Len(rows') <= MaxRows
      BY <1>1, <1>3, <2>1 DEF RowId
    <2>3. QED
      BY <2>1, <2>2, Unmoved, SessionBegins DEF Typed
  <1>9. CASE DispatchSolve(u)
    <2> DEFINE run == [row |-> RowOf(u), status |-> "running", pc |-> "idle",
                       correct |-> FALSE, credited |-> FALSE]
    <2>1. /\ UNCHANGED <<rows, tasks, late>> /\ RowOf(u) \in RowId /\ ~At(u, "idle")
          /\ Len(runs) < MaxRuns /\ runs' = Append(runs, run)
          /\ \/ sessions' = [sessions EXCEPT ![u].pc = "link", ![u].run = Len(runs) + 1]
             \/ End(u)
      BY <1>1, <1>9 DEF DispatchSolve, At
    <2>2. run \in Run /\ run.row = RowOf(u)
      BY <1>1, <2>1 DEF Run, RowId
    <2> HIDE DEF run
    <2>3. /\ runs' \in Seq(Run) /\ Len(runs') = Len(runs) + 1
          /\ \A k \in 1 .. Len(runs) : runs'[k] = runs[k]
          /\ runs'[Len(runs) + 1] = run
      BY <1>1, <2>1, <2>2, Appended
    <2>4. RunsTyped'
      <3>1. /\ Len(runs') \in 0 .. MaxRuns /\ RowId' = RowId
            /\ \A k \in 1 .. Len(runs) : runs[k] \in Run /\ runs[k].row \in RowId
        BY <1>1, <2>1, <2>3 DEF RowId, Typed, RunsTyped, RunId
      <3>2. ASSUME NEW k \in RunId'
            PROVE  runs'[k] \in Run /\ runs'[k].row \in RowId'
        BY <1>1, <2>1, <2>2, <2>3, <3>1 DEF RunId
      <3>3. QED
        BY <2>3, <3>1, <3>2 DEF RunsTyped
    <2>5. Grown /\ Len(tasks') <= MaxRows /\ sessions[u].id \in 0 .. Len(tasks')
          /\ Len(runs) + 1 \in 0 .. MaxRuns
      BY <1>1, <1>3, <2>1
    <2>6. SessionsTyped'
      <3>1. CASE End(u)
        BY <2>5, <3>1, SessionEnds
      <3>2. CASE sessions' = [sessions EXCEPT ![u].pc = "link", ![u].run = Len(runs) + 1]
        <4>1. sessions' = [sessions EXCEPT ![u] =
                [sessions[u] EXCEPT !.pc = "link", !.id = sessions[u].id, !.run = Len(runs) + 1]]
          BY <1>1, <3>2 DEF SessionState, Typed, SessionsTyped
        <4>2. QED
          BY <2>1, <2>5, <4>1, SessionGoes
      <3>3. QED
        BY <2>1, <3>1, <3>2
    <2>7. QED
      BY <2>1, <2>4, <2>5, <2>6, Unmoved DEF Typed
  <1>10. CASE LinkSolve(u)
    <2> DEFINE row == [rows[RowOf(u)] EXCEPT !.run = sessions[u].run, !.onchainId = sessions[u].id,
                                             !.status = "solving"]
    <2>1. /\ UNCHANGED <<tasks, runs, late>> /\ End(u) /\ RowOf(u) \in RowId
          /\ RowBecomes(RowOf(u), row)
      BY <1>1, <1>10 DEF LinkSolve, At, RowBecomes
    <2>2. row \in Row /\ row.onchainId \in 0 .. Len(tasks) /\ Len(tasks') >= Len(tasks)
      <3>1. rows[RowOf(u)] \in Row /\ Len(tasks') >= Len(tasks)
        BY <1>1, <2>1
      <3>2. row \in Row /\ row.onchainId = sessions[u].id
        BY <1>2, <3>1 DEF Row
      <3>3. QED
        BY <1>1, <3>1, <3>2
    <2> HIDE DEF row
    <2>3. RowsTyped' /\ Grown
      BY <1>3, <2>1, <2>2, RowMoved
    <2>4. QED
      BY <2>1, <2>3, Unmoved, SessionEnds DEF Typed
  <1>11. CASE RefundDeclined(u) \/ CancelReclaimed(u)
    <2>1. /\ UNCHANGED <<rows, runs>> /\ RowOf(u) \in RowId /\ ~At(u, "idle")
          /\ \/ Confirmed(Op("cancel", RowOf(u), sessions[u].id))
             \/ Thrown(Op("cancel", RowOf(u), sessions[u].id))
          /\ End(u) \/ \E pc \in {"declined", "reclaimed"} : Goto(u, pc)
      BY <1>1, <1>11 DEF RefundDeclined, CancelReclaimed, At
    <2>2. Grown /\ TasksTyped' /\ LateTyped'
      BY <1>1, <1>2, <2>1, CallTyped
    <2>3. SessionsTyped'
      BY <2>1, <2>2, SessionGoesOn, SessionEnds
    <2>4. QED
      BY <2>1, <2>2, <2>3, Unmoved DEF Typed
  <1>12. CASE MarkDeclined(u) \/ MarkReclaimed(u)
    <2>1. PICK status \in {"declined", "error"} :
            /\ UNCHANGED <<tasks, runs, late>> /\ End(u) /\ RowOf(u) \in RowId
            /\ RowBecomes(RowOf(u), [rows[RowOf(u)] EXCEPT !.status = status])
      BY <1>1, <1>12 DEF MarkDeclined, MarkReclaimed, Mark, At, RowBecomes
    <2> DEFINE row == [rows[RowOf(u)] EXCEPT !.status = status]
    <2>2. row \in Row /\ row.onchainId \in 0 .. Len(tasks) /\ Len(tasks') >= Len(tasks)
      BY <1>1, <2>1 DEF Row
    <2> HIDE DEF row
    <2>3. RowsTyped' /\ Grown
      BY <1>3, <2>1, <2>2, RowMoved DEF row
    <2>4. QED
      BY <2>1, <2>3, Unmoved, SessionEnds DEF Typed
  <1>13. CASE LoseSession(u)
    <2>1. UNCHANGED <<rows, tasks, runs, late>> /\ End(u) /\ Grown
      BY <1>3, <1>13 DEF LoseSession
    <2>2. QED
      BY <2>1, Unmoved, SessionEnds DEF Typed
  <1>14. QED
    BY <1>4, <1>5, <1>6, <1>7, <1>8, <1>9, <1>10, <1>11, <1>12, <1>13 DEF SessionStep

\* A run's record after one step of its callback.
RunAfter(k, status, pc, correct, credited) ==
  [runs[k] EXCEPT !.status = status, !.pc = pc, !.correct = correct, !.credited = credited]

LEMMA RunAfterType ==
  ASSUME Typed, NEW k \in RunId,
         NEW status \in {"running", "processing", "completed", "failed"},
         NEW pc \in {"idle", "settle", "commit", "reveal", "complete", "credit"},
         NEW correct \in BOOLEAN, NEW credited \in BOOLEAN
  PROVE  /\ RunAfter(k, status, pc, correct, credited) \in Run
         /\ RunAfter(k, status, pc, correct, credited).row = runs[k].row
         /\ RunAfter(k, status, pc, correct, credited).pc = pc
         /\ RunAfter(k, status, pc, correct, credited).correct = correct
         /\ RunAfter(k, status, pc, correct, credited).credited = credited
  <1>1. runs[k] \in Run
    BY DEF Typed, RunsTyped
  <1>2. QED
    BY <1>1 DEF RunAfter, Run

\* What each step of a callback writes into its run.
LEMMA RunWrites ==
  ASSUME Typed, NEW k \in RunId
  PROVE  /\ Callback(k) => \/ RunBecomes(k, RunAfter(k, "processing", "settle", runs[k].correct, runs[k].credited))
                           \/ RunBecomes(k, RunAfter(k, "completed", runs[k].pc, runs[k].correct, runs[k].credited))
         /\ Grade(k) => \/ RunBecomes(k, RunAfter(k, "processing", "commit", TRUE, runs[k].credited))
                        \/ RunBecomes(k, RunAfter(k, "completed", "idle", runs[k].correct, runs[k].credited))
         /\ \A pc : (RunIs(k, "commit") \/ RunIs(k, "reveal") \/ RunIs(k, "complete"))
                    /\ RunGoto(k, pc) => RunBecomes(k, RunAfter(k, "processing", pc, runs[k].correct, runs[k].credited))
         /\ RunEnds(k) => RunBecomes(k, RunAfter(k, "completed", "idle", runs[k].correct, runs[k].credited))
         /\ Credit(k) => RunBecomes(k, RunAfter(k, "completed", "idle", runs[k].correct, TRUE))
         /\ LoseRun(k) => RunBecomes(k, RunAfter(k, "failed", "idle", runs[k].correct, runs[k].credited))
  <1>1. runs[k] \in Run /\ runs \in Seq(Run) /\ k \in DOMAIN runs
    BY DEF Typed, RunsTyped, RunId
  <1> USE DEF RunBecomes, RunAfter, Run, RunIs, RunGoto, RunEnds
  <1>2. Callback(k) => \/ RunBecomes(k, RunAfter(k, "processing", "settle", runs[k].correct, runs[k].credited))
                      \/ RunBecomes(k, RunAfter(k, "completed", runs[k].pc, runs[k].correct, runs[k].credited))
    BY <1>1 DEF Callback
  <1>3. Grade(k) => \/ RunBecomes(k, RunAfter(k, "processing", "commit", TRUE, runs[k].credited))
                   \/ RunBecomes(k, RunAfter(k, "completed", "idle", runs[k].correct, runs[k].credited))
    BY <1>1 DEF Grade
  <1>4. ASSUME NEW pc, RunIs(k, "commit") \/ RunIs(k, "reveal") \/ RunIs(k, "complete"), RunGoto(k, pc)
        PROVE  RunBecomes(k, RunAfter(k, "processing", pc, runs[k].correct, runs[k].credited))
    BY <1>1, <1>4
  <1>5. RunEnds(k) => RunBecomes(k, RunAfter(k, "completed", "idle", runs[k].correct, runs[k].credited))
    BY <1>1
  <1>6. Credit(k) => RunBecomes(k, RunAfter(k, "completed", "idle", runs[k].correct, TRUE))
    BY <1>1 DEF Credit
  <1>7. LoseRun(k) => RunBecomes(k, RunAfter(k, "failed", "idle", runs[k].correct, runs[k].credited))
    BY <1>1 DEF LoseRun
  <1>8. QED
    BY <1>2, <1>3, <1>4, <1>5, <1>6, <1>7

\* A new status for a row.
LEMMA StatusSet ==
  ASSUME Typed, NEW r \in RowId, Len(tasks') >= Len(tasks),
         NEW status \in {"failed", "settling", "completed", "error"}, SetStatus(r, status)
  PROVE  /\ RowsTyped' /\ Len(rows') = Len(rows)
         /\ rows'[r] = [rows[r] EXCEPT !.status = status]
         /\ \A q \in RowId : q # r => rows'[q] = rows[q]
  <1> DEFINE new == [rows[r] EXCEPT !.status = status]
  <1>1. rows[r] \in Row /\ rows[r].onchainId \in 0 .. Len(tasks)
    BY DEF Typed, RowsTyped
  <1>2. new \in Row /\ new.onchainId \in 0 .. Len(tasks)
    BY <1>1 DEF Row
  <1>3. RowBecomes(r, new)
    BY DEF RowBecomes, SetStatus
  <1> HIDE DEF new
  <1>4. QED
    BY <1>2, <1>3, RowMoved DEF new

\* What commit and reveal do: the call goes through and the run moves on, or it
\* does not and the row is an error.
LEMMA SettleCallCases ==
  ASSUME Typed, NEW k \in RunId, NEW pc \in {"commit", "reveal"}, NEW op \in {"commit", "reveal"},
         NEW next \in {"reveal", "complete"}, SettleCall(k, pc, op, next)
  PROVE  LET r == runs[k].row
             i == rows[r].onchainId
         IN  /\ r \in RowId /\ i \in 0 .. MaxRows /\ RunIs(k, pc)
             /\ UNCHANGED sessions
             /\ \/ /\ Confirmed(Op(op, r, i)) /\ UNCHANGED rows
                   /\ RunBecomes(k, RunAfter(k, "processing", next, runs[k].correct, runs[k].credited))
                \/ /\ Thrown(Op(op, r, i)) /\ SetStatus(r, "error")
                   /\ RunBecomes(k, RunAfter(k, "completed", "idle", runs[k].correct, runs[k].credited))
  <1>1. /\ runs[k].row \in RowId /\ rows[runs[k].row].onchainId \in 0 .. Len(tasks)
        /\ Len(tasks) \in 0 .. MaxRows /\ MaxRows \in Nat
    BY VerifiedTaskAssumption DEF Typed, RowsTyped, TasksTyped, RunsTyped
  <1>2. RunIs(k, pc) /\ (RunIs(k, "commit") \/ RunIs(k, "reveal"))
    BY DEF SettleCall
  <1> DEFINE r == runs[k].row
             i == rows[r].onchainId
  <1>3. /\ UNCHANGED sessions
        /\ \/ Confirmed(Op(op, r, i)) /\ RunGoto(k, next) /\ UNCHANGED rows
           \/ Thrown(Op(op, r, i)) /\ SetStatus(r, "error") /\ RunEnds(k)
    BY DEF SettleCall
  <1>4. /\ RunGoto(k, next) =>
             RunBecomes(k, RunAfter(k, "processing", next, runs[k].correct, runs[k].credited))
        /\ RunEnds(k) =>
             RunBecomes(k, RunAfter(k, "completed", "idle", runs[k].correct, runs[k].credited))
    BY <1>2, RunWrites
  <1>5. QED
    BY <1>1, <1>2, <1>3, <1>4

\* Every step of a callback keeps the types.
LEMMA RunStepTyped ==
  ASSUME Typed, NEW k \in RunId, RunStep(k)
  PROVE  Typed' /\ Len(rows') = Len(rows)
  <1>1. /\ runs[k].row \in RowId /\ runs[k] \in Run
        /\ Len(rows) \in Nat /\ Len(tasks) \in Nat
        /\ runs[k].correct \in BOOLEAN /\ runs[k].credited \in BOOLEAN
        /\ runs[k].pc \in {"idle", "settle", "commit", "reveal", "complete", "credit"}
    BY VerifiedTaskAssumption DEF Typed, RowsTyped, TasksTyped, RunsTyped, Run
  <1>2. \A status \in {"running", "processing", "completed", "failed"} :
        \A pc \in {"idle", "settle", "commit", "reveal", "complete", "credit"} :
        \A correct, credited \in BOOLEAN :
          Len(rows') = Len(rows) /\ RunBecomes(k, RunAfter(k, status, pc, correct, credited))
            => RunsTyped'
    BY <1>1, RunAfterType, RunMoved
  <1>3. CASE UNCHANGED <<tasks, late, sessions>> /\ (Callback(k) \/ Credit(k) \/ LoseRun(k))
    <2>1. UNCHANGED rows /\ Grown
      BY <1>1, <1>3 DEF Callback, Credit, LoseRun, Grown
    <2>2. RunsTyped'
      BY <1>1, <1>2, <1>3, <2>1, RunWrites
    <2>3. QED
      BY <1>3, <2>1, <2>2, Unmoved DEF Typed
  <1>4. CASE Grade(k) \/ Complete(k)
    <2>1. PICK status \in {"settling", "failed", "completed"} :
            UNCHANGED <<tasks, late, sessions>> /\ SetStatus(runs[k].row, status)
      BY <1>4 DEF Grade, Complete
    <2>2. RowsTyped' /\ Len(rows') = Len(rows) /\ Grown
      <3>1. Len(tasks') >= Len(tasks)
        BY <1>1, <2>1
      <3>2. RowsTyped' /\ Len(rows') = Len(rows)
        BY <1>1, <2>1, <3>1, StatusSet
      <3>3. QED
        BY <1>1, <3>1, <3>2 DEF Grown
    <2>3. RunsTyped'
      <3>1. CASE Grade(k)
        BY <1>1, <1>2, <2>2, <3>1, RunWrites
      <3>2. CASE Complete(k)
        BY <1>1, <1>2, <2>2, <3>2, RunWrites DEF Complete
      <3>3. QED
        BY <1>4, <3>1, <3>2
    <2>4. QED
      BY <2>1, <2>2, <2>3, Unmoved DEF Typed
  <1>5. CASE Commit(k) \/ Reveal(k)
    <2>1. PICK op \in {"commit", "reveal"}, next \in {"reveal", "complete"} :
            SettleCall(k, op, op, next)
      BY <1>5 DEF Commit, Reveal
    <2> DEFINE r == runs[k].row
               i == rows[r].onchainId
    <2>2. /\ r \in RowId /\ i \in 0 .. MaxRows /\ UNCHANGED sessions
          /\ \/ /\ Confirmed(Op(op, r, i)) /\ UNCHANGED rows
                /\ RunBecomes(k, RunAfter(k, "processing", next, runs[k].correct, runs[k].credited))
             \/ /\ Thrown(Op(op, r, i)) /\ SetStatus(r, "error")
                /\ RunBecomes(k, RunAfter(k, "completed", "idle", runs[k].correct, runs[k].credited))
      BY <2>1, SettleCallCases
    <2>3. Len(rows') = Len(rows) /\ (UNCHANGED rows \/ RowsTyped')
      <3>1. CASE UNCHANGED rows
        BY <3>1
      <3>2. CASE SetStatus(r, "error") /\ Thrown(Op(op, r, i))
        <4>1. Len(tasks') >= Len(tasks)
          BY <1>1, <3>2 DEF Thrown
        <4>2. QED
          BY <1>1, <3>2, <4>1, StatusSet
      <3>3. QED
        BY <2>2, <3>1, <3>2
    <2>4. Grown /\ TasksTyped' /\ LateTyped'
      BY <2>2, <2>3, CallTyped
    <2>5. RunsTyped'
      BY <1>1, <1>2, <2>1, <2>2, <2>3
    <2>6. QED
      BY <2>2, <2>3, <2>4, <2>5, Unmoved DEF Typed
  <1>6. QED
    BY <1>3, <1>4, <1>5 DEF RunStep, Callback, Credit, LoseRun

\* So does a late operation that lands.
LEMMA LandCases ==
  ASSUME Typed, NEW o \in late, Land(o)
  PROVE  /\ UNCHANGED <<rows, runs, sessions>> /\ late' = late \ {o}
         /\ o.op \in {"post", "commit", "reveal", "cancel"} /\ o.row \in RowId
         /\ UNCHANGED tasks \/ Calls(o.op, o.row, o.task)
  BY DEF Land, Executes, Calls, Typed, LateTyped, Operation

LEMMA LandTyped ==
  ASSUME Typed, NEW o \in late, Land(o)
  PROVE  Typed'
  <1>1. /\ UNCHANGED <<rows, runs, sessions>> /\ late' = late \ {o}
        /\ o.op \in {"post", "commit", "reveal", "cancel"} /\ o.row \in RowId
        /\ UNCHANGED tasks \/ Calls(o.op, o.row, o.task)
    BY LandCases
  <1>2. o.task \in 0 .. MaxRows
    BY DEF Typed, LateTyped, Operation
  <1>3. Grown /\ TasksTyped'
    <2>1. CASE UNCHANGED tasks
      BY <1>1, <2>1, VerifiedTaskAssumption DEF Typed, RowsTyped, TasksTyped, Grown, TaskId, RowId
    <2>2. CASE Calls(o.op, o.row, o.task)
      <3>1. /\ tasks' \in Seq(Task) /\ Len(tasks') \in 0 .. MaxRows
            /\ \A t \in TaskId : tasks'[t] \in Task /\ tasks'[t].row = tasks[t].row
            /\ \/ Len(tasks') = Len(tasks)
               \/ /\ Len(tasks') = Len(tasks) + 1
                  /\ tasks'[Len(tasks')] = [row |-> o.row, by |-> 0, status |-> "Open"]
        BY <1>1, <2>2, CallTasks
      <3>2. /\ Len(rows) \in 0 .. MaxRows /\ Len(tasks) \in Nat /\ MaxRows \in Nat
            /\ \A t \in TaskId : tasks[t].row \in RowId
        BY VerifiedTaskAssumption DEF Typed, RowsTyped, TasksTyped
      <3>3. [row |-> o.row, by |-> 0, status |-> "Open"] \in Task /\ RowId' = RowId
        BY <1>1, <3>2 DEF Task, RowId
      <3>4. ASSUME NEW t \in TaskId'
            PROVE  tasks'[t] \in Task /\ tasks'[t].row \in RowId'
        BY <1>1, <3>1, <3>2, <3>3 DEF TaskId
      <3>5. QED
        BY <1>1, <3>1, <3>2, <3>4 DEF TasksTyped, Grown
    <2>3. QED
      BY <1>1, <2>1, <2>2
  <1>4. LateTyped'
    BY <1>1 DEF Typed, LateTyped, RowId
  <1>5. QED
    BY <1>1, <1>3, <1>4, Unmoved DEF Typed

LEMMA TypedInit == Init => Typed
  <1> SUFFICES ASSUME Init PROVE Typed
    OBVIOUS
  <1>1. Idle \in SessionState /\ Idle.pc = "idle" /\ Idle.id = 0
    BY VerifiedTaskAssumption DEF Idle, SessionState
  <1>2. QED
    BY <1>1, VerifiedTaskAssumption
       DEF Init, Typed, RowsTyped, TasksTyped, RunsTyped, LateTyped, SessionsTyped,
           RowId, TaskId, RunId

LEMMA TypedStep == Typed /\ [Next]_vars => Typed'
  <1> SUFFICES ASSUME Typed, [Next]_vars PROVE Typed'
    OBVIOUS
  <1>1. CASE UNCHANGED vars
    <2>1. Grown /\ UNCHANGED <<rows, tasks, runs, late, sessions>>
      BY <1>1, VerifiedTaskAssumption DEF vars, Grown, Typed, RowsTyped, TasksTyped
    <2>2. QED
      BY <2>1, Unmoved DEF Typed
  <1>2. QED
    BY <1>1, SessionStepTyped, RunStepTyped, LandTyped DEF Next

\* The verified tasks' state always has its type, and no row, task, run, session
\* or late operation names one that does not exist.
THEOREM VerifiedTaskTypeOK == Spec => [](TypeOK /\ Typed)
  <1>1. QED
    BY TypedInit, TypedStep, TypedImpliesTypeOK, PTL DEF Spec

-----------------------------------------------------------------------------
(***************************************************************************)
(* What a step does to the runs, to the operations in the air and to the   *)
(* tasks.                                                                  *)
(***************************************************************************)
Underway == {"commit", "reveal", "complete", "credit"}

LEMMA RunsStep ==
  ASSUME Typed, [Next]_vars
  PROVE  /\ Len(runs') >= Len(runs)
         /\ \A k \in RunId :
              /\ runs'[k].row = runs[k].row
              /\ runs[k].correct => runs'[k].correct
              /\ runs'[k].pc \in Underway => runs'[k].correct \/ runs[k].pc \in Underway
              /\ runs'[k].pc \in {"complete", "credit"} \/ runs'[k].credited
                   => \/ runs[k].pc \in {"complete", "credit"} \/ runs[k].credited
                      \/ runs[k].pc = "reveal" /\ Reveal(k)
         /\ \A k \in RunId' \ RunId : runs'[k].pc = "idle" /\ ~runs'[k].credited
  <1>1. Len(runs) \in Nat /\ \A k \in RunId : runs[k] \in Run
    BY VerifiedTaskAssumption DEF Typed, RunsTyped
  <1>2. CASE UNCHANGED runs
    BY <1>1, <1>2 DEF RunId
  <1>3. ASSUME NEW u \in Session, DispatchSolve(u)
        PROVE  /\ Len(runs') = Len(runs) + 1
               /\ \A k \in RunId : runs'[k] = runs[k]
               /\ runs'[Len(runs) + 1].pc = "idle" /\ ~runs'[Len(runs) + 1].credited
    <2> DEFINE run == [row |-> RowOf(u), status |-> "running", pc |-> "idle",
                       correct |-> FALSE, credited |-> FALSE]
    <2>1. runs' = Append(runs, run) /\ runs \in Seq(Run) /\ run \in Run
      <3>1. sessions[u].row \in 1 .. MaxRows
        BY <1>3, VerifiedTaskAssumption
           DEF DispatchSolve, At, Typed, SessionsTyped, RowsTyped, RowId
      <3>2. QED
        BY <1>3, <3>1 DEF DispatchSolve, Run, RowOf, Typed, RunsTyped
    <2>2. run.pc = "idle" /\ ~run.credited
      OBVIOUS
    <2> HIDE DEF run
    <2>3. QED
      BY <2>1, <2>2, Appended DEF RunId
  <1>4. ASSUME NEW k \in RunId, RunStep(k)
        PROVE  /\ Len(runs') = Len(runs)
               /\ \A l \in RunId : l # k => runs'[l] = runs[l]
               /\ runs'[k].row = runs[k].row
               /\ runs[k].correct => runs'[k].correct
               /\ runs'[k].pc \in Underway => runs'[k].correct \/ runs[k].pc \in Underway
               /\ runs'[k].pc \in {"complete", "credit"} \/ runs'[k].credited
                    => \/ runs[k].pc \in {"complete", "credit"} \/ runs[k].credited
                       \/ runs[k].pc = "reveal" /\ Reveal(k)
    <2>1. /\ runs[k].correct \in BOOLEAN /\ runs[k].credited \in BOOLEAN
          /\ runs[k].pc \in {"idle", "settle", "commit", "reveal", "complete", "credit"}
          /\ Len(rows) \in Nat
      BY <1>1, VerifiedTaskAssumption DEF Run, Typed, RowsTyped
    <2>2. Len(rows') = Len(rows)
      BY <1>4, RunStepTyped
    <2>3. \A status \in {"running", "processing", "completed", "failed"} :
          \A pc \in {"idle", "settle", "commit", "reveal", "complete", "credit"} :
          \A correct, credited \in BOOLEAN :
            RunBecomes(k, RunAfter(k, status, pc, correct, credited)) =>
              /\ Len(runs') = Len(runs)
              /\ \A l \in RunId : l # k => runs'[l] = runs[l]
              /\ runs'[k].row = runs[k].row /\ runs'[k].pc = pc
              /\ runs'[k].correct = correct /\ runs'[k].credited = credited
      <3> SUFFICES ASSUME NEW status \in {"running", "processing", "completed", "failed"},
                          NEW pc \in {"idle", "settle", "commit", "reveal", "complete", "credit"},
                          NEW correct \in BOOLEAN, NEW credited \in BOOLEAN,
                          RunBecomes(k, RunAfter(k, status, pc, correct, credited))
                   PROVE  /\ Len(runs') = Len(runs)
                          /\ \A l \in RunId : l # k => runs'[l] = runs[l]
                          /\ runs'[k].row = runs[k].row /\ runs'[k].pc = pc
                          /\ runs'[k].correct = correct /\ runs'[k].credited = credited
        OBVIOUS
      <3>1. PICK run : run = RunAfter(k, status, pc, correct, credited)
        OBVIOUS
      <3>2. /\ run \in Run /\ run.row = runs[k].row /\ run.pc = pc
            /\ run.correct = correct /\ run.credited = credited
        BY <3>1, RunAfterType
      <3>3. RunBecomes(k, run) /\ Len(rows') >= Len(rows)
        BY <2>1, <2>2, <3>1
      <3>4. QED
        BY <3>2, <3>3, RunMoved
    <2>4. CASE Callback(k) \/ Credit(k) \/ LoseRun(k) \/ Grade(k)
      <3>1. CASE Callback(k)
        <4>1. \/ RunBecomes(k, RunAfter(k, "processing", "settle", runs[k].correct, runs[k].credited))
              \/ RunBecomes(k, RunAfter(k, "completed", runs[k].pc, runs[k].correct, runs[k].credited))
          BY <3>1, RunWrites
        <4>2. QED
          BY <2>1, <2>3, <4>1 DEF Underway
      <3>2. CASE Credit(k)
        BY <2>1, <2>3, <3>2, RunWrites DEF Underway, Credit, RunIs
      <3>3. CASE LoseRun(k)
        BY <2>1, <2>3, <3>3, RunWrites DEF Underway, RunIs
      <3>4. CASE Grade(k)
        BY <2>1, <2>3, <3>4, RunWrites DEF Underway, RunIs
      <3>5. QED
        BY <2>4, <3>1, <3>2, <3>3, <3>4
    <2>5. CASE Complete(k)
      BY <2>1, <2>3, <2>5, RunWrites DEF Underway, Complete, RunIs
    <2>6. CASE Commit(k)
      BY <2>1, <2>3, <2>6, SettleCallCases DEF Underway, Commit, RunIs
    <2>7. CASE Reveal(k)
      BY <2>1, <2>3, <2>7, SettleCallCases DEF Underway, Reveal, RunIs
    <2>8. QED
      BY <1>4, <2>4, <2>5, <2>6, <2>7 DEF RunStep
  <1>5. CASE \E u \in Session : SessionStep(u) /\ ~DispatchSolve(u)
    <2>1. UNCHANGED runs
      BY <1>5 DEF SessionStep, StartVerifiedTask, PostVerifiedTask, ReadTaskCount, RecordProposal,
         LinkSolve, AcceptProposal, RejectProposal, ReclaimVerifiedTask, RefundDeclined,
         MarkDeclined, CancelReclaimed, MarkReclaimed, Mark, LoseSession
    <2>2. QED
      BY <1>2, <2>1
  <1>6. CASE \E u \in Session : DispatchSolve(u)
    BY <1>1, <1>3, <1>6 DEF RunId
  <1>7. CASE \E k \in RunId : RunStep(k)
    BY <1>1, <1>4, <1>7 DEF RunId
  <1>8. CASE (\E o \in late : Land(o)) \/ UNCHANGED vars
    BY <1>2, <1>8 DEF Land, vars
  <1>9. QED
    BY <1>5, <1>6, <1>7, <1>8 DEF Next

\* Every step calls the chain at most once: for a session that posts or cancels,
\* for a run that commits or reveals, or when a late operation lands.
Called(op, r, i) ==
  \/ Calls(op, r, i) /\ UNCHANGED late
  \/ UNCHANGED tasks /\ late \subseteq late' /\ late' \subseteq late \cup {Op(op, r, i)}

SessionCalls(u) ==
  /\ UNCHANGED rows
  /\ \/ PostVerifiedTask(u) /\ Called("post", sessions[u].row, 0)
     \/ (RefundDeclined(u) \/ CancelReclaimed(u))
          /\ Called("cancel", sessions[u].row, sessions[u].id)

RunCalls(k) ==
  \/ Commit(k) /\ RunIs(k, "commit")
       /\ Called("commit", runs[k].row, rows[runs[k].row].onchainId)
  \/ Reveal(k) /\ RunIs(k, "reveal")
       /\ Called("reveal", runs[k].row, rows[runs[k].row].onchainId)

LEMMA ChainCalls ==
  ASSUME Typed, [Next]_vars
  PROVE  \/ UNCHANGED <<tasks, late>>
         \/ \E u \in Session : sessions[u].row \in RowId /\ SessionCalls(u)
         \/ \E k \in RunId : RunCalls(k)
         \/ \E o \in late : Land(o)
  <1>1. \A op, r, i : Confirmed(Op(op, r, i)) \/ Thrown(Op(op, r, i)) => Called(op, r, i)
    BY DEF Confirmed, Thrown, Executes, Called, Calls, Op
  <1>2. ASSUME NEW u \in Session, SessionStep(u)
        PROVE  UNCHANGED <<tasks, late>> \/ (sessions[u].row \in RowId /\ SessionCalls(u))
    <2>1. CASE PostVerifiedTask(u) \/ RefundDeclined(u) \/ CancelReclaimed(u)
      <3>1. UNCHANGED rows /\ sessions[u].row \in RowId
        BY <2>1 DEF PostVerifiedTask, RefundDeclined, CancelReclaimed, At, Typed, SessionsTyped
      <3>2. QED
        BY <1>1, <2>1, <3>1
           DEF PostVerifiedTask, RefundDeclined, CancelReclaimed, SessionCalls, RowOf
    <2>2. CASE ~(PostVerifiedTask(u) \/ RefundDeclined(u) \/ CancelReclaimed(u))
      BY <1>2, <2>2 DEF SessionStep, StartVerifiedTask, ReadTaskCount, RecordProposal,
         DispatchSolve, LinkSolve, AcceptProposal, RejectProposal, ReclaimVerifiedTask,
         MarkDeclined, MarkReclaimed, Mark, LoseSession
    <2>3. QED
      BY <2>1, <2>2
  <1>3. ASSUME NEW k \in RunId, RunStep(k)
        PROVE  UNCHANGED <<tasks, late>> \/ RunCalls(k)
    <2>1. CASE Commit(k)
      BY <1>1, <2>1 DEF Commit, SettleCall, RunCalls
    <2>2. CASE Reveal(k)
      BY <1>1, <2>2 DEF Reveal, SettleCall, RunCalls
    <2>3. CASE ~Commit(k) /\ ~Reveal(k)
      BY <1>3, <2>3 DEF RunStep, Callback, Grade, Complete, Credit, LoseRun
    <2>4. QED
      BY <2>1, <2>2, <2>3
  <1>4. QED
    BY <1>2, <1>3 DEF Next, vars

-----------------------------------------------------------------------------
\* Only correct work gets as far as the chain, and what it sent there late was
\* sent for it.
Graded ==
  /\ \A k \in RunId : runs[k].pc \in Underway => runs[k].correct
  /\ \A o \in late : o.op \in {"commit", "reveal"} =>
       \E k \in RunId : runs[k].row = o.row /\ runs[k].correct

LEMMA GradedInit == Init => Graded
  BY DEF Init, Graded, RunId

LEMMA GradedStep ==
  ASSUME Typed, Graded, [Next]_vars
  PROVE  Graded'
  <1>1. Len(runs) \in Nat /\ Len(runs') \in Nat /\ RunId \subseteq RunId'
    BY RunsStep, TypedStep, VerifiedTaskAssumption DEF Typed, RunsTyped, RunId
  <1>2. ASSUME NEW k \in RunId', runs'[k].pc \in Underway
        PROVE  runs'[k].correct
    BY <1>2, RunsStep DEF Graded, Underway
  <1>3. ASSUME NEW o \in late', o.op \in {"commit", "reveal"}
        PROVE  \E k \in RunId : runs[k].row = o.row /\ runs[k].correct
    <2>1. CASE o \in late
      BY <1>3, <2>1 DEF Graded
    <2>2. ASSUME NEW u \in Session, SessionCalls(u)
          PROVE  o \in late
      BY <1>3, <2>2 DEF SessionCalls, Called, Op
    <2>3. ASSUME NEW k \in RunId, RunCalls(k), o \notin late
          PROVE  runs[k].row = o.row /\ runs[k].correct
      <3>1. runs[k].pc \in Underway
        BY <2>3 DEF RunCalls, RunIs, Underway
      <3>2. QED
        BY <2>3, <3>1 DEF RunCalls, Called, Op, Graded
    <2>4. QED
      BY <2>1, <2>2, <2>3, ChainCalls DEF Land
  <1>4. QED
    BY <1>1, <1>2, <1>3, RunsStep DEF Graded

\* What a call can complete is a task of the row it was made for.
LEMMA CompletedByReveal ==
  ASSUME Typed, [Next]_vars, NEW t \in TaskId', tasks'[t].status = "Completed"
  PROVE  /\ t \in TaskId /\ tasks'[t].row = tasks[t].row
         /\ \/ tasks[t].status = "Completed"
            \/ \E o \in late : o.op = "reveal" /\ o.row = tasks[t].row
            \/ \E k \in RunId : runs[k].pc = "reveal" /\ runs[k].row = tasks[t].row
  <1>1. Len(tasks) \in Nat
    BY VerifiedTaskAssumption DEF Typed, TasksTyped
  <1>2. CASE UNCHANGED tasks
    BY <1>2 DEF TaskId
  <1>3. ASSUME NEW op \in {"post", "commit", "reveal", "cancel"}, NEW r \in RowId, NEW i,
               Calls(op, r, i)
        PROVE  /\ t \in TaskId /\ tasks'[t].row = tasks[t].row
               /\ tasks[t].status # "Completed" => op = "reveal" /\ tasks[t].row = r
    <2>1. /\ \A s \in TaskId :
               /\ tasks'[s].row = tasks[s].row
               /\ tasks'[s].status = "Completed" /\ tasks[s].status # "Completed"
                    => op = "reveal" /\ tasks[s].row = r
          /\ \/ Len(tasks') = Len(tasks)
             \/ /\ Len(tasks') = Len(tasks) + 1
                /\ tasks'[Len(tasks')] = [row |-> r, by |-> 0, status |-> "Open"]
      BY <1>3, CallTasks
    <2>2. t \in TaskId
      BY <1>1, <2>1 DEF TaskId
    <2>3. QED
      BY <2>1, <2>2
  <1>4. ASSUME NEW u \in Session, sessions[u].row \in RowId, SessionCalls(u)
        PROVE  t \in TaskId /\ tasks'[t].row = tasks[t].row /\ tasks[t].status = "Completed"
    BY <1>2, <1>3, <1>4 DEF SessionCalls, Called
  <1>5. ASSUME NEW k \in RunId, RunCalls(k)
        PROVE  /\ t \in TaskId /\ tasks'[t].row = tasks[t].row
               /\ \/ tasks[t].status = "Completed"
                  \/ runs[k].pc = "reveal" /\ runs[k].row = tasks[t].row
    <2>1. runs[k].row \in RowId
      BY DEF Typed, RunsTyped
    <2>2. QED
      BY <1>2, <1>3, <1>5, <2>1 DEF RunCalls, Called, RunIs
  <1>6. ASSUME NEW o \in late, Land(o)
        PROVE  /\ t \in TaskId /\ tasks'[t].row = tasks[t].row
               /\ tasks[t].status = "Completed" \/ (o.op = "reveal" /\ o.row = tasks[t].row)
    BY <1>2, <1>3, <1>6, LandCases
  <1>7. QED
    BY <1>2, <1>4, <1>5, <1>6, ChainCalls

\* Whatever races, dies or lands late, the escrow of a row is released only for
\* a run of that row whose work was graded correct.
THEOREM VerifiedTaskPaidForOwnRow == Spec => []PaidForOwnRow
  <1>1. Init => PaidForOwnRow
    BY DEF Init, PaidForOwnRow, TaskId
  <1>2. Typed /\ Graded /\ PaidForOwnRow /\ [Next]_vars => PaidForOwnRow'
    <2> SUFFICES ASSUME Typed, Graded, PaidForOwnRow, [Next]_vars,
                        NEW t \in TaskId', tasks'[t].status = "Completed"
                 PROVE  \E k \in RunId' : runs'[k].row = tasks'[t].row /\ runs'[k].correct
      BY DEF PaidForOwnRow
    <2>1. /\ t \in TaskId /\ tasks'[t].row = tasks[t].row
          /\ \/ tasks[t].status = "Completed"
             \/ \E o \in late : o.op = "reveal" /\ o.row = tasks[t].row
             \/ \E k \in RunId : runs[k].pc = "reveal" /\ runs[k].row = tasks[t].row
      BY CompletedByReveal
    <2>2. \E k \in RunId : runs[k].row = tasks[t].row /\ runs[k].correct
      BY <2>1 DEF PaidForOwnRow, Graded, Underway
    <2>3. RunId \subseteq RunId'
      BY RunsStep, TypedStep, VerifiedTaskAssumption DEF Typed, RunsTyped, RunId
    <2>4. QED
      BY <2>1, <2>2, <2>3, RunsStep
  <1>3. Typed /\ Graded /\ [Next]_vars => Graded'
    BY GradedStep
  <1>4. QED
    BY <1>1, <1>2, <1>3, GradedInit, TypedInit, TypedStep, PTL DEF Spec

-----------------------------------------------------------------------------
(***************************************************************************)
(* One task for one row, and its id with that row.                         *)
(***************************************************************************)
\* A task keeps its row, and once completed it stays completed.
LEMMA TasksKeep ==
  ASSUME Typed, [Next]_vars, NEW t \in TaskId
  PROVE  /\ t \in TaskId' /\ tasks'[t].row = tasks[t].row
         /\ tasks[t].status = "Completed" => tasks'[t].status = "Completed"
  <1>1. Len(tasks) \in Nat
    BY VerifiedTaskAssumption DEF Typed, TasksTyped
  <1>2. CASE UNCHANGED tasks
    BY <1>2 DEF TaskId
  <1>3. ASSUME NEW op \in {"post", "commit", "reveal", "cancel"}, NEW r \in RowId, NEW i,
               Calls(op, r, i)
        PROVE  /\ t \in TaskId' /\ tasks'[t].row = tasks[t].row
               /\ tasks[t].status = "Completed" => tasks'[t].status = "Completed"
    <2>1. /\ tasks'[t].row = tasks[t].row
          /\ tasks[t].status = "Completed" => tasks'[t].status = "Completed"
          /\ Len(tasks') = Len(tasks) \/ Len(tasks') = Len(tasks) + 1
      BY <1>3, CallTasks
    <2>2. QED
      BY <1>1, <2>1 DEF TaskId
  <1>4. ASSUME NEW k \in RunId, RunCalls(k)
        PROVE  /\ t \in TaskId' /\ tasks'[t].row = tasks[t].row
               /\ tasks[t].status = "Completed" => tasks'[t].status = "Completed"
    <2>1. runs[k].row \in RowId
      BY DEF Typed, RunsTyped
    <2>2. QED
      BY <1>2, <1>3, <1>4, <2>1 DEF RunCalls, Called
  <1>5. QED
    BY <1>2, <1>3, <1>4, ChainCalls, LandCases DEF SessionCalls, Called

\* Where a session stands after a step of its own.
After(u, pc, r, i) ==
  /\ sessions'[u].pc = pc /\ sessions'[u].row = r /\ sessions'[u].id = i
  /\ \A v \in Session : v # u => sessions'[v] = sessions[v]

LEMMA SessionWrites ==
  ASSUME Typed, NEW u \in Session
  PROVE  /\ End(u) => After(u, "idle", 0, 0)
         /\ \A pc : Goto(u, pc) => After(u, pc, sessions[u].row, sessions[u].id)
         /\ \A pc : \A r \in RowId : Begin(u, pc, r) => After(u, pc, r, rows[r].onchainId)
         /\ \A pc : Begin(u, pc, Len(rows) + 1) => After(u, pc, Len(rows) + 1, 0)
         /\ ReadTaskCount(u) => \E pc \in {"record", "dispatch"} :
                                  After(u, pc, sessions[u].row, Len(tasks))
         /\ DispatchSolve(u) => \/ After(u, "link", sessions[u].row, sessions[u].id)
                                \/ After(u, "idle", 0, 0)
  <1>1. /\ sessions \in [Session -> SessionState] /\ sessions[u] \in SessionState
        /\ Len(rows) \in Nat /\ Len(rows) + 1 \notin RowId
    BY VerifiedTaskAssumption DEF Typed, SessionsTyped, RowsTyped, RowId
  <1>2. End(u) => After(u, "idle", 0, 0)
    BY <1>1 DEF End, Idle, After
  <1>3. \A pc : Goto(u, pc) => After(u, pc, sessions[u].row, sessions[u].id)
    BY <1>1 DEF Goto, After, SessionState
  <1>4. \A pc : \A r \in RowId : Begin(u, pc, r) => After(u, pc, r, rows[r].onchainId)
    BY <1>1 DEF Begin, After
  <1>5. \A pc : Begin(u, pc, Len(rows) + 1) => After(u, pc, Len(rows) + 1, 0)
    BY <1>1 DEF Begin, After
  <1>6. ReadTaskCount(u) => \E pc \in {"record", "dispatch"} :
                              After(u, pc, sessions[u].row, Len(tasks))
    BY <1>1 DEF ReadTaskCount, After, SessionState
  <1>7. DispatchSolve(u) => \/ After(u, "link", sessions[u].row, sessions[u].id)
                            \/ After(u, "idle", 0, 0)
    BY <1>1, <1>2 DEF DispatchSolve, After, SessionState
  <1>8. QED
    BY <1>2, <1>3, <1>4, <1>5, <1>6, <1>7

\* What a step means for the posts: one starts, goes through, is left behind by
\* its session or lands late; or nothing is posted and nobody starts to.
TasksStay ==
  Len(tasks') = Len(tasks) /\ \A t \in TaskId : tasks'[t].row = tasks[t].row
TaskPosted(r) ==
  /\ Len(tasks') = Len(tasks) + 1 /\ tasks'[Len(tasks')].row = r
  /\ \A t \in TaskId : tasks'[t].row = tasks[t].row
NoNewPost == \A o \in late' : o.op = "post" => o \in late

PostStarts(u) ==
  /\ PostsOverlap \/ ~PostUnderWay
  /\ UNCHANGED <<tasks, late>>
  /\ After(u, "post", Len(rows) + 1, 0)
PostGoes(u) ==
  /\ At(u, "post") /\ TaskPosted(sessions[u].row) /\ NoNewPost
  /\ After(u, "count", sessions[u].row, sessions[u].id)
PostThrown(u) ==
  /\ At(u, "post") /\ TasksStay
  /\ \A o \in late' : o.op = "post" => o \in late \/ o = Op("post", sessions[u].row, 0)
  /\ After(u, "idle", 0, 0)
PostLands(o) ==
  /\ o.op = "post" /\ TaskPosted(o.row)
  /\ late' = late \ {o} /\ UNCHANGED sessions
PostQuiet ==
  /\ TasksStay /\ NoNewPost
  /\ \A u \in Session : sessions'[u].pc \in {"post", "count"} => sessions'[u] = sessions[u]

LEMMA CalledTasks ==
  ASSUME Typed, NEW op \in {"post", "commit", "reveal", "cancel"}, NEW r \in RowId, NEW i,
         Called(op, r, i)
  PROVE  /\ op # "post" => TasksStay /\ NoNewPost
         /\ Calls(op, r, i) /\ op = "post" => TaskPosted(r)
         /\ UNCHANGED tasks => TasksStay
         /\ UNCHANGED late => NoNewPost
  <1>1. CASE UNCHANGED tasks
    <2>1. TasksStay
      BY <1>1 DEF TasksStay, TaskId
    <2>2. ~(Calls(op, r, i) /\ op = "post")
      <3>1. ASSUME Calls(op, r, i), op = "post"
            PROVE  Len(tasks') = Len(tasks) + 1
        BY <3>1, CallTasks
      <3>2. QED
        BY <1>1, <3>1, VerifiedTaskAssumption DEF Typed, TasksTyped
    <2>3. QED
      BY <2>1, <2>2 DEF Called, NoNewPost, Op
  <1>2. CASE Calls(op, r, i) /\ UNCHANGED late
    <2>1. /\ \A t \in TaskId : tasks'[t].row = tasks[t].row
          /\ \/ Len(tasks') = Len(tasks) /\ op # "post"
             \/ /\ op = "post" /\ Len(tasks') = Len(tasks) + 1
                /\ tasks'[Len(tasks')] = [row |-> r, by |-> 0, status |-> "Open"]
      BY <1>2, CallTasks
    <2>2. QED
      BY <1>2, <2>1 DEF TasksStay, TaskPosted, NoNewPost, TaskId
  <1>3. QED
    BY <1>1, <1>2 DEF Called

LEMMA PostSteps ==
  ASSUME Typed, [Next]_vars
  PROVE  \/ \E u \in Session : PostStarts(u) \/ PostGoes(u) \/ PostThrown(u)
         \/ \E o \in late : PostLands(o)
         \/ PostQuiet
  <1>1. UNCHANGED tasks => TasksStay
    BY DEF TasksStay
  <1>2. UNCHANGED late => NoNewPost
    BY DEF NoNewPost
  <1>3. ASSUME NEW u \in Session, SessionStep(u)
        PROVE  PostStarts(u) \/ PostGoes(u) \/ PostThrown(u) \/ PostQuiet
    <2>1. ASSUME NEW pc, NEW r, NEW i, After(u, pc, r, i), pc \notin {"post", "count"},
                 TasksStay, NoNewPost
          PROVE  PostQuiet
      BY <2>1 DEF After, PostQuiet
    <2>2. ASSUME NEW q \in Participant, NEW s \in Participant, StartVerifiedTask(u, q, s)
          PROVE  PostStarts(u)
      BY <2>2, SessionWrites DEF StartVerifiedTask, PostStarts
    <2>3. CASE PostVerifiedTask(u)
      <3>1. sessions[u].row \in RowId
        BY <2>3 DEF PostVerifiedTask, At, Typed, SessionsTyped
      <3>2. CASE Confirmed(Op("post", RowOf(u), 0)) /\ Goto(u, "count")
        <4>1. Calls("post", sessions[u].row, 0) /\ UNCHANGED late
          BY <3>2 DEF Confirmed, Executes, Calls, Op, RowOf
        <4>2. TaskPosted(sessions[u].row)
          BY <3>1, <4>1, CalledTasks DEF Called
        <4>3. QED
          BY <1>2, <2>3, <3>2, <4>1, <4>2, SessionWrites DEF PostVerifiedTask, PostGoes
      <3>3. CASE Thrown(Op("post", RowOf(u), 0)) /\ End(u)
        BY <1>1, <2>3, <3>3, SessionWrites DEF PostVerifiedTask, PostThrown, Thrown, RowOf
      <3>4. QED
        BY <2>3, <3>2, <3>3 DEF PostVerifiedTask
    <2>4. CASE RefundDeclined(u) \/ CancelReclaimed(u)
      <3>1. sessions[u].row \in RowId
        BY <2>4 DEF RefundDeclined, CancelReclaimed, At, Typed, SessionsTyped
      <3>2. Called("cancel", sessions[u].row, sessions[u].id)
        BY <2>4 DEF RefundDeclined, CancelReclaimed, Confirmed, Thrown, Executes, Called, Calls, Op, RowOf
      <3>3. TasksStay /\ NoNewPost
        BY <3>1, <3>2, CalledTasks
      <3>4. Goto(u, "declined") \/ Goto(u, "reclaimed") \/ End(u)
        BY <2>4 DEF RefundDeclined, CancelReclaimed
      <3>5. QED
        BY <2>1, <3>3, <3>4, SessionWrites
    <2>5. CASE ReadTaskCount(u) \/ DispatchSolve(u)
      <3>1. TasksStay /\ NoNewPost
        BY <1>1, <1>2, <2>5 DEF ReadTaskCount, DispatchSolve
      <3>2. QED
        BY <2>1, <2>5, <3>1, SessionWrites
    <2>6. ASSUME NEW r \in RowId,
                 AcceptProposal(u, r) \/ RejectProposal(u, r) \/ ReclaimVerifiedTask(u, r)
          PROVE  PostQuiet
      <3>1. TasksStay /\ NoNewPost
        BY <1>1, <1>2, <2>6 DEF AcceptProposal, RejectProposal, ReclaimVerifiedTask
      <3>2. QED
        BY <2>1, <2>6, <3>1, SessionWrites DEF AcceptProposal, RejectProposal, ReclaimVerifiedTask
    <2>7. CASE \/ RecordProposal(u) \/ LinkSolve(u) \/ MarkDeclined(u) \/ MarkReclaimed(u)
               \/ LoseSession(u)
      <3>1. TasksStay /\ NoNewPost /\ End(u)
        BY <1>1, <1>2, <2>7
           DEF RecordProposal, LinkSolve, MarkDeclined, MarkReclaimed, Mark, LoseSession
      <3>2. QED
        BY <2>1, <3>1, SessionWrites
    <2>8. QED
      BY <1>3, <2>2, <2>3, <2>4, <2>5, <2>6, <2>7 DEF SessionStep
  <1>4. ASSUME NEW k \in RunId, RunStep(k)
        PROVE  PostQuiet
    <2>1. UNCHANGED sessions
      BY <1>4 DEF RunStep, Callback, Grade, Commit, Reveal, SettleCall, Complete, Credit, LoseRun
    <2>2. TasksStay /\ NoNewPost
      <3>1. runs[k].row \in RowId /\ rows[runs[k].row].onchainId \in 0 .. Len(tasks)
        BY DEF Typed, RunsTyped, RowsTyped
      <3>2. CASE Commit(k) \/ Reveal(k)
        <4>1. \A op, r, i : Confirmed(Op(op, r, i)) \/ Thrown(Op(op, r, i)) => Called(op, r, i)
          BY DEF Confirmed, Thrown, Executes, Called, Calls, Op
        <4>2. PICK op \in {"commit", "reveal"} :
                Called(op, runs[k].row, rows[runs[k].row].onchainId)
          BY <3>2, <4>1 DEF Commit, Reveal, SettleCall
        <4>3. QED
          BY <3>1, <4>2, CalledTasks
      <3>3. CASE ~Commit(k) /\ ~Reveal(k)
        BY <1>1, <1>2, <1>4, <3>3 DEF RunStep, Callback, Grade, Complete, Credit, LoseRun
      <3>4. QED
        BY <3>2, <3>3
    <2>3. QED
      BY <2>1, <2>2 DEF PostQuiet
  <1>5. ASSUME NEW o \in late, Land(o)
        PROVE  PostLands(o) \/ PostQuiet
    <2>1. /\ UNCHANGED sessions /\ late' = late \ {o}
          /\ o.op \in {"post", "commit", "reveal", "cancel"} /\ o.row \in RowId
          /\ UNCHANGED tasks \/ Calls(o.op, o.row, o.task)
      BY <1>5, LandCases
    <2>2. NoNewPost
      BY <2>1 DEF NoNewPost
    <2>3. CASE UNCHANGED tasks
      BY <1>1, <2>1, <2>2, <2>3 DEF PostQuiet
    <2>4. CASE Calls(o.op, o.row, o.task)
      <3>1. /\ \A t \in TaskId : tasks'[t].row = tasks[t].row
            /\ \/ Len(tasks') = Len(tasks) /\ o.op # "post"
               \/ /\ o.op = "post" /\ Len(tasks') = Len(tasks) + 1
                  /\ tasks'[Len(tasks')] = [row |-> o.row, by |-> 0, status |-> "Open"]
        BY <2>1, <2>4, CallTasks
      <3>2. QED
        BY <2>1, <2>2, <3>1 DEF PostLands, PostQuiet, TaskPosted, TasksStay, TaskId
    <2>5. QED
      BY <2>1, <2>3, <2>4
  <1>6. CASE UNCHANGED vars
    BY <1>1, <1>2, <1>6 DEF vars, PostQuiet
  <1>7. QED
    BY <1>3, <1>4, <1>5, <1>6 DEF Next

\* A row is posted once: while its post is under way no task of it is there.
PostedOnce ==
  /\ \A s, t \in TaskId : tasks[s].row = tasks[t].row => s = t
  /\ \A u \in Session : At(u, "post") =>
       /\ \A t \in TaskId : tasks[t].row # sessions[u].row
       /\ \A o \in late : o.op = "post" => o.row # sessions[u].row
       /\ \A v \in Session : At(v, "post") /\ sessions[v].row = sessions[u].row => v = u
  /\ \A o \in late : o.op = "post" =>
       /\ \A t \in TaskId : tasks[t].row # o.row
       /\ \A p \in late : p.op = "post" /\ p.row = o.row => p = o

LEMMA PostedOnceStep ==
  ASSUME Typed, PostedOnce, [Next]_vars
  PROVE  PostedOnce'
  <1>1. /\ Len(tasks) \in Nat /\ Len(rows) \in Nat
        /\ \A t \in TaskId : tasks[t].row \in RowId
        /\ \A o \in late : o.row \in RowId
        /\ \A u \in Session : sessions[u].pc # "idle" => sessions[u].row \in RowId
        /\ Len(rows) + 1 \notin RowId
    BY VerifiedTaskAssumption DEF Typed, RowsTyped, TasksTyped, LateTyped, SessionsTyped, RowId
  <1>2. ASSUME NEW u \in Session, PostStarts(u)
        PROVE  PostedOnce'
    BY <1>1, <1>2 DEF PostStarts, After, PostedOnce, At, TaskId
  <1>3. ASSUME NEW r, TaskPosted(r)
        PROVE  /\ TaskId' = TaskId \cup {Len(tasks')} /\ Len(tasks') \notin TaskId
               /\ tasks'[Len(tasks')].row = r /\ \A t \in TaskId : tasks'[t].row = tasks[t].row
    BY <1>1, <1>3 DEF TaskPosted, TaskId
  <1>4. ASSUME NEW u \in Session, PostGoes(u)
        PROVE  PostedOnce'
    BY <1>3, <1>4 DEF PostGoes, After, PostedOnce, At, NoNewPost
  <1>5. TasksStay => TaskId' = TaskId /\ \A t \in TaskId : tasks'[t].row = tasks[t].row
    BY <1>1 DEF TasksStay, TaskId
  <1>6. ASSUME NEW u \in Session, PostThrown(u)
        PROVE  PostedOnce'
    BY <1>5, <1>6 DEF PostThrown, After, PostedOnce, At, Op
  <1>7. ASSUME NEW o \in late, PostLands(o)
        PROVE  PostedOnce'
    BY <1>3, <1>7 DEF PostLands, PostedOnce, At
  <1>8. CASE PostQuiet
    BY <1>5, <1>8 DEF PostQuiet, PostedOnce, At, NoNewPost
  <1>9. QED
    BY <1>2, <1>4, <1>6, <1>7, <1>8, PostSteps

\* Without overlap there is one post in the air at a time, and the last task on
\* chain is the one a session has just posted.
OnePost ==
  /\ \A u, v \in Session : {sessions[u].pc, sessions[v].pc} \subseteq {"post", "count"} => u = v
  /\ \A o \in late : o.op = "post" =>
       /\ \A u \in Session : sessions[u].pc \notin {"post", "count"}
       /\ \A p \in late : p.op = "post" => p = o
  /\ \A u \in Session : At(u, "count") =>
       Len(tasks) # 0 /\ tasks[Len(tasks)].row = sessions[u].row

LEMMA OnePostStep ==
  ASSUME Typed, OnePost, ~PostsOverlap, [Next]_vars
  PROVE  OnePost'
  <1>1. Len(tasks) \in Nat /\ (Len(tasks) # 0 => Len(tasks) \in TaskId)
    BY VerifiedTaskAssumption DEF Typed, TasksTyped, TaskId
  <1>2. ASSUME NEW u \in Session, PostStarts(u)
        PROVE  OnePost'
    BY <1>2 DEF PostStarts, PostUnderWay, After, OnePost, At
  <1>3. ASSUME NEW u \in Session, PostGoes(u)
        PROVE  OnePost'
    BY <1>1, <1>3 DEF PostGoes, After, OnePost, At, NoNewPost, TaskPosted
  <1>4. ASSUME NEW u \in Session, PostThrown(u)
        PROVE  OnePost'
    BY <1>1, <1>4 DEF PostThrown, After, OnePost, At, TasksStay
  <1>5. ASSUME NEW o \in late, PostLands(o)
        PROVE  OnePost'
    BY <1>5 DEF PostLands, OnePost, At
  <1>6. CASE PostQuiet
    BY <1>1, <1>6 DEF PostQuiet, OnePost, At, NoNewPost, TasksStay
  <1>7. QED
    BY <1>2, <1>3, <1>4, <1>5, <1>6, PostSteps

\* Where the id a row or a session carries can come from: the count read after
\* the post, a row that has it, or a session that has it.
LEMMA IdsStep ==
  ASSUME Typed, [Next]_vars
  PROVE  /\ \A u \in Session : sessions'[u].pc \in {"record", "dispatch", "link"} =>
              \/ /\ sessions[u].pc \in {"record", "dispatch", "link"}
                 /\ sessions'[u].row = sessions[u].row /\ sessions'[u].id = sessions[u].id
              \/ /\ At(u, "count") /\ sessions'[u].row = sessions[u].row
                 /\ sessions'[u].id = Len(tasks)
              \/ \E r \in RowId : /\ rows[r].status = "awaiting_solver"
                                  /\ sessions'[u].row = r /\ sessions'[u].id = rows[r].onchainId
         /\ \A r \in RowId :
              \/ /\ rows'[r].onchainId = rows[r].onchainId
                 /\ rows'[r].status = "awaiting_solver" => rows[r].status = "awaiting_solver"
              \/ \E u \in Session : /\ sessions[u].pc \in {"record", "link"} /\ sessions[u].row = r
                                    /\ rows'[r].onchainId = sessions[u].id
         /\ \A r \in RowId' \ RowId : rows'[r].onchainId = 0 /\ rows'[r].status # "awaiting_solver"
  <1> DEFINE SessionIds(u) ==
               sessions'[u].pc \in {"record", "dispatch", "link"} =>
                 \/ /\ sessions[u].pc \in {"record", "dispatch", "link"}
                    /\ sessions'[u].row = sessions[u].row /\ sessions'[u].id = sessions[u].id
                 \/ /\ At(u, "count") /\ sessions'[u].row = sessions[u].row
                    /\ sessions'[u].id = Len(tasks)
                 \/ \E r \in RowId : /\ rows[r].status = "awaiting_solver"
                                     /\ sessions'[u].row = r /\ sessions'[u].id = rows[r].onchainId
             RowIds(r) ==
               \/ /\ rows'[r].onchainId = rows[r].onchainId
                  /\ rows'[r].status = "awaiting_solver" => rows[r].status = "awaiting_solver"
               \/ \E u \in Session : /\ sessions[u].pc \in {"record", "link"} /\ sessions[u].row = r
                                     /\ rows'[r].onchainId = sessions[u].id
             NewRows == \A r \in RowId' \ RowId :
                          rows'[r].onchainId = 0 /\ rows'[r].status # "awaiting_solver"
             Ids == /\ \A u \in Session : SessionIds(u)
                    /\ \A r \in RowId : RowIds(r)
                    /\ NewRows
  <1>1. /\ Len(rows) \in Nat /\ rows \in Seq(Row) /\ \A r \in RowId : rows[r] \in Row
        /\ Len(tasks) \in Nat /\ MaxRows \in Nat
    BY VerifiedTaskAssumption DEF Typed, RowsTyped, TasksTyped
  <1>2. UNCHANGED sessions => \A u \in Session : SessionIds(u)
    OBVIOUS
  <1>3. UNCHANGED rows => (\A r \in RowId : RowIds(r)) /\ NewRows
    BY DEF RowId
  <1>4. ASSUME NEW u \in Session, NEW pc, NEW r, NEW i, After(u, pc, r, i), SessionIds(u)
        PROVE  \A v \in Session : SessionIds(v)
    BY <1>4 DEF After
  <1>5. ASSUME NEW u \in Session, SessionStep(u)
        PROVE  Ids
    <2>1. ASSUME NEW q \in Participant, NEW s \in Participant, StartVerifiedTask(u, q, s)
          PROVE  Ids
      <3> DEFINE row == [requester |-> q, solver |-> s, onchainId |-> 0,
                         run |-> 0, status |-> "posting"]
      <3>1. rows' = Append(rows, row) /\ row \in Row
        BY <1>1, <2>1, VerifiedTaskAssumption DEF StartVerifiedTask, Row
      <3>2. row.onchainId = 0 /\ row.status = "posting"
        OBVIOUS
      <3> HIDE DEF row
      <3>3. /\ Len(rows') = Len(rows) + 1 /\ \A r \in 1 .. Len(rows) : rows'[r] = rows[r]
            /\ rows'[Len(rows) + 1] = row
        BY <1>1, <3>1, Appended
      <3>4. (\A r \in RowId : RowIds(r)) /\ NewRows
        BY <1>1, <3>2, <3>3 DEF RowId
      <3>5. After(u, "post", Len(rows) + 1, 0)
        BY <2>1, SessionWrites DEF StartVerifiedTask
      <3>6. QED
        BY <1>4, <3>4, <3>5 DEF After
    <2>2. CASE PostVerifiedTask(u) \/ RefundDeclined(u) \/ CancelReclaimed(u) \/ LoseSession(u)
      <3>1. UNCHANGED rows /\ \E pc \in {"count", "declined", "reclaimed"} : Goto(u, pc) \/ End(u)
        BY <2>2 DEF PostVerifiedTask, RefundDeclined, CancelReclaimed, LoseSession
      <3>2. \E pc \in {"idle", "count", "declined", "reclaimed"} : \E r, i : After(u, pc, r, i)
        BY <3>1, SessionWrites
      <3>3. QED
        BY <1>3, <1>4, <3>1, <3>2 DEF After
    <2>3. CASE ReadTaskCount(u)
      <3>1. UNCHANGED rows /\ At(u, "count")
            /\ \E pc \in {"record", "dispatch"} : After(u, pc, sessions[u].row, Len(tasks))
        BY <2>3, SessionWrites DEF ReadTaskCount
      <3>2. QED
        BY <1>3, <1>4, <3>1 DEF After
    <2>4. CASE DispatchSolve(u)
      <3>1. /\ UNCHANGED rows /\ At(u, "dispatch")
            /\ \/ After(u, "link", sessions[u].row, sessions[u].id)
               \/ After(u, "idle", 0, 0)
        BY <2>4, SessionWrites DEF DispatchSolve
      <3>2. SessionIds(u)
        BY <3>1 DEF After, At
      <3>3. QED
        BY <1>3, <1>4, <3>1, <3>2
    <2>5. ASSUME NEW r \in RowId,
                 AcceptProposal(u, r) \/ RejectProposal(u, r) \/ ReclaimVerifiedTask(u, r)
          PROVE  Ids
      <3>1. UNCHANGED rows
        BY <2>5 DEF AcceptProposal, RejectProposal, ReclaimVerifiedTask
      <3>2. \/ rows[r].status = "awaiting_solver" /\ After(u, "dispatch", r, rows[r].onchainId)
            \/ After(u, "decline", r, rows[r].onchainId)
            \/ After(u, "reclaim", r, rows[r].onchainId)
        BY <2>5, SessionWrites DEF AcceptProposal, RejectProposal, ReclaimVerifiedTask
      <3>3. SessionIds(u)
        BY <3>2 DEF After
      <3>4. QED
        BY <1>3, <1>4, <3>1, <3>2, <3>3
    <2>6. CASE RecordProposal(u) \/ LinkSolve(u)
      <3> DEFINE q == rows[RowOf(u)]
                 recorded == [q EXCEPT !.onchainId = sessions[u].id, !.status = "awaiting_solver"]
                 linked == [q EXCEPT !.run = sessions[u].run, !.onchainId = sessions[u].id,
                                     !.status = "solving"]
      <3>1. PICK new \in {recorded, linked} :
              /\ RowOf(u) \in RowId /\ End(u) /\ sessions[u].pc \in {"record", "link"}
              /\ RowBecomes(RowOf(u), new)
        BY <2>6 DEF RecordProposal, LinkSolve, At, RowOf, RowBecomes, Typed, SessionsTyped
      <3>2. new.onchainId = sessions[u].id
        <4>1. q \in Row
          BY <1>1, <3>1
        <4>2. QED
          BY <3>1, <4>1 DEF Row
      <3> HIDE DEF recorded, linked
      <3>3. /\ Len(rows') = Len(rows) /\ rows'[RowOf(u)].onchainId = sessions[u].id
            /\ \A r \in RowId : r # RowOf(u) => rows'[r] = rows[r]
        BY <1>1, <3>1, <3>2 DEF RowBecomes, RowId
      <3>4. (\A r \in RowId : RowIds(r)) /\ NewRows
        BY <3>1, <3>3 DEF RowId, RowOf
      <3>5. QED
        BY <1>4, <3>1, <3>4, SessionWrites DEF After
    <2>7. CASE MarkDeclined(u) \/ MarkReclaimed(u)
      <3>1. PICK status \in {"declined", "error"} :
              /\ RowOf(u) \in RowId /\ End(u)
              /\ RowBecomes(RowOf(u), [rows[RowOf(u)] EXCEPT !.status = status])
        BY <2>7 DEF MarkDeclined, MarkReclaimed, Mark, At, RowOf, RowBecomes, Typed, SessionsTyped
      <3>2. /\ Len(rows') = Len(rows) /\ rows'[RowOf(u)].onchainId = rows[RowOf(u)].onchainId
            /\ rows'[RowOf(u)].status = status
            /\ \A r \in RowId : r # RowOf(u) => rows'[r] = rows[r]
        BY <1>1, <3>1 DEF RowBecomes, RowId, Row
      <3>3. (\A r \in RowId : RowIds(r)) /\ NewRows
        BY <3>1, <3>2 DEF RowId
      <3>4. QED
        BY <1>4, <3>1, <3>3, SessionWrites DEF After
    <2>8. QED
      BY <1>5, <2>1, <2>2, <2>3, <2>4, <2>5, <2>6, <2>7 DEF SessionStep
  <1>6. ASSUME NEW k \in RunId, RunStep(k)
        PROVE  Ids
    <2>1. UNCHANGED sessions
      BY <1>6 DEF RunStep, Callback, Grade, Commit, Reveal, SettleCall, Complete, Credit, LoseRun
    <2>2. \/ UNCHANGED rows
          \/ \E status \in {"failed", "settling", "completed", "error"} :
               SetStatus(runs[k].row, status)
      BY <1>6 DEF RunStep, Callback, Grade, Commit, Reveal, SettleCall, Complete, Credit, LoseRun
    <2>3. ASSUME NEW status \in {"failed", "settling", "completed", "error"},
                 SetStatus(runs[k].row, status)
          PROVE  (\A r \in RowId : RowIds(r)) /\ NewRows
      <3>1. runs[k].row \in RowId
        BY DEF Typed, RunsTyped
      <3>2. /\ Len(rows') = Len(rows)
            /\ rows'[runs[k].row].onchainId = rows[runs[k].row].onchainId
            /\ rows'[runs[k].row].status = status
            /\ \A r \in RowId : r # runs[k].row => rows'[r] = rows[r]
        BY <1>1, <2>3, <3>1 DEF SetStatus, RowId, Row
      <3>3. QED
        BY <3>1, <3>2 DEF RowId
    <2>4. QED
      BY <1>2, <1>3, <2>1, <2>2, <2>3
  <1>7. CASE (\E o \in late : Land(o)) \/ UNCHANGED vars
    BY <1>2, <1>3, <1>7 DEF Land, vars
  <1>8. QED
    BY <1>5, <1>6, <1>7 DEF Next

\* Every id in use is the id of the row's own task.
OwnTask ==
  /\ RecordedTaskIsOwn
  /\ \A r \in RowId : rows[r].status = "awaiting_solver" => rows[r].onchainId # 0
  /\ \A u \in Session : sessions[u].pc \in {"record", "dispatch", "link"} =>
       sessions[u].id # 0 /\ tasks[sessions[u].id].row = sessions[u].row
  /\ \A k \in RunId : runs[k].pc \in {"commit", "reveal"} => rows[runs[k].row].onchainId # 0

\* A run gets to the chain for a row that has an id.
LEMMA CommitsWithId ==
  ASSUME Typed, [Next]_vars, NEW k \in RunId, runs'[k].pc \in {"commit", "reveal"},
         runs[k].pc \notin {"commit", "reveal"}
  PROVE  rows[runs[k].row].onchainId # 0
  <1>1. runs[k] \in Run /\ runs[k].correct \in BOOLEAN /\ runs[k].credited \in BOOLEAN
        /\ runs[k].pc \in {"idle", "settle", "commit", "reveal", "complete", "credit"}
        /\ Len(rows) \in Nat
    BY VerifiedTaskAssumption DEF Typed, RunsTyped, RowsTyped, Run
  <1>2. CASE UNCHANGED runs
    BY <1>2
  <1>3. ASSUME NEW u \in Session, DispatchSolve(u)
        PROVE  FALSE
    <2> DEFINE run == [row |-> RowOf(u), status |-> "running", pc |-> "idle",
                       correct |-> FALSE, credited |-> FALSE]
    <2>1. runs' = Append(runs, run) /\ runs \in Seq(Run)
      BY <1>3 DEF DispatchSolve, Typed, RunsTyped
    <2> HIDE DEF run
    <2>2. runs'[k] = runs[k]
      BY <2>1, AppendProperties DEF RunId
    <2>3. QED
      BY <2>2
  <1>4. ASSUME NEW l \in RunId, RunStep(l)
        PROVE  rows[runs[k].row].onchainId # 0
    <2>1. Len(rows') >= Len(rows)
      BY <1>1, <1>4, RunStepTyped
    <2>2. \A status \in {"running", "processing", "completed", "failed"} :
          \A pc \in {"idle", "settle", "commit", "reveal", "complete", "credit"} :
          \A correct, credited \in BOOLEAN :
            RunBecomes(l, RunAfter(l, status, pc, correct, credited)) =>
              /\ l # k => runs'[k] = runs[k]
              /\ l = k => runs'[k].pc = pc
      BY <2>1, RunAfterType, RunMoved
    <2>3. /\ runs[l].correct \in BOOLEAN /\ runs[l].credited \in BOOLEAN
          /\ runs[l].pc \in {"idle", "settle", "commit", "reveal", "complete", "credit"}
      BY DEF Typed, RunsTyped, Run
    <2>4. CASE Callback(l) \/ Credit(l) \/ LoseRun(l)
      BY <2>2, <2>3, <2>4, RunWrites
    <2>5. CASE Complete(l)
      BY <2>2, <2>3, <2>5, RunWrites DEF Complete
    <2>6. CASE Commit(l)
      BY <2>2, <2>3, <2>6, SettleCallCases DEF Commit, RunIs
    <2>7. CASE Reveal(l)
      BY <2>2, <2>3, <2>7, SettleCallCases DEF Reveal, RunIs
    <2>8. CASE Grade(l)
      <3>1. CASE RunEnds(l)
        BY <2>2, <2>3, <3>1, RunWrites
      <3>2. CASE rows[runs[l].row].onchainId # 0
        BY <2>2, <2>3, <2>8, <3>2, RunWrites
      <3>3. QED
        BY <2>8, <3>1, <3>2 DEF Grade
    <2>9. QED
      BY <1>4, <2>4, <2>5, <2>6, <2>7, <2>8 DEF RunStep
  <1>5. CASE \E u \in Session : SessionStep(u) /\ ~DispatchSolve(u)
    <2>1. UNCHANGED runs
      BY <1>5 DEF SessionStep, StartVerifiedTask, PostVerifiedTask, ReadTaskCount, RecordProposal,
         LinkSolve, AcceptProposal, RejectProposal, ReclaimVerifiedTask, RefundDeclined,
         MarkDeclined, CancelReclaimed, MarkReclaimed, Mark, LoseSession
    <2>2. QED
      BY <1>2, <2>1
  <1>6. CASE (\E o \in late : Land(o)) \/ UNCHANGED vars
    BY <1>2, <1>6 DEF Land, vars
  <1>7. QED
    BY <1>3, <1>4, <1>5, <1>6 DEF Next

LEMMA OwnTaskStep ==
  ASSUME Typed, OnePost, OwnTask, [Next]_vars
  PROVE  OwnTask'
  <1>1. /\ Len(tasks) \in Nat /\ Len(rows) \in Nat /\ Len(rows') \in Nat
        /\ \A r \in RowId : rows[r].onchainId \in 0 .. Len(tasks)
        /\ \A u \in Session : sessions[u].id \in 0 .. Len(tasks)
    BY VerifiedTaskAssumption, TypedStep DEF Typed, RowsTyped, TasksTyped, SessionsTyped
  <1>2. \A t \in TaskId : t \in TaskId' /\ tasks'[t].row = tasks[t].row
    BY TasksKeep
  <1>3. \A i \in 0 .. Len(tasks) : i # 0 => i \in TaskId
    BY <1>1 DEF TaskId
  <1>4. ASSUME NEW u \in Session, sessions'[u].pc \in {"record", "dispatch", "link"}
        PROVE  sessions'[u].id # 0 /\ tasks'[sessions'[u].id].row = sessions'[u].row
    <2>1. CASE /\ sessions[u].pc \in {"record", "dispatch", "link"}
               /\ sessions'[u].row = sessions[u].row /\ sessions'[u].id = sessions[u].id
      BY <1>1, <1>2, <1>3, <2>1 DEF OwnTask
    <2>2. CASE /\ At(u, "count") /\ sessions'[u].row = sessions[u].row
               /\ sessions'[u].id = Len(tasks)
      BY <1>1, <1>2, <1>3, <2>2 DEF OnePost
    <2>3. ASSUME NEW r \in RowId, rows[r].status = "awaiting_solver",
                 sessions'[u].row = r, sessions'[u].id = rows[r].onchainId
          PROVE  sessions'[u].id # 0 /\ tasks'[sessions'[u].id].row = sessions'[u].row
      BY <1>1, <1>2, <1>3, <2>3 DEF OwnTask, RecordedTaskIsOwn
    <2>4. QED
      BY <1>4, <2>1, <2>2, <2>3, IdsStep
  <1>5. ASSUME NEW r \in RowId
        PROVE  /\ rows'[r].onchainId # 0 => tasks'[rows'[r].onchainId].row = r
               /\ rows'[r].status = "awaiting_solver" => rows'[r].onchainId # 0
               /\ rows[r].onchainId # 0 => rows'[r].onchainId # 0
    <2>1. CASE /\ rows'[r].onchainId = rows[r].onchainId
               /\ rows'[r].status = "awaiting_solver" => rows[r].status = "awaiting_solver"
      BY <1>1, <1>2, <1>3, <2>1 DEF OwnTask, RecordedTaskIsOwn
    <2>2. ASSUME NEW u \in Session, sessions[u].pc \in {"record", "link"}, sessions[u].row = r,
                 rows'[r].onchainId = sessions[u].id
          PROVE  rows'[r].onchainId # 0 /\ tasks'[rows'[r].onchainId].row = r
      BY <1>1, <1>2, <1>3, <2>2 DEF OwnTask
    <2>3. QED
      BY <2>1, <2>2, IdsStep
  <1>6. RecordedTaskIsOwn' /\ \A r \in RowId' : rows'[r].status = "awaiting_solver" => rows'[r].onchainId # 0
    BY <1>5, IdsStep DEF RecordedTaskIsOwn
  <1>7. ASSUME NEW k \in RunId', runs'[k].pc \in {"commit", "reveal"}
        PROVE  rows'[runs'[k].row].onchainId # 0
    <2>1. k \in RunId /\ runs'[k].row = runs[k].row /\ runs[k].row \in RowId
      BY <1>7, RunsStep DEF Typed, RunsTyped
    <2>2. rows[runs[k].row].onchainId # 0
      BY <1>7, <2>1, CommitsWithId DEF OwnTask
    <2>3. QED
      BY <1>5, <2>1, <2>2
  <1>8. QED
    BY <1>4, <1>6, <1>7 DEF OwnTask

\* A run that has revealed, credited or on its way to be, has paid its row's
\* task, and no other run of the row has.
Revealed(k) == runs[k].credited \/ runs[k].pc \in {"complete", "credit"}
Paid ==
  /\ \A k \in RunId : Revealed(k) =>
       \E t \in TaskId : tasks[t].row = runs[k].row /\ tasks[t].status = "Completed"
  /\ \A k, l \in RunId : Revealed(k) /\ Revealed(l) /\ runs[k].row = runs[l].row => k = l

\* A run that reveals has its row's task completed, which was not before.
LEMMA RevealCompletes ==
  ASSUME Typed, PostedOnce, OwnTask, NEW k \in RunId, Reveal(k), ~Revealed(k), Revealed(k)'
  PROVE  /\ \A t \in TaskId : tasks[t].row = runs[k].row => tasks[t].status # "Completed"
         /\ \E t \in TaskId : tasks[t].row = runs[k].row /\ tasks'[t].status = "Completed"
         /\ \A l \in RunId : l # k => runs'[l] = runs[l]
  <1> DEFINE r == runs[k].row
             i == rows[r].onchainId
  <1>1. /\ r \in RowId /\ i \in 0 .. Len(tasks) /\ Len(tasks) \in Nat /\ Len(rows) \in Nat
        /\ runs[k].correct \in BOOLEAN /\ runs[k].credited \in BOOLEAN
    BY VerifiedTaskAssumption DEF Typed, RunsTyped, RowsTyped, TasksTyped, Run
  <1>2. /\ RunIs(k, "reveal")
        /\ \/ /\ Confirmed(Op("reveal", r, i))
              /\ RunBecomes(k, RunAfter(k, "processing", "complete", runs[k].correct, runs[k].credited))
           \/ RunBecomes(k, RunAfter(k, "completed", "idle", runs[k].correct, runs[k].credited))
    BY SettleCallCases DEF Reveal
  <1>3. Len(rows') >= Len(rows)
    BY <1>1, RunStepTyped DEF RunStep
  <1>4. \A status \in {"processing", "completed"} : \A pc \in {"idle", "complete"} :
          RunBecomes(k, RunAfter(k, status, pc, runs[k].correct, runs[k].credited)) =>
            /\ \A l \in RunId : l # k => runs'[l] = runs[l]
            /\ runs'[k].pc = pc /\ runs'[k].credited = runs[k].credited
    BY <1>1, <1>3, RunAfterType, RunMoved
  <1>5. Confirmed(Op("reveal", r, i)) /\ \A l \in RunId : l # k => runs'[l] = runs[l]
    BY <1>2, <1>4 DEF Revealed
  <1>6. i \in TaskId /\ tasks[i].row = r
    BY <1>1, <1>2 DEF OwnTask, RecordedTaskIsOwn, RunIs, TaskId
  <1>7. Calls("reveal", r, i)
    BY <1>5 DEF Confirmed, Executes, Calls, Op
  <1>8. tasks[i].status = "Committed" /\ tasks'[i].status = "Completed"
    BY <1>1, <1>6, <1>7, CallTasks
  <1>9. QED
    BY <1>5, <1>6, <1>8 DEF PostedOnce

LEMMA PaidStep ==
  ASSUME Typed, PostedOnce, OwnTask, Paid, [Next]_vars
  PROVE  Paid'
  <1>1. \A t \in TaskId : /\ t \in TaskId' /\ tasks'[t].row = tasks[t].row
                          /\ tasks[t].status = "Completed" => tasks'[t].status = "Completed"
    BY TasksKeep
  <1>2. ASSUME NEW k \in RunId', Revealed(k)'
        PROVE  /\ k \in RunId /\ runs'[k].row = runs[k].row
               /\ ~Revealed(k) => Reveal(k)
    BY <1>2, RunsStep DEF Revealed
  <1>3. ASSUME NEW k \in RunId', Revealed(k)'
        PROVE  \E t \in TaskId' : tasks'[t].row = runs'[k].row /\ tasks'[t].status = "Completed"
    <2>1. CASE Revealed(k)
      BY <1>1, <1>2, <1>3, <2>1 DEF Paid
    <2>2. CASE ~Revealed(k)
      BY <1>1, <1>2, <1>3, <2>2, RevealCompletes
    <2>3. QED
      BY <2>1, <2>2
  <1>4. ASSUME NEW k \in RunId', NEW l \in RunId', Revealed(k)', Revealed(l)',
               runs'[k].row = runs'[l].row, k # l, ~Revealed(k)
        PROVE  FALSE
    <2>1. /\ k \in RunId /\ l \in RunId /\ Reveal(k)
          /\ runs'[k].row = runs[k].row /\ runs'[l].row = runs[l].row
      BY <1>2, <1>4
    <2>2. /\ \A t \in TaskId : tasks[t].row = runs[k].row => tasks[t].status # "Completed"
          /\ runs'[l] = runs[l]
      BY <1>4, <2>1, RevealCompletes
    <2>3. Revealed(l)
      BY <1>4, <2>2 DEF Revealed
    <2>4. QED
      BY <1>4, <2>1, <2>2, <2>3 DEF Paid
  <1>5. \A k, l \in RunId' :
          Revealed(k)' /\ Revealed(l)' /\ runs'[k].row = runs'[l].row => k = l
    BY <1>2, <1>4 DEF Paid
  <1>6. QED
    BY <1>3, <1>5 DEF Paid, Revealed

LEMMA PaidInit == Init => PostedOnce /\ OnePost /\ OwnTask /\ Paid
  BY DEF Init, PostedOnce, OnePost, OwnTask, RecordedTaskIsOwn, Paid, Revealed, At, Idle,
         RowId, TaskId, RunId

Once == PostedOnce /\ OnePost /\ OwnTask /\ Paid

LEMMA OnceHolds == ~PostsOverlap => (Spec => []Once)
  <1> SUFFICES ASSUME ~PostsOverlap PROVE Spec => []Once
    OBVIOUS
  <1>1. Typed /\ Once /\ [Next]_vars => Once'
    BY PostedOnceStep, OnePostStep, OwnTaskStep, PaidStep DEF Once
  <1>2. Init => Once
    BY PaidInit DEF Once
  <1>3. QED
    BY <1>1, <1>2, TypedInit, TypedStep, PTL DEF Spec

\* As long as no two posts are under way at once, the id recorded with a row is
\* the id of its own task.
THEOREM VerifiedTaskRecordedTaskIsOwn == ~PostsOverlap => (Spec => []RecordedTaskIsOwn)
  <1>1. Once => RecordedTaskIsOwn
    BY DEF Once, OwnTask
  <1>2. QED
    BY <1>1, OnceHolds, PTL

\* As long as no two posts are under way at once, a solver is credited once per
\* row and only for a row whose escrow has paid, whatever else races, dies or
\* lands late.
THEOREM VerifiedTaskCreditedIsPaidOnce == ~PostsOverlap => (Spec => []CreditedIsPaidOnce)
  <1>1. Once => CreditedIsPaidOnce
    BY DEF Once, Paid, Revealed, CreditedIsPaidOnce
  <1>2. QED
    BY <1>1, OnceHolds, PTL

-----------------------------------------------------------------------------
(***************************************************************************)
(* CreditLine: exposure is bounded and a default is recorded once.         *)
(***************************************************************************)
M == Max(Line)

LoanRow == [agent : Agent, amount : Draws, dueAt : Nat,
        status : {"active", "defaulted", "settled"}, vault : BOOLEAN]

Drawing == [at : {"draw", "insert"}, agent : Agent, amount : Draws, vault : BOOLEAN]
OnLoan == [at : {"repay", "settle", "claim", "defaulted"}, loan : Nat]
Scoring == [at : {"recalc"}, agent : Agent]
Recording == [at : {"row"}, agent : Agent, line : Line, available : Nat, publish : Nat]
Publishing == [at : {"publish"}, agent : Agent, publish : Nat]

\* What a request carries is still so: its loan exists, a draw called is the vault's,
\* and neither what it inserts nor what it publishes is above the largest line.
Carries(r) ==
  /\ r.at \in {"repay", "settle", "claim", "defaulted"} => r.loan \in LoanId
  /\ r.at = "draw" => r.vault
  /\ r.at = "insert" /\ ~r.vault => r.amount <= M
  /\ r.at \in {"row", "publish"} => r.publish <= M

LoansTyped ==
  /\ now \in Nat
  /\ loans \in Seq(LoanRow)
  /\ defaults \in Seq(Nat) /\ Len(defaults) = Len(loans)
  /\ line \in [Agent -> Line]
  /\ request \in [Request -> Requests]
  /\ creditLimit \in [Agent -> 0 .. M]
  /\ outstanding \in [Agent -> 0 .. M]

OpenOffVault(i) == IsOutstanding(i) /\ ~loans[i].vault
OffVault == [i \in LoanId |-> IF OpenOffVault(i) THEN loans[i].amount ELSE 0]

Insertion(s) == IF request[s].at = "insert" /\ ~request[s].vault THEN request[s].amount ELSE 0
Insertions == [s \in Request |-> Insertion(s)]

\* The books and the requests about to write into them.
Exposed == SumFunction(OffVault) + SumFunction(Insertions) <= Cardinality(Request) * M

\* An open loan bears no mark, and at most one sweep is about to make one.
Marked ==
  /\ \A i \in LoanId : defaults[i] <= 1 /\ (loans[i].status = "active" => defaults[i] = 0)
  /\ \A s \in Request : request[s].at = "defaulted" =>
       loans[request[s].loan].status # "active" /\ defaults[request[s].loan] = 0
  /\ \A s, t \in Request : s # t /\ request[s].at = "defaulted" /\ request[t].at = "defaulted"
                           => request[s].loan # request[t].loan

LoansInv == LoansTyped /\ (\A s \in Request : Carries(request[s])) /\ Exposed /\ Marked

LEMMA LargestLine ==
  ASSUME LoansAssumption PROVE M \in Nat /\ M \in Line /\ \A l \in Line : l \in Nat /\ l <= M
  <1>1. \E m \in Line : \A l \in Line : l <= m
    BY MaxIsMember DEF LoansAssumption
  <1>2. \E m \in Line : \A l \in Line : m >= l
    BY <1>1 DEF LoansAssumption
  <1>3. M \in Line /\ \A l \in Line : M >= l
    BY <1>2 DEF M, Max
  <1>4. QED
    BY <1>3 DEF LoansAssumption

LEMMA RequestKinds ==
  ASSUME NEW r \in Requests
  PROVE  /\ r.at = "idle" <=> r = NoRequest
         /\ r.at \in {"draw", "insert"} => r \in Drawing
         /\ r.at \in {"repay", "settle", "claim", "defaulted"} => r \in OnLoan
         /\ r.at = "recalc" => r \in Scoring
         /\ r.at = "row" => r \in Recording
         /\ r.at = "publish" => r \in Publishing
  <1>1. CASE r = NoRequest
    BY <1>1 DEF NoRequest
  <1>2. CASE r \in Drawing
    BY <1>2 DEF Drawing, NoRequest
  <1>3. CASE r \in OnLoan
    BY <1>3 DEF OnLoan, NoRequest
  <1>4. CASE r \in Scoring
    BY <1>4 DEF Scoring, NoRequest
  <1>5. CASE r \in Recording
    BY <1>5 DEF Recording, NoRequest
  <1>6. CASE r \in Publishing
    BY <1>6 DEF Publishing, NoRequest
  <1>7. r = NoRequest \/ r \in Drawing \/ r \in OnLoan \/ r \in Scoring \/ r \in Recording \/ r \in Publishing
    BY DEF Requests, Drawing, OnLoan, Scoring, Recording, Publishing
  <1>8. QED
    BY <1>1, <1>2, <1>3, <1>4, <1>5, <1>6, <1>7

LEMMA KindsAreRequests ==
  ASSUME NEW r
  PROVE  r \in Drawing \/ r \in OnLoan \/ r \in Scoring \/ r \in Recording \/ r \in Publishing \/ r = NoRequest
         => r \in Requests
  BY DEF Requests, Drawing, OnLoan, Scoring, Recording, Publishing

LEMMA LoanRows ==
  ASSUME LoansAssumption, LoansTyped
  PROVE  /\ IsFiniteSet(LoanId) /\ LoanId = 1 .. Len(loans) /\ Len(loans) \in Nat
         /\ \A i \in LoanId : /\ loans[i] \in LoanRow /\ loans[i].amount \in Nat
                              /\ loans[i].agent \in Agent /\ loans[i].dueAt \in Nat
                              /\ defaults[i] \in Nat
         /\ OffVault \in [LoanId -> Nat] /\ OffVault \in [LoanId -> Int]
         /\ SumFunction(OffVault) \in Nat
  <1>1. LoanId = 1 .. Len(loans) /\ Len(loans) \in Nat
    BY DEF LoansTyped, LoanId
  <1>2. IsFiniteSet(LoanId)
    BY <1>1, FS_Interval
  <1>3. ASSUME NEW i \in LoanId
        PROVE  /\ loans[i] \in LoanRow /\ loans[i].amount \in Nat
               /\ loans[i].agent \in Agent /\ loans[i].dueAt \in Nat
               /\ defaults[i] \in Nat
    <2>1. loans[i] \in LoanRow /\ defaults[i] \in Nat
      BY <1>1 DEF LoansTyped
    <2>2. PICK q \in LoanRow : q = loans[i]
      BY <2>1
    <2>3. q.amount \in Draws /\ q.agent \in Agent /\ q.dueAt \in Nat
      BY DEF LoanRow
    <2>4. q.amount \in Nat
      BY <2>3 DEF LoansAssumption
    <2>5. QED
      BY <2>1, <2>2, <2>3, <2>4
  <1>4. OffVault \in [LoanId -> Nat] /\ OffVault \in [LoanId -> Int]
    BY <1>3 DEF OffVault
  <1>5. QED
    BY <1>1, <1>2, <1>3, <1>4, SumNatural

LEMMA InsertionsTyped ==
  ASSUME LoansAssumption, LoansTyped, \A s \in Request : Carries(request[s])
  PROVE  /\ \A s \in Request : Insertion(s) \in Nat /\ Insertion(s) <= M
         /\ Insertions \in [Request -> Nat] /\ Insertions \in [Request -> Int]
         /\ SumFunction(Insertions) \in Nat
  <1>1. ASSUME NEW s \in Request PROVE Insertion(s) \in Nat /\ Insertion(s) <= M
    <2>1. CASE request[s].at = "insert" /\ ~request[s].vault
      <3>1. request[s] \in Drawing
        BY <2>1, RequestKinds DEF LoansTyped
      <3>2. request[s].amount \in Nat
        BY <3>1 DEF Drawing, LoansAssumption
      <3>3. QED
        BY <2>1, <3>2 DEF Insertion, Carries
    <2>2. CASE ~(request[s].at = "insert" /\ ~request[s].vault)
      BY <2>2, LargestLine DEF Insertion
    <2>3. QED
      BY <2>1, <2>2
  <1>2. Insertions \in [Request -> Nat] /\ Insertions \in [Request -> Int]
    BY <1>1 DEF Insertions
  <1>3. QED
    BY <1>1, <1>2, SumNatural DEF LoansAssumption

LEMMA LoansStart == ASSUME LoansAssumption, LoansInit PROVE LoansInv
  <1>1. PICK l \in Line : /\ line = [a \in Agent |-> l] /\ creditLimit = [a \in Agent |-> l]
    BY DEF LoansInit
  <1>2. l \in 0 .. M /\ 0 \in 0 .. M /\ M \in Nat
    BY LargestLine
  <1>3. loans = <<>> /\ defaults = <<>> /\ LoanId = {}
    BY DEF LoansInit, LoanId
  <1>4. request \in [Request -> Requests] /\ \A s \in Request : request[s] = NoRequest /\ request[s].at = "idle"
    BY DEF LoansInit, Requests, NoRequest
  <1>5. LoansTyped
    BY <1>1, <1>2, <1>3, <1>4 DEF LoansInit, VaultInit, LoansTyped
  <1>6. \A s \in Request : Carries(request[s])
    BY <1>4 DEF Carries
  <1>7. Marked
    BY <1>3, <1>4 DEF Marked
  <1>8. Exposed
    <2>1. OffVault \in [{} -> Int]
      BY <1>3 DEF OffVault
    <2>2. SumFunction(OffVault) = 0
      BY <2>1, SumEmpty
    <2>3. Insertions \in [Request -> Int] /\ \A s \in Request : Insertions[s] = 0
      BY <1>4 DEF Insertions, Insertion
    <2>4. SumFunction(Insertions) = 0
      BY <2>3, SumZero DEF LoansAssumption
    <2>5. Cardinality(Request) \in Nat
      BY FS_CardinalityType DEF LoansAssumption
    <2>6. QED
      BY <1>2, <2>2, <2>4, <2>5 DEF Exposed
  <1>9. QED
    BY <1>5, <1>6, <1>7, <1>8 DEF LoansInv

-----------------------------------------------------------------------------
\* One request moves: the sum of the insertions moves by what it inserts.
LEMMA InsertionsMove ==
  ASSUME LoansAssumption, LoansTyped, \A t \in Request : Carries(request[t]), NEW s \in Request,
         NEW n \in Nat, Insertion(s)' = n,
         \A t \in Request \ {s} : request'[t] = request[t]
  PROVE  SumFunction(Insertions') = SumFunction(Insertions) + (n - Insertion(s))
  <1>1. Insertions \in [Request -> Int] /\ \A t \in Request : Insertion(t) \in Nat
    BY InsertionsTyped
  <1>2. \A t \in Request \ {s} : Insertion(t)' = Insertion(t)
    BY DEF Insertion
  <1>3. /\ Insertions' \in [Request -> Int] /\ Insertions'[s] = n /\ Insertions[s] = Insertion(s)
        /\ \A t \in Request \ {s} : Insertions'[t] = Insertions[t]
    BY <1>1, <1>2 DEF Insertions
  <1>4. SumFunction(Insertions') = SumFunction(Insertions) + (Insertions'[s] - Insertions[s])
    BY <1>1, <1>3, SumChange DEF LoansAssumption
  <1>5. QED
    BY <1>3, <1>4

LEMMA Moved ==
  ASSUME LoansTyped, NEW s \in Request, NEW r \in Requests, request' = [request EXCEPT ![s] = r]
  PROVE  /\ request' \in [Request -> Requests] /\ request'[s] = r
         /\ \A t \in Request \ {s} : request'[t] = request[t]
  BY DEF LoansTyped

\* The steps that leave the loans and their marks alone, and insert nothing.
LEMMA KeptByMove ==
  ASSUME LoansAssumption, LoansInv, NEW s \in Request, NEW r \in Requests,
         request' = [request EXCEPT ![s] = r], loans' = loans, defaults' = defaults,
         now' \in Nat, line' \in [Agent -> Line],
         creditLimit' \in [Agent -> 0 .. M], outstanding' \in [Agent -> 0 .. M],
         Carries(r), r.at # "defaulted", ~(r.at = "insert" /\ ~r.vault)
  PROVE  LoansInv'
  <1>1. LoansTyped /\ \A t \in Request : Carries(request[t])
    BY DEF LoansInv
  <1>2. /\ request' \in [Request -> Requests] /\ request'[s] = r
        /\ \A t \in Request \ {s} : request'[t] = request[t]
    BY <1>1, Moved
  <1>3. LoansTyped'
    BY <1>1, <1>2 DEF LoansTyped, M
  <1>4. \A t \in Request : Carries(request[t])'
    <2>1. LoanId' = LoanId
      BY DEF LoanId
    <2>2. Carries(r)'
      BY <2>1 DEF Carries, M
    <2>3. ASSUME NEW t \in Request \ {s} PROVE Carries(request[t])'
      BY <1>1, <1>2, <2>1 DEF Carries, M
    <2>4. Carries(request[s])'
      BY <1>2, <2>1 DEF Carries, M
    <2>5. QED
      BY <2>3, <2>4
  <1>5. Marked'
    BY <1>2 DEF LoansInv, Marked, LoanId
  <1>6. Exposed'
    <2>1. Insertion(s)' = 0
      BY <1>2 DEF Insertion
    <2>2. PICK f \in Nat : f = Insertion(s)
      BY <1>1, InsertionsTyped
    <2>3. SumFunction(Insertions') = SumFunction(Insertions) + (0 - f)
      BY <1>1, <1>2, <2>1, <2>2, InsertionsMove
    <2>4. OffVault' = OffVault /\ (Cardinality(Request) * M)' = Cardinality(Request) * M
      BY DEF OffVault, OpenOffVault, IsOutstanding, LoanId, M
    <2>5. PICK x, y, z \in Int : /\ x = SumFunction(OffVault) /\ y = SumFunction(Insertions)
                                 /\ z = Cardinality(Request) * M
      <3>1. Cardinality(Request) \in Nat
        BY FS_CardinalityType DEF LoansAssumption
      <3>2. Cardinality(Request) * M \in Int
        BY <3>1, LargestLine
      <3>3. QED
        BY <1>1, <3>2, LoanRows, InsertionsTyped
    <2>6. x + y <= z
      BY <2>5 DEF LoansInv, Exposed
    <2>7. x + (y + (0 - f)) <= z
      BY <2>6
    <2>8. QED
      BY <2>3, <2>4, <2>5, <2>7 DEF Exposed
  <1>7. QED
    BY <1>3, <1>4, <1>5, <1>6 DEF LoansInv

-----------------------------------------------------------------------------
\* What an owner owes off the vault is part of what it owes.
LEMMA OwnerOwesMore ==
  ASSUME LoansAssumption, LoansTyped
  PROVE  SumFunction(OffVault) <= OwnerOutstandingBalance /\ OwnerOutstandingBalance \in Int
  <1>1. PICK g : g = [i \in LoanId |-> IF IsOutstanding(i) /\ loans[i].agent \in Agent THEN loans[i].amount ELSE 0]
    OBVIOUS
  <1>2. IsFiniteSet(LoanId) /\ OffVault \in [LoanId -> Int]
    BY LoanRows
  <1>3. g \in [LoanId -> Int]
    BY <1>1, LoanRows
  <1>4. \A i \in LoanId : OffVault[i] <= g[i]
    BY <1>1, LoanRows DEF OffVault, OpenOffVault
  <1>5. SumFunction(OffVault) <= SumFunction(g) /\ SumFunction(g) \in Int
    BY <1>2, <1>3, <1>4, SumMonotone, SumType
  <1>6. OwnerOutstandingBalance = SumFunction(g)
    BY <1>1 DEF OwnerOutstandingBalance, OutstandingOf
  <1>7. QED
    BY <1>5, <1>6

\* All requests but one insert at most a line each.
LEMMA OthersInsert ==
  ASSUME LoansAssumption, LoansTyped, \A t \in Request : Carries(request[t]), NEW s \in Request,
         Insertion(s) = 0
  PROVE  SumFunction(Insertions) + M <= Cardinality(Request) * M
  <1>1. /\ Insertions \in [Request -> Int] /\ IsFiniteSet(Request)
        /\ \A t \in Request : Insertion(t) \in Nat /\ Insertion(t) <= M
    BY InsertionsTyped DEF LoansAssumption
  <1>2. M \in Nat
    BY LargestLine
  <1>3. PICK R, g : R = Request \ {s} /\ g = [t \in R |-> Insertions[t]]
    OBVIOUS
  <1>4. g \in [R -> Int] /\ (\A t \in R : g[t] <= M) /\ IsFiniteSet(R)
    BY <1>1, <1>3, FS_Subset DEF Insertions
  <1>5. SumFunction(Insertions) = Insertions[s] + SumFunction(g)
    BY <1>1, <1>3, SumSplit
  <1>6. SumFunction(g) <= M * Cardinality(R) /\ SumFunction(g) \in Int
    BY <1>2, <1>4, SumBounded, SumType
  <1>7. PICK n \in Nat : n = Cardinality(Request) /\ Cardinality(R) = n - 1
    BY <1>1, <1>3, FS_RemoveElement, FS_CardinalityType
  <1>8. Insertions[s] = 0
    BY DEF Insertions
  <1>9. M * (n - 1) + M = n * M
    BY <1>2
  <1>10. M * (n - 1) \in Int /\ n * M \in Int
    BY <1>2
  <1>11. QED
    BY <1>2, <1>5, <1>6, <1>7, <1>8, <1>9, <1>10

LEMMA KeptByDraw ==
  ASSUME LoansAssumption, LoansInv, NEW s \in Request, NEW a \in Agent, NEW amount \in Draws,
         DrawCredit(s, a, amount)
  PROVE  LoansInv'
  <1>1. LoansTyped /\ \A t \in Request : Carries(request[t])
    BY DEF LoansInv
  <1>2. PICK r : r = [at |-> "insert", agent |-> a, amount |-> amount, vault |-> FALSE]
    OBVIOUS
  <1>3. r \in Drawing /\ r.at = "insert" /\ ~r.vault /\ r.amount = amount
    BY <1>2 DEF Drawing
  <1>4. r \in Requests
    BY <1>3, KindsAreRequests
  <1>5. /\ request' = [request EXCEPT ![s] = r] /\ loans' = loans /\ defaults' = defaults
        /\ now' = now /\ line' = line /\ creditLimit' = creditLimit /\ outstanding' = outstanding
        /\ amount + OwnerOutstandingBalance <= line[a] /\ request[s].at = "idle"
    BY <1>2 DEF DrawCredit, GoTo, Doing, rowVars, vaultVars
  <1>6. amount \in Nat /\ M \in Nat /\ line[a] \in Nat /\ line[a] <= M
    BY <1>1, LargestLine DEF LoansAssumption, LoansTyped
  <1>7. PICK x, y, z, o \in Int : /\ x = SumFunction(OffVault) /\ y = SumFunction(Insertions)
                                  /\ z = Cardinality(Request) * M /\ o = OwnerOutstandingBalance /\ x >= 0
    <2>1. Cardinality(Request) \in Nat
      BY FS_CardinalityType DEF LoansAssumption
    <2>2. Cardinality(Request) * M \in Int
      BY <1>6, <2>1
    <2>3. SumFunction(OffVault) \in Nat /\ SumFunction(Insertions) \in Nat
      BY <1>1, LoanRows, InsertionsTyped
    <2>4. QED
      BY <1>1, <2>2, <2>3, OwnerOwesMore
  <1>8. x <= o /\ amount + x <= M
    <2>1. x <= o
      BY <1>1, <1>7, OwnerOwesMore
    <2>2. QED
      BY <1>5, <1>6, <1>7, <2>1
  <1>9. /\ request' \in [Request -> Requests] /\ request'[s] = r
        /\ \A t \in Request \ {s} : request'[t] = request[t]
    BY <1>1, <1>4, <1>5, Moved
  <1>10. LoansTyped'
    BY <1>1, <1>5, <1>9 DEF LoansTyped, M
  <1>11. \A t \in Request : Carries(request[t])'
    <2>1. LoanId' = LoanId /\ amount <= M
      BY <1>5, <1>6, <1>7, <1>8 DEF LoanId
    <2>2. ASSUME NEW t \in Request \ {s} PROVE Carries(request[t])'
      BY <1>1, <1>9, <2>1 DEF Carries, M
    <2>3. Carries(request[s])'
      BY <1>3, <1>9, <2>1 DEF Carries, M
    <2>4. QED
      BY <2>2, <2>3
  <1>12. Marked'
    BY <1>3, <1>5, <1>9 DEF LoansInv, Marked, LoanId
  <1>13. Exposed'
    <2>1. Insertion(s) = 0
      BY <1>5 DEF Insertion
    <2>2. Insertion(s)' = amount
      BY <1>3, <1>9 DEF Insertion
    <2>3. SumFunction(Insertions') = SumFunction(Insertions) + (amount - 0)
      BY <1>1, <1>6, <1>9, <2>1, <2>2, InsertionsMove
    <2>4. y + M <= z
      BY <1>1, <1>7, <2>1, OthersInsert
    <2>5. OffVault' = OffVault /\ (Cardinality(Request) * M)' = Cardinality(Request) * M
      BY <1>5 DEF OffVault, OpenOffVault, IsOutstanding, LoanId, M
    <2>6. x + (y + (amount - 0)) <= z
      BY <1>6, <1>8, <2>4
    <2>7. QED
      BY <1>7, <2>3, <2>5, <2>6 DEF Exposed
  <1>14. QED
    BY <1>10, <1>11, <1>12, <1>13 DEF LoansInv

\* Loans are never forgotten, and a settled one stays settled.
LoansLast ==
  \A j \in LoanId : j \in LoanId' /\ (loans[j].status = "settled" => loans'[j].status = "settled")

LEMMA SameLast == ASSUME loans' = loans PROVE LoansLast
  BY DEF LoansLast, LoanId

LEMMA InsertedLast ==
  ASSUME LoansAssumption, LoansInv, NEW s \in Request, InsertLoan(s)
  PROVE  LoansLast
  <1>1. PICK n \in Nat : n = Len(loans) /\ LoanId = 1 .. n
    BY LoanRows DEF LoansInv
  <1>2. PICK l : loans' = Append(loans, l)
    BY DEF InsertLoan
  <1>3. LoanId' = 1 .. (n + 1) /\ \A i \in 1 .. n : loans'[i] = loans[i]
    BY <1>1, <1>2 DEF LoansInv, LoansTyped, LoanId
  <1>4. QED
    BY <1>1, <1>3 DEF LoansLast

LEMMA KeptByInsertLoan ==
  ASSUME LoansAssumption, LoansInv, NEW s \in Request, InsertLoan(s)
  PROVE  LoansInv'
  <1>1. LoansTyped /\ \A t \in Request : Carries(request[t])
    BY DEF LoansInv
  <1>2. request[s] \in Requests /\ request[s].at = "insert"
    BY <1>1 DEF LoansTyped, InsertLoan, Doing
  <1>3. request[s] \in Drawing
    BY <1>2, RequestKinds
  <1>4. PICK b \in Agent, m \in Draws, v \in BOOLEAN :
          b = request[s].agent /\ m = request[s].amount /\ v = request[s].vault
    BY <1>3 DEF Drawing
  <1>5. PICK l : l = [agent |-> b, amount |-> m, dueAt |-> now + TERM, status |-> "active", vault |-> v]
    OBVIOUS
  <1>6. l \in LoanRow /\ l.amount = m /\ l.status = "active" /\ l.vault = v /\ m \in Nat
    <2>1. now + TERM \in Nat /\ m \in Nat
      BY <1>1 DEF LoansTyped, LoansAssumption
    <2>2. QED
      BY <1>5, <2>1 DEF LoanRow
  <1>7. PICK r : r = [at |-> "recalc", agent |-> b]
    OBVIOUS
  <1>8. r \in Scoring /\ r.at = "recalc"
    BY <1>7 DEF Scoring
  <1>9. r \in Requests
    BY <1>8, KindsAreRequests
  <1>10. /\ loans' = Append(loans, l) /\ defaults' = Append(defaults, 0)
         /\ request' = [request EXCEPT ![s] = r]
         /\ now' = now /\ line' = line /\ creditLimit' = creditLimit /\ outstanding' = outstanding
    BY <1>4, <1>5, <1>7 DEF InsertLoan, GoTo, Recalc, vaultVars
  <1>11. PICK n \in Nat : n = Len(loans) /\ LoanId = 1 .. n
    BY <1>1, LoanRows
  <1>12. /\ loans' \in Seq(LoanRow) /\ defaults' \in Seq(Nat) /\ Len(loans') = n + 1 /\ Len(defaults') = n + 1
         /\ LoanId' = 1 .. (n + 1) /\ loans'[n + 1] = l /\ defaults'[n + 1] = 0
         /\ \A i \in 1 .. n : loans'[i] = loans[i] /\ defaults'[i] = defaults[i]
    BY <1>1, <1>6, <1>10, <1>11 DEF LoansTyped, LoanId
  <1>13. /\ request' \in [Request -> Requests] /\ request'[s] = r
         /\ \A t \in Request \ {s} : request'[t] = request[t]
    BY <1>1, <1>9, <1>10, Moved
  <1>14. LoansTyped'
    BY <1>1, <1>10, <1>12, <1>13 DEF LoansTyped, M
  <1>15. \A t \in Request : Carries(request[t])'
    <2>1. \A i \in LoanId : i \in LoanId'
      BY <1>11, <1>12
    <2>2. ASSUME NEW t \in Request \ {s} PROVE Carries(request[t])'
      BY <1>1, <1>13, <2>1 DEF Carries, M
    <2>3. Carries(request[s])'
      BY <1>8, <1>13 DEF Carries
    <2>4. QED
      BY <2>2, <2>3
  <1>16. Marked'
    <2>1. ASSUME NEW i \in 1 .. (n + 1)
          PROVE  defaults'[i] <= 1 /\ (loans'[i].status = "active" => defaults'[i] = 0)
      <3>1. CASE i \in 1 .. n
        BY <1>11, <1>12, <3>1 DEF LoansInv, Marked
      <3>2. CASE i = n + 1
        BY <1>12, <3>2
      <3>3. QED
        BY <3>1, <3>2
    <2>2. ASSUME NEW t \in Request, request'[t].at = "defaulted"
          PROVE  /\ t # s /\ request'[t] = request[t]
                 /\ loans'[request'[t].loan].status # "active" /\ defaults'[request'[t].loan] = 0
      <3>1. t # s /\ request'[t] = request[t]
        BY <1>8, <1>13, <2>2
      <3>2. request[t].loan \in 1 .. n
        BY <1>1, <1>11, <2>2, <3>1 DEF Carries
      <3>3. QED
        BY <1>12, <2>2, <3>1, <3>2 DEF LoansInv, Marked
    <2>3. QED
      BY <1>12, <2>1, <2>2 DEF LoansInv, Marked
  <1>17. Exposed'
    <2>1. PICK f \in Nat : f = IF ~v THEN m ELSE 0
      BY <1>6
    <2>2. Insertion(s) = f
      BY <1>2, <1>4, <2>1 DEF Insertion
    <2>3. Insertion(s)' = 0
      BY <1>8, <1>13 DEF Insertion
    <2>4. SumFunction(Insertions') = SumFunction(Insertions) + (0 - f)
      BY <1>1, <1>13, <2>2, <2>3, InsertionsMove
    <2>5. SumFunction(OffVault') = SumFunction(OffVault) + f
      <3>1. PICK p, q : p = OffVault /\ q = OffVault'
        OBVIOUS
      <3>2. p \in [1 .. n -> Int]
        BY <1>1, <1>11, <3>1, LoanRows
      <3>3. /\ DOMAIN q = 1 .. (n + 1) /\ q = [i \in 1 .. (n + 1) |-> q[i]] /\ q[n + 1] = f
            /\ \A i \in 1 .. n : q[i] = p[i]
        BY <1>6, <1>11, <1>12, <2>1, <3>1 DEF OffVault, OpenOffVault, IsOutstanding
      <3>4. \A i \in 1 .. (n + 1) : i \in 1 .. n \/ i = n + 1
        OBVIOUS
      <3>5. ASSUME NEW i \in 1 .. (n + 1) PROVE q[i] \in Int
        <4>1. CASE i \in 1 .. n
          <5>1. p[i] \in Int
            BY <3>2, <4>1
          <5>2. QED
            BY <3>3, <4>1, <5>1
        <4>2. CASE i = n + 1
          BY <2>1, <3>3, <4>2
        <4>3. QED
          BY <3>4, <4>1, <4>2
      <3>6. q \in [1 .. (n + 1) -> Int]
        BY <3>3, <3>5
      <3>7. SumFunction(q) = SumFunction(p) + q[n + 1]
        BY <3>2, <3>3, <3>6, SumExtends
      <3>8. QED
        BY <3>1, <3>3, <3>7
    <2>6. (Cardinality(Request) * M)' = Cardinality(Request) * M
      BY DEF M
    <2>7. SumFunction(OffVault) \in Nat /\ SumFunction(Insertions) \in Nat
      BY <1>1, LoanRows, InsertionsTyped
    <2>8. SumFunction(OffVault') + SumFunction(Insertions') = SumFunction(OffVault) + SumFunction(Insertions)
      BY <2>4, <2>5, <2>7
    <2>9. QED
      BY <2>6, <2>8 DEF LoansInv, Exposed
  <1>18. QED
    BY <1>14, <1>15, <1>16, <1>17 DEF LoansInv

\* A loan changes its status, to settled or from active to defaulted, and its
\* request goes on.
LEMMA KeptByStatus ==
  ASSUME LoansAssumption, LoansInv, NEW s \in Request, NEW i \in LoanId, NEW r \in Requests, NEW to,
         \/ to = "settled"
         \/ to = "defaulted" /\ loans[i].status = "active",
         loans' = [loans EXCEPT ![i].status = to], defaults' = defaults,
         request' = [request EXCEPT ![s] = r],
         now' = now, line' = line, creditLimit' = creditLimit, outstanding' = outstanding,
         \/ r.at = "recalc"
         \/ r.at = "defaulted" /\ r.loan = i /\ loans[i].status = "active"
  PROVE  LoansInv' /\ LoansLast
  <1>1. LoansTyped /\ \A t \in Request : Carries(request[t])
    BY DEF LoansInv
  <1>2. PICK n \in Nat : n = Len(loans) /\ LoanId = 1 .. n
    BY <1>1, LoanRows
  <1>3. PICK q \in LoanRow : q = loans[i]
    BY <1>1, LoanRows
  <1>4. PICK l : l = [q EXCEPT !.status = to]
    OBVIOUS
  <1>5. /\ l \in LoanRow /\ l.status = to /\ l.amount = q.amount /\ l.vault = q.vault
        /\ q.amount \in Nat /\ l.status # "active"
    <2>1. q.amount \in Nat
      BY <1>1, <1>3, LoanRows
    <2>2. QED
      BY <1>4, <2>1 DEF LoanRow
  <1>6. loans' = [loans EXCEPT ![i] = l]
    BY <1>3, <1>4
  <1>7. /\ loans' \in Seq(LoanRow) /\ Len(loans') = n /\ LoanId' = 1 .. n /\ loans'[i] = l
        /\ \A j \in (1 .. n) \ {i} : loans'[j] = loans[j]
    <2>1. loans \in Seq(LoanRow) /\ DOMAIN loans = 1 .. n /\ n = Len(loans) /\ i \in 1 .. n /\ l \in LoanRow
      BY <1>1, <1>2, <1>5 DEF LoansTyped, LoanId
    <2>2. loans' \in Seq(LoanRow) /\ Len(loans') = n /\ DOMAIN loans' = 1 .. n
      BY <1>6, <2>1
    <2>3. loans'[i] = l /\ \A j \in (1 .. n) \ {i} : loans'[j] = loans[j]
      BY <1>6, <2>1
    <2>4. QED
      BY <2>2, <2>3 DEF LoanId
  <1>8. /\ request' \in [Request -> Requests] /\ request'[s] = r
        /\ \A t \in Request \ {s} : request'[t] = request[t]
    BY <1>1, Moved
  <1>9. LoansTyped'
    BY <1>1, <1>2, <1>7, <1>8 DEF LoansTyped, M
  <1>10. \A t \in Request : Carries(request[t])'
    <2>1. LoanId' = LoanId
      BY <1>2, <1>7
    <2>2. ASSUME NEW t \in Request \ {s} PROVE Carries(request[t])'
      BY <1>1, <1>8, <2>1 DEF Carries, M
    <2>3. Carries(request[s])'
      BY <1>8, <2>1 DEF Carries
    <2>4. QED
      BY <2>2, <2>3
  <1>11. Marked'
    <2>1. ASSUME NEW j \in 1 .. n
          PROVE  defaults'[j] <= 1 /\ (loans'[j].status = "active" => defaults'[j] = 0)
      <3>1. CASE j = i
        BY <1>2, <1>5, <1>7, <3>1 DEF LoansInv, Marked
      <3>2. CASE j # i
        BY <1>2, <1>7, <3>2 DEF LoansInv, Marked
      <3>3. QED
        BY <3>1, <3>2
    <2>2. ASSUME NEW t \in Request, request'[t].at = "defaulted"
          PROVE  loans'[request'[t].loan].status # "active" /\ defaults'[request'[t].loan] = 0
      <3>1. CASE t = s
        BY <1>2, <1>5, <1>7, <1>8, <2>2, <3>1 DEF LoansInv, Marked
      <3>2. CASE t # s
        <4>1. request'[t] = request[t]
          BY <1>8, <3>2
        <4>2. request[t].loan \in 1 .. n
          BY <1>1, <1>2, <2>2, <4>1 DEF Carries
        <4>3. loans[request[t].loan].status # "active" /\ defaults[request[t].loan] = 0
          BY <2>2, <4>1 DEF LoansInv, Marked
        <4>4. QED
          BY <1>5, <1>7, <4>1, <4>2, <4>3
      <3>3. QED
        BY <3>1, <3>2
    <2>3. ASSUME NEW t \in Request \ {s}, r.at = "defaulted", request[t].at = "defaulted"
          PROVE  request[t].loan # r.loan
      BY <2>3 DEF LoansInv, Marked
    <2>4. ASSUME NEW t \in Request, NEW v \in Request, t # v,
                 request'[t].at = "defaulted", request'[v].at = "defaulted"
          PROVE  request'[t].loan # request'[v].loan
      <3>1. CASE t = s
        BY <1>8, <2>3, <2>4, <3>1
      <3>2. CASE v = s
        BY <1>8, <2>3, <2>4, <3>2
      <3>3. CASE t # s /\ v # s
        BY <1>8, <2>4, <3>3 DEF LoansInv, Marked
      <3>4. QED
        BY <3>1, <3>2, <3>3
    <2>5. QED
      BY <1>7, <2>1, <2>2, <2>4 DEF Marked
  <1>12. Exposed'
    <2>1. Insertion(s)' = 0
      BY <1>8 DEF Insertion
    <2>2. PICK f \in Nat : f = Insertion(s)
      BY <1>1, InsertionsTyped
    <2>3. SumFunction(Insertions') = SumFunction(Insertions) + (0 - f)
      BY <1>1, <1>8, <2>1, <2>2, InsertionsMove
    <2>4. SumFunction(OffVault') <= SumFunction(OffVault) /\ SumFunction(OffVault') \in Int
      <3>1. PICK p, u : p = OffVault /\ u = OffVault'
        OBVIOUS
      <3>2. p \in [1 .. n -> Int] /\ p \in [1 .. n -> Nat] /\ IsFiniteSet(1 .. n)
        BY <1>1, <1>2, <3>1, LoanRows
      <3>3. DOMAIN u = 1 .. n /\ u = [j \in 1 .. n |-> u[j]]
        BY <1>7, <3>1 DEF OffVault
      <3>4. ASSUME NEW j \in 1 .. n PROVE u[j] \in Int /\ u[j] <= p[j]
        <4>1. CASE j # i
          <5>1. u[j] = p[j]
            BY <1>2, <1>7, <3>1, <4>1 DEF OffVault, OpenOffVault, IsOutstanding
          <5>2. QED
            BY <3>2, <5>1
        <4>2. CASE j = i
          <5>1. OpenOffVault(i)' => OpenOffVault(i)
            BY <1>3, <1>5, <1>7 DEF OpenOffVault, IsOutstanding
          <5>2. u[i] = IF OpenOffVault(i)' THEN q.amount ELSE 0
            BY <1>2, <1>5, <1>7, <3>1 DEF OffVault
          <5>3. p[i] = IF OpenOffVault(i) THEN q.amount ELSE 0
            BY <1>3, <3>1 DEF OffVault
          <5>4. QED
            BY <1>5, <4>2, <5>1, <5>2, <5>3
        <4>3. QED
          BY <4>1, <4>2
      <3>5. u \in [1 .. n -> Int]
        BY <3>3, <3>4
      <3>6. QED
        BY <3>1, <3>2, <3>4, <3>5, SumMonotone, SumType
    <2>5. (Cardinality(Request) * M)' = Cardinality(Request) * M
      BY DEF M
    <2>6. SumFunction(OffVault) \in Nat /\ SumFunction(Insertions) \in Nat
      BY <1>1, LoanRows, InsertionsTyped
    <2>7. SumFunction(OffVault') + SumFunction(Insertions') <= SumFunction(OffVault) + SumFunction(Insertions)
      BY <2>2, <2>3, <2>4, <2>6
    <2>8. PICK x, y, z \in Int : /\ x = SumFunction(OffVault') + SumFunction(Insertions')
                                 /\ y = SumFunction(OffVault) + SumFunction(Insertions)
                                 /\ z = Cardinality(Request) * M
      <3>1. Cardinality(Request) \in Nat /\ M \in Nat
        BY FS_CardinalityType, LargestLine DEF LoansAssumption
      <3>2. Cardinality(Request) * M \in Int
        BY <3>1
      <3>3. QED
        BY <2>2, <2>3, <2>4, <2>6, <3>2
    <2>9. x <= y /\ y <= z
      BY <2>7, <2>8 DEF LoansInv, Exposed
    <2>10. x <= z
      BY <2>9
    <2>11. QED
      BY <2>5, <2>8, <2>10 DEF Exposed
  <1>13. LoansLast
    BY <1>2, <1>5, <1>7 DEF LoansLast
  <1>14. QED
    BY <1>9, <1>10, <1>11, <1>12, <1>13 DEF LoansInv

LEMMA KeptByInsertDefaulted ==
  ASSUME LoansAssumption, LoansInv, NEW s \in Request, InsertDefaulted(s)
  PROVE  LoansInv' /\ loans' = loans
  <1>1. LoansTyped /\ \A t \in Request : Carries(request[t])
    BY DEF LoansInv
  <1>2. request[s].at = "defaulted" /\ request[s] \in Requests /\ request[s].loan \in LoanId
    BY <1>1 DEF InsertDefaulted, Doing, LoansTyped, Carries
  <1>3. PICK n \in Nat, i \in LoanId : n = Len(loans) /\ LoanId = 1 .. n /\ i = request[s].loan
    BY <1>1, <1>2, LoanRows
  <1>4. PICK b \in Agent : b = loans[i].agent
    BY <1>1, LoanRows
  <1>5. PICK r : r = [at |-> "recalc", agent |-> b]
    OBVIOUS
  <1>6. r \in Scoring /\ r.at = "recalc"
    BY <1>5 DEF Scoring
  <1>7. r \in Requests
    BY <1>6, KindsAreRequests
  <1>8. loans[i].status # "active" /\ defaults[i] = 0
    BY <1>2, <1>3 DEF LoansInv, Marked
  <1>9. /\ defaults' = [defaults EXCEPT ![i] = 1]
        /\ request' = [request EXCEPT ![s] = r] /\ loans' = loans
        /\ now' = now /\ line' = line /\ creditLimit' = creditLimit /\ outstanding' = outstanding
    BY <1>3, <1>4, <1>5, <1>8 DEF InsertDefaulted, GoTo, Recalc, vaultVars
  <1>10. /\ request' \in [Request -> Requests] /\ request'[s] = r
         /\ \A t \in Request \ {s} : request'[t] = request[t]
    BY <1>1, <1>7, <1>9, Moved
  <1>11. /\ defaults' \in Seq(Nat) /\ Len(defaults') = n /\ defaults'[i] = 1
         /\ \A j \in (1 .. n) \ {i} : defaults'[j] = defaults[j]
    <2>1. defaults \in Seq(Nat) /\ Len(defaults) = n /\ i \in 1 .. n
      BY <1>1, <1>3 DEF LoansTyped
    <2>2. QED
      BY <1>9, <2>1
  <1>12. LoansTyped'
    BY <1>1, <1>3, <1>9, <1>10, <1>11 DEF LoansTyped, M
  <1>13. \A t \in Request : Carries(request[t])'
    <2>1. LoanId' = LoanId
      BY <1>9 DEF LoanId
    <2>2. ASSUME NEW t \in Request \ {s} PROVE Carries(request[t])'
      BY <1>1, <1>10, <2>1 DEF Carries, M
    <2>3. Carries(request[s])'
      BY <1>6, <1>10 DEF Carries
    <2>4. QED
      BY <2>2, <2>3
  <1>14. Marked'
    <2>1. ASSUME NEW j \in 1 .. n
          PROVE  defaults'[j] <= 1 /\ (loans'[j].status = "active" => defaults'[j] = 0)
      <3>1. CASE j = i
        BY <1>8, <1>9, <1>11, <3>1
      <3>2. CASE j # i
        BY <1>3, <1>9, <1>11, <3>2 DEF LoansInv, Marked
      <3>3. QED
        BY <3>1, <3>2
    <2>2. ASSUME NEW t \in Request, request'[t].at = "defaulted"
          PROVE  /\ t # s /\ request'[t] = request[t]
                 /\ loans'[request'[t].loan].status # "active" /\ defaults'[request'[t].loan] = 0
      <3>1. t # s /\ request'[t] = request[t]
        BY <1>6, <1>10, <2>2
      <3>2. request[t].loan \in 1 .. n
        BY <1>1, <1>3, <2>2, <3>1 DEF Carries
      <3>3. request[t].loan # i
        BY <1>2, <1>3, <2>2, <3>1 DEF LoansInv, Marked
      <3>4. loans[request[t].loan].status # "active" /\ defaults[request[t].loan] = 0
        BY <2>2, <3>1 DEF LoansInv, Marked
      <3>5. QED
        BY <1>9, <1>11, <3>1, <3>2, <3>3, <3>4
    <2>3. LoanId' = 1 .. n
      BY <1>3, <1>9 DEF LoanId
    <2>4. QED
      BY <2>1, <2>2, <2>3 DEF LoansInv, Marked
  <1>15. Exposed'
    <2>1. Insertion(s)' = 0
      BY <1>6, <1>10 DEF Insertion
    <2>2. Insertion(s) = 0
      BY <1>2 DEF Insertion
    <2>3. SumFunction(Insertions') = SumFunction(Insertions) + (0 - 0)
      BY <1>1, <1>10, <2>1, <2>2, InsertionsMove
    <2>4. SumFunction(Insertions) \in Nat
      BY <1>1, InsertionsTyped
    <2>5. OffVault' = OffVault /\ (Cardinality(Request) * M)' = Cardinality(Request) * M
      BY <1>9 DEF OffVault, OpenOffVault, IsOutstanding, LoanId, M
    <2>6. SumFunction(Insertions') = SumFunction(Insertions)
      BY <2>3, <2>4
    <2>7. QED
      BY <2>5, <2>6 DEF LoansInv, Exposed
  <1>16. QED
    BY <1>9, <1>12, <1>13, <1>14, <1>15 DEF LoansInv

\* Nothing an agent still owes elsewhere raises what is published above the line.
LEMMA Publishable ==
  ASSUME LoansAssumption, LoansTyped, NEW l \in Line, NEW Agents
  PROVE  Minus(l, OutstandingOf(Agents)) \in Nat /\ Minus(l, OutstandingOf(Agents)) <= M
  <1>1. PICK g : g = [i \in LoanId |-> IF IsOutstanding(i) /\ loans[i].agent \in Agents THEN loans[i].amount ELSE 0]
    OBVIOUS
  <1>2. IsFiniteSet(LoanId) /\ g \in [LoanId -> Nat]
    BY <1>1, LoanRows
  <1>3. PICK x \in Nat : x = OutstandingOf(Agents)
    BY <1>1, <1>2, SumNatural DEF OutstandingOf
  <1>4. l \in Nat /\ l <= M /\ M \in Nat
    BY LargestLine
  <1>5. QED
    BY <1>3, <1>4 DEF Minus

LEMMA KeptByRest ==
  ASSUME LoansInv, loans' = loans, defaults' = defaults, request' = request, now' \in Nat, line' = line,
         creditLimit' = creditLimit, outstanding' = outstanding
  PROVE  LoansInv'
  BY DEF LoansInv, LoansTyped, Carries, Exposed, Marked, OffVault, OpenOffVault, IsOutstanding,
         Insertions, Insertion, LoanId, M

\* The same, when only the request moves.
LEMMA KeptByGoing ==
  ASSUME LoansAssumption, LoansInv, NEW s \in Request, NEW r \in Requests, GoTo(s, r),
         UNCHANGED <<now, rowVars, vaultVars>>,
         Carries(r), r.at # "defaulted", ~(r.at = "insert" /\ ~r.vault)
  PROVE  LoansInv' /\ loans' = loans
  <1>1. LoansTyped
    BY DEF LoansInv
  <1>2. /\ now \in Nat /\ line \in [Agent -> Line]
        /\ creditLimit \in [Agent -> 0 .. M] /\ outstanding \in [Agent -> 0 .. M]
    BY <1>1 DEF LoansTyped
  <1>3. /\ request' = [request EXCEPT ![s] = r] /\ loans' = loans /\ defaults' = defaults
        /\ now' = now /\ line' = line /\ creditLimit' = creditLimit /\ outstanding' = outstanding
    BY DEF GoTo, rowVars, vaultVars
  <1>4. QED
    BY <1>2, <1>3, KeptByMove

\* The steps that move one request and write no table.
LEMMA KeptByPlans ==
  ASSUME LoansAssumption, LoansInv, NEW s \in Request,
         \/ \E a \in Agent : WorkScored(s, a)
         \/ \E a \in Agent, amount \in Draws : DrawOnchain(s, a, amount)
         \/ \E i \in LoanId : RepayCredit(s, i) \/ RepayOnchain(s, i) \/ SelectDefaulted(s, i)
         \/ RecalculateCredit(s)
         \/ RequestDies(s)
  PROVE  LoansInv' /\ loans' = loans
  <1>1. LoansTyped
    BY DEF LoansInv
  <1>2. ASSUME NEW a \in Agent, WorkScored(s, a) PROVE LoansInv' /\ loans' = loans
    <2>1. PICK r : r = [at |-> "recalc", agent |-> a]
      OBVIOUS
    <2>2. r \in Scoring /\ r.at = "recalc"
      BY <2>1 DEF Scoring
    <2>3. r \in Requests /\ Carries(r) /\ GoTo(s, r) /\ UNCHANGED <<now, rowVars, vaultVars>>
      BY <1>2, <2>1, <2>2, KindsAreRequests DEF Carries, WorkScored, Recalc
    <2>4. QED
      BY <2>2, <2>3, KeptByGoing
  <1>3. ASSUME NEW a \in Agent, NEW amount \in Draws, DrawOnchain(s, a, amount)
        PROVE  LoansInv' /\ loans' = loans
    <2>1. PICK r : r = [at |-> "draw", agent |-> a, amount |-> amount, vault |-> TRUE]
      OBVIOUS
    <2>2. r \in Drawing /\ r.at = "draw" /\ r.vault
      BY <2>1 DEF Drawing
    <2>3. r \in Requests /\ Carries(r) /\ GoTo(s, r) /\ UNCHANGED <<now, rowVars, vaultVars>>
      BY <1>3, <2>1, <2>2, KindsAreRequests DEF Carries, DrawOnchain
    <2>4. QED
      BY <2>2, <2>3, KeptByGoing
  <1>4. ASSUME NEW i \in LoanId, NEW where \in {"settle", "repay", "claim"},
               GoTo(s, [at |-> where, loan |-> i]), UNCHANGED <<now, rowVars, vaultVars>>
        PROVE  LoansInv' /\ loans' = loans
    <2>1. PICK r : r = [at |-> where, loan |-> i]
      OBVIOUS
    <2>2. i \in Nat
      BY <1>1, LoanRows
    <2>3. r \in OnLoan /\ r.at = where /\ r.loan = i
      BY <2>1, <2>2 DEF OnLoan
    <2>4. r \in Requests /\ Carries(r) /\ GoTo(s, r)
      BY <1>4, <2>1, <2>3, KindsAreRequests DEF Carries
    <2>5. QED
      BY <1>4, <2>3, <2>4, KeptByGoing
  <1>5. ASSUME NEW i \in LoanId, RepayCredit(s, i) \/ RepayOnchain(s, i) \/ SelectDefaulted(s, i)
        PROVE  LoansInv' /\ loans' = loans
    <2>1. CASE RepayCredit(s, i)
      BY <1>4, <2>1 DEF RepayCredit
    <2>2. CASE RepayOnchain(s, i)
      BY <1>4, <2>2 DEF RepayOnchain
    <2>3. CASE SelectDefaulted(s, i)
      BY <1>4, <2>3 DEF SelectDefaulted
    <2>4. QED
      BY <1>5, <2>1, <2>2, <2>3
  <1>6. ASSUME RecalculateCredit(s) PROVE LoansInv' /\ loans' = loans
    <2>1. request[s].at = "recalc" /\ request[s] \in Requests
      BY <1>1, <1>6 DEF RecalculateCredit, Doing, LoansTyped
    <2>2. PICK b \in Agent : b = request[s].agent
      BY <2>1, RequestKinds DEF Scoring
    <2>3. PICK l \in Line : GoTo(s, [at |-> "row", agent |-> b, line |-> l,
                                     available |-> Minus(l, OutstandingBalance(b)),
                                     publish |-> Minus(l, OutstandingOf(Agent \ {b}))])
      BY <1>6, <2>2 DEF RecalculateCredit
    <2>4. PICK x, y \in Nat : /\ x = Minus(l, OutstandingBalance(b))
                              /\ y = Minus(l, OutstandingOf(Agent \ {b})) /\ y <= M
      BY <1>1, Publishable DEF OutstandingBalance
    <2>5. PICK r : r = [at |-> "row", agent |-> b, line |-> l, available |-> x, publish |-> y]
      OBVIOUS
    <2>6. r \in Recording /\ r.at = "row" /\ r.publish = y
      BY <2>5 DEF Recording
    <2>7. r \in Requests /\ Carries(r) /\ GoTo(s, r)
      BY <2>3, <2>4, <2>5, <2>6, KindsAreRequests DEF Carries
    <2>8. UNCHANGED <<now, rowVars, vaultVars>>
      BY <1>6 DEF RecalculateCredit
    <2>9. QED
      BY <2>6, <2>7, <2>8, KeptByGoing
  <1>7. ASSUME RequestDies(s) PROVE LoansInv' /\ loans' = loans
    <2>1. NoRequest.at = "idle" /\ NoRequest \in Requests /\ Carries(NoRequest)
      BY KindsAreRequests DEF NoRequest, Carries
    <2>2. GoTo(s, NoRequest) /\ UNCHANGED <<now, rowVars, vaultVars>>
      BY <1>7 DEF RequestDies, Ends
    <2>3. QED
      BY <2>1, <2>2, KeptByGoing
  <1>8. QED
    BY <1>2, <1>3, <1>5, <1>6, <1>7

\* The calls of the vault and of the registry, and the write of the agent's row.
LEMMA KeptByWrites ==
  ASSUME LoansAssumption, LoansInv, NEW s \in Request,
         CallDraw(s) \/ CallRepay(s) \/ WriteAgentRow(s) \/ PublishLimit(s)
  PROVE  LoansInv' /\ loans' = loans
  <1>1. LoansTyped /\ request[s] \in Requests /\ Carries(request[s]) /\ M \in Nat
    BY LargestLine DEF LoansInv, LoansTyped
  <1>2. /\ now \in Nat /\ line \in [Agent -> Line]
        /\ creditLimit \in [Agent -> 0 .. M] /\ outstanding \in [Agent -> 0 .. M]
        /\ request \in [Request -> Requests]
    BY <1>1 DEF LoansTyped
  <1>3. CASE CallDraw(s)
    <2>1. request[s] \in Drawing /\ request[s].at = "draw" /\ request[s].vault
      BY <1>1, <1>3, RequestKinds DEF CallDraw, Doing, Carries
    <2>2. PICK b \in Agent, m \in Nat, q \in Drawing :
            b = request[s].agent /\ m = request[s].amount /\ q = request[s]
      BY <2>1 DEF Drawing, LoansAssumption
    <2>3. PICK r : r = [q EXCEPT !.at = "insert"]
      OBVIOUS
    <2>4. r \in Drawing /\ r.at = "insert" /\ r.vault
      BY <2>1, <2>2, <2>3 DEF Drawing
    <2>5. r \in Requests /\ Carries(r)
      BY <2>4, KindsAreRequests DEF Carries
    <2>6. /\ request' = [request EXCEPT ![s] = r] /\ loans' = loans /\ defaults' = defaults
          /\ now' = now /\ line' = line
      BY <1>3, <2>2, <2>3 DEF CallDraw, GoTo, rowVars
    <2>7. creditLimit' = creditLimit /\ outstanding' \in [Agent -> 0 .. M]
      <3>1. PICK o, k \in 0 .. M : o = outstanding[b] /\ k = creditLimit[b]
        BY <1>2
      <3>2. /\ m <= (IF k > o THEN k - o ELSE 0) /\ outstanding' = [outstanding EXCEPT ![b] = o + m]
            /\ creditLimit' = creditLimit
        BY <1>3, <2>2, <3>1 DEF CallDraw, Draw, Available, registryVars
      <3>3. o + m \in 0 .. M
        BY <1>1, <3>2
      <3>4. QED
        BY <1>2, <3>2, <3>3
    <2>8. QED
      BY <1>2, <2>4, <2>5, <2>6, <2>7, KeptByMove
  <1>4. CASE CallRepay(s)
    <2>1. request[s] \in OnLoan /\ request[s].at = "repay" /\ request[s].loan \in LoanId
      BY <1>1, <1>4, RequestKinds DEF CallRepay, Doing, Carries
    <2>2. PICK i \in LoanId, q \in OnLoan : i = request[s].loan /\ q = request[s]
      BY <2>1
    <2>3. PICK r : r = [q EXCEPT !.at = "settle"]
      OBVIOUS
    <2>4. r \in OnLoan /\ r.at = "settle" /\ r.loan = i
      BY <2>2, <2>3 DEF OnLoan
    <2>5. r \in Requests /\ Carries(r)
      BY <2>4, KindsAreRequests DEF Carries
    <2>6. /\ request' = [request EXCEPT ![s] = r] /\ loans' = loans /\ defaults' = defaults
          /\ now' = now /\ line' = line
      BY <1>4, <2>2, <2>3 DEF CallRepay, GoTo, rowVars
    <2>7. creditLimit' = creditLimit /\ outstanding' \in [Agent -> 0 .. M]
      <3>1. PICK b \in Agent, m \in Nat : b = loans[i].agent /\ m = loans[i].amount
        BY <1>1, LoanRows
      <3>2. Repay(b, m)
        BY <1>4, <2>2, <3>1 DEF CallRepay
      <3>3. PICK o \in 0 .. M : o = outstanding[b]
        BY <1>2
      <3>4. PICK p \in Nat : p = (IF m > o THEN o ELSE m) /\ p <= o
        BY <1>1
      <3>5. outstanding' = [outstanding EXCEPT ![b] = o - p] /\ creditLimit' = creditLimit
        BY <3>2, <3>3, <3>4 DEF Repay, registryVars
      <3>6. o - p \in 0 .. M
        BY <1>1, <3>4
      <3>7. QED
        BY <1>2, <3>5, <3>6
    <2>8. QED
      BY <1>2, <2>4, <2>5, <2>6, <2>7, KeptByMove
  <1>5. CASE WriteAgentRow(s)
    <2>1. request[s] \in Recording /\ request[s].at = "row"
      BY <1>1, <1>5, RequestKinds DEF WriteAgentRow, Doing
    <2>2. PICK b \in Agent, l \in Line, y \in Nat :
            b = request[s].agent /\ l = request[s].line /\ y = request[s].publish /\ y <= M
      BY <1>1, <2>1 DEF Recording, Carries
    <2>3. /\ line' = [line EXCEPT ![b] = l] /\ now' = now /\ loans' = loans /\ defaults' = defaults
          /\ creditLimit' = creditLimit /\ outstanding' = outstanding
      BY <1>5, <2>2 DEF WriteAgentRow, vaultVars
    <2>4. line' \in [Agent -> Line]
      BY <1>2, <2>3
    <2>5. CASE onVault
      <3>1. PICK r : r = [at |-> "publish", agent |-> b, publish |-> y]
        OBVIOUS
      <3>2. r \in Publishing /\ r.at = "publish" /\ r.publish = y
        BY <3>1 DEF Publishing
      <3>3. r \in Requests /\ Carries(r) /\ request' = [request EXCEPT ![s] = r]
        BY <1>5, <2>2, <2>5, <3>1, <3>2, KindsAreRequests DEF WriteAgentRow, GoTo, Carries
      <3>4. QED
        BY <1>2, <2>3, <2>4, <3>2, <3>3, KeptByMove
    <2>6. CASE ~onVault
      <3>1. NoRequest.at = "idle" /\ NoRequest \in Requests /\ Carries(NoRequest)
        BY KindsAreRequests DEF NoRequest, Carries
      <3>2. request' = [request EXCEPT ![s] = NoRequest]
        BY <1>5, <2>6 DEF WriteAgentRow, Ends, GoTo
      <3>3. QED
        BY <1>2, <2>3, <2>4, <3>1, <3>2, KeptByMove
    <2>7. QED
      BY <2>5, <2>6
  <1>6. CASE PublishLimit(s)
    <2>1. request[s] \in Publishing /\ request[s].at = "publish"
      BY <1>1, <1>6, RequestKinds DEF PublishLimit, Doing
    <2>2. PICK b \in Agent, y \in 0 .. M : b = request[s].agent /\ y = request[s].publish
      BY <1>1, <2>1 DEF Publishing, Carries
    <2>3. /\ creditLimit' = [creditLimit EXCEPT ![b] = y] /\ outstanding' = outstanding
          /\ now' = now /\ loans' = loans /\ defaults' = defaults /\ line' = line
          /\ request' = [request EXCEPT ![s] = NoRequest]
      BY <1>6, <2>2 DEF PublishLimit, SetLimit, Ends, GoTo, rowVars
    <2>4. creditLimit' \in [Agent -> 0 .. M]
      BY <1>2, <2>2, <2>3
    <2>5. NoRequest.at = "idle" /\ NoRequest \in Requests /\ Carries(NoRequest)
      BY KindsAreRequests DEF NoRequest, Carries
    <2>6. QED
      BY <1>2, <2>3, <2>4, <2>5, KeptByMove
  <1>7. QED
    BY <1>3, <1>4, <1>5, <1>6

LEMMA KeptBySettle ==
  ASSUME LoansAssumption, LoansInv, NEW s \in Request, SettleLoan(s)
  PROVE  LoansInv' /\ LoansLast
  <1>1. LoansTyped /\ request[s].at = "settle" /\ request[s].loan \in LoanId
    BY DEF LoansInv, SettleLoan, Doing, Carries
  <1>2. PICK i \in LoanId, b \in Agent : i = request[s].loan /\ b = loans[i].agent
    BY <1>1, LoanRows
  <1>3. PICK r : r = [at |-> "recalc", agent |-> b]
    OBVIOUS
  <1>4. r \in Scoring /\ r.at = "recalc"
    BY <1>3 DEF Scoring
  <1>5. r \in Requests
    BY <1>4, KindsAreRequests
  <1>6. /\ loans' = [loans EXCEPT ![i].status = "settled"] /\ defaults' = defaults
        /\ request' = [request EXCEPT ![s] = r]
        /\ now' = now /\ line' = line /\ creditLimit' = creditLimit /\ outstanding' = outstanding
    BY <1>2, <1>3 DEF SettleLoan, GoTo, Recalc, vaultVars
  <1>7. QED
    BY <1>4, <1>5, <1>6, KeptByStatus

LEMMA KeptByClaim ==
  ASSUME LoansAssumption, LoansInv, NEW s \in Request, ClaimDefaulted(s)
  PROVE  LoansInv' /\ LoansLast
  <1>1. LoansTyped /\ request[s].at = "claim" /\ request[s] \in OnLoan /\ request[s].loan \in LoanId
    <2>1. request[s].at = "claim" /\ request[s] \in Requests
      BY DEF LoansInv, LoansTyped, ClaimDefaulted, Doing
    <2>2. QED
      BY <2>1, RequestKinds DEF LoansInv, Carries
  <1>2. PICK i \in LoanId, q \in OnLoan : i = request[s].loan /\ q = request[s]
    BY <1>1
  <1>3. CASE loans[i].status = "active"
    <2>1. PICK r : r = [q EXCEPT !.at = "defaulted"]
      OBVIOUS
    <2>2. r \in OnLoan /\ r.at = "defaulted" /\ r.loan = i
      BY <1>2, <2>1 DEF OnLoan
    <2>3. r \in Requests
      BY <2>2, KindsAreRequests
    <2>4. /\ loans' = [loans EXCEPT ![i].status = "defaulted"] /\ defaults' = defaults
          /\ request' = [request EXCEPT ![s] = r]
          /\ now' = now /\ line' = line /\ creditLimit' = creditLimit /\ outstanding' = outstanding
      BY <1>2, <1>3, <2>1 DEF ClaimDefaulted, Claims, GoTo, vaultVars
    <2>5. QED
      BY <1>3, <2>2, <2>3, <2>4, KeptByStatus
  <1>4. CASE loans[i].status # "active"
    <2>1. NoRequest.at = "idle" /\ NoRequest \in Requests /\ Carries(NoRequest)
      BY KindsAreRequests DEF NoRequest, Carries
    <2>2. GoTo(s, NoRequest) /\ UNCHANGED <<now, rowVars, vaultVars>>
      BY <1>2, <1>4 DEF ClaimDefaulted, Claims, Ends, rowVars
    <2>3. LoansInv' /\ loans' = loans
      BY <2>1, <2>2, KeptByGoing
    <2>4. QED
      BY <2>3, SameLast
  <1>5. QED
    BY <1>3, <1>4

LEMMA LoansStep ==
  ASSUME LoansAssumption, LoansInv, [LoansNext]_loanVars
  PROVE  LoansInv' /\ LoansLast
  <1>1. CASE UNCHANGED loanVars
    <2>1. /\ loans' = loans /\ defaults' = defaults /\ request' = request /\ now' = now /\ line' = line
          /\ creditLimit' = creditLimit /\ outstanding' = outstanding
      BY <1>1 DEF loanVars, rowVars, vaultVars
    <2>2. QED
      BY <2>1, KeptByRest, SameLast DEF LoansInv, LoansTyped
  <1>2. CASE NextDay
    <2>1. /\ loans' = loans /\ defaults' = defaults /\ request' = request /\ now' \in Nat /\ line' = line
          /\ creditLimit' = creditLimit /\ outstanding' = outstanding
      BY <1>2 DEF NextDay, rowVars, vaultVars, LoansInv, LoansTyped
    <2>2. QED
      BY <2>1, KeptByRest, SameLast
  <1>3. ASSUME NEW s \in Request, NEW a \in Agent, WorkScored(s, a) PROVE LoansInv' /\ LoansLast
    BY <1>3, KeptByPlans, SameLast
  <1>4. ASSUME NEW s \in Request, NEW a \in Agent, NEW amount \in Draws, DrawCredit(s, a, amount)
        PROVE  LoansInv' /\ LoansLast
    <2>1. loans' = loans
      BY <1>4 DEF DrawCredit, rowVars
    <2>2. QED
      BY <1>4, <2>1, KeptByDraw, SameLast
  <1>5. ASSUME NEW s \in Request, NEW a \in Agent, NEW amount \in Draws, DrawOnchain(s, a, amount)
        PROVE  LoansInv' /\ LoansLast
    BY <1>5, KeptByPlans, SameLast
  <1>6. ASSUME NEW s \in Request, NEW i \in LoanId,
               RepayCredit(s, i) \/ RepayOnchain(s, i) \/ SelectDefaulted(s, i)
        PROVE  LoansInv' /\ LoansLast
    BY <1>6, KeptByPlans, SameLast
  <1>7. ASSUME NEW s \in Request, CallDraw(s) \/ CallRepay(s) \/ WriteAgentRow(s) \/ PublishLimit(s)
        PROVE  LoansInv' /\ LoansLast
    BY <1>7, KeptByWrites, SameLast
  <1>8. ASSUME NEW s \in Request, InsertLoan(s) PROVE LoansInv' /\ LoansLast
    BY <1>8, KeptByInsertLoan, InsertedLast
  <1>9. ASSUME NEW s \in Request, SettleLoan(s) PROVE LoansInv' /\ LoansLast
    BY <1>9, KeptBySettle
  <1>10. ASSUME NEW s \in Request, ClaimDefaulted(s) PROVE LoansInv' /\ LoansLast
    BY <1>10, KeptByClaim
  <1>11. ASSUME NEW s \in Request, InsertDefaulted(s) PROVE LoansInv' /\ LoansLast
    BY <1>11, KeptByInsertDefaulted, SameLast
  <1>12. ASSUME NEW s \in Request, RecalculateCredit(s) \/ RequestDies(s) PROVE LoansInv' /\ LoansLast
    BY <1>12, KeptByPlans, SameLast
  <1>13. QED
    BY <1>1, <1>2, <1>3, <1>4, <1>5, <1>6, <1>7, <1>8, <1>9, <1>10, <1>11, <1>12 DEF LoansNext

\* What DefaultOnce says of one step.
OnceInStep ==
  /\ \A i \in LoanId : loans[i].status = "settled" => loans'[i].status = "settled"
  /\ \A i \in LoanId : defaults'[i] <= 1

\* A default is recorded once, and never against a loan that was repaid, however many
\* sweeps select the loan and whenever they die (lib/loan-sweep.ts).
THEOREM LoansDefaultOnce == ASSUME LoansAssumption PROVE LoansSpec => DefaultOnce
  <1>1. LoansInit => LoansInv
    BY LoansStart
  <1>2. LoansInv /\ [LoansNext]_loanVars => LoansInv'
    BY LoansStep
  <1>3. LoansInv /\ [LoansNext]_loanVars => [OnceInStep]_loanVars
    <2> SUFFICES ASSUME LoansInv, [LoansNext]_loanVars PROVE OnceInStep
      OBVIOUS
    <2>1. LoansInv' /\ LoansLast
      BY LoansStep
    <2>2. QED
      BY <2>1 DEF LoansInv, Marked, LoansLast, OnceInStep
  <1>4. LoansSpec => [][OnceInStep]_loanVars
    BY <1>1, <1>2, <1>3, PTL DEF LoansSpec
  <1>5. QED
    BY <1>4 DEF DefaultOnce, OnceInStep

-----------------------------------------------------------------------------
(***************************************************************************)
(* The rest of what the books and the vault hold: tokens never beyond a    *)
(* uint256, due days within the term, no available credit below zero.      *)
(***************************************************************************)
BooksTyped ==
  /\ TokenTypeOK
  /\ oracle \in Account /\ creditScore \in [Agent -> Score]
  /\ now \in 0 .. MaxDay
  /\ onVault \in BOOLEAN
  /\ available \in [Agent -> Nat]
  /\ \A i \in LoanId : loans[i].dueAt \in 0 .. MaxDay + TERM

LEMMA TransferTyped ==
  ASSUME MaxUintAssumption, TokenTypeOK, NEW from \in Account, NEW to \in Account, NEW amount \in Nat,
         Transfer(from, to, amount)
  PROVE  TokenTypeOK'
  <1>1. PICK f, t \in 0 .. MaxUint : f = balanceOf[from] /\ t = balanceOf[to]
    BY DEF TokenTypeOK, Uint
  <1>2. f >= amount /\ (from # to => t + amount <= MaxUint)
    BY <1>1 DEF Transfer
  <1>3. f - amount \in 0 .. MaxUint /\ (from # to => t + amount \in 0 .. MaxUint)
    BY <1>1, <1>2, MaxUintAssumption
  <1>4. CASE from = to
    BY <1>4 DEF Transfer, TokenTypeOK
  <1>5. CASE from # to
    <2>1. balanceOf' = [balanceOf EXCEPT ![from] = f - amount, ![to] = t + amount] /\ totalSupply' = totalSupply
      BY <1>1, <1>5 DEF Transfer, TokenTypeOK
    <2>2. balanceOf' \in [Account -> 0 .. MaxUint]
      BY <1>3, <1>5, <2>1 DEF TokenTypeOK, Uint
    <2>3. QED
      BY <2>1, <2>2 DEF TokenTypeOK, Uint
  <1>6. QED
    BY <1>4, <1>5

\* What the whole type needs, from the two invariants.
LEMMA BooksAreTyped ==
  ASSUME LoansAssumption, LoansInv, BooksTyped
  PROVE  LoansTypeOK
  <1>1. LoansTyped /\ M \in Nat
    BY LargestLine DEF LoansInv
  <1>2. 0 .. M \subseteq Limit /\ 0 .. M \subseteq Uint
    BY MaxUintAssumption DEF LoansAssumption, M, Uint
  <1>3. VaultTypeOK
    BY <1>1, <1>2 DEF LoansTyped, BooksTyped, VaultTypeOK, RegistryTypeOK
  <1>4. loans \in Seq(Loan)
    <2>1. ASSUME NEW i \in 1 .. Len(loans) PROVE loans[i] \in Loan
      <3>1. PICK q \in LoanRow : q = loans[i] /\ q.dueAt \in 0 .. MaxDay + TERM
        BY <1>1, LoanRows DEF BooksTyped
      <3>2. QED
        BY <3>1 DEF LoanRow, Loan
    <2>2. loans \in Seq(LoanRow)
      BY <1>1 DEF LoansTyped
    <2>3. QED
      BY <2>1, <2>2
  <1>5. defaults \in [LoanId -> Nat]
    BY <1>1, LoanRows DEF LoansTyped
  <1>6. QED
    BY <1>1, <1>3, <1>4, <1>5 DEF LoansTyped, BooksTyped, LoansTypeOK

LEMMA BooksStart == ASSUME LoansAssumption, LoansInit PROVE BooksTyped
  <1>1. LoanId = {} /\ 0 \in 0 .. MaxDay
    BY DEF LoansInit, LoanId, LoansAssumption
  <1>2. TokenTypeOK
    BY MaxUintAssumption DEF LoansInit, VaultInit, TokenTypeOK, LoansAssumption, Uint
  <1>3. oracle \in Account /\ creditScore \in [Agent -> Score]
    BY DEF LoansInit, VaultInit, LoansAssumption
  <1>4. available \in [Agent -> Nat]
    BY LargestLine DEF LoansInit
  <1>5. QED
    BY <1>1, <1>2, <1>3, <1>4 DEF LoansInit, BooksTyped

\* The loans as they are, or with another status.
LEMMA SameDueDays ==
  ASSUME LoansAssumption, LoansInv, BooksTyped,
         LoanId' = LoanId, \A i \in LoanId : loans'[i].dueAt = loans[i].dueAt
  PROVE  (\A i \in LoanId : loans[i].dueAt \in 0 .. MaxDay + TERM)'
  BY DEF BooksTyped

LEMMA BooksStep ==
  ASSUME LoansAssumption, LoansInv, BooksTyped, [LoansNext]_loanVars
  PROVE  BooksTyped'
  <1>1. LoansTyped /\ \A s \in Request : Carries(request[s]) /\ request[s] \in Requests
    BY DEF LoansInv, LoansTyped
  <1> DEFINE Rows == \A i \in LoanId : loans[i].dueAt \in 0 .. MaxDay + TERM
             Tokens == TokenTypeOK /\ oracle \in Account /\ creditScore \in [Agent -> Score]
             Columns == now \in 0 .. MaxDay /\ onVault \in BOOLEAN /\ available \in [Agent -> Nat]
  <1>2. Rows /\ Tokens /\ Columns
    BY DEF BooksTyped
  <1>3. ASSUME Rows', Tokens', Columns' PROVE BooksTyped'
    BY <1>3 DEF BooksTyped
  <1>4. ASSUME loans' = loans PROVE Rows'
    BY <1>2, <1>4 DEF LoanId
  <1>5. ASSUME UNCHANGED vaultVars PROVE Tokens'
    BY <1>2, <1>5 DEF vaultVars, TokenTypeOK
  <1>6. ASSUME UNCHANGED <<now, onVault, available>> PROVE Columns'
    BY <1>2, <1>6
  <1> HIDE DEF Rows, Tokens, Columns
  <1>7. CASE UNCHANGED <<loans, now, onVault, available, vaultVars>>
    BY <1>3, <1>4, <1>5, <1>6, <1>7
  <1>8. CASE NextDay
    <2>1. loans' = loans /\ UNCHANGED vaultVars /\ now' = now + 1 /\ now < MaxDay
          /\ UNCHANGED <<onVault, available>>
      BY <1>8 DEF NextDay, rowVars
    <2>2. Columns'
      BY <1>2, <2>1 DEF Columns, LoansAssumption
    <2>3. QED
      BY <1>3, <1>4, <1>5, <2>1, <2>2
  <1>9. ASSUME NEW s \in Request, InsertLoan(s) PROVE BooksTyped'
    <2>1. PICK l : /\ loans' = Append(loans, l) /\ l.dueAt = now + TERM
      BY <1>9 DEF InsertLoan
    <2>2. UNCHANGED <<now, onVault, available>> /\ UNCHANGED vaultVars
      BY <1>9 DEF InsertLoan
    <2>3. PICK n \in Nat : n = Len(loans) /\ LoanId = 1 .. n
      BY <1>1, LoanRows
    <2>4. LoanId' = 1 .. (n + 1) /\ loans'[n + 1] = l /\ \A i \in 1 .. n : loans'[i] = loans[i]
      BY <1>1, <2>1, <2>3 DEF LoansTyped, LoanId
    <2>5. now + TERM \in 0 .. MaxDay + TERM
      BY <1>2 DEF Columns, LoansAssumption
    <2>6. Rows'
      <3>1. ASSUME NEW i \in 1 .. (n + 1) PROVE loans'[i].dueAt \in 0 .. MaxDay + TERM
        <4>1. CASE i \in 1 .. n
          BY <1>2, <2>3, <2>4, <4>1 DEF Rows
        <4>2. CASE i = n + 1
          BY <2>1, <2>4, <2>5, <4>2
        <4>3. QED
          BY <4>1, <4>2
      <3>2. QED
        BY <2>4, <3>1 DEF Rows
    <2>7. QED
      BY <1>3, <1>5, <1>6, <2>2, <2>6
  <1>10. ASSUME NEW i \in LoanId, NEW st, loans' = [loans EXCEPT ![i].status = st],
                UNCHANGED <<now, onVault, available>>, UNCHANGED vaultVars
         PROVE  BooksTyped'
    <2>1. PICK q \in LoanRow : q = loans[i]
      BY <1>1, LoanRows
    <2>2. PICK r : r = [q EXCEPT !.status = st]
      OBVIOUS
    <2>3. r.dueAt = q.dueAt
      BY <2>2 DEF LoanRow
    <2>4. loans' = [loans EXCEPT ![i] = r]
      BY <1>10, <2>1, <2>2
    <2>5. LoanId' = LoanId /\ \A j \in LoanId : loans'[j].dueAt = loans[j].dueAt
      BY <1>1, <2>1, <2>3, <2>4, LoanRows DEF LoanId, LoansTyped
    <2>6. Rows'
      BY <2>5, SameDueDays DEF Rows
    <2>7. QED
      BY <1>3, <1>5, <1>6, <1>10, <2>6
  <1>11. ASSUME NEW s \in Request, SettleLoan(s) PROVE BooksTyped'
    <2>1. request[s].loan \in LoanId
      BY <1>1, <1>11 DEF SettleLoan, Doing, Carries
    <2>2. QED
      BY <1>10, <1>11, <2>1 DEF SettleLoan
  <1>12. ASSUME NEW s \in Request, ClaimDefaulted(s) PROVE BooksTyped'
    <2>1. request[s].loan \in LoanId
      BY <1>1, <1>12 DEF ClaimDefaulted, Doing, Carries
    <2>2. UNCHANGED <<now, onVault, available>> /\ UNCHANGED vaultVars
      BY <1>12 DEF ClaimDefaulted
    <2>3. CASE Claims(request[s].loan)
      BY <1>10, <1>12, <2>1, <2>2, <2>3 DEF ClaimDefaulted
    <2>4. CASE ~Claims(request[s].loan)
      BY <1>7, <1>12, <2>2, <2>4 DEF ClaimDefaulted
    <2>5. QED
      BY <2>3, <2>4
  <1>13. ASSUME NEW s \in Request, WriteAgentRow(s) PROVE BooksTyped'
    <2>1. request[s] \in Recording
      BY <1>1, <1>13, RequestKinds DEF WriteAgentRow, Doing
    <2>2. request[s].agent \in Agent /\ request[s].available \in Nat
      BY <2>1 DEF Recording
    <2>3. loans' = loans /\ UNCHANGED vaultVars /\ UNCHANGED <<now, onVault>>
          /\ available' = [available EXCEPT ![request[s].agent] = request[s].available]
      BY <1>13 DEF WriteAgentRow
    <2>4. Columns'
      BY <1>2, <2>2, <2>3 DEF Columns
    <2>5. QED
      BY <1>3, <1>4, <1>5, <2>3, <2>4
  <1>14. ASSUME NEW s \in Request, PublishLimit(s) PROVE BooksTyped'
    <2>1. request[s] \in Publishing
      BY <1>1, <1>14, RequestKinds DEF PublishLimit, Doing
    <2>2. PICK b \in Agent : b = request[s].agent
      BY <2>1 DEF Publishing
    <2>3. /\ creditScore' = [creditScore EXCEPT ![b] = 0] /\ oracle' = oracle
          /\ UNCHANGED tokenVars /\ loans' = loans /\ UNCHANGED <<now, onVault, available>>
      BY <1>14, <2>2 DEF PublishLimit, SetLimit, rowVars
    <2>4. Tokens'
      BY <1>2, <2>2, <2>3 DEF Tokens, TokenTypeOK, tokenVars, LoansAssumption
    <2>5. QED
      BY <1>3, <1>4, <1>6, <2>3, <2>4
  <1>15. ASSUME NEW s \in Request, CallDraw(s) PROVE BooksTyped'
    <2>1. request[s] \in Drawing
      BY <1>1, <1>15, RequestKinds DEF CallDraw, Doing
    <2>2. PICK b \in Account, m \in Nat : b = request[s].agent /\ m = request[s].amount
      BY <2>1 DEF Drawing, LoansAssumption
    <2>3. /\ Transfer(Vault, b, m) /\ UNCHANGED registryVars
          /\ loans' = loans /\ UNCHANGED <<now, onVault, available>>
      BY <1>15, <2>2 DEF CallDraw, Draw, rowVars
    <2>4. TokenTypeOK'
      BY <1>2, <2>3, TransferTyped, MaxUintAssumption DEF Tokens, LoansAssumption
    <2>5. Tokens'
      BY <1>2, <2>3, <2>4 DEF Tokens, registryVars
    <2>6. QED
      BY <1>3, <1>4, <1>6, <2>3, <2>5
  <1>16. ASSUME NEW s \in Request, CallRepay(s) PROVE BooksTyped'
    <2>1. PICK i \in LoanId : i = request[s].loan
      BY <1>1, <1>16 DEF CallRepay, Doing, Carries
    <2>2. PICK b \in Agent, m \in Nat : b = loans[i].agent /\ m = loans[i].amount
      BY <1>1, LoanRows
    <2>3. Repay(b, m) /\ loans' = loans /\ UNCHANGED <<now, onVault, available>>
      BY <1>16, <2>1, <2>2 DEF CallRepay, rowVars
    <2>4. PICK o \in 0 .. M : o = outstanding[b]
      BY <1>1 DEF LoansTyped
    <2>5. PICK p \in Nat : p = IF m > o THEN o ELSE m
      BY <2>4, LargestLine
    <2>6. Transfer(b, Vault, p) /\ UNCHANGED registryVars
      BY <2>3, <2>4, <2>5 DEF Repay
    <2>7. TokenTypeOK'
      BY <1>2, <2>6, TransferTyped, MaxUintAssumption DEF Tokens, LoansAssumption
    <2>8. Tokens'
      BY <1>2, <2>6, <2>7 DEF Tokens, registryVars
    <2>9. QED
      BY <1>3, <1>4, <1>6, <2>3, <2>8
  <1>17. ASSUME NEW s \in Request,
                \/ \E a \in Agent : WorkScored(s, a)
                \/ \E a \in Agent, amount \in Draws : DrawCredit(s, a, amount) \/ DrawOnchain(s, a, amount)
                \/ \E i \in LoanId : RepayCredit(s, i) \/ RepayOnchain(s, i) \/ SelectDefaulted(s, i)
                \/ InsertDefaulted(s) \/ RecalculateCredit(s) \/ RequestDies(s)
         PROVE  BooksTyped'
    <2>1. UNCHANGED <<loans, now, onVault, available, vaultVars>>
      BY <1>17 DEF WorkScored, DrawCredit, DrawOnchain, RepayCredit, RepayOnchain, SelectDefaulted,
                   InsertDefaulted, RecalculateCredit, RequestDies, rowVars
    <2>2. QED
      BY <1>7, <2>1
  <1>18. CASE UNCHANGED loanVars
    BY <1>7, <1>18 DEF loanVars, rowVars
  <1>19. QED
    BY <1>8, <1>9, <1>11, <1>12, <1>13, <1>14, <1>15, <1>16, <1>17, <1>18 DEF LoansNext

\* The loans keep their types, the vault's among them: no balance passes a uint256, no
\* limit is published that the engine does not compute, and no available credit falls
\* below zero, for any number of agents, requests, loans and days
\* (lib/credit-engine/index.ts, contracts/src/AgentCreditVault.sol).
THEOREM LoansTypes == ASSUME LoansAssumption PROVE LoansSpec => []LoansTypeOK
  <1>1. LoansInit => LoansInv /\ BooksTyped
    BY LoansStart, BooksStart
  <1>2. LoansInv /\ BooksTyped /\ [LoansNext]_loanVars => LoansInv' /\ BooksTyped'
    BY LoansStep, BooksStep
  <1>3. LoansInv /\ BooksTyped => LoansTypeOK
    BY BooksAreTyped
  <1>4. QED
    BY <1>1, <1>2, <1>3, PTL DEF LoansSpec

-----------------------------------------------------------------------------
(***************************************************************************)
(* The vault lends what it has: its balance and the agents' debts make up  *)
(* its funds.                                                              *)
(***************************************************************************)
Whole == balanceOf[Vault] + SumFunction(outstanding) = Funds

LEMMA WholeAtStart == ASSUME LoansAssumption, LoansInit PROVE Whole
  <1>1. outstanding \in [Agent -> Int] /\ \A a \in Agent : outstanding[a] = 0
    BY DEF LoansInit, VaultInit
  <1>2. SumFunction(outstanding) = 0
    BY <1>1, SumZero DEF LoansAssumption
  <1>3. balanceOf[Vault] = Funds /\ Funds \in Nat
    BY DEF LoansInit, VaultInit, LoansAssumption, Uint
  <1>4. QED
    BY <1>2, <1>3 DEF Whole

\* One agent's debt changes by what the vault's balance changes, the other way.
LEMMA WholeByMove ==
  ASSUME LoansAssumption, LoansTyped, TokenTypeOK, Whole, NEW b \in Agent,
         NEW o \in Int, NEW o1 \in Int, NEW v \in Int, NEW v1 \in Int,
         outstanding[b] = o, outstanding' = [outstanding EXCEPT ![b] = o1],
         balanceOf[Vault] = v, balanceOf'[Vault] = v1, v1 + o1 = v + o
  PROVE  Whole'
  <1>1. outstanding \in [Agent -> Int]
    BY LargestLine DEF LoansTyped
  <1>2. PICK f, g \in [Agent -> Int] : f = outstanding /\ g = outstanding'
    BY <1>1
  <1>3. g[b] = o1 /\ f[b] = o /\ \A a \in Agent \ {b} : g[a] = f[a]
    BY <1>1, <1>2
  <1>4. SumFunction(g) = SumFunction(f) + (g[b] - f[b])
    BY <1>3, SumChange DEF LoansAssumption
  <1>5. PICK x \in Int : x = SumFunction(f)
    BY SumType DEF LoansAssumption
  <1>6. v + x = Funds
    BY <1>2, <1>5 DEF Whole
  <1>7. v1 + (x + (o1 - o)) = Funds
    BY <1>6
  <1>8. balanceOf'[Vault] + SumFunction(outstanding') = Funds
    BY <1>2, <1>3, <1>4, <1>5, <1>7
  <1>9. QED
    BY <1>8 DEF Whole

LEMMA WholeStep ==
  ASSUME LoansAssumption, LoansInv, BooksTyped, Whole, [LoansNext]_loanVars
  PROVE  Whole'
  <1>1. /\ LoansTyped /\ TokenTypeOK
        /\ \A s \in Request : Carries(request[s]) /\ request[s] \in Requests
    BY DEF LoansInv, LoansTyped, BooksTyped
  <1>2. PICK v \in Nat : v = balanceOf[Vault]
    BY <1>1 DEF TokenTypeOK, LoansAssumption, Uint
  <1>3. ASSUME NEW s \in Request, CallDraw(s) PROVE Whole'
    <2>1. request[s] \in Drawing
      BY <1>1, <1>3, RequestKinds DEF CallDraw, Doing
    <2>2. PICK b \in Agent, m \in Nat : b = request[s].agent /\ m = request[s].amount
      BY <2>1 DEF Drawing, LoansAssumption
    <2>3. PICK o \in Nat : o = outstanding[b]
      BY <1>1, LargestLine DEF LoansTyped
    <2>4. outstanding' = [outstanding EXCEPT ![b] = o + m] /\ Transfer(Vault, b, m)
      BY <1>3, <2>2, <2>3 DEF CallDraw, Draw
    <2>5. balanceOf'[Vault] = v - m
      BY <1>1, <1>2, <2>4 DEF Transfer, TokenTypeOK, LoansAssumption
    <2>6. (v - m) + (o + m) = v + o /\ v - m \in Int /\ o + m \in Int
      OBVIOUS
    <2>7. PICK v1, o1 \in Int : v1 = v - m /\ o1 = o + m /\ v1 + o1 = v + o
      BY <2>6
    <2>8. outstanding' = [outstanding EXCEPT ![b] = o1] /\ balanceOf'[Vault] = v1
      BY <2>4, <2>5, <2>7
    <2>9. v \in Int /\ o \in Int
      OBVIOUS
    <2>10. QED
      BY <1>1, <1>2, <2>3, <2>7, <2>8, <2>9, WholeByMove
  <1>4. ASSUME NEW s \in Request, CallRepay(s) PROVE Whole'
    <2>1. PICK i \in LoanId : i = request[s].loan
      BY <1>1, <1>4 DEF CallRepay, Doing, Carries
    <2>2. PICK b \in Agent, m \in Nat : b = loans[i].agent /\ m = loans[i].amount
      BY <1>1, LoanRows
    <2>3. Repay(b, m)
      BY <1>4, <2>1, <2>2 DEF CallRepay
    <2>4. PICK o \in Nat : o = outstanding[b]
      BY <1>1, LargestLine DEF LoansTyped
    <2>5. PICK p \in Nat : p = IF m > o THEN o ELSE m
      BY <2>4
    <2>6. outstanding' = [outstanding EXCEPT ![b] = o - p] /\ Transfer(b, Vault, p)
      BY <2>3, <2>4, <2>5 DEF Repay
    <2>7. balanceOf'[Vault] = v + p
      BY <1>1, <1>2, <2>6 DEF Transfer, TokenTypeOK, LoansAssumption
    <2>8. (v + p) + (o - p) = v + o /\ v + p \in Int /\ o - p \in Int
      OBVIOUS
    <2>9. PICK v1, o1 \in Int : v1 = v + p /\ o1 = o - p /\ v1 + o1 = v + o
      BY <2>8
    <2>10. outstanding' = [outstanding EXCEPT ![b] = o1] /\ balanceOf'[Vault] = v1
      BY <2>6, <2>7, <2>9
    <2>11. v \in Int /\ o \in Int
      OBVIOUS
    <2>12. QED
      BY <1>1, <1>2, <2>4, <2>9, <2>10, <2>11, WholeByMove
  <1>5. CASE UNCHANGED <<balanceOf, outstanding>>
    BY <1>5 DEF Whole
  <1>6. ASSUME NEW s \in Request,
               \/ \E a \in Agent : WorkScored(s, a)
               \/ \E a \in Agent, amount \in Draws : DrawCredit(s, a, amount) \/ DrawOnchain(s, a, amount)
               \/ \E i \in LoanId : RepayCredit(s, i) \/ RepayOnchain(s, i) \/ SelectDefaulted(s, i)
               \/ InsertLoan(s) \/ SettleLoan(s) \/ ClaimDefaulted(s) \/ InsertDefaulted(s)
               \/ RecalculateCredit(s) \/ WriteAgentRow(s) \/ PublishLimit(s) \/ RequestDies(s)
        PROVE  UNCHANGED <<balanceOf, outstanding>>
    BY <1>6 DEF WorkScored, DrawCredit, DrawOnchain, RepayCredit, RepayOnchain, SelectDefaulted, InsertLoan,
                SettleLoan, ClaimDefaulted, InsertDefaulted, RecalculateCredit, WriteAgentRow, PublishLimit,
                RequestDies, vaultVars, tokenVars
  <1>7. NextDay \/ UNCHANGED loanVars => UNCHANGED <<balanceOf, outstanding>>
    BY DEF NextDay, loanVars, vaultVars
  <1>8. QED
    BY <1>3, <1>4, <1>5, <1>6, <1>7 DEF LoansNext

LEMMA InvIsBounded == ASSUME LoansAssumption, LoansInv, Whole PROVE ExposureIsBounded
  <1>1. LoansTyped /\ \A s \in Request : Carries(request[s])
    BY DEF LoansInv
  <1>2. PICK x, y \in Nat : x = SumFunction(OffVault) /\ y = SumFunction(Insertions)
    BY <1>1, LoanRows, InsertionsTyped
  <1>3. PICK z \in Int : z = Cardinality(Request) * M
    <2>1. Cardinality(Request) \in Nat /\ M \in Nat
      BY FS_CardinalityType, LargestLine DEF LoansAssumption
    <2>2. QED
      BY <2>1
  <1>4. x + y <= z
    BY <1>2, <1>3 DEF LoansInv, Exposed
  <1>5. SumFunction(OffVault) <= Cardinality(Request) * M
    BY <1>2, <1>3, <1>4
  <1>6. OffVault = [i \in LoanId |-> IF IsOutstanding(i) /\ ~loans[i].vault THEN loans[i].amount ELSE 0]
    BY DEF OffVault, OpenOffVault
  <1>7. \A a \in Agent : outstanding[a] <= M
    BY <1>1 DEF LoansTyped
  <1>8. QED
    BY <1>5, <1>6, <1>7 DEF ExposureIsBounded, M, Whole

\* What an owner owes off-chain is never more than one line for each request at work,
\* no agent owes the vault more than a line, and the vault holds what it was funded
\* with less what the agents owe it: for any number of agents, requests and loans, and
\* whatever dies between the statements (app/actions/credit.ts,
\* contracts/src/AgentCreditVault.sol).
THEOREM LoansExposureIsBounded == ASSUME LoansAssumption PROVE LoansSpec => []ExposureIsBounded
  <1>1. LoansInit => LoansInv /\ BooksTyped /\ Whole
    BY LoansStart, BooksStart, WholeAtStart
  <1>2. LoansInv /\ BooksTyped /\ Whole /\ [LoansNext]_loanVars => LoansInv' /\ BooksTyped' /\ Whole'
    BY LoansStep, BooksStep, WholeStep
  <1>3. LoansInv /\ Whole => ExposureIsBounded
    BY InvIsBounded
  <1>4. QED
    BY <1>1, <1>2, <1>3, PTL DEF LoansSpec

-----------------------------------------------------------------------------
(***************************************************************************)
(* The run: one part steps, the other stays in its initial state.          *)
(***************************************************************************)
LEMMA CreditParts == CreditSpec => Spec /\ LoansSpec
  <1>1. CreditInit => Init /\ LoansInit
    BY DEF CreditInit
  <1>2. [CreditNext]_<<part, vars, loanVars>> => [Next]_vars /\ [LoansNext]_loanVars
    BY DEF CreditNext
  <1>3. QED
    BY <1>1, <1>2, PTL DEF CreditSpec, Spec, LoansSpec

\* Every part of the run keeps its types, whichever is chosen at the start
\* (app/actions/verified.ts, lib/credit-engine/index.ts).
THEOREM CreditTypes == CreditSpec => []PartsTypeOK
  <1>1. Spec => []TypeOK
    BY VerifiedTaskTypeOK, PTL
  <1>2. LoansSpec => []LoansTypeOK
    BY Assumptions, LoansTypes
  <1>3. TypeOK /\ LoansTypeOK => PartsTypeOK
    BY DEF PartsTypeOK
  <1>4. QED
    BY <1>1, <1>2, <1>3, CreditParts, PTL
=============================================================================

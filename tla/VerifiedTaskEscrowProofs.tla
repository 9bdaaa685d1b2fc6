---------------------- MODULE VerifiedTaskEscrowProofs ----------------------
(***************************************************************************)
(* The task escrow's theorems, for every set of callers, answers, bounties *)
(* and tasks, every reveal window and every width of the token's integers. *)
(***************************************************************************)
EXTENDS VerifiedTaskEscrow, SequenceTheorems, TLAPS

\* A commitment has its type only while the tasks it may name fit their bound.
IInv ==
  /\ TypeOK
  /\ Len(tasks) <= MaxTasks
  /\ PaidOnlyForOwnAnswer

LEMMA TaskType ==
  ASSUME TypeOK, NEW j \in TaskId
  PROVE  tasks[j] \in Task
  BY ElementOfSeq DEF TypeOK, TaskId

\* Replacing one task by another of the right type keeps the type.
LEMMA TaskReplaced ==
  ASSUME TypeOK, NEW j \in TaskId, NEW task \in Task, tasks' = [tasks EXCEPT ![j] = task]
  PROVE  /\ tasks' \in Seq(Task)
         /\ Len(tasks') = Len(tasks)
         /\ tasks'[j] = task
         /\ \A k \in TaskId : k # j => tasks'[k] = tasks[k]
  BY ExceptSeq DEF TypeOK, TaskId

\* A transfer keeps the token's types, whoever makes it.
LEMMA TransferType ==
  ASSUME TokenTypeOK, NEW from \in Account, NEW to \in Account,
         NEW amount \in Uint, Transfer(from, to, amount)
  PROVE  TokenTypeOK'
  BY MaxUintAssumption DEF TokenTypeOK, Transfer, Uint

-----------------------------------------------------------------------------
\* A step of the escrow posts a task or is made on one.
Touches(j) ==
  \/ \E c \in Caller : \/ \E commitment \in CommitmentsFor(c, j) : CommitAnswer(c, j, commitment)
                       \/ \E answer \in Answer : RevealAnswer(c, j, answer)
                       \/ CancelTask(c, j)
  \/ ReclaimExpired(j)

LEMMA NextCases ==
  ASSUME Next
  PROVE  \/ Tick
         \/ TokenStep
         \/ RegistryStep
         \/ \E r \in Caller, bounty \in Bounty, minScore \in Score, answerHash \in Answer :
              PostTask(r, bounty, minScore, answerHash)
         \/ \E j \in TaskId : Touches(j)
  BY DEF Next, EscrowStep, Touches

\* Whoever repeats a commitment repeats one of the right type.
LEMMA CommitmentType ==
  ASSUME IInv, NEW c \in Caller, NEW j \in TaskId, NEW commitment \in CommitmentsFor(c, j)
  PROVE  commitment \in Commitment
  <1>1. j \in 1 .. MaxTasks
    BY LenProperties, TaskEscrowAssumption DEF IInv, TypeOK, TaskId
  <1>2. CASE commitment \in [task : {j}, solver : {c}, answer : Answer]
    BY <1>1, <1>2 DEF Commitment
  <1>3. ASSUME NEW i \in TaskId, commitment = tasks[i].commitment, commitment # NoCommitment
        PROVE  commitment \in Commitment
    BY <1>3, TaskType DEF IInv, Task
  <1>4. QED
    BY <1>2, <1>3 DEF CommitmentsFor

\* What a call on an existing task does to its record and to the token.
LEMMA TouchedTask ==
  ASSUME IInv, NEW j \in TaskId, Touches(j)
  PROVE  /\ \E task \in Task : tasks' = [tasks EXCEPT ![j] = task]
         /\ tasks'[j].requester = tasks[j].requester
         /\ tasks'[j].bounty = tasks[j].bounty
         /\ tasks'[j].answerHash = tasks[j].answerHash
         /\ \/ tasks[j].status = "Open" /\ tasks'[j].status = "Committed"
                 /\ UNCHANGED tokenVars
            \/ tasks[j].status = "Committed" /\ tasks'[j].status = "Open"
                 /\ UNCHANGED tokenVars
            \/ /\ tasks[j].status = "Committed" /\ tasks'[j].status = "Completed"
               /\ tasks[j].solver \in Caller /\ tasks'[j].solver = tasks[j].solver
               /\ tasks'[j].commitment = [task |-> j, solver |-> tasks[j].solver,
                                          answer |-> tasks[j].answerHash]
               /\ Transfer(TaskEscrow, tasks[j].solver, tasks[j].bounty)
            \/ /\ tasks[j].status = "Open" /\ tasks'[j].status = "Cancelled"
               /\ Transfer(TaskEscrow, tasks[j].requester, tasks[j].bounty)
  <1>1. tasks[j] \in Task /\ DOMAIN tasks = 1 .. Len(tasks) /\ j \in DOMAIN tasks
    BY TaskType, LenProperties DEF IInv, TypeOK, TaskId
  <1>2. ASSUME NEW c \in Caller, NEW commitment \in CommitmentsFor(c, j),
               CommitAnswer(c, j, commitment)
        PROVE  /\ tasks' = [tasks EXCEPT ![j] = [tasks[j] EXCEPT !.solver = c,
                     !.commitment = commitment, !.elapsed = 0, !.status = "Committed"]]
               /\ tasks[j].status = "Open" /\ UNCHANGED tokenVars
    BY <1>1, <1>2 DEF CommitAnswer
  <1>3. ASSUME Reopened(j)
        PROVE  tasks' = [tasks EXCEPT ![j] = [tasks[j] EXCEPT !.solver = Nobody,
                     !.commitment = NoCommitment, !.elapsed = 0, !.status = "Open"]]
    BY <1>1, <1>3 DEF Reopened
  <1>4. ASSUME NEW s, tasks' = [tasks EXCEPT ![j].status = s]
        PROVE  tasks' = [tasks EXCEPT ![j] = [tasks[j] EXCEPT !.status = s]]
    BY <1>1, <1>4
  <1>5. CASE \E c \in Caller : \E commitment \in CommitmentsFor(c, j) :
               CommitAnswer(c, j, commitment)
    <2>1. PICK c \in Caller : \E commitment \in CommitmentsFor(c, j) :
                 CommitAnswer(c, j, commitment)
      BY <1>5
    <2>2. PICK commitment \in CommitmentsFor(c, j) : CommitAnswer(c, j, commitment)
      BY <2>1
    <2> DEFINE task == [tasks[j] EXCEPT !.solver = c, !.commitment = commitment,
                                        !.elapsed = 0, !.status = "Committed"]
    <2>3. 0 \in 0 .. Expired
      BY TaskEscrowAssumption DEF Expired
    <2>4. task \in Task
      BY <1>1, <2>3, CommitmentType DEF Task
    <2>5. tasks' = [tasks EXCEPT ![j] = task] /\ tasks'[j] = task
          /\ tasks[j].status = "Open" /\ UNCHANGED tokenVars
      BY <1>2, <2>2, <2>4, TaskReplaced DEF IInv
    <2>6. /\ task.requester = tasks[j].requester /\ task.bounty = tasks[j].bounty
          /\ task.answerHash = tasks[j].answerHash /\ task.status = "Committed"
      BY <1>1 DEF Task
    <2>7. QED
      BY <2>4, <2>5, <2>6
  <1>6. CASE tasks[j].status = "Committed" /\ Reopened(j) /\ UNCHANGED tokenVars
    <2> DEFINE task == [tasks[j] EXCEPT !.solver = Nobody, !.commitment = NoCommitment,
                                        !.elapsed = 0, !.status = "Open"]
    <2>1. 0 \in 0 .. Expired
      BY TaskEscrowAssumption DEF Expired
    <2>2. task \in Task
      BY <1>1, <2>1 DEF Task
    <2>3. tasks' = [tasks EXCEPT ![j] = task] /\ tasks'[j] = task
      BY <1>3, <1>6, <2>2, TaskReplaced DEF IInv
    <2>4. /\ task.requester = tasks[j].requester /\ task.bounty = tasks[j].bounty
          /\ task.answerHash = tasks[j].answerHash /\ task.status = "Open"
      BY <1>1 DEF Task
    <2>5. QED
      BY <1>6, <2>2, <2>3, <2>4
  <1>7. ASSUME NEW s \in {"Completed", "Cancelled"}, tasks' = [tasks EXCEPT ![j].status = s]
        PROVE  /\ [tasks[j] EXCEPT !.status = s] \in Task
               /\ tasks' = [tasks EXCEPT ![j] = [tasks[j] EXCEPT !.status = s]]
               /\ tasks'[j].requester = tasks[j].requester
               /\ tasks'[j].bounty = tasks[j].bounty
               /\ tasks'[j].answerHash = tasks[j].answerHash
               /\ tasks'[j].solver = tasks[j].solver
               /\ tasks'[j].commitment = tasks[j].commitment
               /\ tasks'[j].status = s
    <2>1. [tasks[j] EXCEPT !.status = s] \in Task
      BY <1>1 DEF Task
    <2>2. tasks' = [tasks EXCEPT ![j] = [tasks[j] EXCEPT !.status = s]]
          /\ tasks'[j] = [tasks[j] EXCEPT !.status = s]
      BY <1>4, <1>7, <2>1, TaskReplaced DEF IInv
    <2>3. QED
      BY <1>1, <2>1, <2>2 DEF Task
  <1>8. ASSUME NEW c \in Caller, NEW answer \in Answer, RevealAnswer(c, j, answer)
        PROVE  \/ tasks[j].status = "Committed" /\ Reopened(j) /\ UNCHANGED tokenVars
               \/ /\ tasks[j].status = "Committed"
                  /\ tasks' = [tasks EXCEPT ![j].status = "Completed"]
                  /\ tasks[j].solver \in Caller
                  /\ tasks[j].commitment = [task |-> j, solver |-> tasks[j].solver,
                                            answer |-> tasks[j].answerHash]
                  /\ Transfer(TaskEscrow, tasks[j].solver, tasks[j].bounty)
    BY <1>8 DEF RevealAnswer
  <1>9. ASSUME NEW c \in Caller, CancelTask(c, j)
        PROVE  /\ tasks[j].status = "Open"
               /\ tasks' = [tasks EXCEPT ![j].status = "Cancelled"]
               /\ Transfer(TaskEscrow, tasks[j].requester, tasks[j].bounty)
    BY <1>9 DEF CancelTask
  <1>10. CASE \E c \in Caller : CancelTask(c, j)
    BY <1>7, <1>9, <1>10
  <1>11. CASE \E c \in Caller, answer \in Answer : RevealAnswer(c, j, answer)
    BY <1>6, <1>7, <1>8, <1>11
  <1>12. CASE ReclaimExpired(j)
    BY <1>6, <1>12 DEF ReclaimExpired
  <1>13. QED
    BY <1>5, <1>10, <1>11, <1>12 DEF Touches

-----------------------------------------------------------------------------
\* Posting appends one open task and leaves the others alone.
LEMMA PostedTask ==
  ASSUME TypeOK, NEW r \in Caller, NEW bounty \in Bounty, NEW minScore \in Score,
         NEW answerHash \in Answer, PostTask(r, bounty, minScore, answerHash)
  PROVE  /\ tasks' \in Seq(Task)
         /\ Len(tasks') = Len(tasks) + 1
         /\ \A j \in TaskId : tasks'[j] = tasks[j]
         /\ tasks'[Len(tasks) + 1].bounty = bounty
         /\ tasks'[Len(tasks) + 1].status = "Open"
  <1> DEFINE task == [requester |-> r, solver |-> Nobody, bounty |-> bounty,
                      minScore |-> minScore, answerHash |-> answerHash,
                      commitment |-> NoCommitment, elapsed |-> 0, status |-> "Open"]
  <1>1. 0 \in 0 .. Expired
    BY TaskEscrowAssumption DEF Expired
  <1>2. task \in Task
    BY <1>1 DEF Task
  <1>3. tasks \in Seq(Task) /\ tasks' = Append(tasks, task)
    BY DEF TypeOK, PostTask
  <1>4. QED
    BY <1>2, <1>3, AppendProperties DEF TaskId

\* Time only moves the clocks of committed tasks.
LEMMA TickKeeps ==
  ASSUME TypeOK, Tick
  PROVE  /\ tasks' \in Seq(Task)
         /\ Len(tasks') = Len(tasks)
         /\ \A j \in TaskId : /\ tasks'[j].status = tasks[j].status
                              /\ tasks'[j].bounty = tasks[j].bounty
                              /\ tasks'[j].requester = tasks[j].requester
                              /\ tasks'[j].solver = tasks[j].solver
                              /\ tasks'[j].commitment = tasks[j].commitment
                              /\ tasks'[j].answerHash = tasks[j].answerHash
  <1>1. Len(tasks) \in Nat
    BY LenProperties DEF TypeOK
  <1>2. ASSUME NEW j \in TaskId
        PROVE  /\ tasks'[j] \in Task
               /\ tasks'[j] = tasks[j] \/ tasks'[j] = [tasks[j] EXCEPT !.elapsed = @ + 1]
    <2>1. tasks[j] \in Task
      BY TaskType
    <2>2. tasks[j].elapsed < Expired => tasks[j].elapsed + 1 \in 0 .. Expired
      BY <2>1, TaskEscrowAssumption DEF Task, Expired
    <2>3. QED
      BY <2>1, <2>2 DEF Tick, Task
  <1>3. tasks' \in [1 .. Len(tasks) -> Task]
    BY <1>2 DEF Tick, TaskId
  <1>4. tasks' \in Seq(Task) /\ Len(tasks') = Len(tasks)
    BY <1>1, <1>3
  <1>5. QED
    BY <1>2, <1>4, TaskType DEF Task

LEMMA TypeStep == IInv /\ [Next]_vars => TypeOK'
  <1> SUFFICES ASSUME IInv, [Next]_vars PROVE TypeOK'
    OBVIOUS
  <1> USE DEF IInv, TypeOK
  <1>1. CASE TokenStep
    <2>1. ASSUME NEW to \in Account, Mint(to, 1)
          PROVE  TokenTypeOK'
      BY <2>1, MaxUintAssumption DEF Mint, TokenTypeOK, Uint
    <2>2. ASSUME NEW from \in Caller, NEW to \in Account, NEW amount \in Bounty,
                 Transfer(from, to, amount)
          PROVE  TokenTypeOK'
      BY <2>2, TaskEscrowAssumption, TransferType
    <2>3. TokenTypeOK'
      BY <1>1, <2>1, <2>2 DEF TokenStep
    <2>4. QED
      BY <1>1, <2>3 DEF TokenStep, registryVars, RegistryTypeOK
  <1>2. CASE RegistryStep
    BY <1>2 DEF RegistryStep, SetLimit, tokenVars, TokenTypeOK, RegistryTypeOK
  <1>3. CASE Tick
    BY <1>3, TickKeeps DEF Tick, tokenVars, registryVars, TokenTypeOK, RegistryTypeOK
  <1>4. ASSUME NEW r \in Caller, NEW bounty \in Bounty, NEW minScore \in Score,
               NEW answerHash \in Answer, PostTask(r, bounty, minScore, answerHash)
        PROVE  TypeOK'
    <2>1. TokenTypeOK'
      BY <1>4, TaskEscrowAssumption, TransferType DEF PostTask
    <2>2. QED
      BY <1>4, <2>1, PostedTask DEF PostTask, registryVars, RegistryTypeOK
  <1>5. ASSUME NEW j \in TaskId, Touches(j)
        PROVE  TypeOK'
    <2>1. tasks' \in Seq(Task)
      BY <1>5, TouchedTask, TaskReplaced
    <2>2. tasks[j].bounty \in Uint /\ tasks[j].requester \in Account
      BY TaskType, TaskEscrowAssumption DEF Task
    <2>3. \/ UNCHANGED tokenVars
          \/ \E to \in Account : Transfer(TaskEscrow, to, tasks[j].bounty)
      BY <1>5, <2>2, TouchedTask, TaskEscrowAssumption
    <2>4. TokenTypeOK'
      BY <2>2, <2>3, TaskEscrowAssumption, TransferType DEF tokenVars, TokenTypeOK
    <2>5. registryVars' = registryVars
      BY <1>5 DEF Touches, CommitAnswer, RevealAnswer, CancelTask, ReclaimExpired
    <2>6. QED
      BY <2>1, <2>4, <2>5 DEF registryVars, RegistryTypeOK
  <1>6. CASE UNCHANGED vars
    BY <1>6 DEF vars, TokenTypeOK, RegistryTypeOK
  <1>7. QED
    BY <1>1, <1>2, <1>3, <1>4, <1>5, <1>6, NextCases

\* Only a reveal held against its commitment completes a task, and a completed
\* task is touched no more.
LEMMA PaidStep == IInv /\ [Next]_vars => PaidOnlyForOwnAnswer' /\ (Len(tasks) <= MaxTasks)'
  <1> SUFFICES ASSUME IInv, [Next]_vars
               PROVE  PaidOnlyForOwnAnswer' /\ (Len(tasks) <= MaxTasks)'
    OBVIOUS
  <1> DEFINE Paid(j) == tasks'[j].status = "Completed" =>
               tasks'[j].commitment = [task |-> j, solver |-> tasks'[j].solver,
                                       answer |-> tasks'[j].answerHash]
  <1>1. CASE UNCHANGED tasks
    BY <1>1 DEF IInv, PaidOnlyForOwnAnswer, TaskId
  <1>2. CASE Tick
    BY <1>2, TickKeeps DEF IInv, PaidOnlyForOwnAnswer, TaskId
  <1>3. ASSUME NEW r \in Caller, NEW bounty \in Bounty, NEW minScore \in Score,
               NEW answerHash \in Answer, PostTask(r, bounty, minScore, answerHash)
        PROVE  PaidOnlyForOwnAnswer' /\ (Len(tasks) <= MaxTasks)'
    <2>1. Len(tasks) \in Nat /\ Len(tasks) < MaxTasks /\ Len(tasks') = Len(tasks) + 1
      BY <1>3, PostedTask, LenProperties DEF IInv, TypeOK, PostTask
    <2>2. ASSUME NEW j \in 1 .. Len(tasks')
          PROVE  Paid(j)
      BY <1>3, <2>1, <2>2, PostedTask DEF IInv, PaidOnlyForOwnAnswer, TaskId
    <2>3. QED
      BY <2>1, <2>2, TaskEscrowAssumption DEF PaidOnlyForOwnAnswer, TaskId
  <1>4. ASSUME NEW k \in TaskId, Touches(k)
        PROVE  PaidOnlyForOwnAnswer' /\ (Len(tasks) <= MaxTasks)'
    <2>1. Len(tasks') = Len(tasks) /\ \A j \in TaskId : j # k => tasks'[j] = tasks[j]
      BY <1>4, TouchedTask, TaskReplaced DEF IInv
    <2>2. Paid(k)
      BY <1>4, TouchedTask
    <2>3. \A j \in TaskId : Paid(j)
      BY <2>1, <2>2 DEF IInv, PaidOnlyForOwnAnswer
    <2>4. QED
      BY <2>1, <2>3 DEF IInv, PaidOnlyForOwnAnswer, TaskId
  <1>5. QED
    BY <1>1, <1>2, <1>3, <1>4, NextCases DEF TokenStep, RegistryStep, vars

LEMMA Inductive == Spec => []IInv
  <1>1. Init => IInv
    BY MaxUintAssumption, TaskEscrowAssumption
       DEF Init, IInv, TypeOK, TokenInit, TokenTypeOK, RegistryInit, RegistryTypeOK, Uint,
           PaidOnlyForOwnAnswer, TaskId
  <1>2. IInv /\ [Next]_vars => IInv'
    BY TypeStep, PaidStep DEF IInv
  <1>3. QED
    BY <1>1, <1>2, PTL DEF Spec

\* VerifiedTaskEscrow.sol: the bounty goes to the account whose own commitment, to
\* this task and to the right answer, was there before the reveal.
THEOREM PaidForOwnAnswer == Spec => [](TypeOK /\ PaidOnlyForOwnAnswer)
  BY Inductive, PTL DEF IInv

\* revealAnswer, reclaimExpired: a solver loses its hold on a task only by revealing
\* a wrong answer, or after its window.
THEOREM HoldStands == Spec => HoldIsRespected
  <1> DEFINE Held(j) ==
        (tasks[j].status = "Committed" /\ tasks'[j].solver # tasks[j].solver)
        => \/ tasks[j].elapsed > REVEAL_WINDOW
           \/ /\ tasks[j].commitment.task = j
              /\ tasks[j].commitment.solver = tasks[j].solver
              /\ tasks[j].commitment.answer # tasks[j].answerHash
  <1>1. IInv /\ [Next]_vars => [\A j \in TaskId : Held(j)]_vars
    <2> SUFFICES ASSUME IInv, [Next]_vars, NEW j \in TaskId PROVE Held(j)
      OBVIOUS
    <2>1. CASE UNCHANGED tasks
      BY <2>1
    <2>2. CASE Tick
      BY <2>2, TickKeeps DEF IInv
    <2>3. ASSUME NEW r \in Caller, NEW bounty \in Bounty, NEW minScore \in Score,
                 NEW answerHash \in Answer, PostTask(r, bounty, minScore, answerHash)
          PROVE  Held(j)
      BY <2>3, PostedTask DEF IInv
    <2>4. ASSUME NEW k \in TaskId, Touches(k), j # k
          PROVE  Held(j)
      BY <2>4, TouchedTask, TaskReplaced DEF IInv
    <2>5. ASSUME Touches(j)
          PROVE  Held(j)
      <3>1. CASE ReclaimExpired(j)
        BY <3>1 DEF ReclaimExpired
      <3>2. ASSUME NEW c \in Caller, NEW answer \in Answer, RevealAnswer(c, j, answer),
                   tasks[j].status = "Committed", tasks'[j].solver # tasks[j].solver
            PROVE  Held(j)
        <4>1. tasks'[j].status # "Completed"
          BY <2>5, <3>2, TouchedTask
        <4>2. answer # tasks[j].answerHash
          <5>1. j \in DOMAIN tasks /\ tasks[j] \in Task
            BY TaskType, LenProperties DEF IInv, TypeOK, TaskId
          <5>2. tasks' = [tasks EXCEPT ![j].status = "Completed"]
                  => tasks'[j].status = "Completed"
            BY <5>1 DEF Task
          <5>3. QED
            BY <3>2, <4>1, <5>2 DEF RevealAnswer
        <4>3. QED
          BY <3>2, <4>2 DEF RevealAnswer
      <3>3. ASSUME NEW c \in Caller,
                   \/ CancelTask(c, j)
                   \/ \E commitment \in CommitmentsFor(c, j) : CommitAnswer(c, j, commitment)
            PROVE  tasks[j].status = "Open"
        BY <3>3 DEF CancelTask, CommitAnswer
      <3>4. QED
        BY <2>5, <3>1, <3>2, <3>3 DEF Touches
    <2>6. QED
      BY <2>1, <2>2, <2>3, <2>4, <2>5, NextCases DEF TokenStep, RegistryStep, vars
  <1>2. QED
    BY <1>1, Inductive, PTL DEF Spec, HoldIsRespected

-----------------------------------------------------------------------------
\* The tasks as the abstract escrow sees them.
DealsOf(ts) == [j \in 1 .. Len(ts) |-> DealOf(ts[j])]

LEMMA DealsType ==
  ASSUME NEW ts \in Seq(Task)
  PROVE  /\ Len(ts) \in Nat
         /\ DealsOf(ts) \in Seq([amount : Uint, to : Account \cup {Nobody}])
         /\ Len(DealsOf(ts)) = Len(ts)
  <1>1. Len(ts) \in Nat
    BY LenProperties
  <1>2. ASSUME NEW j \in 1 .. Len(ts)
        PROVE  DealOf(ts[j]) \in [amount : Uint, to : Account \cup {Nobody}]
    <2>1. ts[j] \in Task
      BY ElementOfSeq
    <2>2. /\ ts[j].bounty \in Uint /\ ts[j].requester \in Account
          /\ ts[j].solver \in Account \cup {Nobody}
      BY <2>1, TaskEscrowAssumption DEF Task
    <2>3. QED
      BY <2>2 DEF DealOf, Payee
  <1>3. QED
    BY <1>1, <1>2 DEF DealsOf

\* Two sequences of tasks with the same deals, one by one, are the same deals.
LEMMA SameDeals ==
  ASSUME NEW ts \in Seq(Task), NEW us \in Seq(Task), Len(us) = Len(ts),
         \A j \in 1 .. Len(ts) : DealOf(us[j]) = DealOf(ts[j])
  PROVE  DealsOf(us) = DealsOf(ts)
  BY DEF DealsOf

\* A post is a deposit by the requester.
LEMMA PostIsDeposit ==
  ASSUME IInv, NEW r \in Caller, NEW bounty \in Bounty, NEW minScore \in Score,
         NEW answerHash \in Answer, PostTask(r, bounty, minScore, answerHash),
         TokenTypeOK'
  PROVE  E!Deposit(r, bounty)
  <1> DEFINE S == [amount : Uint, to : Account \cup {Nobody}]
             deal == [amount |-> bounty, to |-> Nobody]
  <1>1. E!Shift(r, TaskEscrow, bounty)
    BY TaskEscrowAssumption DEF E!Shift, PostTask, Transfer, IInv, TypeOK, TokenTypeOK
  <1>2. tasks \in Seq(Task) /\ tasks' \in Seq(Task) /\ Len(tasks') = Len(tasks) + 1
    BY PostedTask DEF IInv, TypeOK
  <1>3. /\ DealsOf(tasks) \in Seq(S) /\ Len(DealsOf(tasks)) = Len(tasks)
        /\ DealsOf(tasks') \in Seq(S) /\ Len(DealsOf(tasks')) = Len(tasks) + 1
        /\ Len(tasks) \in Nat /\ deal \in S
    BY <1>2, DealsType, TaskEscrowAssumption
  <1>4. ASSUME NEW j \in 1 .. Len(tasks) + 1
        PROVE  DealsOf(tasks')[j] = Append(DealsOf(tasks), deal)[j]
    <2>1. CASE j = Len(tasks) + 1
      BY <1>2, <1>3, <2>1, PostedTask, AppendProperties DEF DealsOf, DealOf, Payee, IInv
    <2>2. CASE j # Len(tasks) + 1
      <3>1. j \in 1 .. Len(tasks) /\ tasks'[j] = tasks[j]
        BY <1>3, <2>2, PostedTask DEF IInv, TaskId
      <3>2. Append(DealsOf(tasks), deal)[j] = DealsOf(tasks)[j]
        BY <1>3, <3>1, AppendProperties
      <3>3. QED
        BY <1>2, <1>3, <3>1, <3>2 DEF DealsOf
    <2>3. QED
      BY <2>1, <2>2
  <1>5. DealsOf(tasks') = Append(DealsOf(tasks), deal)
    BY <1>3, <1>4, AppendProperties, SeqEqual
  <1>6. Len(DealsOf(tasks)) < MaxTasks
    BY <1>3 DEF PostTask
  <1>7. QED
    BY <1>1, <1>5, <1>6 DEF E!Deposit, DealsOf, TaskId

\* A call on an existing task closes its deal with the payment the contract makes,
\* or commits or reopens it, which moves neither money nor deal.
LEMMA TouchIsCloseOrNothing ==
  ASSUME IInv, NEW j \in TaskId, Touches(j), TokenTypeOK'
  PROVE  \/ \E to \in Account : E!Close(j, to)
         \/ UNCHANGED E!vars
  <1>1. PICK task \in Task : tasks' = [tasks EXCEPT ![j] = task]
    BY TouchedTask
  <1>2. /\ tasks \in Seq(Task) /\ tasks' \in Seq(Task)
        /\ Len(tasks') = Len(tasks) /\ j \in 1 .. Len(tasks) /\ tasks'[j] = task
        /\ \A k \in 1 .. Len(tasks) : k # j => tasks'[k] = tasks[k]
    BY <1>1, TaskReplaced DEF IInv, TypeOK, TaskId
  <1>3. /\ Len(DealsOf(tasks)) = Len(tasks) /\ Len(DealsOf(tasks')) = Len(tasks)
    BY <1>2, DealsType
  <1>4. /\ tasks[j].bounty \in Uint /\ task.bounty = tasks[j].bounty
        /\ tasks[j].requester \in Caller /\ task.requester = tasks[j].requester
    BY <1>2, TaskType, TouchedTask, TaskEscrowAssumption DEF IInv, Task
  <1>5. DealsOf(tasks') = [DealsOf(tasks) EXCEPT ![j] = DealOf(task)]
    BY <1>2, <1>3 DEF DealsOf
  <1>6. DealsOf(tasks)[j] = [amount |-> tasks[j].bounty, to |-> Nobody]
    <2>1. tasks[j].status \in {"Open", "Committed"}
      BY TouchedTask
    <2>2. QED
      BY <1>2, <2>1 DEF DealsOf, DealOf, Payee
  <1>7. CASE task.status \in {"Open", "Committed"}
    <2>1. DealOf(task) = DealsOf(tasks)[j]
      BY <1>4, <1>6, <1>7 DEF DealOf, Payee
    <2>2. DealsOf(tasks') = DealsOf(tasks)
      BY <1>2, <1>3, <1>5, <2>1 DEF DealsOf
    <2>3. UNCHANGED balanceOf
      BY <1>2, <1>7, TouchedTask DEF tokenVars
    <2>4. QED
      BY <2>2, <2>3 DEF E!vars, DealsOf, TaskId
  <1>8. CASE task.status \in {"Completed", "Cancelled"}
    <2>1. PICK to \in Caller : Transfer(TaskEscrow, to, tasks[j].bounty) /\ to = Payee(task)
      BY <1>2, <1>4, <1>8, TouchedTask DEF Payee
    <2>2. E!Shift(TaskEscrow, to, tasks[j].bounty)
      BY <2>1, TaskEscrowAssumption DEF E!Shift, Transfer, TokenTypeOK
    <2>3. DealOf(task) = [DealsOf(tasks)[j] EXCEPT !.to = to]
      BY <1>4, <1>6, <2>1 DEF DealOf
    <2>4. DealsOf(tasks') = [DealsOf(tasks) EXCEPT ![j].to = to]
      BY <1>5, <2>3
    <2>5. /\ [k \in TaskId |-> DealOf(tasks[k])] = DealsOf(tasks)
          /\ [k \in TaskId |-> DealOf(tasks[k])]' = DealsOf(tasks')
      BY DEF DealsOf, TaskId
    <2>6. DealsOf(tasks)[j].to = Nobody /\ DealsOf(tasks)[j].amount = tasks[j].bounty
      BY <1>6
    <2>7. E!Close(j, to)
      BY <2>2, <2>4, <2>5, <2>6 DEF E!Close
    <2>8. QED
      BY <2>7, TaskEscrowAssumption
  <1>9. QED
    BY <1>7, <1>8 DEF Task

-----------------------------------------------------------------------------
\* Every behaviour of the task escrow is one of the abstract escrow: however often a
\* task is taken up and reopened, its bounty is taken once and paid once, whole.
THEOREM TasksImplementEscrow == Spec => ImplementsEscrow
  <1>1. Init => E!Init
    <2>1. Init => Len(tasks) = 0 /\ balanceOf \in [Account -> Uint]
      BY MaxUintAssumption DEF Init, TokenInit, Uint
    <2>2. Init => [j \in TaskId |-> DealOf(tasks[j])] = << >>
      BY <2>1 DEF TaskId
    <2>3. QED
      BY <2>1, <2>2 DEF E!Init
  <1>2. IInv /\ IInv' /\ [Next]_vars => [E!Next]_(E!vars)
    <2> SUFFICES ASSUME IInv, IInv', [Next]_vars PROVE [E!Next]_(E!vars)
      OBVIOUS
    <2>1. TokenTypeOK /\ TokenTypeOK'
      BY DEF IInv, TypeOK
    <2>2. CASE TokenStep
      <3>1. balanceOf'[TaskEscrow] >= balanceOf[TaskEscrow]
        <4>1. ASSUME NEW to \in Account, Mint(to, 1)
              PROVE  balanceOf'[TaskEscrow] >= balanceOf[TaskEscrow]
          BY <2>1, <4>1, TaskEscrowAssumption DEF Mint, TokenTypeOK, Uint
        <4>2. ASSUME NEW from \in Caller, NEW to \in Account, NEW amount \in Bounty,
                     Transfer(from, to, amount)
              PROVE  balanceOf'[TaskEscrow] >= balanceOf[TaskEscrow]
          BY <2>1, <4>2, TaskEscrowAssumption DEF Transfer, TokenTypeOK, Uint
        <4>3. QED
          BY <2>2, <4>1, <4>2 DEF TokenStep
      <3>2. [j \in TaskId |-> DealOf(tasks[j])]' = [j \in TaskId |-> DealOf(tasks[j])]
        BY <2>2 DEF TokenStep, TaskId
      <3>3. E!Elsewhere
        BY <2>1, <3>1, <3>2 DEF E!Elsewhere, TokenTypeOK
      <3>4. QED
        BY <3>3 DEF E!Next
    <2>3. CASE RegistryStep \/ UNCHANGED vars
      BY <2>3 DEF RegistryStep, vars, tokenVars, E!vars, TaskId
    <2>4. CASE Tick
      <3>1. DealsOf(tasks') = DealsOf(tasks)
        BY <2>4, TickKeeps, SameDeals DEF IInv, TypeOK, DealOf, Payee, TaskId
      <3>2. QED
        BY <2>4, <3>1 DEF Tick, tokenVars, E!vars, DealsOf, TaskId
    <2>5. ASSUME NEW r \in Caller, NEW bounty \in Bounty, NEW minScore \in Score,
                 NEW answerHash \in Answer, PostTask(r, bounty, minScore, answerHash)
          PROVE  E!Next
      BY <2>1, <2>5, PostIsDeposit, TaskEscrowAssumption DEF E!Next
    <2>6. ASSUME NEW j \in TaskId, Touches(j)
          PROVE  E!Next \/ UNCHANGED E!vars
      <3>1. j \in 1 .. Len([k \in TaskId |-> DealOf(tasks[k])])
        BY LenProperties DEF IInv, TypeOK, TaskId
      <3>2. QED
        BY <2>1, <2>6, <3>1, TouchIsCloseOrNothing DEF E!Next
    <2>7. QED
      BY <2>2, <2>3, <2>4, <2>5, <2>6, NextCases
  <1>3. QED
    BY <1>1, <1>2, Inductive, PTL DEF Spec, E!Spec, ImplementsEscrow

\* The theorem about every escrow, for this one.
EP == INSTANCE EscrowProofs WITH
        Vault <- TaskEscrow, Money <- Uint, MaxDeals <- MaxTasks,
        balance <- balanceOf, deals <- [j \in TaskId |-> DealOf(tasks[j])]

\* The task escrow can always pay every bounty it still holds.
THEOREM TaskEscrowCovered == Spec => []EscrowCovered
  <1>1. EP!EscrowAssumption
    BY TaskEscrowAssumption, MaxUintAssumption DEF EP!EscrowAssumption, Uint
  <1>2. EP!Spec => []EP!Covered
    BY <1>1, EP!EscrowCovers
  <1>3. ImplementsEscrow <=> EP!Spec
    BY DEF ImplementsEscrow, E!Spec, EP!Spec, E!Init, EP!Init, E!Next, EP!Next, E!vars, EP!vars,
       E!Deposit, EP!Deposit, E!Close, EP!Close, E!Elsewhere, EP!Elsewhere, E!Shift, EP!Shift
  <1>4. EP!Covered <=> EscrowCovered
    BY DEF EscrowCovered, E!Covered, EP!Covered, E!RunningTotal, EP!RunningTotal,
       E!Held, EP!Held
  <1>5. QED
    BY <1>2, <1>3, <1>4, TasksImplementEscrow, PTL
=============================================================================

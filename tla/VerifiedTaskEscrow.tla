------------------------- MODULE VerifiedTaskEscrow -------------------------
(***************************************************************************)
(* contracts/src/VerifiedTaskEscrow.sol: escrow released by a commit-reveal*)
(* of the right answer.  A hash stands for what is hashed (keccak256 is    *)
(* taken as injective): answerHash is the answer, a commitment the tuple   *)
(* of task, solver and answer (the salt only hides it).                    *)
(*                                                                         *)
(* revealDeadline is kept as the time elapsed since the commit, which      *)
(* stops counting one tick after REVEAL_WINDOW: from there on the deadline *)
(* has passed, however long ago.                                           *)
(***************************************************************************)
EXTENDS MockUSDC, AgentCreditRegistry, Sequences

CONSTANTS
  Caller,         \* accounts that send transactions
  TaskEscrow,     \* the contract's own address
  Oracle,         \* the registry's deployer
  Nobody,         \* address(0)
  Answer,         \* answers a requester or a solver may put forward
  NoCommitment,   \* bytes32(0)
  REVEAL_WINDOW,  \* ticks a solver has to reveal (one hour in the code)
  Bounty,         \* bounties requesters post
  MaxTasks        \* bound: tasks posted

ASSUME TaskEscrowAssumption ==
  /\ TaskEscrow \in Account \ Caller
  /\ Caller \subseteq Account
  /\ Nobody \notin Account
  /\ Agent \subseteq Caller
  /\ Oracle \in Account
  /\ Bounty \subseteq Uint
  /\ REVEAL_WINDOW \in Nat
  /\ MaxTasks \in Nat
  /\ 0 \in Limit /\ 0 \in Score

VARIABLE tasks  \* mapping(uint256 => Task); taskCount is its length

vars == <<totalSupply, balanceOf, oracle, creditLimit, creditScore, tasks>>

TaskId == 1 .. Len(tasks)
Commitment == [task : 1 .. MaxTasks, solver : Caller, answer : Answer]
Expired == REVEAL_WINDOW + 1

Task ==
  [requester : Caller, solver : Caller \cup {Nobody}, bounty : Bounty,
   minScore : Score, answerHash : Answer,
   commitment : Commitment \cup {NoCommitment}, elapsed : 0 .. Expired,
   status : {"Open", "Committed", "Completed", "Cancelled"}]

TypeOK ==
  /\ TokenTypeOK
  /\ RegistryTypeOK(Account)
  /\ tasks \in Seq(Task)

Init ==
  /\ TokenInit
  /\ RegistryInit(Oracle, 0)
  /\ tasks = <<>>

-----------------------------------------------------------------------------
\* The contract's external functions.
PostTask(r, bounty, minScore, answerHash) ==
  /\ Len(tasks) < MaxTasks
  /\ Transfer(r, TaskEscrow, bounty)
  /\ tasks' = Append(tasks,
       [requester |-> r, solver |-> Nobody, bounty |-> bounty,
        minScore |-> minScore, answerHash |-> answerHash,
        commitment |-> NoCommitment, elapsed |-> 0, status |-> "Open"])
  /\ UNCHANGED registryVars

ScoreOf(s) == IF s \in Agent THEN creditScore[s] ELSE 0

CommitAnswer(s, j, commitment) ==
  /\ tasks[j].status = "Open"
  /\ s # tasks[j].requester
  /\ ScoreOf(s) >= tasks[j].minScore
  /\ tasks' = [tasks EXCEPT ![j].solver = s, ![j].commitment = commitment,
                            ![j].elapsed = 0, ![j].status = "Committed"]
  /\ UNCHANGED <<tokenVars, registryVars>>

\* Mutant of Reopened: the status is not reset.
Reopened_StillCommitted(j) ==
  tasks' = [tasks EXCEPT ![j].solver = Nobody, ![j].commitment = NoCommitment,
                         ![j].elapsed = 0]

Reopened(j) ==
  tasks' = [tasks EXCEPT ![j].solver = Nobody, ![j].commitment = NoCommitment,
                         ![j].elapsed = 0, ![j].status = "Open"]

\* Mutant of RevealAnswer: the reveal is not held against the commitment.
RevealAnswer_Unbound(s, j, answer) ==
  /\ tasks[j].status = "Committed"
  /\ s = tasks[j].solver
  /\ \/ /\ answer = tasks[j].answerHash
        /\ tasks' = [tasks EXCEPT ![j].status = "Completed"]
        /\ Transfer(TaskEscrow, tasks[j].solver, tasks[j].bounty)
     \/ /\ answer # tasks[j].answerHash
        /\ Reopened(j)
        /\ UNCHANGED tokenVars
  /\ UNCHANGED registryVars

\* A reveal is accepted at any time while the task is committed to the solver,
\* before or after the deadline: the deadline only bounds the solver's hold.
RevealAnswer(s, j, answer) ==
  /\ tasks[j].status = "Committed"
  /\ s = tasks[j].solver
  /\ tasks[j].commitment = [task |-> j, solver |-> s, answer |-> answer]
  /\ \/ /\ answer = tasks[j].answerHash
        /\ tasks' = [tasks EXCEPT ![j].status = "Completed"]
        /\ Transfer(TaskEscrow, tasks[j].solver, tasks[j].bounty)
     \/ /\ answer # tasks[j].answerHash
        /\ Reopened(j)
        /\ UNCHANGED tokenVars
  /\ UNCHANGED registryVars

\* Mutants of ReclaimExpired: a tick early; or whatever became of the task.
ReclaimExpired_Early(j) ==
  /\ tasks[j].status = "Committed"
  /\ tasks[j].elapsed >= REVEAL_WINDOW
  /\ Reopened(j)
  /\ UNCHANGED <<tokenVars, registryVars>>
ReclaimExpired_AnyStatus(j) ==
  /\ tasks[j].elapsed > REVEAL_WINDOW
  /\ Reopened(j)
  /\ UNCHANGED <<tokenVars, registryVars>>

ReclaimExpired(j) ==
  /\ tasks[j].status = "Committed"
  /\ tasks[j].elapsed > REVEAL_WINDOW
  /\ Reopened(j)
  /\ UNCHANGED <<tokenVars, registryVars>>

CancelTask(r, j) ==
  /\ tasks[j].status = "Open"
  /\ r = tasks[j].requester
  /\ tasks' = [tasks EXCEPT ![j].status = "Cancelled"]
  /\ Transfer(TaskEscrow, tasks[j].requester, tasks[j].bounty)
  /\ UNCHANGED registryVars

-----------------------------------------------------------------------------
\* Around the contract: block time, the token, the oracle.
Tick ==
  /\ \E j \in TaskId : tasks[j].status = "Committed" /\ tasks[j].elapsed < Expired
  /\ tasks' = [j \in TaskId |->
                 IF tasks[j].status = "Committed" /\ tasks[j].elapsed < Expired
                 THEN [tasks[j] EXCEPT !.elapsed = @ + 1] ELSE tasks[j]]
  /\ UNCHANGED <<tokenVars, registryVars>>

TokenStep ==
  /\ \/ \E to \in Account : Mint(to, 1)
     \/ \E from \in Caller, to \in Account, amount \in Bounty :
          Transfer(from, to, amount)
  /\ UNCHANGED <<registryVars, tasks>>

RegistryStep ==
  /\ \E sender \in Account, agent \in Agent, limit \in Limit, score \in Score :
       SetLimit(sender, agent, limit, score)
  /\ UNCHANGED <<tokenVars, tasks>>

\* A solver commits to an answer of its own, or repeats a commitment it has
\* seen on chain.
CommitmentsFor(s, j) ==
  [task : {j}, solver : {s}, answer : Answer]
    \cup ({tasks[i].commitment : i \in TaskId} \ {NoCommitment})

EscrowStep(c) ==
  \/ \E bounty \in Bounty, minScore \in Score, answerHash \in Answer :
       PostTask(c, bounty, minScore, answerHash)
  \/ \E j \in TaskId :
       \/ \E commitment \in CommitmentsFor(c, j) : CommitAnswer(c, j, commitment)
       \/ \E answer \in Answer : RevealAnswer(c, j, answer)
       \/ ReclaimExpired(j)
       \/ CancelTask(c, j)

Next == Tick \/ TokenStep \/ RegistryStep \/ \E c \in Caller : EscrowStep(c)

Spec == Init /\ [][Next]_vars

\* Time passes, and somebody reopens what has expired: reclaimExpired is open
\* to every account.
FairSpec ==
  /\ Spec
  /\ WF_vars(Tick)
  /\ \A j \in 1 .. MaxTasks : WF_vars(j \in TaskId /\ ReclaimExpired(j))

-----------------------------------------------------------------------------
Payee(task) ==
  CASE task.status = "Completed" -> task.solver
    [] task.status = "Cancelled" -> task.requester
    [] OTHER -> Nobody

DealOf(task) == [amount |-> task.bounty, to |-> Payee(task)]

E == INSTANCE Escrow WITH
       Vault <- TaskEscrow, Money <- Uint, MaxDeals <- MaxTasks,
       balance <- balanceOf, deals <- [j \in TaskId |-> DealOf(tasks[j])]

\* The task escrow implements the abstract escrow although its deals can be
\* taken up and reopened any number of times before they close.
ImplementsEscrow == E!Spec

\* Every bounty still held can be paid at once.
EscrowCovered == E!Covered

\* The bounty goes to whoever bound itself to that very task with the right
\* answer before revealing it: a commitment repeated from another task, or made
\* for another solver, never earns it, nor does one left over from before a
\* reopening.
PaidOnlyForOwnAnswer ==
  \A j \in TaskId : tasks[j].status = "Completed" =>
    tasks[j].commitment = [task |-> j, solver |-> tasks[j].solver,
                           answer |-> tasks[j].answerHash]

\* Nobody takes a task from a solver inside its reveal window: it is released
\* only by the solver's own reveal or after the window.
HoldIsRespected ==
  [][\A j \in TaskId :
       (tasks[j].status = "Committed" /\ tasks'[j].solver # tasks[j].solver)
       => \/ tasks[j].elapsed > REVEAL_WINDOW
          \/ /\ tasks[j].commitment.task = j
             /\ tasks[j].commitment.solver = tasks[j].solver
             /\ tasks[j].commitment.answer # tasks[j].answerHash]_vars

\* A solver that commits and goes silent cannot lock the escrow: the task is
\* always eventually open again or settled.
SilentSolverReleases ==
  \A j \in 1 .. MaxTasks :
    LET locked == j \in TaskId /\ tasks[j].status = "Committed"
    IN  locked ~> ~locked
=============================================================================

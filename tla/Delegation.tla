----------------------------- MODULE Delegation -----------------------------
(***************************************************************************)
(* lib/delegation.ts: one delegation, from the confirmed plan to the       *)
(* assembled result.  Its subtasks are one JSON value of one row that      *)
(* every reader of the page ticks: a tick copies the row and the board,    *)
(* pays, posts and decides on the copy, and writes the copy back.  What    *)
(* becomes of a posted job between ticks - delivery, the settlement that   *)
(* grades it, a refund and its repost - is the environment, one action     *)
(* per outcome that Settlement and LaborMarket work out in full.           *)
(***************************************************************************)
EXTENDS Integers, SequencesExt

CONSTANTS
  NumSubtasks,
  DependsOn,     \* upstream subtasks of each subtask
  ReviewOf,      \* the subtask each one is the peer review of, or 0
  Ticker,        \* requests that confirm or tick at the same time
  GradedOnSubmission,  \* whether the callback's grader pays passed work itself
  ConfirmsOverlap, \* whether a plan may be confirmed twice at once
  MaxJobs,       \* bound: jobs posted
  MaxReposts,    \* bound: reposts of one job
  MaxLost,       \* bound: posts whose id is never learnt, and requests that die
  MaxOverlaps    \* bound: requests begun while another is under way

VARIABLES
  status,        \* of the delegation
  subtasks,      \* delegation.subtasks
  subtaskJobs,   \* the jobs on the chain with their specs, in posting order
  ticker,        \* what each request is doing
  lost, overlaps

delegationVars == <<status, subtasks, subtaskJobs, ticker, lost, overlaps>>

Subtask == 1 .. NumSubtasks

DelegationAssumption ==
  /\ NumSubtasks \in Nat \ {0}
  /\ DependsOn \in [Subtask -> SUBSET Subtask]
  /\ \A s \in Subtask : \A d \in DependsOn[s] : d < s  \* acyclic, as the plan is checked to be
  /\ ReviewOf \in [Subtask -> {0} \cup Subtask]
  /\ \A s \in Subtask : ReviewOf[s] # 0 => ReviewOf[s] \in DependsOn[s]
  /\ \A s \in Subtask : ReviewOf[s] # 0 => ReviewOf[ReviewOf[s]] = 0  \* no review of a review
  /\ {MaxJobs, MaxReposts, MaxLost, MaxOverlaps} \subseteq Nat

Entry == [job : 0 .. MaxJobs, end : {"open", "output", "failed"},
          awaitingReview : BOOLEAN, verdict : {"none", "approve", "revise"}]
SubtaskJob == [of : Subtask, parent : 0 .. MaxJobs, reposts : 0 .. MaxReposts,
        status : {"Open", "Submitted", "Completed", "Refunded"},
        says : {"nothing", "approve", "revise"}, payer : {"nobody", "owner", "grader", "tick"}]
NoRequest == [at |-> "idle"]
Request == [at : {"confirm", "refuse", "sync", "post", "review", "write"},
            copy : [Subtask -> Entry], board : Seq(SubtaskJob), todo : SUBSET Subtask,
            changed : BOOLEAN]

DelegationTypeOK ==
  /\ status \in {"planned", "posted", "completed"}
  /\ subtasks \in [Subtask -> Entry]
  /\ subtaskJobs \in Seq(SubtaskJob)
  /\ ticker \in [Ticker -> {NoRequest} \cup Request]
  /\ lost \in 0 .. MaxLost /\ overlaps \in 0 .. MaxOverlaps

DelegationInit ==
  /\ status = "planned"
  /\ subtasks = [s \in Subtask |-> [job |-> 0, end |-> "open",
                                    awaitingReview |-> FALSE, verdict |-> "none"]]
  /\ subtaskJobs = <<>>
  /\ ticker = [t \in Ticker |-> NoRequest]
  /\ lost = 0 /\ overlaps = 0

-----------------------------------------------------------------------------
\* The environment: the job's worker, the settlement of its grade, its owner.
\* A review says approve or revise; "approve" also stands for one by the very worker
\* it is about, which is discarded in favour of the grade, whatever it says.
Deliver(j) ==
  /\ subtaskJobs[j].status = "Open"
  /\ \E word \in IF ReviewOf[subtaskJobs[j].of] = 0 THEN {"revise"} ELSE {"approve", "revise"} :
       subtaskJobs' = [subtaskJobs EXCEPT ![j].status = "Submitted", ![j].says = word]
  /\ UNCHANGED <<status, subtasks, ticker, lost, overlaps>>

PaidBy(j, payer) ==
  /\ subtaskJobs[j].status = "Submitted"
  /\ subtaskJobs' = [subtaskJobs EXCEPT ![j].status = "Completed", ![j].payer = payer]

\* autoApprovePassedJob, with the consent that the spec carries.
GraderPays(j) ==
  /\ GradedOnSubmission
  /\ PaidBy(j, "grader")
  /\ UNCHANGED <<status, subtasks, ticker, lost, overlaps>>

OwnerPays(j) ==
  /\ PaidBy(j, "owner")
  /\ UNCHANGED <<status, subtasks, ticker, lost, overlaps>>

\* The grader fails it, or the owner cancels or disputes it.
Refund(j) ==
  /\ subtaskJobs[j].status \in {"Open", "Submitted"}
  /\ subtaskJobs' = [subtaskJobs EXCEPT ![j].status = "Refunded"]
  /\ UNCHANGED <<status, subtasks, ticker, lost, overlaps>>

NewJob(s, parent, reposts) ==
  [of |-> s, parent |-> parent, reposts |-> reposts, status |-> "Open",
   says |-> "nothing", payer |-> "nobody"]

\* Mutant of Repost: the cap on reposts is not looked at.
Repost_NoCap(j) ==
  /\ subtaskJobs[j].status = "Refunded"
  /\ \A k \in DOMAIN subtaskJobs : subtaskJobs[k].parent # j
  /\ Len(subtaskJobs) < MaxJobs
  /\ subtaskJobs' = Append(subtaskJobs, NewJob(subtaskJobs[j].of, j, subtaskJobs[j].reposts + 1))
  /\ UNCHANGED <<status, subtasks, ticker, lost, overlaps>>

\* returnFailedJobToMarket posts the replacement after the refund.
Repost(j) ==
  /\ subtaskJobs[j].status = "Refunded"
  /\ subtaskJobs[j].reposts < MaxReposts
  /\ \A k \in DOMAIN subtaskJobs : subtaskJobs[k].parent # j
  /\ Len(subtaskJobs) < MaxJobs
  /\ subtaskJobs' = Append(subtaskJobs, NewJob(subtaskJobs[j].of, j, subtaskJobs[j].reposts + 1))
  /\ UNCHANGED <<status, subtasks, ticker, lost, overlaps>>

-----------------------------------------------------------------------------
\* A request starts on its own copy of the row and of the board.
Begin(t, at, todo) ==
  /\ ticker[t] = NoRequest
  /\ ticker' = [ticker EXCEPT ![t] = [at |-> at, copy |-> subtasks, board |-> subtaskJobs,
                                      todo |-> todo, changed |-> FALSE]]
  /\ IF \A u \in Ticker : ticker[u] = NoRequest THEN UNCHANGED overlaps
     ELSE overlaps < MaxOverlaps /\ overlaps' = overlaps + 1
  /\ UNCHANGED <<status, subtasks, subtaskJobs, lost>>

\* Subtask s of the copy of t becomes e, and s is done with.
Decided(t, s, e) ==
  ticker' = [ticker EXCEPT ![t].copy[s] = e, ![t].todo = @ \ {s},
                           ![t].changed = @ \/ e # ticker[t].copy[s]]

Goto(t, at) == ticker' = [ticker EXCEPT ![t].at = at]

\* postOneSubtask: escrowed and its id learnt.
PostOneSubtask(t, s) ==
  /\ Len(subtaskJobs) < MaxJobs
  /\ subtaskJobs' = Append(subtaskJobs, NewJob(s, 0, 0))
  /\ Decided(t, s, [ticker[t].copy[s] EXCEPT !.job = Len(subtaskJobs) + 1])
  /\ UNCHANGED lost

\* postOneSubtask: the transaction lands, then reading its id back fails.
PostUnseen(s) ==
  /\ Len(subtaskJobs) < MaxJobs /\ lost < MaxLost
  /\ subtaskJobs' = Append(subtaskJobs, NewJob(s, 0, 0))
  /\ lost' = lost + 1

-----------------------------------------------------------------------------
\* postDelegationJobs: the initial wave, without what an earlier try posted.
Roots(copy) == {s \in Subtask : DependsOn[s] = {} /\ copy[s].job = 0}

\* confirmDelegation, opConfirm, and confirm_delegation of the MCP endpoint.
ConfirmDelegation(t) ==
  /\ status = "planned"
  /\ ConfirmsOverlap \/ \A u \in Ticker : ticker[u] = NoRequest
  /\ Begin(t, "confirm", Roots(subtasks))

PostRoot(t) ==
  /\ ticker[t].at = "confirm" /\ ticker[t].todo # {}
  /\ PostOneSubtask(t, Min(ticker[t].todo))
  /\ UNCHANGED <<status, subtasks, overlaps>>

PostRootFails(t) ==
  /\ ticker[t].at = "confirm" /\ ticker[t].todo # {}
  /\ Goto(t, "refuse")
  /\ (UNCHANGED <<subtaskJobs, lost>> \/ PostUnseen(Min(ticker[t].todo)))
  /\ UNCHANGED <<status, subtasks, overlaps>>

Confirmed(t) ==
  /\ ticker[t].at = "confirm" /\ ticker[t].todo = {}
  /\ status' = "posted"
  /\ subtasks' = ticker[t].copy
  /\ ticker' = [ticker EXCEPT ![t] = NoRequest]
  /\ UNCHANGED <<subtaskJobs, lost, overlaps>>

\* The error path: what did post is written down, or, by the MCP endpoint, is not.
Refused(t) ==
  /\ ticker[t].at = "refuse"
  /\ subtasks' \in {ticker[t].copy, subtasks}
  /\ ticker' = [ticker EXCEPT ![t] = NoRequest]
  /\ UNCHANGED <<status, subtaskJobs, lost, overlaps>>

-----------------------------------------------------------------------------
\* tickDelegation.
Tick(t) == status = "posted" /\ Begin(t, "sync", Subtask)

\* reviewerFor: the first review of s in the plan, if there is one.
Reviewer(s) == {r \in Subtask : ReviewOf[r] = s /\ \A q \in 1 .. r - 1 : ReviewOf[q] # s}

\* The job of the lineage that replaced job j, as the board shows it.
Successor(board, j) == {k \in DOMAIN board : board[k].parent = j}

\* What the board alone decides of an entry.
Followed(e, board) ==
  CASE board[e.job].status = "Completed" -> [e EXCEPT !.end = "output"]
    [] board[e.job].status = "Refunded" /\ Successor(board, e.job) # {} ->
         [e EXCEPT !.job = Min(Successor(board, e.job))]
    [] board[e.job].status = "Refunded" /\ Successor(board, e.job) = {} ->
         [e EXCEPT !.end = "failed"]
    [] OTHER -> e

\* Mutant of Held: passed work is paid unless a verdict is in and says no.
Held_Never(s, e) == FALSE

\* Passed work that a peer has to sign off first.
Held(s, e) == Reviewer(s) # {} /\ e.verdict = "none"

\* Submitted work passes the tick's own grader: it is held, or it is paid, or the
\* payment reverts and nothing is recorded.
Passed(t, s, e) ==
  \/ /\ Held(s, e)
     /\ Decided(t, s, [e EXCEPT !.awaitingReview = TRUE])
     /\ UNCHANGED subtaskJobs
  \/ /\ ~Held(s, e)
     /\ IF subtaskJobs[e.job].status = "Submitted"
        THEN PaidBy(e.job, "tick") /\ Decided(t, s, [e EXCEPT !.end = "output"])
        ELSE Decided(t, s, e) /\ UNCHANGED subtaskJobs

Sync(t) ==
  /\ ticker[t].at = "sync" /\ ticker[t].todo # {}
  /\ LET s == Min(ticker[t].todo)
         e == ticker[t].copy[s]
         board == ticker[t].board
         settled == e.end # "open" \/ e.job \notin DOMAIN board \/ e.awaitingReview
     IN  \/ settled /\ Decided(t, s, e) /\ UNCHANGED subtaskJobs
         \/ ~settled /\ Decided(t, s, Followed(e, board)) /\ UNCHANGED subtaskJobs
         \/ /\ ~settled /\ board[e.job].status = "Submitted" /\ e.verdict # "revise"
            /\ Passed(t, s, e)
  /\ UNCHANGED <<status, subtasks, lost, overlaps>>

\* Mutant of Ready: an upstream subtask that was posted counts as done.
Ready_Posted(copy, s) == \A d \in DependsOn[s] : copy[d].job # 0

\* Every input is there; a review starts as soon as its target is delivered.
Ready(copy, s) ==
  \A d \in DependsOn[s] :
    copy[d].end = "output" \/ (ReviewOf[s] # 0 /\ copy[d].awaitingReview)

HeldBack(copy) ==
  {s \in Subtask : copy[s].end = "open" /\ copy[s].job = 0 /\ DependsOn[s] # {}}

\* Mutant of Starved: the failure of an upstream subtask is not passed on.
Starved_Never(copy) == {}

\* An upstream subtask failed, so the input never arrives.
Starved(copy) ==
  {s \in HeldBack(copy) : \E d \in DependsOn[s] : copy[d].end = "failed"}

\* The DAG advance: who fails with its upstream and who is posted is decided at once.
Advance(t) ==
  /\ ticker[t].at = "sync" /\ ticker[t].todo = {}
  /\ LET copy == ticker[t].copy
     IN  ticker' = [ticker EXCEPT
           ![t].at = "post",
           ![t].copy = [s \in Subtask |-> IF s \in Starved(copy)
                                          THEN [copy[s] EXCEPT !.end = "failed"]
                                          ELSE copy[s]],
           ![t].todo = {s \in HeldBack(copy) \ Starved(copy) : Ready(copy, s)},
           ![t].changed = @ \/ Starved(copy) # {}]
  /\ UNCHANGED <<status, subtasks, subtaskJobs, lost, overlaps>>

PostDependent(t) ==
  /\ ticker[t].at = "post" /\ ticker[t].todo # {}
  /\ PostOneSubtask(t, Min(ticker[t].todo))
  /\ UNCHANGED <<status, subtasks, overlaps>>

\* It is logged and left to the next tick.
PostDependentFails(t) ==
  /\ ticker[t].at = "post" /\ ticker[t].todo # {}
  /\ LET s == Min(ticker[t].todo) IN Decided(t, s, ticker[t].copy[s])
  /\ (UNCHANGED <<subtaskJobs, lost>> \/ PostUnseen(Min(ticker[t].todo)))
  /\ UNCHANGED <<status, subtasks, overlaps>>

\* Targets whose reviewer has delivered.
Reviewed(copy) ==
  {s \in Subtask : /\ copy[s].awaitingReview /\ copy[s].verdict = "none"
                   /\ \E r \in Reviewer(s) : copy[r].end = "output"}

Reviews(t) ==
  /\ ticker[t].at = "post" /\ ticker[t].todo = {}
  /\ ticker' = [ticker EXCEPT ![t] = [@ EXCEPT !.at = "review", !.todo = Reviewed(ticker[t].copy)]]
  /\ UNCHANGED <<status, subtasks, subtaskJobs, lost, overlaps>>

\* parseReviewVerdict on what the reviewer of s delivered, or samePerson.
Approves(copy, s) == \E r \in Reviewer(s) : subtaskJobs[copy[r].job].says = "approve"

\* The verdict: the escrow is released, or stays locked for the owner to judge.
ResolveReview(t) ==
  /\ ticker[t].at = "review" /\ ticker[t].todo # {}
  /\ LET s == Min(ticker[t].todo)
         e == ticker[t].copy[s]
         released == [e EXCEPT !.awaitingReview = FALSE, !.verdict = "approve", !.end = "output"]
         payable == ticker[t].board[e.job].status = "Submitted"
     IN  IF ~Approves(ticker[t].copy, s)
         THEN /\ Decided(t, s, [e EXCEPT !.awaitingReview = FALSE, !.verdict = "revise"])
              /\ UNCHANGED subtaskJobs
         ELSE \/ payable /\ PaidBy(e.job, "tick") /\ Decided(t, s, released)
              \/ /\ payable /\ subtaskJobs[e.job].status # "Submitted"
                 /\ Decided(t, s, e) /\ UNCHANGED subtaskJobs
              \/ ~payable /\ Decided(t, s, released) /\ UNCHANGED subtaskJobs
  /\ UNCHANGED <<status, subtasks, lost, overlaps>>

Judged(t) ==
  /\ ticker[t].at = "review" /\ ticker[t].todo = {}
  /\ Goto(t, "write")
  /\ UNCHANGED <<status, subtasks, subtaskJobs, lost, overlaps>>

\* The whole row is written back, over whatever was written since it was read.
Write(t) ==
  /\ ticker[t].at = "write"
  /\ LET allTerminal == \A s \in Subtask : ticker[t].copy[s].end # "open"
     IN  /\ status' = IF allTerminal THEN "completed" ELSE status
         /\ subtasks' = IF allTerminal \/ ticker[t].changed THEN ticker[t].copy ELSE subtasks
  /\ ticker' = [ticker EXCEPT ![t] = NoRequest]
  /\ UNCHANGED <<subtaskJobs, lost, overlaps>>

\* A request dies: what it paid and posted stays, what it decided is forgotten.
Dies(t) ==
  /\ ticker[t] # NoRequest
  /\ lost < MaxLost
  /\ lost' = lost + 1
  /\ ticker' = [ticker EXCEPT ![t] = NoRequest]
  /\ UNCHANGED <<status, subtasks, subtaskJobs, overlaps>>

Proceed(t) ==
  \/ PostRoot(t) \/ PostRootFails(t) \/ Confirmed(t) \/ Refused(t)
  \/ Sync(t) \/ Advance(t) \/ PostDependent(t) \/ PostDependentFails(t)
  \/ Reviews(t) \/ ResolveReview(t) \/ Judged(t) \/ Write(t)

DelegationNext ==
  \/ \E j \in DOMAIN subtaskJobs :
       Deliver(j) \/ GraderPays(j) \/ OwnerPays(j) \/ Refund(j) \/ Repost(j)
  \/ \E t \in Ticker : ConfirmDelegation(t) \/ Tick(t) \/ Proceed(t) \/ Dies(t)

DelegationSpec == DelegationInit /\ [][DelegationNext]_delegationVars

\* The owner's page polls and the ops cycle comes round, so a posted delegation is
\* ticked; a post that is retried gets through; a posted job is delivered or returned,
\* and a delivered one is graded.
DelegationFairness ==
  /\ \A t \in Ticker : WF_delegationVars(Proceed(t)) /\ SF_delegationVars(Tick(t)) /\ SF_delegationVars(PostDependent(t))
  /\ \A j \in 1 .. MaxJobs : WF_delegationVars(j \in DOMAIN subtaskJobs /\ (Deliver(j) \/ GraderPays(j)))

FairDelegationSpec == DelegationSpec /\ DelegationFairness

-----------------------------------------------------------------------------
\* A dependent subtask is escrowed only once the work it builds on was delivered,
\* whatever other ticks wrote in between (tickDelegation, DAG advance).
DependentsBuildOnRealWork ==
  \A k \in DOMAIN subtaskJobs : \A d \in DependsOn[subtaskJobs[k].of] :
    \E i \in DOMAIN subtaskJobs : subtaskJobs[i].of = d /\ subtaskJobs[i].says # "nothing"

\* Work under peer review is not paid by the platform before a peer approves it, or
\* turns out to be no peer (tickDelegation, reviewerFor).
PeerGate ==
  \A k \in DOMAIN subtaskJobs :
    Reviewer(subtaskJobs[k].of) # {} /\ subtaskJobs[k].payer \in {"grader", "tick"} =>
      \E r \in DOMAIN subtaskJobs : /\ subtaskJobs[r].of \in Reviewer(subtaskJobs[k].of)
                             /\ subtaskJobs[r].status = "Completed" /\ subtaskJobs[r].says = "approve"

\* A delegation that was posted is finished, whichever of its subtasks fail
\* (tickDelegation).
DelegationCompletes == status = "posted" ~> status = "completed"
=============================================================================

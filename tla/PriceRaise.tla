----------------------------- MODULE PriceRaise -----------------------------
(***************************************************************************)
(* lib/price-raise.ts: an unclaimed job is walked up to its ceiling by     *)
(* cancelling it and posting a dearer replacement, after the intent was    *)
(* written down as a row without a job; resumeOrphanedRaises finishes the  *)
(* raises that died in between.                                            *)
(*                                                                         *)
(* The sweep takes the lease of lib/ops-lease.ts for a minute, less than   *)
(* one confirmation wait, so the lease may expire under its holder; the    *)
(* resume pass takes none.                                                 *)
(***************************************************************************)
EXTENDS LaborJobs, FiniteSets

CONSTANTS
  Instance,          \* concurrent invocations of the two passes
  Worker,
  Requester,
  Step,              \* plan.stepUsd
  Ceiling,           \* plan.ceilingUsd
  MAX_RAISES,
  RESUMES_PER_PASS,  \* orphans looked at per pass
  PostMayTimeOut,    \* whether a postJob receipt may be slower than the wait
  RevertThrows,      \* whether a call that reverts when it is mined throws
  Start,             \* the bounties the first jobs are posted with
  MaxRows,           \* bound: job_specs rows
  MaxPosts           \* bound: times a row is posted

ASSUME PriceRaiseAssumption ==
  /\ Worker \subseteq Caller \ {Requester}
  /\ Requester \in Caller
  /\ NoWorker \notin Caller
  /\ Step \in Nat \ {0} /\ Ceiling \in Nat /\ MAX_RAISES \in Nat
  /\ MaxRows \in Nat
  /\ Start \in Seq(0 .. Ceiling) /\ Len(Start) <= MaxRows
  /\ SpecHash = 1 .. MaxRows
  /\ {PostMayTimeOut, RevertThrows} \subseteq BOOLEAN

VARIABLES
  rows,       \* job_specs rows with a price plan, in insertion order
  inFlight,   \* posts and cancels nobody waits for any more
  leased,     \* whether the price-raise-sweep lease is unexpired
  instances   \* Instance -> where its pass is

vars == <<jobs, rows, inFlight, leased, instances>>

RowId == 1 .. Len(rows)
Tries == 3

\* `old` once more than five minutes have passed since the insertion, longer
\* than any invocation lives.
Row == [onchainJobId : Nat, parent : 0 .. MaxRows, old : BOOLEAN,
        raises : 0 .. MAX_RAISES, pendingUsd : 0 .. Ceiling]

Pass == [pc : {"idle", "raise", "cancel", "post", "resume"}, row : 0 .. MaxRows,
         child : 0 .. MaxRows, usd : 0 .. Ceiling, tries : 0 .. Tries - 1]

Idle == [pc |-> "idle", row |-> 0, child |-> 0, usd |-> 0, tries |-> 0]

Operation ==
  [op : {"cancel"}, job : Nat]
    \cup [op : {"post"}, row : 1 .. MaxRows, try : 0 .. Tries - 1]

TypeOK ==
  /\ jobs \in Seq(Job(0 .. Ceiling, {0}))
  /\ rows \in Seq(Row)
  /\ inFlight \subseteq Operation
  /\ leased \in BOOLEAN
  /\ instances \in [Instance -> Pass]

Init ==
  /\ jobs = [i \in DOMAIN Start |->
       [requester |-> Requester, worker |-> NoWorker, bounty |-> Start[i],
        minScore |-> 0, status |-> "Open", specHash |-> i, resultHash |-> NoResult]]
  /\ rows = [i \in DOMAIN Start |->
       [onchainJobId |-> i, parent |-> 0, old |-> FALSE, raises |-> 0, pendingUsd |-> 0]]
  /\ inFlight = {}
  /\ leased = FALSE
  /\ instances = [n \in Instance |-> Idle]

-----------------------------------------------------------------------------
JobsOf(r) == {j \in JobId : jobs[j].specHash = r}
PostOf(r) == Posted(Requester, rows[r].pendingUsd, 0, r)

Executes(o) ==
  \/ o.op = "cancel" /\ Cancelled(Requester, o.job)
  \/ o.op = "post" /\ Cardinality(JobsOf(o.row)) < MaxPosts /\ PostOf(o.row)

Mine(o) == o \in inFlight /\ Executes(o) /\ inFlight' = inFlight \ {o}
Discard(o) == o \in inFlight /\ inFlight' = inFlight \ {o} /\ UNCHANGED jobs

ChainStep ==
  /\ \E o \in inFlight : Mine(o) \/ Discard(o)
  /\ UNCHANGED <<rows, leased, instances>>

\* The rest of a job's life: its requester withdraws it, or somebody takes it
\* and it ends one way or another.
WorkerStep ==
  /\ \E j \in JobId :
       \/ Cancelled(Requester, j)
       \/ \E w \in Worker : Accepted(w, j)
       \/ /\ jobs[j].status = "Accepted"
          /\ \E s \in {"Completed", "Refunded"} : SetStatus(j, s)
  /\ UNCHANGED <<rows, inFlight, leased, instances>>

\* Time: leases expire; a row grows old once no invocation that inserted it
\* can be alive.
ExpireLease ==
  /\ leased
  /\ leased' = FALSE
  /\ UNCHANGED <<jobs, rows, inFlight, instances>>

Age(r) ==
  /\ ~rows[r].old
  /\ \A n \in Instance : instances[n].child # r
  /\ rows' = [rows EXCEPT ![r].old = TRUE]
  /\ UNCHANGED <<jobs, inFlight, leased, instances>>

-----------------------------------------------------------------------------
At(n, pc) == instances[n].pc = pc
End(n) == instances' = [instances EXCEPT ![n] = Idle]

\* Mutants of NextUsd: overshoots the ceiling; or skips a last partial step.
NextUsd_Unclamped(usd) == usd + Step
NextUsd_WholeSteps(usd) == IF usd + Step <= Ceiling THEN usd + Step ELSE usd

\* nextPriceRaise: one step up, never beyond the ceiling.
NextUsd(usd) == IF usd + Step < Ceiling THEN usd + Step ELSE Ceiling

\* sweepPriceRaises takes the lease and decides on an Open job it read.
Sweep(n, r) ==
  /\ At(n, "idle")
  /\ ~leased
  /\ leased' = TRUE
  /\ rows[r].onchainJobId # 0
  /\ rows[r].raises < MAX_RAISES
  /\ LET job == jobs[rows[r].onchainJobId]
     IN  /\ job.status = "Open"
         /\ job.bounty < Ceiling
         /\ instances' = [instances EXCEPT ![n] =
              [Idle EXCEPT !.pc = "raise", !.row = r, !.usd = NextUsd(job.bounty)]]
  /\ UNCHANGED <<jobs, rows, inFlight>>

\* raiseJobPrice: the job is still Open on a fresh read, and the intent row is
\* inserted before any money moves.
WriteIntent(n) ==
  /\ At(n, "raise")
  /\ LET r == instances[n].row
     IN  \/ /\ jobs[rows[r].onchainJobId].status = "Open"
            /\ Len(rows) < MaxRows
            /\ rows' = Append(rows,
                 [onchainJobId |-> 0, parent |-> r, old |-> FALSE,
                  raises |-> rows[r].raises + 1, pendingUsd |-> instances[n].usd])
            /\ instances' = [instances EXCEPT ![n].pc = "cancel", ![n].child = Len(rows) + 1]
         \/ End(n) /\ UNCHANGED rows
  /\ UNCHANGED <<jobs, inFlight, leased>>

\* Mutant of CancelOld: a cancel that fails is passed over.
CancelOld_BestEffort(n) ==
  /\ At(n, "cancel")
  /\ LET o == [op |-> "cancel", job |-> rows[instances[n].row].onchainJobId]
     IN  Executes(o) \/ UNCHANGED jobs
  /\ instances' = [instances EXCEPT ![n].pc = "post"]
  /\ UNCHANGED <<rows, inFlight, leased>>

\* The old escrow is returned; if that fails or is never confirmed the pass
\* gives up and the intent row stays.  A cancel overtaken by an accept reverts
\* when it is mined, and sendAgentCall returns without a look at the receipt.
CancelOld(n) ==
  /\ At(n, "cancel")
  /\ LET o == [op |-> "cancel", job |-> rows[instances[n].row].onchainJobId]
     IN  \/ /\ \/ Executes(o)
               \/ ~RevertThrows /\ ~CanCancel(Requester, o.job) /\ UNCHANGED jobs
            /\ instances' = [instances EXCEPT ![n].pc = "post"]
            /\ UNCHANGED inFlight
         \/ /\ \/ UNCHANGED inFlight
               \/ /\ CanCancel(Requester, o.job)
                  /\ inFlight' = inFlight \cup {o}
            /\ End(n)
            /\ UNCHANGED jobs
  /\ UNCHANGED <<rows, leased>>

\* retry(() => postJob(...)) of row r: posted, or refused, or sent again while
\* the first may still land.
PostRow(n, r, posted) ==
  LET o == [op |-> "post", row |-> r, try |-> instances[n].tries]
  IN  \/ Executes(o) /\ posted /\ End(n) /\ UNCHANGED inFlight
      \/ End(n) /\ UNCHANGED <<jobs, rows, inFlight>>
      \/ /\ PostMayTimeOut
         /\ inFlight' = inFlight \cup {o}
         /\ IF instances[n].tries < Tries - 1
            THEN instances' = [instances EXCEPT ![n].tries = @ + 1]
            ELSE End(n)
         /\ UNCHANGED <<jobs, rows>>

\* The replacement is posted and, best effort, its row linked to its job.
PostRaised(n) ==
  /\ At(n, "post")
  /\ LET r == instances[n].child
     IN  PostRow(n, r, rows' \in {rows, [rows EXCEPT ![r].onchainJobId = Len(jobs')]})
  /\ UNCHANGED leased

-----------------------------------------------------------------------------
IsOrphanedRaise(row) == row.parent # 0 /\ row.onchainJobId = 0 /\ row.old
Orphans == {r \in RowId : IsOrphanedRaise(rows[r])}
Examined == {r \in Orphans : Cardinality(Orphans \cap 1 .. r) <= RESUMES_PER_PASS}

\* Mutant of Resume: only an orphan whose parent was refunded is posted.
Resume_RefundedOnly(n, r) ==
  /\ At(n, "idle")
  /\ r \in Examined
  /\ LET posted == JobsOf(r)
         parentJob == rows[rows[r].parent].onchainJobId
     IN  \/ /\ posted # {}
            /\ rows' = [rows EXCEPT ![r].onchainJobId = CHOOSE j \in posted : TRUE]
            /\ UNCHANGED instances
         \/ /\ posted = {}
            /\ parentJob # 0 /\ jobs[parentJob].status = "Refunded"
            /\ instances' = [instances EXCEPT ![n] = [Idle EXCEPT !.pc = "resume", !.row = r]]
            /\ UNCHANGED rows
  /\ UNCHANGED <<jobs, inFlight, leased>>

\* resumeOrphanedRaises, one orphan of a pass: a row already posted is linked;
\* one whose parent's escrow came back is to be posted.
Resume(n, r) ==
  /\ At(n, "idle")
  /\ r \in Examined
  /\ LET posted == JobsOf(r)
         parentJob == rows[rows[r].parent].onchainJobId
     IN  \/ /\ posted # {}
            /\ rows' = [rows EXCEPT ![r].onchainJobId = CHOOSE j \in posted : TRUE]
            /\ UNCHANGED instances
         \/ /\ posted = {}
            /\ parentJob # 0 /\ jobs[parentJob].status \in {"Cancelled", "Refunded"}
            /\ instances' = [instances EXCEPT ![n] = [Idle EXCEPT !.pc = "resume", !.row = r]]
            /\ UNCHANGED rows
  /\ UNCHANGED <<jobs, inFlight, leased>>

PostResumed(n) ==
  /\ At(n, "resume")
  /\ PostRow(n, instances[n].row, UNCHANGED rows)
  /\ UNCHANGED leased

Crash(n) ==
  /\ ~At(n, "idle")
  /\ End(n)
  /\ UNCHANGED <<jobs, rows, inFlight, leased>>

-----------------------------------------------------------------------------
Continue(n) == WriteIntent(n) \/ CancelOld(n) \/ PostRaised(n) \/ PostResumed(n)

Next ==
  \/ ChainStep
  \/ WorkerStep
  \/ ExpireLease
  \/ \E r \in RowId : Age(r)
  \/ \E n \in Instance :
       \/ \E r \in RowId : Sweep(n, r) \/ Resume(n, r)
       \/ Continue(n)
       \/ Crash(n)

Spec == Init /\ [][Next]_vars

\* The passes run again and again, time passes, and a post tried for ever gets
\* through at last.
Fairness ==
  /\ \A n \in Instance : WF_vars(Continue(n))
  /\ SF_vars(\E n \in Instance : PostResumed(n) /\ jobs' # jobs)
  /\ \A r \in 1 .. MaxRows :
       /\ SF_vars(r \in RowId /\ \E n \in Instance : Resume(n, r))
       /\ WF_vars(r \in RowId /\ Age(r))

FairSpec == Spec /\ Fairness

-----------------------------------------------------------------------------
\* A replacement is on the market only if the escrow it replaces came back: the
\* job of its parent row is cancelled or refunded, whatever crashed, raced or
\* arrived late.
ReplacesReturnedEscrow ==
  \A j \in JobId :
    LET parent == rows[jobs[j].specHash].parent
    IN  parent # 0 =>
          /\ rows[parent].onchainJobId # 0
          /\ jobs[rows[parent].onchainJobId].status \in {"Cancelled", "Refunded"}

\* A replacement is dearer than what it replaces and no dearer than the ceiling,
\* although its price was decided before the cancel and paid after it, maybe by
\* another pass.
RaisesClimb ==
  \A j \in JobId :
    LET parent == rows[jobs[j].specHash].parent
    IN  parent # 0 =>
          /\ jobs[j].bounty > jobs[rows[parent].onchainJobId].bounty
          /\ jobs[j].bounty <= Ceiling

Owed(r) ==
  /\ r \in RowId
  /\ rows[r].parent # 0
  /\ rows[rows[r].parent].onchainJobId # 0
  /\ jobs[rows[rows[r].parent].onchainJobId].status = "Cancelled"

\* An interrupted raise is finished on a later pass: once the old escrow is
\* back, the replacement whose intent was written gets on the market.
InterruptedRaiseCompletes ==
  \A r \in 1 .. MaxRows : Owed(r) ~> JobsOf(r) # {}
=============================================================================

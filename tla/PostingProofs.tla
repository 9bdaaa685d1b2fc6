---------------------------- MODULE PostingProofs -----------------------------
(***************************************************************************)
(* A job from its post to the record of its payout: what the platform      *)
(* posts for an owner (a price raise, a delegation), how the job is        *)
(* claimed and dispatched, how it is taken back from a silent worker, and  *)
(* how its payout is recorded.  The five share no state; each part below   *)
(* stands on its own, and the last puts them together as the runs do.      *)
(***************************************************************************)
EXTENDS MCPosting, MCWork, SumTheorems, SequenceTheorems

-----------------------------------------------------------------------------
(***************************************************************************)
(* PriceRaise: a raise never has both escrows out, and never lowers a      *)
(* price, for any number of rows, raises and invocations, and any step and *)
(* ceiling.                                                                *)
(***************************************************************************)
Offer == Job(0 .. Ceiling, {0})
GaveBack == {"Cancelled", "Refunded"}

JobOf(r) == rows[r].onchainJobId
ParentJob(r) == JobOf(rows[r].parent)

\* A replacement whose parent's escrow is back, as far as a revert is noticed.
MayBePosted(r) ==
  /\ r \in RowId /\ rows[r].parent # 0
  /\ RevertThrows => jobs[ParentJob(r)].status \in GaveBack

Typed ==
  /\ TypeOK
  /\ Len(rows) \in 0 .. MaxRows /\ \A r \in RowId : rows[r] \in Row
  /\ Len(jobs) \in Nat /\ \A j \in JobId : jobs[j] \in Offer

\* A job belongs to a row; the job a row names is its own; a replacement was
\* written for an older row that has a job, at a higher price.
Linked ==
  /\ \A j \in JobId : jobs[j].specHash \in RowId
  /\ \A r \in RowId : JobOf(r) # 0 => JobOf(r) \in JobId /\ jobs[JobOf(r)].specHash = r
  /\ \A r \in RowId : rows[r].parent # 0 =>
       /\ rows[r].parent \in RowId /\ ParentJob(r) # 0
       /\ rows[r].pendingUsd > jobs[ParentJob(r)].bounty

\* What is on the market under a replacement's row was posted at its price, and
\* when the replacement could be; so is what may still land.
Replaces ==
  /\ \A j \in JobId : rows[jobs[j].specHash].parent # 0 =>
       jobs[j].bounty = rows[jobs[j].specHash].pendingUsd /\ MayBePosted(jobs[j].specHash)
  /\ \A o \in inFlight : o.op = "post" => MayBePosted(o.row)

\* What a pass relies on where it stands; the row it wrote is its own to link.
Standing(n) ==
  /\ At(n, "raise") =>
       /\ instances[n].row \in RowId /\ JobOf(instances[n].row) # 0
       /\ rows[instances[n].row].raises < MAX_RAISES
       /\ instances[n].usd > jobs[JobOf(instances[n].row)].bounty
  /\ instances[n].child # 0 => instances[n].pc \in {"cancel", "post"}
  /\ instances[n].pc \in {"cancel", "post"} =>
       /\ instances[n].child \in RowId /\ rows[instances[n].child].parent = instances[n].row
       /\ instances[n].row # 0
       /\ ~rows[instances[n].child].old /\ JobOf(instances[n].child) = 0
  /\ At(n, "post") => MayBePosted(instances[n].child)
  /\ At(n, "resume") => MayBePosted(instances[n].row)

OwnChild ==
  \A n, m \in Instance : instances[n].child # 0 /\ instances[m].child = instances[n].child => m = n

Passes == OwnChild /\ \A n \in Instance : Standing(n)

RaiseInv == Typed /\ Linked /\ Replaces /\ Passes

-----------------------------------------------------------------------------
(***************************************************************************)
(* What a step does to the jobs, to the rows and to what is in flight.     *)
(***************************************************************************)
JobsKept ==
  /\ jobs' \in Seq(Offer) /\ Len(jobs') = Len(jobs)
  /\ \A j \in JobId :
       /\ jobs'[j] \in Offer
       /\ jobs'[j].bounty = jobs[j].bounty /\ jobs'[j].specHash = jobs[j].specHash
       /\ jobs[j].status \in GaveBack => jobs'[j].status \in GaveBack

JobPosted(r) ==
  /\ jobs' \in Seq(Offer) /\ Len(jobs') = Len(jobs) + 1
  /\ \A j \in JobId : jobs'[j] = jobs[j]
  /\ jobs'[Len(jobs) + 1] \in Offer
  /\ jobs'[Len(jobs) + 1].bounty = rows[r].pendingUsd
  /\ jobs'[Len(jobs) + 1].specHash = r

LEMMA OfferReplaced ==
  ASSUME Typed, NEW j \in JobId, NEW new \in Offer, jobs' = [jobs EXCEPT ![j] = new],
         new.bounty = jobs[j].bounty, new.specHash = jobs[j].specHash,
         jobs[j].status \in GaveBack => new.status \in GaveBack
  PROVE  JobsKept
  <1>1. jobs \in Seq(Offer) /\ \A i \in JobId : jobs[i] \in Offer
    BY DEF Typed, TypeOK, Offer
  <1> HIDE DEF Offer
  <1>2. /\ jobs' \in Seq(Offer) /\ Len(jobs') = Len(jobs)
        /\ \A i \in JobId : jobs'[i] = IF i = j THEN new ELSE jobs[i]
    BY <1>1, ExceptSeq DEF JobId, jobCount
  <1>3. QED
    BY <1>1, <1>2 DEF JobsKept

LEMMA JobsUnchanged == ASSUME Typed, UNCHANGED jobs PROVE JobsKept
  BY DEF Typed, TypeOK, JobsKept, JobId, jobCount, Offer

LEMMA JobMoves ==
  ASSUME Typed, NEW j \in JobId
  PROVE  /\ \A c : Cancelled(c, j) => JobsKept /\ jobs'[j].status = "Cancelled"
         /\ \A w \in Worker : Accepted(w, j) => JobsKept
         /\ \A s \in {"Completed", "Refunded"} :
              jobs[j].status = "Accepted" /\ SetStatus(j, s) => JobsKept
  <1>1. jobs \in Seq(Offer) /\ jobs[j] \in Offer /\ j \in 1 .. Len(jobs)
    BY DEF Typed, TypeOK, Offer, JobId, jobCount
  <1>2. ASSUME NEW s \in Status, SetStatus(j, s), jobs[j].status \in GaveBack => s \in GaveBack
        PROVE  JobsKept /\ jobs'[j].status = s
    <2> DEFINE new == [jobs[j] EXCEPT !.status = s]
    <2>1. /\ new \in Offer /\ new.status = s
          /\ new.bounty = jobs[j].bounty /\ new.specHash = jobs[j].specHash
      BY <1>1 DEF Offer, Job, Status
    <2>2. jobs' = [jobs EXCEPT ![j] = new]
      BY <1>2 DEF SetStatus
    <2> HIDE DEF new
    <2>3. JobsKept
      BY <1>2, <2>1, <2>2, OfferReplaced
    <2>4. QED
      BY <1>1, <2>1, <2>2, <2>3
  <1>3. ASSUME NEW c, Cancelled(c, j) PROVE JobsKept /\ jobs'[j].status = "Cancelled"
    BY <1>2, <1>3 DEF Cancelled, Status, GaveBack
  <1>4. ASSUME NEW w \in Worker, Accepted(w, j) PROVE JobsKept
    <2> DEFINE new == [jobs[j] EXCEPT !.worker = w, !.status = "Accepted"]
    <2>1. w \in Caller
      BY PriceRaiseAssumption
    <2>2. new \in Offer /\ new.bounty = jobs[j].bounty /\ new.specHash = jobs[j].specHash
      BY <1>1, <2>1 DEF Offer, Job, Status
    <2>3. jobs' = [jobs EXCEPT ![j] = new] /\ jobs[j].status = "Open"
      BY <1>1, <1>4 DEF Accepted, CanAccept
    <2> HIDE DEF new
    <2>4. QED
      BY <2>2, <2>3, OfferReplaced DEF GaveBack
  <1>5. ASSUME NEW s \in {"Completed", "Refunded"}, jobs[j].status = "Accepted", SetStatus(j, s)
        PROVE  JobsKept
    BY <1>2, <1>5 DEF Status, GaveBack
  <1>6. QED
    BY <1>3, <1>4, <1>5

LEMMA RowIsPosted ==
  ASSUME Typed, NEW r \in RowId, PostOf(r)
  PROVE  JobPosted(r)
  <1> DEFINE new == [requester |-> Requester, worker |-> NoWorker, bounty |-> rows[r].pendingUsd,
                     minScore |-> 0, status |-> "Open", specHash |-> r, resultHash |-> NoResult]
  <1>1. r \in SpecHash /\ rows[r].pendingUsd \in 0 .. Ceiling
    BY PriceRaiseAssumption DEF Typed, Row, RowId
  <1>2. new \in Offer /\ new.bounty = rows[r].pendingUsd /\ new.specHash = r
    BY <1>1, PriceRaiseAssumption DEF Offer, Job, Status
  <1>3. jobs' = Append(jobs, new) /\ jobs \in Seq(Offer)
    BY DEF PostOf, Posted, Typed, TypeOK, Offer
  <1> HIDE DEF new, Offer
  <1>4. QED
    BY <1>2, <1>3, AppendProperties DEF JobPosted, JobId, jobCount

\* What an operation does when it is mined: a cancel touches a job, a post puts
\* its row's job on the market.
LEMMA OperationMined ==
  ASSUME Typed, NEW o, Executes(o), o.op = "post" => o.row \in RowId
  PROVE  \/ o.op = "cancel" /\ JobsKept /\ (o.job \in JobId => jobs'[o.job].status = "Cancelled")
         \/ o.op = "post" /\ JobPosted(o.row)
  <1>1. CASE o.op = "cancel" /\ Cancelled(Requester, o.job)
    <2>1. CASE o.job \in JobId
      BY <1>1, <2>1, JobMoves
    <2>2. CASE o.job \notin JobId
      <3>1. jobs' = [jobs EXCEPT ![o.job].status = "Cancelled"]
        BY <1>1 DEF Cancelled, SetStatus
      <3>2. jobs \in [JobId -> Offer]
        BY DEF Typed, TypeOK, JobId, jobCount, Offer
      <3>3. jobs' = jobs
        BY <2>2, <3>1, <3>2
      <3>4. QED
        BY <1>1, <2>2, <3>3, JobsUnchanged
    <2>3. QED
      BY <2>1, <2>2
  <1>2. CASE o.op = "post" /\ PostOf(o.row)
    BY <1>2, RowIsPosted
  <1>3. QED
    BY <1>1, <1>2 DEF Executes

-----------------------------------------------------------------------------
RowsKept ==
  /\ rows' \in Seq(Row) /\ Len(rows') \in Len(rows) .. MaxRows
  /\ \A r \in RowId' : rows'[r] \in Row
  /\ \A r \in RowId :
       /\ rows'[r].parent = rows[r].parent /\ rows'[r].pendingUsd = rows[r].pendingUsd
       /\ rows'[r].raises = rows[r].raises
       /\ JobOf(r) # 0 => rows'[r].onchainJobId = JobOf(r)

RowLinked(r, id) == rows' = [rows EXCEPT ![r].onchainJobId = id]

LEMMA RowsUnchanged == ASSUME Typed, UNCHANGED rows PROVE RowsKept
  BY DEF Typed, TypeOK, RowsKept, RowId, JobOf

LEMMA RowReplaced ==
  ASSUME Typed, NEW r \in RowId, NEW new \in Row, rows' = [rows EXCEPT ![r] = new],
         new.parent = rows[r].parent, new.pendingUsd = rows[r].pendingUsd,
         new.raises = rows[r].raises, JobOf(r) # 0 => new.onchainJobId = JobOf(r)
  PROVE  /\ RowsKept /\ Len(rows') = Len(rows)
         /\ \A q \in RowId : rows'[q] = IF q = r THEN new ELSE rows[q]
  <1>1. /\ rows' \in Seq(Row) /\ Len(rows') = Len(rows)
        /\ \A q \in 1 .. Len(rows) : rows'[q] = IF q = r THEN new ELSE rows[q]
    BY ExceptSeq DEF Typed, TypeOK, RowId
  <1>2. QED
    BY <1>1 DEF RowsKept, RowId, JobOf, Typed

LEMMA RowGetsJob ==
  ASSUME Typed, NEW r \in RowId, NEW id \in Nat, JobOf(r) = 0, RowLinked(r, id)
  PROVE  /\ RowsKept /\ Len(rows') = Len(rows)
         /\ rows'[r].onchainJobId = id /\ rows'[r].old = rows[r].old
         /\ \A q \in RowId : q # r => rows'[q] = rows[q]
  <1> DEFINE new == [rows[r] EXCEPT !.onchainJobId = id]
  <1>1. rows[r] \in Row
    BY DEF Typed
  <1>2. /\ new \in Row /\ new.parent = rows[r].parent /\ new.pendingUsd = rows[r].pendingUsd
        /\ new.raises = rows[r].raises /\ new.onchainJobId = id /\ new.old = rows[r].old
    BY <1>1 DEF Row
  <1>3. rows' = [rows EXCEPT ![r] = new]
    BY DEF RowLinked
  <1> HIDE DEF new
  <1>4. QED
    BY <1>2, <1>3, RowReplaced

LEMMA RowAges ==
  ASSUME Typed, NEW r \in RowId, Age(r)
  PROVE  /\ RowsKept /\ Len(rows') = Len(rows)
         /\ rows'[r].onchainJobId = rows[r].onchainJobId
         /\ \A q \in RowId : q # r => rows'[q] = rows[q]
  <1> DEFINE new == [rows[r] EXCEPT !.old = TRUE]
  <1>1. rows[r] \in Row
    BY DEF Typed
  <1>2. /\ new \in Row /\ new.parent = rows[r].parent /\ new.pendingUsd = rows[r].pendingUsd
        /\ new.raises = rows[r].raises /\ new.onchainJobId = rows[r].onchainJobId
    BY <1>1 DEF Row
  <1>3. rows' = [rows EXCEPT ![r] = new]
    BY DEF Age
  <1> HIDE DEF new
  <1>4. new.onchainJobId = JobOf(r)
    BY <1>2 DEF JobOf
  <1>5. /\ RowsKept /\ Len(rows') = Len(rows)
        /\ \A q \in RowId : rows'[q] = IF q = r THEN new ELSE rows[q]
    BY <1>2, <1>3, <1>4, RowReplaced
  <1>6. QED
    BY <1>2, <1>5

-----------------------------------------------------------------------------
(***************************************************************************)
(* Every step keeps what is there, and what it adds is in order.           *)
(***************************************************************************)
NewJobs == \/ JobsKept
           \/ \E r \in RowId : JobPosted(r) /\ (rows[r].parent # 0 => MayBePosted(r))
NewRows ==
  \A r \in RowId' \ RowId :
    /\ rows'[r].onchainJobId = 0 /\ rows'[r].parent \in RowId /\ JobOf(rows'[r].parent) # 0
    /\ rows'[r].pendingUsd > jobs[JobOf(rows'[r].parent)].bounty
NewLinks ==
  \A r \in RowId : JobOf(r) = 0 /\ rows'[r].onchainJobId # 0 =>
    rows'[r].onchainJobId \in JobId' /\ jobs'[rows'[r].onchainJobId].specHash = r
NewPosts == \A o \in inFlight' : o \in inFlight \/ (o.op = "post" => MayBePosted(o.row))

Sound == RowsKept /\ NewJobs /\ NewRows /\ NewLinks /\ NewPosts

LEMMA NoNewRows == ASSUME Len(rows') = Len(rows) PROVE NewRows
  BY DEF NewRows, RowId

LEMMA JobsGrow ==
  ASSUME Typed, NewJobs
  PROVE  /\ jobs' \in Seq(Offer) /\ Len(jobs') \in Nat /\ \A j \in JobId' : jobs'[j] \in Offer
         /\ \A j \in JobId :
              /\ j \in JobId'
              /\ jobs'[j].bounty = jobs[j].bounty /\ jobs'[j].specHash = jobs[j].specHash
              /\ jobs[j].status \in GaveBack => jobs'[j].status \in GaveBack
         /\ \A j \in JobId' \ JobId : \E r \in RowId :
              /\ jobs'[j].specHash = r /\ jobs'[j].bounty = rows[r].pendingUsd
              /\ rows[r].parent # 0 => MayBePosted(r)
  <1>1. Len(jobs) \in Nat /\ \A j \in JobId : jobs[j] \in Offer
    BY DEF Typed
  <1>2. CASE JobsKept
    BY <1>1, <1>2 DEF JobsKept, JobId, jobCount
  <1>3. ASSUME NEW r \in RowId, JobPosted(r), rows[r].parent # 0 => MayBePosted(r)
        PROVE  /\ jobs' \in Seq(Offer) /\ Len(jobs') \in Nat /\ \A j \in JobId' : jobs'[j] \in Offer
               /\ \A j \in JobId : j \in JobId' /\ jobs'[j] = jobs[j]
               /\ \A j \in JobId' \ JobId :
                    jobs'[j].specHash = r /\ jobs'[j].bounty = rows[r].pendingUsd
    <2>1. JobId' = JobId \cup {Len(jobs) + 1}
      BY <1>1, <1>3 DEF JobPosted, JobId, jobCount
    <2>2. QED
      BY <1>1, <1>3, <2>1 DEF JobPosted
  <1>4. QED
    BY <1>2, <1>3 DEF NewJobs

\* A replacement that may be posted may be posted for ever.
LEMMA MayBePostedStays ==
  ASSUME Typed, Linked, Sound, NEW r, MayBePosted(r)
  PROVE  MayBePosted(r)'
  <1>1. /\ r \in RowId /\ rows[r].parent # 0 /\ rows[r].parent \in RowId
        /\ ParentJob(r) # 0 /\ ParentJob(r) \in JobId /\ (RevertThrows => jobs[ParentJob(r)].status \in GaveBack)
    BY DEF MayBePosted, Linked, ParentJob
  <1>2. /\ r \in RowId' /\ rows'[r].parent = rows[r].parent
        /\ rows'[rows[r].parent].onchainJobId = ParentJob(r)
    BY <1>1 DEF Sound, RowsKept, RowId, ParentJob, JobOf, Typed
  <1>3. RevertThrows => jobs'[ParentJob(r)].status \in GaveBack
    BY <1>1, JobsGrow DEF Sound
  <1>4. QED
    BY <1>1, <1>2, <1>3 DEF MayBePosted, ParentJob, JobOf

LEMMA LinkedKept ==
  ASSUME Typed, Linked, Sound
  PROVE  Linked'
  <1>1. \A r \in RowId : r \in RowId'
    BY DEF Sound, RowsKept, RowId, Typed
  <1>2. \A j \in JobId' : jobs'[j].specHash \in RowId'
    BY <1>1, JobsGrow DEF Sound, Linked
  <1>3. ASSUME NEW r \in RowId', rows'[r].onchainJobId # 0
        PROVE  rows'[r].onchainJobId \in JobId' /\ jobs'[rows'[r].onchainJobId].specHash = r
    <2>1. r \in RowId
      BY <1>3 DEF Sound, NewRows
    <2>2. CASE JobOf(r) = 0
      BY <1>3, <2>1, <2>2 DEF Sound, NewLinks
    <2>3. CASE JobOf(r) # 0
      BY <2>1, <2>3, JobsGrow DEF Sound, RowsKept, Linked
    <2>4. QED
      BY <2>2, <2>3
  <1>4. ASSUME NEW r \in RowId', rows'[r].parent # 0
        PROVE  /\ rows'[r].parent \in RowId' /\ rows'[rows'[r].parent].onchainJobId # 0
               /\ rows'[r].pendingUsd > jobs'[rows'[rows'[r].parent].onchainJobId].bounty
    <2> DEFINE p == rows'[r].parent
    <2>1. /\ p \in RowId /\ JobOf(p) # 0 /\ rows'[r].pendingUsd > jobs[JobOf(p)].bounty
      <3>1. CASE r \in RowId
        BY <1>4, <3>1 DEF Sound, RowsKept, Linked, ParentJob
      <3>2. CASE r \notin RowId
        BY <1>4, <3>2 DEF Sound, NewRows
      <3>3. QED
        BY <3>1, <3>2
    <2>2. /\ rows'[p].onchainJobId = JobOf(p) /\ JobOf(p) \in JobId
          /\ jobs'[JobOf(p)].bounty = jobs[JobOf(p)].bounty
      BY <2>1, JobsGrow DEF Sound, RowsKept, Linked
    <2>3. QED
      BY <1>1, <2>1, <2>2
  <1>5. QED
    BY <1>2, <1>3, <1>4 DEF Linked, JobOf, ParentJob

LEMMA ReplacesKept ==
  ASSUME Typed, Linked, Replaces, Sound
  PROVE  Replaces'
  <1>1. ASSUME NEW j \in JobId', NEW r, r = jobs'[j].specHash, rows'[r].parent # 0
        PROVE  jobs'[j].bounty = rows'[r].pendingUsd /\ MayBePosted(r)'
    <2>1. CASE j \in JobId
      <3>1. r = jobs[j].specHash /\ r \in RowId /\ jobs'[j].bounty = jobs[j].bounty
        BY <1>1, <2>1, JobsGrow DEF Sound, Linked
      <3>2. rows[r].parent # 0 /\ rows'[r].pendingUsd = rows[r].pendingUsd
        BY <1>1, <3>1 DEF Sound, RowsKept
      <3>3. jobs[j].bounty = rows[r].pendingUsd /\ MayBePosted(r)
        BY <2>1, <3>1, <3>2 DEF Replaces
      <3>4. QED
        BY <3>1, <3>2, <3>3, MayBePostedStays
    <2>2. CASE j \notin JobId
      <3>1. r \in RowId /\ jobs'[j].bounty = rows[r].pendingUsd
            /\ (rows[r].parent # 0 => MayBePosted(r))
        BY <1>1, <2>2, JobsGrow DEF Sound
      <3>2. rows[r].parent # 0 /\ rows'[r].pendingUsd = rows[r].pendingUsd
        BY <1>1, <3>1 DEF Sound, RowsKept
      <3>3. QED
        BY <3>1, <3>2, MayBePostedStays
    <2>3. QED
      BY <2>1, <2>2
  <1>2. ASSUME NEW o \in inFlight', o.op = "post"
        PROVE  MayBePosted(o.row)'
    BY <1>2, MayBePostedStays DEF Sound, NewPosts, Replaces
  <1>3. \A j \in JobId' : rows'[jobs'[j].specHash].parent # 0 =>
          /\ jobs'[j].bounty = rows'[jobs'[j].specHash].pendingUsd
          /\ jobs'[j].specHash \in RowId'
          /\ RevertThrows =>
               jobs'[rows'[rows'[jobs'[j].specHash].parent].onchainJobId].status \in GaveBack
    BY <1>1 DEF MayBePosted, ParentJob, JobOf
  <1>4. QED
    BY <1>2, <1>3 DEF Replaces, MayBePosted, ParentJob, JobOf

-----------------------------------------------------------------------------
(***************************************************************************)
(* The passes.                                                             *)
(***************************************************************************)
\* The row a pass has inserted is still its own: not aged, not linked.
ChildLeft(n) ==
  instances[n].child # 0 =>
    /\ rows'[instances[n].child].old = rows[instances[n].child].old
    /\ rows'[instances[n].child].onchainJobId = rows[instances[n].child].onchainJobId

LEMMA StandingStays ==
  ASSUME RaiseInv, Sound, NEW n \in Instance, instances'[n] = instances[n], ChildLeft(n)
  PROVE  Standing(n)'
  <1>1. Standing(n) /\ Typed /\ Linked
    BY DEF RaiseInv, Passes
  <1>2. \A r \in RowId : r \in RowId'
    BY DEF Sound, RowsKept, RowId, RaiseInv, Typed
  <1>3. At(n, "raise") =>
          /\ instances[n].row \in RowId' /\ rows'[instances[n].row].onchainJobId # 0
          /\ rows'[instances[n].row].raises < MAX_RAISES
          /\ instances[n].usd > jobs'[rows'[instances[n].row].onchainJobId].bounty
    BY <1>1, <1>2, JobsGrow DEF Standing, Sound, RowsKept, Linked
  <1>4. instances[n].pc \in {"cancel", "post"} =>
          /\ instances[n].child \in RowId'
          /\ rows'[instances[n].child].parent = instances[n].row /\ instances[n].row # 0
          /\ ~rows'[instances[n].child].old /\ rows'[instances[n].child].onchainJobId = 0
    <2> SUFFICES ASSUME instances[n].pc \in {"cancel", "post"}
                 PROVE  /\ instances[n].child \in RowId'
                        /\ rows'[instances[n].child].parent = instances[n].row /\ instances[n].row # 0
                        /\ ~rows'[instances[n].child].old
                        /\ rows'[instances[n].child].onchainJobId = 0
      OBVIOUS
    <2>1. instances[n].child \in RowId /\ instances[n].child # 0
      BY <1>1 DEF Standing, RowId
    <2>2. QED
      BY <1>1, <1>2, <2>1 DEF Standing, ChildLeft, Sound, RowsKept, JobOf
  <1>5. /\ At(n, "post") => MayBePosted(instances[n].child)
        /\ At(n, "resume") => MayBePosted(instances[n].row)
    BY <1>1 DEF Standing
  <1>6. \A r : MayBePosted(r) => MayBePosted(r)'
    BY <1>1, MayBePostedStays
  <1>7. ASSUME NEW r, r = instances[n].child, At(n, "post")
        PROVE  /\ r \in RowId' /\ rows'[r].parent # 0
               /\ RevertThrows => jobs'[rows'[rows'[r].parent].onchainJobId].status \in GaveBack
    BY <1>5, <1>6, <1>7 DEF MayBePosted, ParentJob, JobOf
  <1>8. ASSUME NEW r, r = instances[n].row, At(n, "resume")
        PROVE  /\ r \in RowId' /\ rows'[r].parent # 0
               /\ RevertThrows => jobs'[rows'[rows'[r].parent].onchainJobId].status \in GaveBack
    BY <1>5, <1>6, <1>8 DEF MayBePosted, ParentJob, JobOf
  <1>9. instances[n].child # 0 => instances[n].pc \in {"cancel", "post"}
    BY <1>1 DEF Standing
  <1>10. QED
    BY <1>3, <1>4, <1>7, <1>8, <1>9 DEF Standing, At, MayBePosted, ParentJob, JobOf

\* One pass moves; the others stand where they stood.
LEMMA PassMoves ==
  ASSUME RaiseInv, Sound, NEW n \in Instance, NEW new \in Pass,
         instances' = [instances EXCEPT ![n] = new],
         \A m \in Instance : m # n => ChildLeft(m),
         \A m \in Instance : m # n /\ new.child # 0 => instances[m].child # new.child,
         instances'[n] = new => Standing(n)'
  PROVE  Passes' /\ instances' \in [Instance -> Pass]
  <1>1. instances \in [Instance -> Pass]
    BY DEF RaiseInv, Typed, TypeOK
  <1>2. /\ instances' \in [Instance -> Pass] /\ instances'[n] = new
        /\ \A m \in Instance : m # n => instances'[m] = instances[m]
    BY <1>1
  <1>3. \A m \in Instance : Standing(m)'
    BY <1>2, StandingStays
  <1>4. OwnChild'
    BY <1>2 DEF OwnChild, RaiseInv, Passes
  <1>5. QED
    BY <1>2, <1>3, <1>4 DEF Passes

LEMMA IdlePass == Idle \in Pass /\ Idle.pc = "idle" /\ Idle.child = 0
  BY PriceRaiseAssumption DEF Idle, Pass, Tries

LEMMA PassEnds ==
  ASSUME RaiseInv, Sound, NEW n \in Instance, End(n),
         \A m \in Instance : m # n => ChildLeft(m)
  PROVE  Passes' /\ instances' \in [Instance -> Pass]
  <1>1. instances'[n] = Idle => Standing(n)'
    BY IdlePass DEF Standing, At
  <1>2. QED
    BY <1>1, IdlePass, PassMoves DEF End

LEMMA PassesRest ==
  ASSUME RaiseInv, Sound, UNCHANGED instances, \A m \in Instance : ChildLeft(m)
  PROVE  Passes' /\ instances' \in [Instance -> Pass]
  <1>1. \A m \in Instance : Standing(m)'
    BY StandingStays
  <1>2. QED
    BY <1>1 DEF RaiseInv, Typed, TypeOK, Passes, OwnChild

LEMMA InvFollows ==
  ASSUME RaiseInv, Sound, Passes', instances' \in [Instance -> Pass],
         inFlight' \subseteq Operation, leased' \in BOOLEAN
  PROVE  RaiseInv'
  <1>1. Typed /\ Linked /\ Replaces
    BY DEF RaiseInv
  <1>2. Typed'
    <2>1. /\ jobs' \in Seq(Offer) /\ Len(jobs') \in Nat /\ \A j \in JobId' : jobs'[j] \in Offer
      BY <1>1, JobsGrow DEF Sound
    <2>2. QED
      BY <1>1, <2>1 DEF Sound, RowsKept, Typed, TypeOK, Offer
  <1>3. QED
    BY <1>1, <1>2, LinkedKept, ReplacesKept DEF RaiseInv

\* Where no row changes, no row is new or newly linked.
LEMMA SoundWithoutRows ==
  ASSUME RaiseInv, UNCHANGED rows, NewJobs, NewPosts
  PROVE  Sound /\ \A m \in Instance : ChildLeft(m)
  <1>1. RowsKept
    BY RowsUnchanged DEF RaiseInv
  <1>2. NewRows
    BY NoNewRows
  <1>3. NewLinks
    BY DEF NewLinks, JobOf
  <1>4. QED
    BY <1>1, <1>2, <1>3 DEF Sound, ChildLeft

LEMMA SameJobs == ASSUME RaiseInv, UNCHANGED jobs PROVE NewJobs
  BY JobsUnchanged DEF RaiseInv, NewJobs

LEMMA SamePosts == ASSUME inFlight' \subseteq inFlight PROVE NewPosts
  BY DEF NewPosts

-----------------------------------------------------------------------------
LEMMA OperationNews ==
  ASSUME RaiseInv, NEW o, Executes(o), o.op = "post" => MayBePosted(o.row)
  PROVE  NewJobs /\ (o.op = "cancel" /\ o.job \in JobId => jobs'[o.job].status = "Cancelled")
  <1>1. o.op = "post" => o.row \in RowId
    BY DEF MayBePosted
  <1>2. \/ o.op = "cancel" /\ JobsKept /\ (o.job \in JobId => jobs'[o.job].status = "Cancelled")
        \/ o.op = "post" /\ JobPosted(o.row)
    BY <1>1, OperationMined DEF RaiseInv
  <1>3. QED
    BY <1>1, <1>2 DEF NewJobs

LEMMA ChainStepKeeps == ASSUME RaiseInv, ChainStep PROVE RaiseInv'
  <1>1. PICK o \in inFlight : Mine(o) \/ Discard(o)
    BY DEF ChainStep
  <1>2. inFlight' \subseteq inFlight /\ UNCHANGED <<rows, leased, instances>>
    BY <1>1 DEF ChainStep, Mine, Discard
  <1>3. NewJobs
    <2>1. o.op = "post" => MayBePosted(o.row)
      BY DEF RaiseInv, Replaces
    <2>2. QED
      BY <1>1, <2>1, OperationNews, SameJobs DEF Mine, Discard
  <1>4. Sound /\ \A m \in Instance : ChildLeft(m)
    BY <1>2, <1>3, SamePosts, SoundWithoutRows
  <1>5. QED
    BY <1>2, <1>4, PassesRest, InvFollows DEF RaiseInv, Typed, TypeOK

LEMMA WorldKeeps ==
  ASSUME RaiseInv, WorkerStep \/ ExpireLease \/ UNCHANGED vars
  PROVE  RaiseInv'
  <1>1. UNCHANGED <<rows, inFlight, instances>> /\ leased' \in BOOLEAN
    BY DEF WorkerStep, ExpireLease, vars, RaiseInv, Typed, TypeOK
  <1>2. NewJobs
    <2>1. CASE UNCHANGED jobs
      BY <2>1, SameJobs
    <2>2. CASE WorkerStep
      <3>1. PICK j \in JobId :
               \/ Cancelled(Requester, j)
               \/ \E w \in Worker : Accepted(w, j)
               \/ /\ jobs[j].status = "Accepted"
                  /\ \E st \in {"Completed", "Refunded"} : SetStatus(j, st)
        BY <2>2 DEF WorkerStep
      <3>2. QED
        BY <3>1, JobMoves DEF RaiseInv, NewJobs
    <2>3. QED
      BY <2>1, <2>2 DEF ExpireLease, vars
  <1>3. Sound /\ \A m \in Instance : ChildLeft(m)
    BY <1>1, <1>2, SamePosts, SoundWithoutRows
  <1>4. QED
    BY <1>1, <1>3, PassesRest, InvFollows DEF RaiseInv, Typed, TypeOK

LEMMA AgeKeeps == ASSUME RaiseInv, NEW r \in RowId, Age(r) PROVE RaiseInv'
  <1>1. UNCHANGED <<jobs, inFlight, leased, instances>> /\ \A m \in Instance : instances[m].child # r
    BY DEF Age
  <1>2. /\ RowsKept /\ Len(rows') = Len(rows)
        /\ rows'[r].onchainJobId = rows[r].onchainJobId
        /\ \A q \in RowId : q # r => rows'[q] = rows[q]
    BY RowAges DEF RaiseInv
  <1>3. Sound
    <2>1. NewLinks
      BY <1>2 DEF NewLinks, JobOf
    <2>2. QED
      BY <1>1, <1>2, <2>1, SameJobs, SamePosts, NoNewRows DEF Sound
  <1>4. \A m \in Instance : ChildLeft(m)
    <2> SUFFICES ASSUME NEW m \in Instance, instances[m].child # 0
                 PROVE  instances[m].child \in RowId
      BY <1>1, <1>2 DEF ChildLeft
    <2>1. QED
      BY DEF RaiseInv, Passes, Standing
  <1>5. QED
    BY <1>1, <1>3, <1>4, PassesRest, InvFollows DEF RaiseInv, Typed, TypeOK

\* A raise is a raise, and stops at the ceiling.
LEMMA NextIsDearer ==
  ASSUME NEW usd \in 0 .. Ceiling, usd < Ceiling
  PROVE  NextUsd(usd) \in 0 .. Ceiling /\ NextUsd(usd) > usd
  BY PriceRaiseAssumption DEF NextUsd

LEMMA SweepKeeps == ASSUME RaiseInv, NEW n \in Instance, NEW r \in RowId, Sweep(n, r) PROVE RaiseInv'
  <1> DEFINE work == jobs[rows[r].onchainJobId]
             new == [Idle EXCEPT !.pc = "raise", !.row = r, !.usd = NextUsd(work.bounty)]
  <1>1. /\ UNCHANGED <<jobs, rows, inFlight>> /\ leased' \in BOOLEAN
        /\ instances' = [instances EXCEPT ![n] = new]
        /\ JobOf(r) # 0 /\ rows[r].raises < MAX_RAISES /\ work.bounty < Ceiling
    BY DEF Sweep, JobOf
  <1>2. work.bounty \in 0 .. Ceiling /\ r \in 0 .. MaxRows
    <2>1. rows[r].onchainJobId \in JobId
      BY <1>1 DEF RaiseInv, Linked, JobOf
    <2>2. work \in Offer /\ Len(rows) \in 0 .. MaxRows
      BY <2>1 DEF RaiseInv, Typed
    <2>3. QED
      BY <2>2, PriceRaiseAssumption DEF Offer, Job, RowId
  <1>3. NextUsd(work.bounty) \in 0 .. Ceiling /\ NextUsd(work.bounty) > work.bounty
    BY <1>1, <1>2, NextIsDearer
  <1>4. new \in Pass /\ new.pc = "raise" /\ new.row = r /\ new.child = 0 /\ new.usd = NextUsd(work.bounty)
    BY <1>2, <1>3, IdlePass DEF Pass
  <1>5. Sound /\ \A m \in Instance : ChildLeft(m)
    BY <1>1, SameJobs, SamePosts, SoundWithoutRows
  <1>6. instances'[n] = new => Standing(n)'
    BY <1>1, <1>3, <1>4 DEF Standing, At, JobOf, RowId
  <1> HIDE DEF new
  <1>7. Passes' /\ instances' \in [Instance -> Pass]
    BY <1>1, <1>4, <1>5, <1>6, PassMoves
  <1>8. QED
    BY <1>1, <1>5, <1>7, InvFollows DEF RaiseInv, Typed, TypeOK

LEMMA WriteIntentKeeps == ASSUME RaiseInv, NEW n \in Instance, WriteIntent(n) PROVE RaiseInv'
  <1>1. UNCHANGED <<jobs, inFlight, leased>> /\ At(n, "raise")
    BY DEF WriteIntent
  <1>2. CASE End(n) /\ UNCHANGED rows
    <2>1. Sound /\ \A m \in Instance : ChildLeft(m)
      BY <1>1, <1>2, SameJobs, SamePosts, SoundWithoutRows
    <2>2. QED
      BY <1>1, <1>2, <2>1, PassEnds, InvFollows DEF RaiseInv, Typed, TypeOK
  <1>3. CASE ~(End(n) /\ UNCHANGED rows)
    <2> DEFINE r == instances[n].row
               c == Len(rows) + 1
               row == [onchainJobId |-> 0, parent |-> r, old |-> FALSE,
                       raises |-> rows[r].raises + 1, pendingUsd |-> instances[n].usd]
               new == [instances[n] EXCEPT !.pc = "cancel", !.child = c]
    <2>1. /\ Len(rows) < MaxRows /\ rows' = Append(rows, row)
          /\ instances' = [instances EXCEPT ![n].pc = "cancel", ![n].child = c]
      BY <1>3 DEF WriteIntent
    <2>2. /\ instances[n] \in Pass /\ r \in RowId /\ JobOf(r) # 0 /\ rows[r].raises < MAX_RAISES
          /\ instances[n].usd > jobs[JobOf(r)].bounty
          /\ rows \in Seq(Row) /\ Len(rows) \in 0 .. MaxRows /\ rows[r] \in Row
      BY <1>1 DEF RaiseInv, Typed, TypeOK, Passes, Standing
    <2>3. /\ row \in Row /\ row.onchainJobId = 0 /\ row.parent = r /\ ~row.old
          /\ row.pendingUsd = instances[n].usd
      <3>1. rows[r].raises \in 0 .. MAX_RAISES /\ instances[n].usd \in 0 .. Ceiling
        BY <2>2 DEF Row, Pass
      <3>2. r \in 0 .. MaxRows
        <4>1. r \in 1 .. Len(rows) /\ Len(rows) \in 0 .. MaxRows
          BY <2>2 DEF RowId
        <4>2. QED
          BY <4>1, PriceRaiseAssumption
      <3>3. PICK k \in 0 .. MAX_RAISES : k = rows[r].raises /\ k < MAX_RAISES
        BY <2>2, <3>1
      <3>4. rows[r].raises + 1 \in 0 .. MAX_RAISES
        <4>1. k + 1 \in 0 .. MAX_RAISES
          BY <3>3, PriceRaiseAssumption
        <4>2. QED
          BY <3>3, <4>1
      <3>5. QED
        BY <3>1, <3>2, <3>4 DEF Row
    <2>4. new \in Pass /\ new.pc = "cancel" /\ new.child = c /\ new.row = r
      <3>1. c \in 0 .. MaxRows
        BY <2>1, <2>2, PriceRaiseAssumption
      <3>2. QED
        BY <2>2, <3>1 DEF Pass
    <2>5. instances' = [instances EXCEPT ![n] = new]
      BY <2>1 DEF RaiseInv, Typed, TypeOK
    <2> HIDE DEF row, new
    <2>6. /\ rows' \in Seq(Row) /\ Len(rows') = Len(rows) + 1
          /\ \A q \in RowId : rows'[q] = rows[q]
          /\ rows'[c] = row
      BY <2>1, <2>2, <2>3, AppendProperties DEF RowId
    <2>7. RowId' = RowId \cup {c} /\ c \notin RowId /\ c # 0 /\ r # 0
      BY <2>2, <2>6 DEF RowId
    <2>8. RowsKept
      <3>1. Len(rows') \in Len(rows) .. MaxRows
        BY <2>1, <2>2, <2>6, PriceRaiseAssumption
      <3>2. \A q \in RowId' : rows'[q] \in Row
        BY <2>3, <2>6, <2>7 DEF RaiseInv, Typed
      <3>3. QED
        BY <2>6, <3>1, <3>2 DEF RowsKept, JobOf
    <2>9. NewRows /\ NewLinks
      BY <2>2, <2>3, <2>6, <2>7 DEF NewRows, NewLinks, JobOf
    <2>10. Sound
      BY <1>1, <2>8, <2>9, SameJobs, SamePosts DEF Sound
    <2>11. \A m \in Instance : instances[m].child # 0 => instances[m].child \in RowId
      BY DEF RaiseInv, Passes, Standing
    <2>12. \A m \in Instance : ChildLeft(m) /\ instances[m].child # c
      BY <2>6, <2>7, <2>11 DEF ChildLeft
    <2>13. instances'[n] = new => Standing(n)'
      BY <2>3, <2>4, <2>6, <2>7 DEF Standing, At, JobOf
    <2>14. Passes' /\ instances' \in [Instance -> Pass]
      <3>1. /\ \A m \in Instance : m # n => ChildLeft(m)
            /\ \A m \in Instance : m # n /\ new.child # 0 => instances[m].child # new.child
        BY <2>4, <2>12
      <3>2. new \in Pass
        BY <2>4
      <3>3. QED
        BY <2>5, <2>10, <2>13, <3>1, <3>2, PassMoves
    <2>15. QED
      BY <1>1, <2>10, <2>14, InvFollows DEF RaiseInv, Typed, TypeOK
  <1>4. QED
    BY <1>2, <1>3

-----------------------------------------------------------------------------
\* A pass about to cancel or to post works on a child of a row that has a job.
LEMMA ParentHasJob ==
  ASSUME RaiseInv, NEW n \in Instance, instances[n].pc \in {"cancel", "post"}
  PROVE  LET c == instances[n].child
         IN  /\ c \in RowId /\ rows[c].parent = instances[n].row /\ rows[c].parent # 0
             /\ JobOf(c) = 0 /\ ~rows[c].old
             /\ JobOf(instances[n].row) \in JobId
             /\ ParentJob(c) = JobOf(instances[n].row)
  <1>1. Standing(n) /\ Linked
    BY DEF RaiseInv, Passes
  <1>2. QED
    BY <1>1 DEF Standing, Linked, ParentJob

LEMMA CancelOldKeeps == ASSUME RaiseInv, NEW n \in Instance, CancelOld(n) PROVE RaiseInv'
  <1> DEFINE c == instances[n].child
             o == [op |-> "cancel", job |-> rows[instances[n].row].onchainJobId]
             new == [instances[n] EXCEPT !.pc = "post"]
  <1>1. At(n, "cancel") /\ UNCHANGED <<rows, leased>> /\ instances[n] \in Pass
    BY DEF CancelOld, RaiseInv, Typed, TypeOK
  <1>2. /\ c \in RowId /\ rows[c].parent = instances[n].row /\ rows[c].parent # 0
        /\ JobOf(c) = 0 /\ ~rows[c].old /\ o.job \in JobId /\ ParentJob(c) = o.job
        /\ o.op = "cancel"
    BY <1>1, ParentHasJob DEF At, JobOf
  <1>3. ASSUME instances' = [instances EXCEPT ![n].pc = "post"], UNCHANGED inFlight,
               \/ Executes(o)
               \/ ~RevertThrows /\ ~CanCancel(Requester, o.job) /\ UNCHANGED jobs
        PROVE  RaiseInv'
    <2>1. NewJobs /\ (RevertThrows => jobs'[o.job].status = "Cancelled")
      <3> HIDE DEF o
      <3>1. QED
        BY <1>2, <1>3, OperationNews, SameJobs
    <2>2. Sound /\ \A m \in Instance : ChildLeft(m)
      BY <1>1, <1>3, <2>1, SamePosts, SoundWithoutRows
    <2>3. new \in Pass /\ new.pc = "post" /\ new.child = c /\ new.row = instances[n].row
      BY <1>1 DEF Pass
    <2>4. instances' = [instances EXCEPT ![n] = new]
      BY <1>3
    <2> HIDE DEF new
    <2>5. instances'[n] = new => Standing(n)'
      BY <1>1, <1>2, <2>1, <2>3 DEF Standing, At, MayBePosted, ParentJob, JobOf, RowId, GaveBack
    <2>6. \A m \in Instance : m # n /\ new.child # 0 => instances[m].child # new.child
      BY <2>3 DEF RaiseInv, Passes, OwnChild
    <2>7. Passes' /\ instances' \in [Instance -> Pass]
      <3>1. new \in Pass
        BY <2>3
      <3>2. QED
        BY <2>2, <2>4, <2>5, <2>6, <3>1, PassMoves
    <2>8. QED
      BY <1>1, <1>3, <2>2, <2>7, InvFollows DEF RaiseInv, Typed, TypeOK
  <1>4. ASSUME inFlight' \in {inFlight, inFlight \cup {o}}, End(n), UNCHANGED jobs
        PROVE  RaiseInv'
    <2>1. o \in Operation
      BY <1>2 DEF Operation, JobId, jobCount
    <2>2. NewPosts /\ inFlight' \subseteq Operation
      BY <1>2, <1>4, <2>1 DEF NewPosts, RaiseInv, Typed, TypeOK
    <2>3. Sound /\ \A m \in Instance : ChildLeft(m)
      BY <1>1, <1>4, <2>2, SameJobs, SoundWithoutRows
    <2>4. QED
      BY <1>1, <1>4, <2>2, <2>3, PassEnds, InvFollows DEF RaiseInv, Typed, TypeOK
  <1>5. QED
    BY <1>3, <1>4 DEF CancelOld

-----------------------------------------------------------------------------
Linking(r) == rows' \in {rows, [rows EXCEPT ![r].onchainJobId = Len(jobs')]}

\* A post, linked or not, and only one by the pass that inserted the row.
LEMMA PostRowKeeps ==
  ASSUME RaiseInv, NEW n \in Instance, instances[n].pc \in {"post", "resume"},
         NEW r, MayBePosted(r), UNCHANGED leased, PostRow(n, r, Linking(r)),
         rows' # rows => JobOf(r) = 0 /\ \A m \in Instance : m # n => instances[m].child # r
  PROVE  RaiseInv'
  <1> DEFINE o == [op |-> "post", row |-> r, try |-> instances[n].tries]
             new == [instances[n] EXCEPT !.tries = @ + 1]
  <1>1. r \in RowId /\ instances[n] \in Pass /\ r \in 1 .. MaxRows
    BY PriceRaiseAssumption DEF MayBePosted, RaiseInv, Typed, TypeOK, RowId
  <1>2. CASE Executes(o) /\ Linking(r) /\ End(n) /\ UNCHANGED inFlight
    <2>1. JobPosted(r)
      <3>1. o.op = "post" /\ o.row = r
        OBVIOUS
      <3> HIDE DEF o
      <3>2. QED
        BY <1>1, <1>2, <3>1, OperationMined DEF RaiseInv
    <2>2. NewJobs
      BY <1>1, <2>1 DEF NewJobs
    <2>3. CASE UNCHANGED rows
      <3>1. Sound /\ \A m \in Instance : ChildLeft(m)
        BY <1>2, <2>2, <2>3, SamePosts, SoundWithoutRows
      <3>2. QED
        BY <1>2, <3>1, PassEnds, InvFollows DEF RaiseInv, Typed, TypeOK
    <2>4. CASE rows' # rows
      <3>1. /\ Len(jobs) \in Nat /\ Len(jobs') = Len(jobs) + 1
            /\ RowLinked(r, Len(jobs')) /\ JobOf(r) = 0
        BY <1>2, <2>1, <2>4 DEF JobPosted, RaiseInv, Typed, RowLinked, Linking
      <3>2. /\ RowsKept /\ Len(rows') = Len(rows) /\ rows'[r].onchainJobId = Len(jobs')
            /\ \A q \in RowId : q # r => rows'[q] = rows[q]
        <4>1. Len(jobs') \in Nat
          BY <3>1
        <4>2. QED
          BY <1>1, <3>1, <4>1, RowGetsJob DEF RaiseInv
      <3>3. Sound
        <4>1. NewLinks
          BY <2>1, <3>1, <3>2 DEF NewLinks, JobPosted, JobOf, JobId, jobCount
        <4>2. QED
          BY <1>2, <2>2, <3>2, <4>1, NoNewRows, SamePosts DEF Sound
      <3>4. \A m \in Instance : m # n => ChildLeft(m)
        <4>1. \A m \in Instance : instances[m].child # 0 => instances[m].child \in RowId
          BY DEF RaiseInv, Passes, Standing
        <4>2. QED
          BY <2>4, <3>2, <4>1 DEF ChildLeft
      <3>5. QED
        BY <1>2, <3>3, <3>4, PassEnds, InvFollows DEF RaiseInv, Typed, TypeOK
    <2>5. QED
      BY <2>3, <2>4
  <1>3. CASE UNCHANGED <<jobs, rows>> /\ inFlight' \in {inFlight, inFlight \cup {o}}
    <2>1. o \in Operation
      BY <1>1 DEF Operation, Pass
    <2>2. NewPosts /\ inFlight' \subseteq Operation
      BY <1>3, <2>1 DEF NewPosts, RaiseInv, Typed, TypeOK
    <2>3. Sound /\ \A m \in Instance : ChildLeft(m)
      BY <1>3, <2>2, SameJobs, SoundWithoutRows
    <2>4. CASE End(n)
      BY <2>2, <2>3, <2>4, PassEnds, InvFollows DEF RaiseInv, Typed, TypeOK
    <2>5. CASE instances[n].tries < Tries - 1 /\ instances' = [instances EXCEPT ![n].tries = @ + 1]
      <3>1. /\ new \in Pass /\ new.pc = instances[n].pc /\ new.child = instances[n].child
            /\ new.row = instances[n].row /\ new.usd = instances[n].usd
        <4>1. instances[n].tries + 1 \in 0 .. Tries - 1
          BY <1>1, <2>5 DEF Pass, Tries
        <4>2. QED
          BY <1>1, <4>1 DEF Pass
      <3>2. instances' = [instances EXCEPT ![n] = new]
        BY <2>5
      <3> HIDE DEF new
      <3>3. instances'[n] = new => Standing(n)'
        <4>1. Standing(n)
          BY DEF RaiseInv, Passes
        <4>2. QED
          BY <1>3, <3>1, <4>1 DEF Standing, At, MayBePosted, ParentJob, JobOf, RowId
      <3>4. \A m \in Instance : m # n /\ new.child # 0 => instances[m].child # new.child
        BY <3>1 DEF RaiseInv, Passes, OwnChild
      <3>5. Passes' /\ instances' \in [Instance -> Pass]
        <4>1. new \in Pass
          BY <3>1
        <4>2. QED
          BY <2>3, <3>2, <3>3, <3>4, <4>1, PassMoves
      <3>6. QED
        BY <2>2, <2>3, <3>5, InvFollows DEF RaiseInv, Typed, TypeOK
    <2>6. QED
      BY <1>3, <2>4, <2>5 DEF PostRow
  <1>4. QED
    BY <1>2, <1>3 DEF PostRow

LEMMA PostRaisedKeeps == ASSUME RaiseInv, NEW n \in Instance, PostRaised(n) PROVE RaiseInv'
  <1> DEFINE r == instances[n].child
  <1>1. /\ At(n, "post") /\ UNCHANGED leased
        /\ PostRow(n, r, Linking(r))
    BY DEF PostRaised, Linking
  <1>2. MayBePosted(r) /\ r # 0 /\ JobOf(r) = 0
    BY <1>1, ParentHasJob DEF RaiseInv, Passes, Standing, At, RowId
  <1>3. \A m \in Instance : m # n => instances[m].child # r
    BY <1>2 DEF RaiseInv, Passes, OwnChild
  <1>4. QED
    BY <1>1, <1>2, <1>3, PostRowKeeps DEF At

LEMMA PostResumedKeeps == ASSUME RaiseInv, NEW n \in Instance, PostResumed(n) PROVE RaiseInv'
  <1> DEFINE r == instances[n].row
  <1>1. At(n, "resume") /\ UNCHANGED leased /\ UNCHANGED rows /\ PostRow(n, r, Linking(r))
    BY DEF PostResumed, PostRow, Linking
  <1>2. MayBePosted(r)
    BY <1>1 DEF RaiseInv, Passes, Standing
  <1>3. QED
    BY <1>1, <1>2, PostRowKeeps DEF At

LEMMA ResumeKeeps == ASSUME RaiseInv, NEW n \in Instance, NEW r \in RowId, Resume(n, r) PROVE RaiseInv'
  <1> DEFINE new == [Idle EXCEPT !.pc = "resume", !.row = r]
             id == CHOOSE j \in JobsOf(r) : TRUE
  <1>1. /\ UNCHANGED <<jobs, inFlight, leased>>
        /\ rows[r].parent # 0 /\ JobOf(r) = 0 /\ rows[r].old
    BY DEF Resume, Examined, Orphans, IsOrphanedRaise, JobOf
  <1>2. CASE JobsOf(r) # {} /\ rows' = [rows EXCEPT ![r].onchainJobId = id] /\ UNCHANGED instances
    <2>1. id \in JobId /\ jobs[id].specHash = r /\ id \in Nat
      BY <1>2 DEF JobsOf, JobId, jobCount
    <2>2. RowLinked(r, id)
      BY <1>2 DEF RowLinked
    <2> HIDE DEF id
    <2>3. /\ RowsKept /\ Len(rows') = Len(rows) /\ rows'[r].onchainJobId = id
          /\ \A q \in RowId : q # r => rows'[q] = rows[q]
      BY <1>1, <2>1, <2>2, RowGetsJob DEF RaiseInv
    <2>4. Sound
      <3>1. NewLinks
        BY <1>1, <2>1, <2>3 DEF NewLinks, JobOf, JobId, jobCount
      <3>2. QED
        BY <1>1, <2>3, <3>1, SameJobs, SamePosts, NoNewRows DEF Sound
    <2>5. \A m \in Instance : ChildLeft(m)
      <3>1. ASSUME NEW m \in Instance, instances[m].child # 0
            PROVE  instances[m].child \in RowId /\ instances[m].child # r
        BY <1>1, <3>1 DEF RaiseInv, Passes, Standing
      <3>2. QED
        BY <2>3, <3>1 DEF ChildLeft
    <2>6. QED
      BY <1>1, <1>2, <2>4, <2>5, PassesRest, InvFollows DEF RaiseInv, Typed, TypeOK
  <1>3. CASE /\ jobs[ParentJob(r)].status \in GaveBack
             /\ instances' = [instances EXCEPT ![n] = new] /\ UNCHANGED rows
    <2>1. Sound /\ \A m \in Instance : ChildLeft(m)
      BY <1>1, <1>3, SameJobs, SamePosts, SoundWithoutRows
    <2>2. new \in Pass /\ new.pc = "resume" /\ new.row = r /\ new.child = 0
      <3>1. r \in 0 .. MaxRows
        BY PriceRaiseAssumption DEF RaiseInv, Typed, RowId
      <3>2. QED
        BY <3>1, IdlePass DEF Pass
    <2> HIDE DEF new
    <2>3. instances'[n] = new => Standing(n)'
      BY <1>1, <1>3, <2>2 DEF Standing, At, MayBePosted, ParentJob, JobOf, RowId
    <2>4. Passes' /\ instances' \in [Instance -> Pass]
      BY <1>3, <2>1, <2>2, <2>3, PassMoves
    <2>5. QED
      BY <1>1, <2>1, <2>4, InvFollows DEF RaiseInv, Typed, TypeOK
  <1>4. QED
    BY <1>2, <1>3 DEF Resume, ParentJob, JobOf, GaveBack

LEMMA CrashKeeps == ASSUME RaiseInv, NEW n \in Instance, Crash(n) PROVE RaiseInv'
  <1>1. End(n) /\ UNCHANGED <<jobs, rows, inFlight, leased>>
    BY DEF Crash
  <1>2. Sound /\ \A m \in Instance : ChildLeft(m)
    BY <1>1, SameJobs, SamePosts, SoundWithoutRows
  <1>3. QED
    BY <1>1, <1>2, PassEnds, InvFollows DEF RaiseInv, Typed, TypeOK

-----------------------------------------------------------------------------
LEMMA RaiseInit == Init => RaiseInv
  <1> SUFFICES ASSUME Init PROVE RaiseInv
    OBVIOUS
  <1> DEFINE Job0(i) == [requester |-> Requester, worker |-> NoWorker, bounty |-> Start[i],
               minScore |-> 0, status |-> "Open", specHash |-> i, resultHash |-> NoResult]
             Row0(i) == [onchainJobId |-> i, parent |-> 0, old |-> FALSE, raises |-> 0, pendingUsd |-> 0]
  <1>1. /\ Len(Start) \in 0 .. MaxRows /\ DOMAIN Start = 1 .. Len(Start)
        /\ \A i \in 1 .. Len(Start) : Start[i] \in 0 .. Ceiling
    BY PriceRaiseAssumption
  <1>2. ASSUME NEW i \in 1 .. Len(Start) PROVE Job0(i) \in Offer /\ Row0(i) \in Row
    <2>1. i \in SpecHash /\ i \in Nat /\ 0 \in 0 .. MaxRows /\ 0 \in 0 .. MAX_RAISES
          /\ 0 \in 0 .. Ceiling /\ Start[i] \in 0 .. Ceiling
      BY <1>1, PriceRaiseAssumption
    <2>2. QED
      BY <2>1, PriceRaiseAssumption DEF Offer, Job, Row, Status
  <1>3. jobs = [i \in 1 .. Len(Start) |-> Job0(i)] /\ rows = [i \in 1 .. Len(Start) |-> Row0(i)]
    BY <1>1 DEF Init
  <1>4. \A i : Job0(i).specHash = i /\ Row0(i).onchainJobId = i /\ Row0(i).parent = 0
    OBVIOUS
  <1> HIDE DEF Job0, Row0, Offer
  <1>5. /\ jobs \in Seq(Offer) /\ Len(jobs) = Len(Start) /\ rows \in Seq(Row) /\ Len(rows) = Len(Start)
    BY <1>1, <1>2, <1>3
  <1>6. inFlight = {} /\ leased = FALSE /\ instances = [n \in Instance |-> Idle]
    BY DEF Init
  <1>7. Typed
    <2>1. /\ \A i \in 1 .. Len(Start) : jobs[i] \in Offer /\ rows[i] \in Row
          /\ Len(Start) \in Nat
      BY <1>1, <1>2, <1>3
    <2>2. instances \in [Instance -> Pass]
      BY <1>6, IdlePass
    <2>3. jobs \in Seq(Job(0 .. Ceiling, {0}))
      BY <1>5 DEF Offer
    <2>4. TypeOK
      BY <1>5, <1>6, <2>2, <2>3 DEF TypeOK
    <2>5. QED
      BY <1>1, <1>5, <2>1, <2>4 DEF Typed, RowId, JobId, jobCount
  <1>8. Linked /\ Replaces
    BY <1>1, <1>3, <1>4, <1>5, <1>6 DEF Linked, Replaces, RowId, JobId, jobCount, JobOf
  <1>9. Passes
    BY <1>6, IdlePass DEF Passes, OwnChild, Standing, At
  <1>10. QED
    BY <1>7, <1>8, <1>9 DEF RaiseInv

LEMMA RaiseStep == RaiseInv /\ [Next]_vars => RaiseInv'
  <1> SUFFICES ASSUME RaiseInv, [Next]_vars PROVE RaiseInv'
    OBVIOUS
  <1>1. CASE ChainStep
    BY <1>1, ChainStepKeeps
  <1>2. CASE WorkerStep \/ ExpireLease \/ UNCHANGED vars
    BY <1>2, WorldKeeps
  <1>3. ASSUME NEW r \in RowId, Age(r) PROVE RaiseInv'
    BY <1>3, AgeKeeps
  <1>4. ASSUME NEW n \in Instance, NEW r \in RowId, Sweep(n, r) \/ Resume(n, r) PROVE RaiseInv'
    BY <1>4, SweepKeeps, ResumeKeeps
  <1>5. ASSUME NEW n \in Instance, Continue(n) PROVE RaiseInv'
    BY <1>5, WriteIntentKeeps, CancelOldKeeps, PostRaisedKeeps, PostResumedKeeps DEF Continue
  <1>6. ASSUME NEW n \in Instance, Crash(n) PROVE RaiseInv'
    BY <1>6, CrashKeeps
  <1>7. QED
    BY <1>1, <1>2, <1>3, <1>4, <1>5, <1>6 DEF Next

-----------------------------------------------------------------------------
\* What the five variables hold, and that every row, job, operation and pass
\* the sweeps go on to refer to is there: a job's specHash names a row, a row's
\* onchainJobId the job posted for it, a parentRow a row that was posted.
THEOREM RaiseTypeOK == Spec => [](TypeOK /\ Linked)
  <1>1. RaiseInv => TypeOK /\ Linked
    BY DEF RaiseInv, Typed
  <1>2. QED
    BY <1>1, RaiseInit, RaiseStep, PTL DEF Spec

\* Provided a call that reverts throws, no replacement is ever on the market
\* while the escrow it replaces is out: for any number of sweeps and resume
\* passes that overlap, die, or send a post or a cancel that lands after they
\* stopped waiting.
THEOREM RaiseReplacesReturnedEscrow == RevertThrows => (Spec => []ReplacesReturnedEscrow)
  <1> SUFFICES ASSUME RevertThrows PROVE Spec => []ReplacesReturnedEscrow
    OBVIOUS
  <1>1. RaiseInv => ReplacesReturnedEscrow
    BY DEF RaiseInv, Linked, Replaces, MayBePosted, ParentJob, JobOf, GaveBack, ReplacesReturnedEscrow
  <1>2. QED
    BY <1>1, RaiseInit, RaiseStep, PTL DEF Spec

\* A replacement is dearer than the job it replaces and within the ceiling,
\* for every step, ceiling and interleaving, although the price is decided on
\* one read of the job, written down after another and paid by a later call.
THEOREM RaiseRaisesClimb == Spec => []RaisesClimb
  <1>1. ASSUME RaiseInv PROVE RaisesClimb
    <2> SUFFICES ASSUME NEW j \in JobId, rows[jobs[j].specHash].parent # 0
                 PROVE  /\ jobs[j].bounty > jobs[ParentJob(jobs[j].specHash)].bounty
                        /\ jobs[j].bounty <= Ceiling
      BY DEF RaisesClimb, ParentJob, JobOf
    <2> DEFINE r == jobs[j].specHash
    <2>1. r \in RowId /\ jobs[j].bounty = rows[r].pendingUsd
      BY <1>1 DEF RaiseInv, Linked, Replaces
    <2>2. rows[r].pendingUsd > jobs[ParentJob(r)].bounty
      BY <1>1, <2>1 DEF RaiseInv, Linked
    <2>3. rows[r].pendingUsd \in 0 .. Ceiling
      BY <1>1, <2>1 DEF RaiseInv, Typed, Row
    <2>4. QED
      BY <2>1, <2>2, <2>3, PriceRaiseAssumption
  <1>2. QED
    BY <1>1, RaiseInit, RaiseStep, PTL DEF Spec

-----------------------------------------------------------------------------
(***************************************************************************)
(* Delegation: however many requests tick it and write their copies over   *)
(* each other, for any plan, what is on the market was posted with its     *)
(* inputs delivered and what the platform paid was approved first.         *)
(***************************************************************************)
\* What is once true of a subtask's jobs and stays so.
Delivered(d) ==
  \E i \in DOMAIN subtaskJobs : subtaskJobs[i].of = d /\ subtaskJobs[i].says # "nothing"
PeerApproved(s) ==
  \E i \in DOMAIN subtaskJobs :
    /\ subtaskJobs[i].of \in Reviewer(s)
    /\ subtaskJobs[i].status = "Completed" /\ subtaskJobs[i].says = "approve"

\* A replacement is of the subtask it replaces; what is posted has its inputs, and
\* what the platform paid has its approval.
JobOK(j) ==
  LET work == subtaskJobs[j]
  IN  /\ work.parent # 0 => work.parent \in DOMAIN subtaskJobs /\ subtaskJobs[work.parent].of = work.of
      /\ work.status = "Open" => work.says = "nothing"
      /\ work.status \in {"Submitted", "Completed"} => work.says # "nothing"
      /\ \A d \in DependsOn[work.of] : Delivered(d)
      /\ ~GradedOnSubmission /\ Reviewer(work.of) # {} /\ work.payer \in {"grader", "tick"} =>
           PeerApproved(work.of)

\* What any copy of the row says of a subtask, however old, is backed by the jobs.
EntryOK(s, e) ==
  /\ e.job # 0 => e.job \in DOMAIN subtaskJobs /\ subtaskJobs[e.job].of = s
  /\ e.end = "output" \/ e.awaitingReview => e.job # 0 /\ subtaskJobs[e.job].says # "nothing"
  /\ e.end = "output" /\ Reviewer(s) = {} => subtaskJobs[e.job].status = "Completed"
  /\ e.verdict = "approve" => PeerApproved(s)
CopyOK(copy) == \A s \in Subtask : EntryOK(s, copy[s])

\* A board was the market once.
BoardOK(seen) ==
  \A k \in DOMAIN seen :
    /\ k \in DOMAIN subtaskJobs
    /\ subtaskJobs[k].of = seen[k].of /\ subtaskJobs[k].parent = seen[k].parent
    /\ seen[k].status \in {"Submitted", "Completed"} => subtaskJobs[k].says # "nothing"
    /\ seen[k].status = "Completed" => subtaskJobs[k].status = "Completed"

\* What a request is still to do may be done.
TodoOK(r) ==
  /\ r.at = "confirm" => \A s \in r.todo : r.copy[s].job = 0 /\ DependsOn[s] = {}
  /\ r.at = "post" => \A s \in r.todo : r.copy[s].job = 0 /\ \A d \in DependsOn[s] : Delivered(d)
  /\ r.at = "review" => \A s \in r.todo :
       r.copy[s].awaitingReview /\ \E q \in Reviewer(s) : r.copy[q].end = "output"

RequestSound(r) == CopyOK(r.copy) /\ BoardOK(r.board) /\ TodoOK(r)

Market == Len(subtaskJobs) <= MaxJobs /\ \A j \in DOMAIN subtaskJobs : JobOK(j)
Requests == \A t \in Ticker : ticker[t] # NoRequest => RequestSound(ticker[t])

DelegationInv == DelegationTypeOK /\ Market /\ CopyOK(subtasks) /\ Requests

-----------------------------------------------------------------------------
(***************************************************************************)
(* The market only grows.                                                  *)
(***************************************************************************)
MarketGrows ==
  /\ subtaskJobs' \in Seq(SubtaskJob)
  /\ \A j \in DOMAIN subtaskJobs :
       /\ j \in DOMAIN subtaskJobs'
       /\ subtaskJobs'[j].of = subtaskJobs[j].of /\ subtaskJobs'[j].parent = subtaskJobs[j].parent
       /\ subtaskJobs[j].says # "nothing" => subtaskJobs'[j].says = subtaskJobs[j].says
       /\ subtaskJobs[j].status = "Completed" => subtaskJobs'[j].status = "Completed"

LEMMA MarketStays == ASSUME DelegationInv, UNCHANGED subtaskJobs PROVE MarketGrows
  BY DEF MarketGrows, DelegationInv, DelegationTypeOK

LEMMA DeliveredStays == ASSUME MarketGrows, NEW d, Delivered(d) PROVE Delivered(d)'
  BY DEF MarketGrows, Delivered

LEMMA ApprovedStays == ASSUME MarketGrows, NEW s, PeerApproved(s) PROVE PeerApproved(s)'
  <1>1. PICK i \in DOMAIN subtaskJobs :
          /\ subtaskJobs[i].of \in Reviewer(s)
          /\ subtaskJobs[i].status = "Completed" /\ subtaskJobs[i].says = "approve"
    BY DEF PeerApproved
  <1>2. /\ i \in DOMAIN subtaskJobs' /\ subtaskJobs'[i].of \in Reviewer(s)
        /\ subtaskJobs'[i].status = "Completed" /\ subtaskJobs'[i].says = "approve"
    BY <1>1 DEF MarketGrows
  <1>3. QED
    BY <1>2 DEF PeerApproved, Reviewer

LEMMA EntryStays ==
  ASSUME MarketGrows, NEW s, NEW e, EntryOK(s, e)
  PROVE  EntryOK(s, e)'
  <1>1. PeerApproved(s) => PeerApproved(s)'
    BY ApprovedStays
  <1>2. e.job \in DOMAIN subtaskJobs =>
          /\ e.job \in DOMAIN subtaskJobs' /\ subtaskJobs'[e.job].of = subtaskJobs[e.job].of
          /\ subtaskJobs[e.job].says # "nothing" => subtaskJobs'[e.job].says # "nothing"
          /\ subtaskJobs[e.job].status = "Completed" => subtaskJobs'[e.job].status = "Completed"
    BY DEF MarketGrows
  <1>3. e.end = "output" => e.job \in DOMAIN subtaskJobs
    BY DEF EntryOK
  <1>4. QED
    BY <1>1, <1>2, <1>3 DEF EntryOK, Reviewer

LEMMA CopyStays == ASSUME MarketGrows, NEW copy, CopyOK(copy) PROVE CopyOK(copy)'
  BY EntryStays DEF CopyOK

LEMMA BoardStays == ASSUME MarketGrows, NEW seen, BoardOK(seen) PROVE BoardOK(seen)'
  BY DEF MarketGrows, BoardOK

LEMMA TodoStays == ASSUME MarketGrows, NEW r, TodoOK(r) PROVE TodoOK(r)'
  BY DeliveredStays DEF TodoOK, Reviewer

LEMMA SoundStays == ASSUME MarketGrows, NEW r, RequestSound(r) PROVE RequestSound(r)'
  BY CopyStays, BoardStays, TodoStays DEF RequestSound

-----------------------------------------------------------------------------
(***************************************************************************)
(* What a step does to the market.                                         *)
(***************************************************************************)
MarketSound == MarketGrows /\ Market'

LEMMA MarketUnchanged == ASSUME DelegationInv, UNCHANGED subtaskJobs PROVE MarketSound
  BY MarketStays DEF MarketSound, Market, DelegationInv, JobOK, Delivered, PeerApproved, Reviewer

\* The job that changes is sound, and the others are because the market grows.
LEMMA JobStays ==
  ASSUME MarketGrows, NEW j \in DOMAIN subtaskJobs, JobOK(j), subtaskJobs'[j] = subtaskJobs[j]
  PROVE  JobOK(j)'
  <1>1. /\ \A d : Delivered(d) => Delivered(d)'
        /\ PeerApproved(subtaskJobs[j].of) => PeerApproved(subtaskJobs[j].of)'
    BY DeliveredStays, ApprovedStays
  <1>2. PICK work : work = subtaskJobs[j]
    OBVIOUS
  <1>3. /\ subtaskJobs[j] = work /\ subtaskJobs'[j] = work
        /\ PeerApproved(work.of) => PeerApproved(work.of)'
    BY <1>1, <1>2
  <1>4. QED
    BY <1>1, <1>3 DEF JobOK, MarketGrows, Reviewer

\* A job moves on: it is delivered, paid or returned.
LEMMA SubtaskJobMoves ==
  ASSUME DelegationInv, NEW j \in DOMAIN subtaskJobs,
         NEW work \in SubtaskJob, subtaskJobs' = [subtaskJobs EXCEPT ![j] = work],
         work.of = subtaskJobs[j].of, work.parent = subtaskJobs[j].parent,
         subtaskJobs[j].says # "nothing" => work.says = subtaskJobs[j].says,
         subtaskJobs[j].status # "Completed", work.status # "Open",
         work.status \in {"Submitted", "Completed"} => work.says # "nothing",
         ~GradedOnSubmission /\ Reviewer(work.of) # {} /\ work.payer \in {"grader", "tick"} =>
           PeerApproved(work.of)
  PROVE  MarketSound
  <1>1. subtaskJobs \in Seq(SubtaskJob)
    BY DEF DelegationInv, DelegationTypeOK
  <1>2. /\ subtaskJobs' \in Seq(SubtaskJob) /\ DOMAIN subtaskJobs' = DOMAIN subtaskJobs
        /\ subtaskJobs'[j] = work
        /\ \A i \in DOMAIN subtaskJobs : i # j => subtaskJobs'[i] = subtaskJobs[i]
    BY <1>1
  <1>3. MarketGrows
    BY <1>2 DEF MarketGrows
  <1>4. JobOK(j)
    BY DEF DelegationInv, Market
  <1>5. /\ \A d : Delivered(d) => Delivered(d)'
        /\ PeerApproved(work.of) => PeerApproved(work.of)'
    BY <1>3, DeliveredStays, ApprovedStays
  <1>6. JobOK(j)'
    BY <1>2, <1>3, <1>4, <1>5 DEF JobOK, MarketGrows, Reviewer
  <1>7. ASSUME NEW i \in DOMAIN subtaskJobs, i # j PROVE JobOK(i)'
    BY <1>2, <1>3, <1>7, JobStays DEF DelegationInv, Market
  <1>8. Len(subtaskJobs') <= MaxJobs
    BY <1>1 DEF DelegationInv, Market
  <1>9. QED
    BY <1>2, <1>3, <1>6, <1>7, <1>8 DEF MarketSound, Market

\* A job is posted.
LEMMA JobAppended ==
  ASSUME DelegationInv, NEW work \in SubtaskJob, subtaskJobs' = Append(subtaskJobs, work),
         Len(subtaskJobs) < MaxJobs, MaxJobs \in Nat,
         work.parent # 0 => work.parent \in DOMAIN subtaskJobs /\ subtaskJobs[work.parent].of = work.of,
         work.status = "Open", work.says = "nothing", work.payer = "nobody",
         \A d \in DependsOn[work.of] : Delivered(d)
  PROVE  /\ MarketSound
         /\ Len(subtaskJobs) + 1 \in DOMAIN subtaskJobs'
         /\ subtaskJobs'[Len(subtaskJobs) + 1] = work
  <1>0. PICK n : n = Len(subtaskJobs) + 1
    OBVIOUS
  <1>1. subtaskJobs \in Seq(SubtaskJob)
    BY DEF DelegationInv, DelegationTypeOK
  <1>2. /\ subtaskJobs' \in Seq(SubtaskJob) /\ DOMAIN subtaskJobs' = 1 .. n
        /\ n \in DOMAIN subtaskJobs' /\ subtaskJobs'[n] = work
        /\ \A i \in DOMAIN subtaskJobs : i \in DOMAIN subtaskJobs' /\ subtaskJobs'[i] = subtaskJobs[i]
        /\ \A i \in DOMAIN subtaskJobs' : i = n \/ i \in DOMAIN subtaskJobs
    BY <1>0, <1>1
  <1>3. MarketGrows
    BY <1>2 DEF MarketGrows
  <1>4. \A d : Delivered(d) => Delivered(d)'
    BY <1>3, DeliveredStays
  <1>5. JobOK(n)'
    BY <1>2, <1>3, <1>4 DEF JobOK, MarketGrows, Reviewer
  <1>6. ASSUME NEW i \in DOMAIN subtaskJobs PROVE JobOK(i)'
    BY <1>2, <1>3, <1>6, JobStays DEF DelegationInv, Market
  <1>7. MarketSound
    <2>1. Len(subtaskJobs') <= MaxJobs
      BY <1>1
    <2>2. QED
      BY <1>2, <1>3, <1>5, <1>6, <2>1 DEF MarketSound, Market
  <1>8. QED
    BY <1>0, <1>2, <1>7

-----------------------------------------------------------------------------
(***************************************************************************)
(* What a step does to the requests.                                       *)
(***************************************************************************)
RequestType == ticker \in [Ticker -> {NoRequest} \cup Request]

LEMMA RequestsRest ==
  ASSUME DelegationInv, MarketSound, UNCHANGED ticker PROVE RequestType' /\ Requests'
  <1>1. ASSUME NEW t \in Ticker, ticker[t] # NoRequest PROVE RequestSound(ticker[t])'
    <2>1. PICK r : r = ticker[t]
      OBVIOUS
    <2>2. RequestSound(r)
      BY <1>1, <2>1 DEF DelegationInv, Requests
    <2>3. RequestSound(r)'
      BY <2>2, SoundStays DEF MarketSound
    <2>4. QED
      BY <2>1, <2>3
  <1>2. QED
    BY <1>1 DEF RequestType, Requests, DelegationInv, DelegationTypeOK

\* One request moves, to what is sound on the market of after the step, or ends.
LEMMA RequestMoves ==
  ASSUME DelegationInv, MarketSound, NEW t \in Ticker, NEW r,
         ticker' = [ticker EXCEPT ![t] = r],
         r = NoRequest \/ (r \in Request /\ RequestSound(r)')
  PROVE  RequestType' /\ Requests'
  <1>1. ticker \in [Ticker -> {NoRequest} \cup Request]
    BY DEF DelegationInv, DelegationTypeOK
  <1>2. ASSUME NEW u \in Ticker, ticker'[u] # NoRequest PROVE RequestSound(ticker[u])'
    <2>1. CASE u = t
      BY <1>1, <1>2, <2>1
    <2>2. CASE u # t
      <3>1. PICK q : q = ticker[u] /\ q = ticker'[u]
        BY <1>1, <2>2
      <3>2. RequestSound(q)
        BY <1>2, <3>1 DEF DelegationInv, Requests
      <3>3. RequestSound(q)'
        BY <3>2, SoundStays DEF MarketSound
      <3>4. QED
        BY <3>1, <3>3
    <2>3. QED
      BY <2>1, <2>2
  <1>3. QED
    BY <1>1, <1>2 DEF RequestType, Requests

\* A request decides one entry.
LEMMA Decides ==
  ASSUME DelegationInv, MarketSound, NEW t \in Ticker, ticker[t] \in Request,
         NEW s \in Subtask, NEW e \in Entry, Decided(t, s, e), EntryOK(s, e)',
         ticker[t].at = "review" /\ ticker[t].copy[s].end = "output" => e.end = "output"
  PROVE  RequestType' /\ Requests'
  <1>1. PICK q : q = ticker[t]
    OBVIOUS
  <1>2. PICK r : r = [q EXCEPT !.copy[s] = e, !.todo = @ \ {s}, !.changed = @ \/ e # q.copy[s]]
    OBVIOUS
  <1>3. ticker' = [ticker EXCEPT ![t] = r]
    BY <1>1, <1>2 DEF Decided
  <1>4. q \in Request
    BY <1>1
  <1>5. /\ r \in Request /\ r.at = q.at /\ r.board = q.board /\ r.todo = q.todo \ {s}
        /\ r.copy = [q.copy EXCEPT ![s] = e]
    BY <1>2, <1>4 DEF Request
  <1>6. /\ q.copy \in [Subtask -> Entry] /\ q.todo \subseteq Subtask
        /\ r.copy[s] = e /\ \A x \in Subtask : x # s => r.copy[x] = q.copy[x]
    BY <1>4, <1>5 DEF Request
  <1>7. RequestSound(q)
    BY <1>1, <1>4 DEF DelegationInv, Requests, Request, NoRequest
  <1>8. RequestSound(q)'
    BY <1>7, SoundStays DEF MarketSound
  <1>9. CopyOK(r.copy)'
    <2>1. \A x \in Subtask : EntryOK(x, q.copy[x])'
      BY <1>8 DEF RequestSound, CopyOK
    <2>2. \A x \in Subtask : EntryOK(x, r.copy[x])'
      <3>1. SUFFICES ASSUME NEW x \in Subtask PROVE EntryOK(x, r.copy[x])'
        OBVIOUS
      <3>2. CASE x = s
        BY <1>6, <3>2
      <3>3. CASE x # s
        BY <1>6, <2>1, <3>3
      <3>4. QED
        BY <3>2, <3>3
    <2>3. QED
      BY <2>2 DEF CopyOK
  <1>10. TodoOK(r)'
    <2>1. TodoOK(q)'
      BY <1>8 DEF RequestSound
    <2>2. r.at = "review" /\ q.copy[s].end = "output" => r.copy[s].end = "output"
      BY <1>1, <1>5, <1>6
    <2>3. \A x \in Subtask : r.at = "review" /\ q.copy[x].end = "output" => r.copy[x].end = "output"
      BY <1>6, <2>2
    <2>4. Reviewer(s) \subseteq Subtask /\ \A x : Reviewer(x) \subseteq Subtask
      BY DEF Reviewer
    <2>5. QED
      BY <1>5, <1>6, <2>1, <2>3, <2>4 DEF TodoOK
  <1>11. BoardOK(r.board)'
    BY <1>5, <1>8 DEF RequestSound
  <1>12. RequestSound(r)'
    BY <1>9, <1>10, <1>11 DEF RequestSound
  <1>13. QED
    BY <1>3, <1>5, <1>12, RequestMoves

LEMMA InvKept ==
  ASSUME DelegationInv, MarketSound, RequestType', Requests',
         status' \in {"planned", "posted", "completed"},
         subtasks' \in [Subtask -> Entry], CopyOK(subtasks)',
         lost' \in 0 .. MaxLost, overlaps' \in 0 .. MaxOverlaps
  PROVE  DelegationInv'
  BY DEF DelegationInv, DelegationTypeOK, MarketSound, MarketGrows, RequestType

\* The row is the one that was, or the copy of a request.
LEMMA RowKept ==
  ASSUME DelegationInv, MarketSound,
         UNCHANGED subtasks \/ \E t \in Ticker : ticker[t] \in Request /\ subtasks' = ticker[t].copy
  PROVE  subtasks' \in [Subtask -> Entry] /\ CopyOK(subtasks)'
  <1>1. PICK copy : subtasks' = copy /\ copy \in [Subtask -> Entry] /\ CopyOK(copy)
    <2>1. CASE UNCHANGED subtasks
      BY <2>1 DEF DelegationInv, DelegationTypeOK
    <2>2. ASSUME NEW t \in Ticker, ticker[t] \in Request, subtasks' = ticker[t].copy
          PROVE  ticker[t].copy \in [Subtask -> Entry] /\ CopyOK(ticker[t].copy)
      BY <2>2 DEF DelegationInv, Requests, RequestSound, Request, NoRequest
    <2>3. QED
      BY <2>1, <2>2
  <1>2. CopyOK(copy)'
    BY <1>1, CopyStays DEF MarketSound
  <1>3. QED
    BY <1>1, <1>2

\* Nobody but the market moves.
LEMMA Environment ==
  ASSUME DelegationInv, MarketSound, UNCHANGED <<status, subtasks, ticker, lost, overlaps>>
  PROVE  DelegationInv'
  BY InvKept, RowKept, RequestsRest DEF DelegationInv, DelegationTypeOK

-----------------------------------------------------------------------------
(***************************************************************************)
(* The environment.                                                        *)
(***************************************************************************)
LEMMA JobTypes ==
  ASSUME DelegationInv, NEW j \in DOMAIN subtaskJobs
  PROVE  subtaskJobs[j] \in SubtaskJob /\ JobOK(j)
  BY DEF DelegationInv, DelegationTypeOK, Market

LEMMA DeliverStep ==
  ASSUME DelegationInv, NEW j \in DOMAIN subtaskJobs, Deliver(j) PROVE DelegationInv'
  <1>1. PICK word \in {"revise", "approve"} :
          /\ subtaskJobs' = [subtaskJobs EXCEPT ![j].status = "Submitted", ![j].says = word]
          /\ subtaskJobs[j].status = "Open"
    BY DEF Deliver
  <1>2. PICK work : work = [subtaskJobs[j] EXCEPT !.status = "Submitted", !.says = word]
    OBVIOUS
  <1>3. subtaskJobs' = [subtaskJobs EXCEPT ![j] = work]
    BY <1>1, <1>2
  <1>4. subtaskJobs[j] \in SubtaskJob
    BY JobTypes
  <1>5. /\ work \in SubtaskJob /\ work.of = subtaskJobs[j].of /\ work.parent = subtaskJobs[j].parent
        /\ work.status = "Submitted" /\ work.says = word /\ work.payer = subtaskJobs[j].payer
    BY <1>2, <1>4 DEF SubtaskJob
  <1>6. /\ subtaskJobs[j].says = "nothing"
        /\ ~GradedOnSubmission /\ Reviewer(work.of) # {} /\ work.payer \in {"grader", "tick"} =>
             PeerApproved(work.of)
    BY <1>1, <1>5, JobTypes DEF JobOK
  <1>7. MarketSound
    BY <1>1, <1>3, <1>5, <1>6, SubtaskJobMoves
  <1>8. QED
    BY <1>7, Environment DEF Deliver

\* Paying a delivered job is sound when what is under review has its approval.
LEMMA PaidSound ==
  ASSUME DelegationInv, NEW j \in DOMAIN subtaskJobs, NEW payer \in {"owner", "grader", "tick"},
         PaidBy(j, payer),
         ~GradedOnSubmission /\ Reviewer(subtaskJobs[j].of) # {} /\ payer # "owner" =>
           PeerApproved(subtaskJobs[j].of)
  PROVE  /\ MarketSound
         /\ subtaskJobs'[j].status = "Completed" /\ subtaskJobs'[j].says = subtaskJobs[j].says
  <1>1. PICK work : work = [subtaskJobs[j] EXCEPT !.status = "Completed", !.payer = payer]
    OBVIOUS
  <1>2. subtaskJobs' = [subtaskJobs EXCEPT ![j] = work] /\ subtaskJobs[j].status = "Submitted"
    BY <1>1 DEF PaidBy
  <1>3. subtaskJobs[j] \in SubtaskJob
    BY JobTypes
  <1>4. /\ work \in SubtaskJob /\ work.of = subtaskJobs[j].of /\ work.parent = subtaskJobs[j].parent
        /\ work.status = "Completed" /\ work.says = subtaskJobs[j].says /\ work.payer = payer
    BY <1>1, <1>3 DEF SubtaskJob
  <1>5. work.says # "nothing"
    BY <1>2, <1>4, JobTypes DEF JobOK
  <1>6. subtaskJobs'[j] = work
    BY <1>2 DEF DelegationInv, DelegationTypeOK
  <1>7. QED
    BY <1>2, <1>4, <1>5, <1>6, SubtaskJobMoves

LEMMA PayStep ==
  ASSUME DelegationInv, NEW j \in DOMAIN subtaskJobs, GraderPays(j) \/ OwnerPays(j)
  PROVE  DelegationInv'
  <1>1. MarketSound
    BY PaidSound DEF GraderPays, OwnerPays
  <1>2. QED
    BY <1>1, Environment DEF GraderPays, OwnerPays

LEMMA RefundStep ==
  ASSUME DelegationInv, NEW j \in DOMAIN subtaskJobs, Refund(j) PROVE DelegationInv'
  <1>1. PICK work : work = [subtaskJobs[j] EXCEPT !.status = "Refunded"]
    OBVIOUS
  <1>2. /\ subtaskJobs' = [subtaskJobs EXCEPT ![j] = work]
        /\ subtaskJobs[j].status \in {"Open", "Submitted"}
    BY <1>1 DEF Refund
  <1>3. subtaskJobs[j] \in SubtaskJob
    BY JobTypes
  <1>4. /\ work \in SubtaskJob /\ work.of = subtaskJobs[j].of /\ work.parent = subtaskJobs[j].parent
        /\ work.status = "Refunded" /\ work.says = subtaskJobs[j].says
        /\ work.payer = subtaskJobs[j].payer
    BY <1>1, <1>3 DEF SubtaskJob
  <1>5. ~GradedOnSubmission /\ Reviewer(work.of) # {} /\ work.payer \in {"grader", "tick"} =>
          PeerApproved(work.of)
    BY <1>4, JobTypes DEF JobOK
  <1>6. MarketSound
    BY <1>2, <1>4, <1>5, SubtaskJobMoves
  <1>7. QED
    BY <1>6, Environment DEF Refund

LEMMA NewJobType ==
  ASSUME NEW s \in Subtask, NEW parent \in 0 .. MaxJobs, NEW reposts \in 0 .. MaxReposts
  PROVE  /\ NewJob(s, parent, reposts) \in SubtaskJob
         /\ NewJob(s, parent, reposts).of = s
         /\ NewJob(s, parent, reposts).parent = parent
         /\ NewJob(s, parent, reposts).status = "Open"
         /\ NewJob(s, parent, reposts).says = "nothing"
         /\ NewJob(s, parent, reposts).payer = "nobody"
  BY DEF NewJob, SubtaskJob

LEMMA RepostStep ==
  ASSUME DelegationAssumption, DelegationInv, NEW j \in DOMAIN subtaskJobs, Repost(j)
  PROVE  DelegationInv'
  <1>1. PICK work : work = NewJob(subtaskJobs[j].of, j, subtaskJobs[j].reposts + 1)
    OBVIOUS
  <1>2. /\ subtaskJobs[j].of \in Subtask /\ j \in 0 .. MaxJobs
        /\ subtaskJobs[j].reposts + 1 \in 0 .. MaxReposts
    <2>1. subtaskJobs \in Seq(SubtaskJob) /\ Len(subtaskJobs) < MaxJobs /\ MaxJobs \in Nat
      BY DEF DelegationInv, DelegationTypeOK, Repost, DelegationAssumption
    <2>2. QED
      BY <2>1, JobTypes DEF Repost, SubtaskJob, DelegationAssumption
  <1>3. /\ work \in SubtaskJob /\ work.of = subtaskJobs[j].of /\ work.parent = j
        /\ work.status = "Open" /\ work.says = "nothing" /\ work.payer = "nobody"
    BY <1>1, <1>2, NewJobType
  <1>4. \A d \in DependsOn[work.of] : Delivered(d)
    BY <1>3, JobTypes DEF JobOK
  <1>5. subtaskJobs' = Append(subtaskJobs, work) /\ Len(subtaskJobs) < MaxJobs /\ MaxJobs \in Nat
    BY <1>1 DEF Repost, DelegationAssumption
  <1>6. MarketSound
    BY <1>3, <1>4, <1>5, JobAppended
  <1>7. QED
    BY <1>6, Environment DEF Repost

-----------------------------------------------------------------------------
(***************************************************************************)
(* A request takes the least subtask it is still to do.                    *)
(***************************************************************************)
LEMMA LeastNat ==
  ASSUME NEW T \in SUBSET Nat, T # {}
  PROVE  Min(T) \in T
  <1>1. \E z \in T : \A y \in T : z =< y
    BY LeastOf
  <1>2. QED
    BY <1>1 DEF Min

LEMMA AtRequest ==
  ASSUME DelegationInv, NEW t \in Ticker, ticker[t] # NoRequest
  PROVE  /\ ticker[t] \in Request /\ ticker[t].at \in {"confirm", "refuse", "sync", "post", "review", "write"}
         /\ ticker[t].copy \in [Subtask -> Entry] /\ ticker[t].board \in Seq(SubtaskJob)
         /\ ticker[t].todo \subseteq Subtask /\ RequestSound(ticker[t])
  BY DEF DelegationInv, DelegationTypeOK, Requests, Request

LEMMA NextSubtask ==
  ASSUME DelegationInv, NEW t \in Ticker, ticker[t] # NoRequest, ticker[t].todo # {}
  PROVE  /\ Min(ticker[t].todo) \in ticker[t].todo /\ Min(ticker[t].todo) \in Subtask
         /\ ticker[t].copy[Min(ticker[t].todo)] \in Entry
         /\ EntryOK(Min(ticker[t].todo), ticker[t].copy[Min(ticker[t].todo)])
  <1>1. ticker[t].todo \subseteq Subtask /\ Subtask \subseteq Nat
    BY AtRequest DEF Subtask
  <1>2. Min(ticker[t].todo) \in ticker[t].todo
    BY <1>1, LeastNat
  <1>3. QED
    BY <1>1, <1>2, AtRequest DEF RequestSound, CopyOK

LEMMA BeginStep ==
  ASSUME DelegationAssumption, DelegationInv, NEW t \in Ticker, ConfirmDelegation(t) \/ Tick(t)
  PROVE  DelegationInv'
  <1>1. MarketSound
    BY MarketUnchanged DEF ConfirmDelegation, Tick, Begin
  <1>2. PICK at \in {"confirm", "sync"}, todo \in SUBSET Subtask :
          /\ Begin(t, at, todo)
          /\ at = "confirm" => \A s \in todo : subtasks[s].job = 0 /\ DependsOn[s] = {}
    BY DEF ConfirmDelegation, Tick, Roots
  <1>3. PICK r : r = [at |-> at, copy |-> subtasks, board |-> subtaskJobs, todo |-> todo,
                      changed |-> FALSE]
    OBVIOUS
  <1>4. ticker' = [ticker EXCEPT ![t] = r]
    BY <1>2, <1>3 DEF Begin
  <1>5. /\ r.at = at /\ r.copy = subtasks /\ r.board = subtaskJobs /\ r.todo = todo
        /\ r \in Request
    BY <1>3 DEF DelegationInv, DelegationTypeOK, Request
  <1>6. RequestSound(r)
    <2>1. CopyOK(r.copy)
      BY <1>5 DEF DelegationInv
    <2>2. BoardOK(r.board)
      BY <1>5 DEF BoardOK, DelegationInv, Market, JobOK
    <2>3. TodoOK(r)
      BY <1>2, <1>5 DEF TodoOK
    <2>4. QED
      BY <2>1, <2>2, <2>3 DEF RequestSound
  <1>7. RequestSound(r)'
    BY <1>1, <1>6, SoundStays DEF MarketSound
  <1>8. RequestType' /\ Requests'
    BY <1>1, <1>4, <1>5, <1>7, RequestMoves
  <1>9. /\ UNCHANGED <<status, subtasks, subtaskJobs, lost>>
        /\ overlaps' = overlaps \/ (overlaps < MaxOverlaps /\ overlaps' = overlaps + 1)
    BY <1>2 DEF Begin
  <1>10. overlaps' \in 0 .. MaxOverlaps
    BY <1>9 DEF DelegationInv, DelegationTypeOK, DelegationAssumption
  <1>11. QED
    BY <1>1, <1>8, <1>9, <1>10, InvKept, RowKept DEF DelegationInv, DelegationTypeOK

\* A post of a subtask whose inputs were delivered.
LEMMA PostSound ==
  ASSUME DelegationAssumption, DelegationInv, NEW s \in Subtask,
         \A d \in DependsOn[s] : Delivered(d),
         Len(subtaskJobs) < MaxJobs, subtaskJobs' = Append(subtaskJobs, NewJob(s, 0, 0))
  PROVE  /\ MarketSound
         /\ Len(subtaskJobs) + 1 \in DOMAIN subtaskJobs' /\ Len(subtaskJobs) + 1 \in 0 .. MaxJobs
         /\ subtaskJobs'[Len(subtaskJobs) + 1].of = s
  <1>1. PICK work : work = NewJob(s, 0, 0)
    OBVIOUS
  <1>2. MaxJobs \in Nat /\ MaxReposts \in Nat
    BY DEF DelegationAssumption
  <1>3. /\ work \in SubtaskJob /\ work.of = s /\ work.parent = 0
        /\ work.status = "Open" /\ work.says = "nothing" /\ work.payer = "nobody"
    BY <1>1, <1>2, NewJobType
  <1>4. Len(subtaskJobs) \in Nat
    BY DEF DelegationInv, DelegationTypeOK
  <1>5. QED
    BY <1>1, <1>2, <1>3, <1>4, JobAppended

\* What a request is to post, at the root or by the DAG advance, has its inputs.
LEMMA ToPost ==
  ASSUME DelegationInv, NEW t \in Ticker, ticker[t].at \in {"confirm", "post"},
         ticker[t].todo # {}
  PROVE  /\ ticker[t] # NoRequest
         /\ ticker[t].copy[Min(ticker[t].todo)].job = 0
         /\ \A d \in DependsOn[Min(ticker[t].todo)] : Delivered(d)
  <1>1. ticker[t] # NoRequest
    BY DEF NoRequest
  <1>2. QED
    BY <1>1, AtRequest, NextSubtask DEF RequestSound, TodoOK

LEMMA PostStep ==
  ASSUME DelegationAssumption, DelegationInv, NEW t \in Ticker, PostRoot(t) \/ PostDependent(t)
  PROVE  DelegationInv'
  <1>1. /\ ticker[t].at \in {"confirm", "post"} /\ ticker[t].todo # {}
        /\ PostOneSubtask(t, Min(ticker[t].todo))
        /\ UNCHANGED <<status, subtasks, lost, overlaps>>
    BY DEF PostRoot, PostDependent, PostOneSubtask
  <1>2. PICK s : s = Min(ticker[t].todo)
    OBVIOUS
  <1>3. PICK n : n = Len(subtaskJobs) + 1
    OBVIOUS
  <1>4. /\ ticker[t] # NoRequest /\ s \in Subtask /\ \A d \in DependsOn[s] : Delivered(d)
        /\ ticker[t].copy[s] \in Entry /\ ticker[t].copy[s].job = 0 /\ EntryOK(s, ticker[t].copy[s])
    BY <1>1, <1>2, ToPost, NextSubtask
  <1>5. MarketSound /\ n \in DOMAIN subtaskJobs' /\ n \in 0 .. MaxJobs /\ subtaskJobs'[n].of = s
    BY <1>1, <1>2, <1>3, <1>4, PostSound DEF PostOneSubtask
  <1>6. PICK e0 : e0 = ticker[t].copy[s]
    OBVIOUS
  <1>7. PICK e : e = [e0 EXCEPT !.job = n]
    OBVIOUS
  <1>8. /\ e \in Entry /\ e.job = n /\ e.end = e0.end /\ e.awaitingReview = e0.awaitingReview
        /\ e.verdict = e0.verdict
    BY <1>4, <1>5, <1>6, <1>7 DEF Entry
  <1>9. Decided(t, s, e)
    BY <1>1, <1>2, <1>3, <1>6, <1>7 DEF PostOneSubtask
  <1>10. EntryOK(s, e0)'
    BY <1>4, <1>5, <1>6, EntryStays DEF MarketSound
  <1>11. e0.job = 0 /\ e0.end # "output" /\ ~e0.awaitingReview
    BY <1>4, <1>6 DEF EntryOK
  <1>12. EntryOK(s, e)'
    BY <1>5, <1>8, <1>10, <1>11 DEF EntryOK
  <1>13. RequestType' /\ Requests'
    BY <1>1, <1>4, <1>5, <1>8, <1>9, <1>12, AtRequest, Decides
  <1>14. QED
    BY <1>1, <1>5, <1>13, InvKept, RowKept DEF DelegationInv, DelegationTypeOK

\* A post that fails, on the chain or on the way back.
LEMMA UnseenSound ==
  ASSUME DelegationAssumption, DelegationInv, NEW t \in Ticker,
         ticker[t].at \in {"confirm", "post"}, ticker[t].todo # {},
         UNCHANGED <<subtaskJobs, lost>> \/ PostUnseen(Min(ticker[t].todo))
  PROVE  MarketSound /\ lost' \in 0 .. MaxLost
  <1>1. CASE UNCHANGED <<subtaskJobs, lost>>
    BY <1>1, MarketUnchanged DEF DelegationInv, DelegationTypeOK
  <1>2. CASE PostUnseen(Min(ticker[t].todo))
    <2>1. lost' \in 0 .. MaxLost
      BY <1>2 DEF PostUnseen, DelegationInv, DelegationTypeOK, DelegationAssumption
    <2>2. PICK s : s = Min(ticker[t].todo)
      OBVIOUS
    <2>3. s \in Subtask /\ \A d \in DependsOn[s] : Delivered(d)
      BY <2>2, ToPost, NextSubtask
    <2>4. MarketSound
      BY <1>2, <2>2, <2>3, PostSound DEF PostUnseen
    <2>5. QED
      BY <2>1, <2>4
  <1>3. QED
    BY <1>1, <1>2

LEMMA Goes ==
  ASSUME DelegationInv, MarketSound, NEW t \in Ticker, ticker[t] # NoRequest,
         NEW at \in {"refuse", "write"}, Goto(t, at)
  PROVE  RequestType' /\ Requests'
  <1>1. PICK q : q = ticker[t]
    OBVIOUS
  <1>2. PICK r : r = [q EXCEPT !.at = at]
    OBVIOUS
  <1>3. ticker' = [ticker EXCEPT ![t] = r]
    BY <1>1, <1>2 DEF Goto
  <1>4. q \in Request /\ RequestSound(q)
    BY <1>1, AtRequest
  <1>5. r \in Request /\ r.at = at /\ r.copy = q.copy /\ r.board = q.board
    BY <1>2, <1>4 DEF Request
  <1>6. RequestSound(r)
    BY <1>4, <1>5 DEF RequestSound, TodoOK
  <1>7. RequestSound(r)'
    BY <1>6, SoundStays DEF MarketSound
  <1>8. QED
    BY <1>3, <1>5, <1>7, RequestMoves

LEMMA PostFailsStep ==
  ASSUME DelegationAssumption, DelegationInv, NEW t \in Ticker,
         PostRootFails(t) \/ PostDependentFails(t)
  PROVE  DelegationInv'
  <1>1. /\ ticker[t].at \in {"confirm", "post"} /\ ticker[t].todo # {}
        /\ UNCHANGED <<subtaskJobs, lost>> \/ PostUnseen(Min(ticker[t].todo))
        /\ UNCHANGED <<status, subtasks, overlaps>>
    BY DEF PostRootFails, PostDependentFails
  <1>2. MarketSound /\ lost' \in 0 .. MaxLost /\ ticker[t] # NoRequest
    BY <1>1, UnseenSound, ToPost
  <1>3. RequestType' /\ Requests'
    <2>1. CASE PostRootFails(t)
      BY <1>2, <2>1, Goes DEF PostRootFails
    <2>2. CASE PostDependentFails(t)
      <3>1. PICK s, e : s = Min(ticker[t].todo) /\ e = ticker[t].copy[s]
        OBVIOUS
      <3>2. Decided(t, s, e)
        BY <2>2, <3>1 DEF PostDependentFails
      <3>3. s \in Subtask /\ e \in Entry /\ EntryOK(s, e)
        BY <1>1, <1>2, <3>1, NextSubtask
      <3>4. EntryOK(s, e)'
        BY <1>2, <3>3, EntryStays DEF MarketSound
      <3>5. QED
        BY <1>2, <3>1, <3>2, <3>3, <3>4, AtRequest, Decides
    <2>3. QED
      BY <2>1, <2>2
  <1>4. QED
    BY <1>1, <1>2, <1>3, InvKept, RowKept DEF DelegationInv, DelegationTypeOK

\* A request ends, with its copy written back or not.
LEMMA EndStep ==
  ASSUME DelegationAssumption, DelegationInv, NEW t \in Ticker,
         Confirmed(t) \/ Refused(t) \/ Write(t) \/ Dies(t)
  PROVE  DelegationInv'
  <1>1. /\ ticker[t] # NoRequest
        /\ ticker' = [ticker EXCEPT ![t] = NoRequest]
        /\ UNCHANGED <<subtaskJobs, overlaps>>
        /\ status' \in {status, "posted", "completed"}
        /\ UNCHANGED subtasks \/ subtasks' = ticker[t].copy
        /\ UNCHANGED lost \/ (lost < MaxLost /\ lost' = lost + 1)
    BY DEF Confirmed, Refused, Write, Dies, NoRequest
  <1>2. MarketSound
    BY <1>1, MarketUnchanged
  <1>3. RequestType' /\ Requests'
    BY <1>1, <1>2, RequestMoves
  <1>4. subtasks' \in [Subtask -> Entry] /\ CopyOK(subtasks)'
    BY <1>1, <1>2, AtRequest, RowKept
  <1>5. lost' \in 0 .. MaxLost
    BY <1>1 DEF DelegationInv, DelegationTypeOK, DelegationAssumption
  <1>6. QED
    BY <1>1, <1>2, <1>3, <1>4, <1>5, InvKept DEF DelegationInv, DelegationTypeOK

LEMMA JudgedStep ==
  ASSUME DelegationInv, NEW t \in Ticker, Judged(t) PROVE DelegationInv'
  <1>1. ticker[t] # NoRequest /\ Goto(t, "write") /\ UNCHANGED <<status, subtasks, subtaskJobs, lost, overlaps>>
    BY DEF Judged, NoRequest
  <1>2. MarketSound
    BY <1>1, MarketUnchanged
  <1>3. RequestType' /\ Requests'
    BY <1>1, <1>2, Goes
  <1>4. QED
    BY <1>1, <1>2, <1>3, InvKept, RowKept DEF DelegationInv, DelegationTypeOK

\* A request goes over its own copy, and the market is as it was.
LEMMA Considers ==
  ASSUME DelegationInv, NEW t \in Ticker, ticker[t] # NoRequest,
         NEW r \in Request, ticker' = [ticker EXCEPT ![t] = r],
         r.board = ticker[t].board, CopyOK(r.copy), TodoOK(r),
         UNCHANGED <<status, subtasks, subtaskJobs, lost, overlaps>>
  PROVE  DelegationInv'
  <1>1. MarketSound
    BY MarketUnchanged
  <1>2. RequestSound(r)
    BY AtRequest DEF RequestSound
  <1>3. RequestSound(r)'
    BY <1>1, <1>2, SoundStays DEF MarketSound
  <1>4. RequestType' /\ Requests'
    BY <1>1, <1>3, RequestMoves
  <1>5. QED
    BY <1>1, <1>4, InvKept, RowKept DEF DelegationInv, DelegationTypeOK

LEMMA ReviewsStep ==
  ASSUME DelegationInv, NEW t \in Ticker, Reviews(t) PROVE DelegationInv'
  <1>1. ticker[t] # NoRequest
    BY DEF Reviews, NoRequest
  <1>2. PICK q : q = ticker[t]
    OBVIOUS
  <1>3. PICK r : r = [q EXCEPT !.at = "review", !.todo = Reviewed(q.copy)]
    OBVIOUS
  <1>4. ticker' = [ticker EXCEPT ![t] = r]
    BY <1>2, <1>3 DEF Reviews
  <1>5. q \in Request /\ RequestSound(q) /\ Reviewed(q.copy) \subseteq Subtask
    BY <1>1, <1>2, AtRequest DEF Reviewed
  <1>6. /\ r \in Request /\ r.at = "review" /\ r.copy = q.copy /\ r.board = q.board
        /\ r.todo = Reviewed(q.copy)
    BY <1>3, <1>5 DEF Request
  <1>7. CopyOK(r.copy) /\ TodoOK(r)
    BY <1>5, <1>6 DEF RequestSound, TodoOK, Reviewed
  <1>8. QED
    BY <1>1, <1>2, <1>4, <1>6, <1>7, Considers DEF Reviews

\* The DAG advance: an entry of its copy fails with its upstream or is as it was.
LEMMA AdvanceStep ==
  ASSUME DelegationAssumption, DelegationInv, NEW t \in Ticker, Advance(t) PROVE DelegationInv'
  <1>1. ticker[t] # NoRequest
    <2>1. ticker[t].at = "sync"
      BY Zenon DEF Advance
    <2>2. QED
      BY <2>1 DEF NoRequest
  <1>2. PICK q, copy : q = ticker[t] /\ copy = q.copy
    OBVIOUS
  <1>3. PICK after : after = [s \in Subtask |-> IF s \in Starved(copy)
                                                THEN [copy[s] EXCEPT !.end = "failed"]
                                                ELSE copy[s]]
    OBVIOUS
  <1>4. PICK todo : todo = {s \in HeldBack(copy) \ Starved(copy) : Ready(copy, s)}
    OBVIOUS
  <1>5. PICK r : r = [q EXCEPT !.at = "post", !.copy = after, !.todo = todo,
                               !.changed = @ \/ Starved(copy) # {}]
    OBVIOUS
  <1>6. ticker' = [ticker EXCEPT ![t] = r]
    <2>1. q.copy = copy
      BY <1>2
    <2>2. ticker' = [ticker EXCEPT ![t] =
                       [q EXCEPT !.at = "post", !.copy = after, !.todo = todo,
                                 !.changed = @ \/ Starved(copy) # {}]]
      BY <1>2, <1>3, <1>4, <2>1, Zenon DEF Advance
    <2>3. QED
      BY <1>5, <2>2
  <1>7. /\ q \in Request /\ q.board \in Seq(SubtaskJob) /\ copy \in [Subtask -> Entry]
        /\ CopyOK(copy)
    BY <1>1, <1>2, AtRequest DEF RequestSound
  <1>8. \A s \in Subtask :
          /\ after[s] \in Entry
          /\ after[s].job = copy[s].job /\ after[s].awaitingReview = copy[s].awaitingReview
          /\ after[s].verdict = copy[s].verdict
          /\ after[s].end = copy[s].end \/ after[s].end = "failed"
          /\ s \notin Starved(copy) => after[s] = copy[s]
    <2>1. SUFFICES ASSUME NEW s \in Subtask
                   PROVE  /\ after[s] \in Entry
                          /\ after[s].job = copy[s].job
                          /\ after[s].awaitingReview = copy[s].awaitingReview
                          /\ after[s].verdict = copy[s].verdict
                          /\ after[s].end = copy[s].end \/ after[s].end = "failed"
                          /\ s \notin Starved(copy) => after[s] = copy[s]
      OBVIOUS
    <2>2. copy[s] \in Entry
      BY <1>7
    <2>3. CASE s \in Starved(copy)
      BY <1>3, <2>2, <2>3 DEF Entry
    <2>4. CASE s \notin Starved(copy)
      BY <1>3, <2>2, <2>4
    <2>5. QED
      BY <2>3, <2>4
  <1>9. todo \subseteq Subtask
    BY <1>4 DEF HeldBack
  <1>10. after \in [Subtask -> Entry]
    BY <1>3, <1>8
  <1>11. /\ r \in Request /\ r.at = "post" /\ r.copy = after /\ r.board = q.board /\ r.todo = todo
    BY <1>5, <1>7, <1>9, <1>10 DEF Request
  <1>12. CopyOK(r.copy)
    BY <1>7, <1>8, <1>11 DEF CopyOK, EntryOK
  <1>13. TodoOK(r)
    <2>1. SUFFICES ASSUME NEW s \in todo PROVE after[s].job = 0 /\ \A d \in DependsOn[s] : Delivered(d)
      BY <1>11 DEF TodoOK
    <2>2. s \in Subtask /\ copy[s].job = 0 /\ Ready(copy, s)
      BY <1>4 DEF HeldBack
    <2>3. ASSUME NEW d \in DependsOn[s], d \in Subtask PROVE Delivered(d)
      <3>1. copy[d].end = "output" \/ copy[d].awaitingReview
        BY <2>2, <2>3 DEF Ready
      <3>2. EntryOK(d, copy[d])
        BY <1>7, <2>3 DEF CopyOK
      <3>3. QED
        BY <3>1, <3>2 DEF EntryOK, Delivered
    <2>4. QED
      BY <1>8, <2>2, <2>3 DEF DelegationAssumption
  <1>14. QED
    BY <1>1, <1>2, <1>6, <1>11, <1>12, <1>13, Considers DEF Advance

\* The successor of a refunded job is of the same subtask.
LEMMA SuccessorIsKin ==
  ASSUME DelegationAssumption, DelegationInv, NEW seen \in Seq(SubtaskJob), BoardOK(seen),
         NEW j \in DOMAIN seen, Successor(seen, j) # {}
  PROVE  /\ Min(Successor(seen, j)) \in DOMAIN subtaskJobs
         /\ Min(Successor(seen, j)) \in 1 .. MaxJobs
         /\ subtaskJobs[Min(Successor(seen, j))].of = subtaskJobs[j].of
  <1>1. PICK k : k = Min(Successor(seen, j))
    OBVIOUS
  <1>2. k \in Successor(seen, j)
    <2>1. Successor(seen, j) \subseteq Nat
      BY DEF Successor
    <2>2. QED
      BY <1>1, <2>1, LeastNat
  <1>3. k \in DOMAIN subtaskJobs /\ subtaskJobs[k].parent = j /\ j \in DOMAIN seen /\ j # 0
    BY <1>2 DEF Successor, BoardOK
  <1>4. subtaskJobs[k].of = subtaskJobs[j].of
    BY <1>3, JobTypes DEF JobOK
  <1>5. k \in 1 .. MaxJobs
    BY <1>3 DEF DelegationInv, DelegationTypeOK, Market, DelegationAssumption
  <1>6. QED
    BY <1>1, <1>3, <1>4, <1>5

\* What the board decides of an entry is backed by the jobs as they are now.
LEMMA FollowedSound ==
  ASSUME DelegationAssumption, DelegationInv, NEW s \in Subtask, NEW e \in Entry, EntryOK(s, e),
         NEW seen \in Seq(SubtaskJob), BoardOK(seen), e.job \in DOMAIN seen,
         e.end = "open", ~e.awaitingReview
  PROVE  Followed(e, seen) \in Entry /\ EntryOK(s, Followed(e, seen))
  <1>1. /\ e.job # 0 /\ e.job \in DOMAIN subtaskJobs /\ subtaskJobs[e.job].of = s
        /\ seen[e.job].status \in {"Submitted", "Completed"} => subtaskJobs[e.job].says # "nothing"
        /\ seen[e.job].status = "Completed" => subtaskJobs[e.job].status = "Completed"
    BY DEF BoardOK, EntryOK
  <1>2. CASE seen[e.job].status = "Completed"
    <2>1. PICK f : f = [e EXCEPT !.end = "output"]
      OBVIOUS
    <2>2. /\ f \in Entry /\ f.job = e.job /\ f.end = "output" /\ f.awaitingReview = e.awaitingReview
          /\ f.verdict = e.verdict
      BY <2>1 DEF Entry
    <2>3. EntryOK(s, f)
      BY <1>1, <1>2, <2>2 DEF EntryOK
    <2>4. Followed(e, seen) = f
      BY <1>2, <2>1 DEF Followed
    <2>5. QED
      BY <2>2, <2>3, <2>4
  <1>3. CASE seen[e.job].status = "Refunded" /\ Successor(seen, e.job) = {}
    <2>1. PICK f : f = [e EXCEPT !.end = "failed"]
      OBVIOUS
    <2>2. /\ f \in Entry /\ f.job = e.job /\ f.end = "failed" /\ f.awaitingReview = e.awaitingReview
          /\ f.verdict = e.verdict
      BY <2>1 DEF Entry
    <2>3. EntryOK(s, f)
      BY <1>1, <2>2 DEF EntryOK
    <2>4. Followed(e, seen) = f
      BY <1>3, <2>1 DEF Followed
    <2>5. QED
      BY <2>2, <2>3, <2>4
  <1>4. CASE seen[e.job].status = "Refunded" /\ Successor(seen, e.job) # {}
    <2>1. PICK k : k = Min(Successor(seen, e.job))
      OBVIOUS
    <2>2. k \in DOMAIN subtaskJobs /\ k \in 1 .. MaxJobs /\ subtaskJobs[k].of = s
      BY <1>1, <1>4, <2>1, SuccessorIsKin
    <2>3. PICK f : f = [e EXCEPT !.job = k]
      OBVIOUS
    <2>4. /\ f \in Entry /\ f.job = k /\ f.end = "open" /\ ~f.awaitingReview
          /\ f.verdict = e.verdict
      BY <1>4, <2>2, <2>3 DEF Entry
    <2>5. EntryOK(s, f)
      BY <2>2, <2>4 DEF EntryOK
    <2>6. Followed(e, seen) = f
      BY <1>4, <2>1, <2>3 DEF Followed
    <2>7. QED
      BY <2>4, <2>5, <2>6
  <1>5. QED
    BY <1>2, <1>3, <1>4 DEF Followed

\* The tick's own decisions: it holds passed work for the review, or pays it.
LEMMA PassedSound ==
  ASSUME DelegationInv, NEW t \in Ticker, ticker[t] \in Request, ticker[t].at = "sync",
         NEW s \in Subtask, NEW e \in Entry, EntryOK(s, e), e.verdict # "revise",
         e.job # 0, subtaskJobs[e.job].says # "nothing", Passed(t, s, e)
  PROVE  MarketSound /\ RequestType' /\ Requests'
  <1>1. e.job \in DOMAIN subtaskJobs /\ subtaskJobs[e.job].of = s
    BY DEF EntryOK
  <1>2. CASE Held(s, e) /\ Decided(t, s, [e EXCEPT !.awaitingReview = TRUE]) /\ UNCHANGED subtaskJobs
    <2>1. PICK f : f = [e EXCEPT !.awaitingReview = TRUE]
      OBVIOUS
    <2>2. f \in Entry /\ f.job = e.job /\ f.end = e.end /\ f.verdict = e.verdict
      BY <2>1 DEF Entry
    <2>3. EntryOK(s, f)
      BY <1>1, <2>2 DEF EntryOK
    <2>4. MarketSound
      BY <1>2, MarketUnchanged
    <2>5. EntryOK(s, f)'
      BY <2>3, <2>4, EntryStays DEF MarketSound
    <2>6. Decided(t, s, f)
      BY <1>2, <2>1
    <2>7. QED
      BY <2>2, <2>4, <2>5, <2>6, Decides
  <1>3. CASE Decided(t, s, e) /\ UNCHANGED subtaskJobs
    <2>1. MarketSound
      BY <1>3, MarketUnchanged
    <2>2. EntryOK(s, e)'
      BY <2>1, EntryStays DEF MarketSound
    <2>3. QED
      BY <1>3, <2>1, <2>2, Decides
  <1>4. CASE ~Held(s, e) /\ PaidBy(e.job, "tick") /\ Decided(t, s, [e EXCEPT !.end = "output"])
    <2>1. PICK f : f = [e EXCEPT !.end = "output"]
      OBVIOUS
    <2>2. /\ f \in Entry /\ f.job = e.job /\ f.awaitingReview = e.awaitingReview
          /\ f.verdict = e.verdict
      BY <2>1 DEF Entry
    <2>3. Reviewer(s) # {} => PeerApproved(s)
      BY <1>4 DEF Held, EntryOK, Entry
    <2>4. MarketSound
      BY <1>1, <1>4, <2>3, PaidSound
    <2>5. /\ subtaskJobs'[e.job].status = "Completed"
          /\ subtaskJobs'[e.job].says = subtaskJobs[e.job].says
      BY <1>1, <1>4, <2>3, PaidSound
    <2>6. EntryOK(s, e)'
      BY <2>4, EntryStays DEF MarketSound
    <2>7. EntryOK(s, f)'
      BY <2>2, <2>5, <2>6 DEF EntryOK
    <2>8. Decided(t, s, f)
      BY <1>4, <2>1
    <2>9. QED
      BY <2>2, <2>4, <2>7, <2>8, Decides
  <1>5. QED
    BY <1>2, <1>3, <1>4 DEF Passed

LEMMA SyncStep ==
  ASSUME DelegationAssumption, DelegationInv, NEW t \in Ticker, Sync(t) PROVE DelegationInv'
  <1>1. /\ ticker[t].at = "sync" /\ ticker[t].todo # {} /\ ticker[t] # NoRequest
        /\ UNCHANGED <<status, subtasks, lost, overlaps>>
    BY DEF Sync, NoRequest
  <1>2. PICK s, e, seen : s = Min(ticker[t].todo) /\ e = ticker[t].copy[s] /\ seen = ticker[t].board
    OBVIOUS
  <1>3. /\ s \in Subtask /\ e \in Entry /\ EntryOK(s, e)
        /\ ticker[t] \in Request /\ seen \in Seq(SubtaskJob) /\ BoardOK(seen)
    BY <1>1, <1>2, NextSubtask, AtRequest DEF RequestSound
  <1>4. \/ Decided(t, s, e) /\ UNCHANGED subtaskJobs
        \/ /\ e.end = "open" /\ e.job \in DOMAIN seen /\ ~e.awaitingReview
           /\ Decided(t, s, Followed(e, seen)) /\ UNCHANGED subtaskJobs
        \/ /\ e.end = "open" /\ e.job \in DOMAIN seen /\ ~e.awaitingReview
           /\ seen[e.job].status = "Submitted" /\ e.verdict # "revise"
           /\ Passed(t, s, e)
    BY <1>2 DEF Sync
  <1>5. MarketSound /\ RequestType' /\ Requests'
    <2>1. ASSUME NEW f \in Entry, EntryOK(s, f), Decided(t, s, f), UNCHANGED subtaskJobs
          PROVE  MarketSound /\ RequestType' /\ Requests'
      <3>1. MarketSound
        BY <2>1, MarketUnchanged
      <3>2. EntryOK(s, f)'
        BY <2>1, <3>1, EntryStays DEF MarketSound
      <3>3. QED
        BY <1>1, <1>3, <2>1, <3>1, <3>2, Decides
    <2>2. CASE Decided(t, s, e) /\ UNCHANGED subtaskJobs
      BY <1>3, <2>1, <2>2
    <2>3. CASE /\ e.end = "open" /\ e.job \in DOMAIN seen /\ ~e.awaitingReview
               /\ Decided(t, s, Followed(e, seen)) /\ UNCHANGED subtaskJobs
      BY <1>3, <2>1, <2>3, FollowedSound
    <2>4. CASE /\ e.end = "open" /\ e.job \in DOMAIN seen /\ ~e.awaitingReview
               /\ seen[e.job].status = "Submitted" /\ e.verdict # "revise"
               /\ Passed(t, s, e)
      <3>1. e.job # 0 /\ subtaskJobs[e.job].says # "nothing"
        BY <1>3, <2>4 DEF BoardOK
      <3>2. QED
        BY <1>1, <1>3, <2>4, <3>1, PassedSound
    <2>5. QED
      BY <1>4, <2>2, <2>3, <2>4
  <1>6. QED
    BY <1>1, <1>5, InvKept, RowKept DEF DelegationInv, DelegationTypeOK

\* A delivered review that approves is a completed job that says so.
LEMMA ApprovalStands ==
  ASSUME DelegationAssumption, DelegationInv, NEW t \in Ticker, ticker[t].at = "review",
         NEW s \in ticker[t].todo, Approves(ticker[t].copy, s)
  PROVE  PeerApproved(s)
  <1>1. ticker[t] # NoRequest
    BY DEF NoRequest
  <1>2. PICK copy : copy = ticker[t].copy
    OBVIOUS
  <1>3. copy \in [Subtask -> Entry] /\ CopyOK(copy) /\ \E q \in Reviewer(s) : copy[q].end = "output"
    BY <1>1, <1>2, AtRequest DEF RequestSound, TodoOK
  <1>4. PICK r \in Reviewer(s) : subtaskJobs[copy[r].job].says = "approve"
    BY <1>2 DEF Approves
  <1>5. \A q \in Reviewer(s) : q = r
    <2>1. ASSUME NEW q \in Reviewer(s) PROVE ~(q < r) /\ ~(r < q)
      BY DEF Reviewer, Subtask
    <2>2. QED
      BY <2>1 DEF Reviewer, Subtask
  <1>6. r \in Subtask /\ ReviewOf[r] = s /\ s \in Subtask
    BY <1>1, AtRequest DEF Reviewer
  <1>7. Reviewer(r) = {}
    BY <1>6 DEF Reviewer, DelegationAssumption, Subtask
  <1>8. copy[r].end = "output" /\ EntryOK(r, copy[r])
    BY <1>3, <1>5, <1>6 DEF CopyOK
  <1>9. /\ copy[r].job \in DOMAIN subtaskJobs /\ subtaskJobs[copy[r].job].of = r
        /\ subtaskJobs[copy[r].job].status = "Completed"
    BY <1>7, <1>8 DEF EntryOK
  <1>10. QED
    BY <1>4, <1>9 DEF PeerApproved

LEMMA ResolveReviewStep ==
  ASSUME DelegationAssumption, DelegationInv, NEW t \in Ticker, ResolveReview(t)
  PROVE  DelegationInv'
  <1>1. /\ ticker[t].at = "review" /\ ticker[t].todo # {} /\ ticker[t] # NoRequest
        /\ UNCHANGED <<status, subtasks, lost, overlaps>>
    <2>1. /\ ticker[t].at = "review" /\ ticker[t].todo # {}
          /\ UNCHANGED <<status, subtasks, lost, overlaps>>
      BY DEF ResolveReview
    <2>2. QED
      BY <2>1 DEF NoRequest
  <1>2. PICK s, e, payable : /\ s = Min(ticker[t].todo) /\ e = ticker[t].copy[s]
                             /\ payable = (ticker[t].board[e.job].status = "Submitted")
    OBVIOUS
  <1>3. /\ s \in Subtask /\ e \in Entry /\ EntryOK(s, e) /\ s \in ticker[t].todo
        /\ ticker[t] \in Request /\ RequestSound(ticker[t])
    BY <1>1, <1>2, NextSubtask, AtRequest
  <1>4. e.awaitingReview /\ Reviewer(s) # {}
    BY <1>1, <1>2, <1>3 DEF RequestSound, TodoOK
  <1>5. PICK held : held = [e EXCEPT !.awaitingReview = FALSE, !.verdict = "revise"]
    OBVIOUS
  <1>6. PICK released : released = [e EXCEPT !.awaitingReview = FALSE, !.verdict = "approve",
                                             !.end = "output"]
    OBVIOUS
  <1>7. /\ held \in Entry /\ held.job = e.job /\ held.end = e.end /\ ~held.awaitingReview
        /\ held.verdict = "revise"
    BY <1>3, <1>5 DEF Entry
  <1>8. /\ released \in Entry /\ released.job = e.job /\ released.end = "output"
        /\ ~released.awaitingReview /\ released.verdict = "approve"
    BY <1>3, <1>6 DEF Entry
  <1>9. \/ Decided(t, s, held) /\ UNCHANGED subtaskJobs
        \/ Approves(ticker[t].copy, s) /\ PaidBy(e.job, "tick") /\ Decided(t, s, released)
        \/ Decided(t, s, e) /\ UNCHANGED subtaskJobs
        \/ Approves(ticker[t].copy, s) /\ Decided(t, s, released) /\ UNCHANGED subtaskJobs
    BY <1>2, <1>5, <1>6 DEF ResolveReview
  <1>10. EntryOK(s, held)
    BY <1>3, <1>7 DEF EntryOK
  <1>11. Approves(ticker[t].copy, s) => PeerApproved(s)
    BY <1>1, <1>3, ApprovalStands
  <1>12. PeerApproved(s) => EntryOK(s, released)
    BY <1>3, <1>4, <1>8 DEF EntryOK
  <1>13. e.job \in DOMAIN subtaskJobs /\ subtaskJobs[e.job].of = s
    BY <1>3, <1>4 DEF EntryOK
  <1>14. MarketSound /\ RequestType' /\ Requests'
    <2>1. ASSUME NEW f \in Entry, EntryOK(s, f), e.end = "output" => f.end = "output",
                 Decided(t, s, f), MarketSound
          PROVE  MarketSound /\ RequestType' /\ Requests'
      <3>1. EntryOK(s, f)'
        BY <2>1, EntryStays DEF MarketSound
      <3>2. QED
        BY <1>2, <1>3, <2>1, <3>1, Decides
    <2>2. CASE Decided(t, s, held) /\ UNCHANGED subtaskJobs
      BY <1>7, <1>10, <2>1, <2>2, MarketUnchanged
    <2>3. CASE Approves(ticker[t].copy, s) /\ PaidBy(e.job, "tick") /\ Decided(t, s, released)
      <3>1. MarketSound
        BY <1>11, <1>13, <2>3, PaidSound
      <3>2. QED
        BY <1>8, <1>11, <1>12, <2>1, <2>3, <3>1
    <2>4. CASE Decided(t, s, e) /\ UNCHANGED subtaskJobs
      BY <1>3, <2>1, <2>4, MarketUnchanged
    <2>5. CASE Approves(ticker[t].copy, s) /\ Decided(t, s, released) /\ UNCHANGED subtaskJobs
      BY <1>8, <1>11, <1>12, <2>1, <2>5, MarketUnchanged
    <2>6. QED
      BY <1>9, <2>2, <2>3, <2>4, <2>5
  <1>15. QED
    BY <1>1, <1>14, InvKept, RowKept DEF DelegationInv, DelegationTypeOK

-----------------------------------------------------------------------------
(***************************************************************************)
(* The invariant, and what follows.                                        *)
(***************************************************************************)
LEMMA DelegationInvInit == ASSUME DelegationAssumption, DelegationInit PROVE DelegationInv
  BY DEF DelegationAssumption, DelegationInit, DelegationInv, DelegationTypeOK, Entry, NoRequest,
         Market, CopyOK, EntryOK, Requests

LEMMA DelegationInvStep ==
  ASSUME DelegationAssumption, DelegationInv, [DelegationNext]_delegationVars
  PROVE  DelegationInv'
  <1>1. CASE UNCHANGED delegationVars
    BY <1>1, MarketUnchanged, Environment DEF delegationVars
  <1>2. ASSUME NEW j \in DOMAIN subtaskJobs,
               Deliver(j) \/ GraderPays(j) \/ OwnerPays(j) \/ Refund(j) \/ Repost(j)
        PROVE  DelegationInv'
    BY <1>2, DeliverStep, PayStep, RefundStep, RepostStep
  <1>3. ASSUME NEW t \in Ticker, ConfirmDelegation(t) \/ Tick(t) \/ Proceed(t) \/ Dies(t)
        PROVE  DelegationInv'
    <2>1. CASE ConfirmDelegation(t) \/ Tick(t)
      BY <2>1, BeginStep
    <2>2. CASE PostRoot(t) \/ PostDependent(t)
      BY <2>2, PostStep
    <2>3. CASE PostRootFails(t) \/ PostDependentFails(t)
      BY <2>3, PostFailsStep
    <2>4. CASE Confirmed(t) \/ Refused(t) \/ Write(t) \/ Dies(t)
      BY <2>4, EndStep
    <2>5. CASE Sync(t)
      BY <2>5, SyncStep
    <2>6. CASE Advance(t)
      BY <2>6, AdvanceStep
    <2>7. CASE Reviews(t)
      BY <2>7, ReviewsStep
    <2>8. CASE ResolveReview(t)
      BY <2>8, ResolveReviewStep
    <2>9. CASE Judged(t)
      BY <2>9, JudgedStep
    <2>10. QED
      BY <1>3, <2>1, <2>2, <2>3, <2>4, <2>5, <2>6, <2>7, <2>8, <2>9 DEF Proceed
  <1>4. QED
    BY <1>1, <1>2, <1>3 DEF DelegationNext

\* Every reachable state of a delegation has the types the model gives it
\* (lib/delegation.ts: tickDelegation, confirmDelegation).
THEOREM DelegationTypes == ASSUME DelegationAssumption PROVE DelegationSpec => []DelegationTypeOK
  <1>1. DelegationInv => DelegationTypeOK
    BY DEF DelegationInv
  <1>2. QED
    BY <1>1, DelegationInvInit, DelegationInvStep, PTL DEF DelegationSpec

\* However many requests tick one delegation, whatever they overwrite and wherever they
\* die, a dependent subtask is escrowed only once every subtask it builds on was
\* delivered (lib/delegation.ts: tickDelegation, the DAG advance).
THEOREM DependentsHaveInputs ==
  ASSUME DelegationAssumption PROVE DelegationSpec => []DependentsBuildOnRealWork
  <1>1. DelegationInv => DependentsBuildOnRealWork
    BY DEF DelegationInv, Market, JobOK, Delivered, DependentsBuildOnRealWork
  <1>2. QED
    BY <1>1, DelegationInvInit, DelegationInvStep, PTL DEF DelegationSpec

\* Unless the callback's grader pays on submission, the platform pays work under peer
\* review only when the review of it was delivered, completed and approved it
\* (lib/delegation.ts: reviewerFor, tickDelegation).
THEOREM PeerGateHolds ==
  ASSUME DelegationAssumption, ~GradedOnSubmission PROVE DelegationSpec => []PeerGate
  <1>1. DelegationInv => PeerGate
    BY DEF DelegationInv, Market, JobOK, PeerApproved, PeerGate
  <1>2. QED
    BY <1>1, DelegationInvInit, DelegationInvStep, PTL DEF DelegationSpec

-----------------------------------------------------------------------------
(***************************************************************************)
(* A claim is held and only the acceptor of a job is sent to work on it,   *)
(* for any number of agents and requests, and any number of faults.        *)
(***************************************************************************)
\* A job stays with the worker it went to, so a stale board errs only on open jobs.
BoardIsPast == board.status = "Accepted" => board = job

\* A request reaches the dispatch with the job, or with an accept it cannot disown.
RunIsBacked ==
  \A t \in Ticks :
    tick[t] \in {"run", "link"} =>
      job.worker = TickAgent[t] \/ TickAgent[t] \in unconfirmed

ClaimInv == ClaimTypeOK /\ BoardIsPast /\ RunIsBacked /\ OnlyTheAcceptorRuns

-----------------------------------------------------------------------------
LEMMA JobStates ==
  ASSUME ClaimAssumption
  PROVE  /\ OpenJob \in JobState /\ \A a \in Agent : AcceptedBy(a) \in JobState
         /\ \A j \in JobState : j.status = "Open" => j = OpenJob
         /\ \A j \in JobState : j.status # "Open" => \E a \in Agent : j = AcceptedBy(a)
         /\ \A a \in Agent : /\ AcceptedBy(a).worker = a
                             /\ AcceptedBy(a).status = "Accepted"
                             /\ OpenJob.worker # a
         /\ OpenJob.status = "Open"
  <1>1. OpenJob.worker = Nobody /\ OpenJob.status = "Open"
    BY DEF OpenJob
  <1>2. \A a \in Agent : AcceptedBy(a).worker = a /\ AcceptedBy(a).status = "Accepted"
    BY DEF AcceptedBy
  <1>3. \A a \in Agent : OpenJob.worker # a
    BY <1>1 DEF ClaimAssumption
  <1>4. \A j \in JobState : j = OpenJob \/ \E a \in Agent : j = AcceptedBy(a)
    BY DEF JobState
  <1>5. OpenJob \in JobState /\ \A a \in Agent : AcceptedBy(a) \in JobState
    BY DEF JobState
  <1>6. QED
    BY <1>1, <1>2, <1>3, <1>4, <1>5

LEMMA ClaimTypes ==
  ASSUME ClaimAssumption
  PROVE  /\ NoClaim \in [by : Agent \cup {Nobody}, live : BOOLEAN]
         /\ NoClaim.by = Nobody /\ NoClaim.live = FALSE
  BY DEF NoClaim

-----------------------------------------------------------------------------
LEMMA ClaimTypeStep == ASSUME ClaimAssumption, ClaimTypeOK, [ClaimNext]_claimVars PROVE ClaimTypeOK'
  <1>1. ASSUME NEW a \in Agent, PendingLands(a) \/ PendingDropped(a) PROVE ClaimTypeOK'
    BY <1>1, JobStates DEF PendingLands, PendingDropped, ClaimTypeOK
  <1>2. CASE RefreshBoard
    BY <1>2 DEF RefreshBoard, ClaimTypeOK
  <1>3. CASE ClaimExpires
    <2>1. claim.by # Nobody
      BY <1>3 DEF ClaimExpires, ClaimTypeOK, NoClaim
    <2>2. claim' \in [by : Agent \cup {Nobody}, live : BOOLEAN] /\ claim'.by = claim.by
      BY <1>3 DEF ClaimExpires, ClaimTypeOK
    <2>3. QED
      BY <1>3, <2>1, <2>2 DEF ClaimExpires, ClaimTypeOK
  <1>4. ASSUME NEW t \in Ticks, Select(t) \/ AcceptFails(t) \/ SelfHeal(t) \/ TickDies(t)
        PROVE  ClaimTypeOK'
    BY <1>4 DEF Select, AcceptFails, SelfHeal, TickDies, TickGoto, ClaimTypeOK, ClaimAssumption
  <1>5. ASSUME NEW t \in Ticks, ClaimJobSpec(t) PROVE ClaimTypeOK'
    <2>1. TickAgent[t] \in Agent /\ TickAgent[t] # Nobody
      BY DEF ClaimAssumption
    <2>2. tick' \in [Ticks -> {"idle", "claim", "accept", "release", "run", "link"}]
      BY <1>5 DEF ClaimJobSpec, TickGoto, ClaimTypeOK
    <2>3. claim' \in [by : Agent \cup {Nobody}, live : BOOLEAN]
          /\ (claim'.by = Nobody => claim' = NoClaim)
      <3>1. CASE claim' = claim
        BY <3>1 DEF ClaimTypeOK
      <3>2. CASE claim' = [by |-> TickAgent[t], live |-> TRUE]
        BY <2>1, <3>2
      <3>3. QED
        BY <1>5, <3>1, <3>2 DEF ClaimJobSpec
    <2>4. QED
      BY <1>5, <2>2, <2>3 DEF ClaimJobSpec, ClaimTypeOK
  <1>6. ASSUME NEW t \in Ticks, Accept(t) PROVE ClaimTypeOK'
    <2>1. job' \in JobState
      BY <1>6, JobStates DEF Accept, ClaimAssumption
    <2>2. QED
      BY <1>6, <2>1 DEF Accept, TickGoto, ClaimTypeOK
  <1>7. ASSUME NEW t \in Ticks, AcceptPending(t) PROVE ClaimTypeOK'
    BY <1>7 DEF AcceptPending, TickGoto, ClaimTypeOK, ClaimAssumption
  <1>8. ASSUME NEW t \in Ticks, ReleaseJobClaim(t) PROVE ClaimTypeOK'
    BY <1>8, ClaimTypes DEF ReleaseJobClaim, TickGoto, ClaimTypeOK
  <1>9. ASSUME NEW t \in Ticks, RunAgentTask(t) \/ LinkSpec(t) PROVE ClaimTypeOK'
    BY <1>9 DEF RunAgentTask, LinkSpec, TickGoto, ClaimTypeOK, ClaimAssumption
  <1>10. CASE UNCHANGED claimVars
    BY <1>10 DEF claimVars, ClaimTypeOK
  <1>11. QED
    BY <1>1, <1>2, <1>3, <1>4, <1>5, <1>6, <1>7, <1>8, <1>9, <1>10 DEF ClaimNext, TickProceeds

\* The job is given away once, and what a worker may point to is never taken back.
LEMMA BackingStays ==
  ASSUME ClaimAssumption, ClaimTypeOK, [ClaimNext]_claimVars, NEW a \in Agent,
         job.worker = a \/ a \in unconfirmed
  PROVE  job'.worker = a \/ a \in unconfirmed'
  <1>1. job.worker = a => job.status # "Open"
    BY JobStates DEF ClaimTypeOK
  <1>2. ASSUME NEW b \in Agent, PendingLands(b) \/ PendingDropped(b)
        PROVE  job'.worker = a \/ a \in unconfirmed'
    BY <1>1, <1>2 DEF PendingLands, PendingDropped
  <1>3. ASSUME NEW t \in Ticks, Accept(t) \/ AcceptPending(t)
        PROVE  job'.worker = a \/ a \in unconfirmed'
    BY <1>1, <1>3 DEF Accept, AcceptPending
  <1>4. QED
    BY <1>2, <1>3 DEF ClaimNext, TickProceeds, RefreshBoard, ClaimExpires, Select, ClaimJobSpec,
       AcceptFails, ReleaseJobClaim, RunAgentTask, LinkSpec, SelfHeal, TickDies, claimVars

LEMMA BoardStep == ASSUME ClaimAssumption, ClaimInv, [ClaimNext]_claimVars PROVE BoardIsPast'
  <1>1. ASSUME NEW a \in Agent, PendingLands(a) \/ PendingDropped(a) PROVE BoardIsPast'
    BY <1>1, JobStates DEF PendingLands, PendingDropped, BoardIsPast, ClaimInv, ClaimTypeOK
  <1>2. ASSUME NEW t \in Ticks, Accept(t) PROVE BoardIsPast'
    BY <1>2, JobStates DEF Accept, BoardIsPast, ClaimInv, ClaimTypeOK
  <1>3. CASE RefreshBoard
    BY <1>3 DEF RefreshBoard, BoardIsPast
  <1>4. QED
    BY <1>1, <1>2, <1>3 DEF ClaimNext, TickProceeds, ClaimExpires, Select, ClaimJobSpec, AcceptPending,
       AcceptFails, ReleaseJobClaim, RunAgentTask, LinkSpec, SelfHeal, TickDies, claimVars,
       ClaimInv, BoardIsPast

\* Every way into the dispatch comes with the job or with a pending accept.
LEMMA BackedStep == ASSUME ClaimAssumption, ClaimInv, [ClaimNext]_claimVars PROVE RunIsBacked'
  <1> SUFFICES ASSUME NEW t \in Ticks, tick'[t] \in {"run", "link"}
               PROVE  job'.worker = TickAgent[t] \/ TickAgent[t] \in unconfirmed'
    BY DEF RunIsBacked
  <1>1. TickAgent[t] \in Agent
    BY DEF ClaimAssumption
  <1>2. CASE tick[t] \in {"run", "link"}
    BY <1>1, <1>2, BackingStays DEF ClaimInv, RunIsBacked
  <1>3. CASE tick[t] \notin {"run", "link"}
    <2>1. Accept(t) \/ AcceptPending(t) \/ SelfHeal(t)
      BY <1>3 DEF ClaimNext, TickProceeds, PendingLands, PendingDropped, RefreshBoard, ClaimExpires,
         Select, ClaimJobSpec, Accept, AcceptPending, AcceptFails, ReleaseJobClaim,
         RunAgentTask, LinkSpec, SelfHeal, TickDies, claimVars, TickGoto, ClaimInv, ClaimTypeOK
    <2>2. CASE Accept(t)
      BY <1>1, <2>2, JobStates DEF Accept
    <2>3. CASE AcceptPending(t)
      BY <2>3 DEF AcceptPending
    <2>4. CASE SelfHeal(t)
      BY <1>1, <2>4, JobStates DEF SelfHeal, NeedsHeal, ClaimInv, BoardIsPast
    <2>5. QED
      BY <2>1, <2>2, <2>3, <2>4
  <1>4. QED
    BY <1>2, <1>3

LEMMA RunsStep == ASSUME ClaimAssumption, ClaimInv, [ClaimNext]_claimVars PROVE OnlyTheAcceptorRuns'
  <1> SUFFICES ASSUME NEW a \in Agent, runs'[a] > 0
               PROVE  job'.worker = a \/ a \in unconfirmed'
    BY DEF OnlyTheAcceptorRuns
  <1>1. CASE runs[a] > 0
    BY <1>1, BackingStays DEF ClaimInv, OnlyTheAcceptorRuns
  <1>2. CASE ~(runs[a] > 0)
    <2>1. PICK t \in Ticks : RunAgentTask(t) /\ TickAgent[t] = a
      <3>1. runs' # runs
        BY <1>2
      <3>2. PICK t \in Ticks : RunAgentTask(t)
        BY <3>1 DEF ClaimNext, TickProceeds, PendingLands, PendingDropped, RefreshBoard, ClaimExpires,
           Select, ClaimJobSpec, Accept, AcceptPending, AcceptFails, ReleaseJobClaim,
           LinkSpec, SelfHeal, TickDies, claimVars
      <3>3. QED
        BY <1>2, <3>2 DEF RunAgentTask, ClaimInv, ClaimTypeOK
    <2>2. QED
      BY <2>1, BackingStays DEF RunAgentTask, ClaimInv, RunIsBacked
  <1>3. QED
    BY <1>1, <1>2

LEMMA ClaimInvHolds == ASSUME ClaimAssumption PROVE ClaimSpec => []ClaimInv
  <1>1. ClaimInit => ClaimInv
    <2> SUFFICES ASSUME ClaimInit PROVE ClaimInv
      OBVIOUS
    <2>1. faults \in 0 .. MaxFaults /\ runs \in [Agent -> Nat]
      BY DEF ClaimInit, ClaimAssumption
    <2>2. tick \in [Ticks -> {"idle", "claim", "accept", "release", "run", "link"}]
      BY DEF ClaimInit
    <2>3. claim \in [by : Agent \cup {Nobody}, live : BOOLEAN] /\ claim = NoClaim
      BY ClaimTypes DEF ClaimInit
    <2>4. ClaimTypeOK
      BY <2>1, <2>2, <2>3, JobStates DEF ClaimInit, ClaimTypeOK
    <2>5. QED
      BY <2>4, JobStates DEF ClaimInit, ClaimInv, BoardIsPast, RunIsBacked, OnlyTheAcceptorRuns
  <1>2. ClaimInv /\ [ClaimNext]_claimVars => ClaimInv'
    BY ClaimTypeStep, BoardStep, BackedStep, RunsStep DEF ClaimInv
  <1>3. QED
    BY <1>1, <1>2, PTL DEF ClaimSpec

-----------------------------------------------------------------------------
\* acceptAndDispatchJob, autoMineTick: whoever is sent to work has the job on the
\* chain, or an accept there that the platform could not know to have failed.
THEOREM DispatchIsBacked == ASSUME ClaimAssumption PROVE ClaimSpec => []OnlyTheAcceptorRuns
  <1>1. ClaimInv => OnlyTheAcceptorRuns
    BY DEF ClaimInv
  <1>2. QED
    BY <1>1, ClaimInvHolds, PTL

\* claimJobSpec, releaseJobClaim: nobody takes a live claim from its holder, whose
\* own failed accept is all that gives it back.
THEOREM ClaimIsExclusive == ASSUME ClaimAssumption PROVE ClaimSpec => ClaimHeld
  <1>1. ClaimInv /\ [ClaimNext]_claimVars
          => [claim.live /\ claim'.by # claim.by =>
                \E t \in Ticks : TickAgent[t] = claim.by /\ tick[t] = "release"]_claimVars
    <2> SUFFICES ASSUME ClaimInv, ClaimNext, claim.live, claim'.by # claim.by
                 PROVE  \E t \in Ticks : TickAgent[t] = claim.by /\ tick[t] = "release"
      OBVIOUS
    <2>1. claim.by # Nobody
      BY ClaimTypes DEF ClaimInv, ClaimTypeOK
    <2>2. ASSUME NEW t \in Ticks, ClaimJobSpec(t) PROVE FALSE
      BY <2>1, <2>2 DEF ClaimJobSpec, Claimable
    <2>3. ~ClaimExpires
      BY DEF ClaimExpires, ClaimInv, ClaimTypeOK
    <2>4. ASSUME NEW t \in Ticks, ReleaseJobClaim(t)
          PROVE  TickAgent[t] = claim.by /\ tick[t] = "release"
      BY <2>4 DEF ReleaseJobClaim
    <2>5. QED
      BY <2>2, <2>3, <2>4 DEF ClaimNext, TickProceeds, PendingLands, PendingDropped, RefreshBoard,
         Select, Accept, AcceptPending, AcceptFails, RunAgentTask, LinkSpec, SelfHeal, TickDies
  <1>2. QED
    BY <1>1, ClaimInvHolds, PTL DEF ClaimSpec, ClaimHeld

-----------------------------------------------------------------------------
(***************************************************************************)
(* Nobody is marked for abandoning a job without notice, and no answer     *)
(* is walked to a refund, for any number of sweeps and any deadline.       *)
(***************************************************************************)
\* A sweep on its walk has read a notice as old as the grace.
Noticed ==
  marked \/ (\E s \in Cycle : sweep[s].at \in {"submit", "dispute", "resolve", "mark"})
    => GRACE \in Warned

\* The walk goes on from a job it submitted itself, never from the worker's answer.
WalksOwnJob ==
  \A s \in Cycle :
    sweep[s].at \in {"dispute", "resolve", "mark"} => onChain \notin {"Accepted", "Answer"}

StaleInv == StaleTypeOK /\ Noticed /\ WalksOwnJob

-----------------------------------------------------------------------------
\* The grace is an age of its own.
LEMMA GraceType == ClaimsAssumption => GRACE \in Nat \ {0} /\ GRACE # NoAge /\ 0 # NoAge
  BY DEF ClaimsAssumption

\* Time and notices only ever add to the notices that are old enough.
LEMMA NoticesStay ==
  ASSUME ClaimsAssumption, StaleTypeOK, [StaleNext]_staleVars, GRACE \in Warned
  PROVE  GRACE \in Warned'
  <1>1. PICK i \in 1 .. MaxNotices : notices[i] = GRACE
    BY DEF Warned
  <1>2. CASE TimePasses
    <2>1. notices'[i] = Older(notices[i], GRACE)
      BY <1>2 DEF TimePasses
    <2>2. notices'[i] = GRACE
      BY <1>1, <2>1 DEF Older
    <2>3. QED
      BY <2>2, GraceType DEF Warned
  <1>3. ASSUME NEW s \in Cycle, Warn(s)
        PROVE  GRACE \in Warned'
    <2>1. notices'[i] = GRACE
      BY <1>1, <1>3, GraceType DEF Warn, StaleTypeOK
    <2>2. QED
      BY <2>1, GraceType DEF Warned
  <1>4. CASE notices' = notices
    BY <1>4 DEF Warned
  <1>5. QED
    BY <1>2, <1>3, <1>4 DEF StaleNext, SweepProceeds, Progress, Answer, SweepStarts, Look, Decide,
       Submit, Dispute, Resolve, Transition, Mark, SweepDies, staleVars

\* A decision to submit rests on a notice that was read.
LEMMA SubmitIsNoticed ==
  ASSUME ClaimsAssumption, NEW s \in Cycle, Decide(s), StaleTypeOK, sweep'[s].at = "submit"
  PROVE  GRACE \in Warned
  <1>1. PICK warned \in IF Warned = {} THEN {NoAge} ELSE Warned :
          SweepGoto(s, ReclaimDecision(sweep[s].phase, warned))
    BY DEF Decide
  <1>2. sweep'[s].at = ReclaimDecision(sweep[s].phase, warned)
    BY <1>1 DEF SweepGoto, StaleTypeOK
  <1>3. warned = GRACE
    BY <1>2 DEF ReclaimDecision
  <1>4. QED
    BY <1>1, <1>3, GraceType

-----------------------------------------------------------------------------
LEMMA StaleTypeStep == ClaimsAssumption /\ StaleTypeOK /\ [StaleNext]_staleVars => StaleTypeOK'
  <1> SUFFICES ASSUME ClaimsAssumption, StaleTypeOK, [StaleNext]_staleVars PROVE StaleTypeOK'
    OBVIOUS
  <1>1. CASE TimePasses
    BY <1>1 DEF TimePasses, StaleTypeOK, ClaimsAssumption, Older, JobStatus
  <1>2. CASE Progress
    BY <1>2 DEF Progress, StaleTypeOK, ClaimsAssumption
  <1>3. CASE Answer
    BY <1>3 DEF Answer, StaleTypeOK, JobStatus
  <1>4. ASSUME NEW s \in Cycle, SweepStarts(s) PROVE StaleTypeOK'
    BY <1>4 DEF SweepStarts, SweepGoto, StaleTypeOK
  <1>5. ASSUME NEW s \in Cycle, Look(s) PROVE StaleTypeOK'
    <2>1. ClaimPhase \in Phase
      BY DEF ClaimPhase, Phase
    <2>2. QED
      BY <1>5, <2>1 DEF Look, StaleTypeOK
  <1>6. ASSUME NEW s \in Cycle, Decide(s) PROVE StaleTypeOK'
    <2>1. PICK step \in {"idle", "warn", "submit"} : SweepGoto(s, step)
      BY <1>6 DEF Decide, ReclaimDecision
    <2>2. sweep' \in [Cycle -> {Resting} \cup
              [at : {"look", "warn", "submit", "dispute", "resolve", "mark"}]
              \cup [at : {"decide"}, phase : Phase]]
      BY <2>1 DEF SweepGoto, StaleTypeOK, Resting
    <2>3. QED
      BY <1>6, <2>2 DEF Decide, StaleTypeOK
  <1>7. ASSUME NEW s \in Cycle, Warn(s) PROVE StaleTypeOK'
    BY <1>7, GraceType DEF Warn, SweepGoto, StaleTypeOK, Resting
  <1>8. ASSUME NEW s \in Cycle, Submit(s) \/ Dispute(s) \/ Resolve(s) PROVE StaleTypeOK'
    BY <1>8 DEF Submit, Dispute, Resolve, Transition, SweepGoto, StaleTypeOK, JobStatus, Resting
  <1>9. ASSUME NEW s \in Cycle, Mark(s) PROVE StaleTypeOK'
    BY <1>9 DEF Mark, SweepGoto, StaleTypeOK, Resting
  <1>10. ASSUME NEW s \in Cycle, SweepDies(s) PROVE StaleTypeOK'
    BY <1>10 DEF SweepDies, SweepGoto, StaleTypeOK, Resting, ClaimsAssumption
  <1>11. CASE UNCHANGED staleVars
    BY <1>11 DEF staleVars, StaleTypeOK
  <1>12. QED
    BY <1>1, <1>2, <1>3, <1>4, <1>5, <1>6, <1>7, <1>8, <1>9, <1>10, <1>11
       DEF StaleNext, SweepProceeds

\* The walk is entered with a notice, and no step of it or of the worker takes one back.
LEMMA NoticedStep == ClaimsAssumption /\ StaleInv /\ [StaleNext]_staleVars => Noticed'
  <1> SUFFICES ASSUME ClaimsAssumption, StaleInv, [StaleNext]_staleVars,
                      GRACE \notin Warned
               PROVE  Noticed'
    BY NoticesStay DEF StaleInv, Noticed
  <1>1. ~marked /\ \A s \in Cycle : sweep[s].at \notin {"submit", "dispute", "resolve", "mark"}
    BY DEF StaleInv, Noticed
  <1>2. CASE TimePasses
    BY <1>1, <1>2 DEF TimePasses, Noticed
  <1>3. CASE Progress \/ Answer \/ UNCHANGED staleVars
    BY <1>1, <1>3 DEF Progress, Answer, staleVars, Noticed
  <1>4. ASSUME NEW s \in Cycle, Decide(s) PROVE Noticed'
    <2>1. sweep'[s].at # "submit"
      BY <1>4, SubmitIsNoticed DEF StaleInv
    <2>2. sweep'[s].at \in {"idle", "warn", "submit"}
      BY <1>4 DEF Decide, ReclaimDecision, SweepGoto, StaleInv, StaleTypeOK
    <2>3. \A t \in Cycle \ {s} : sweep'[t] = sweep[t]
      BY <1>4 DEF Decide, SweepGoto, StaleInv, StaleTypeOK
    <2>4. marked' = marked
      BY <1>4 DEF Decide
    <2>5. QED
      BY <1>1, <2>1, <2>2, <2>3, <2>4 DEF Noticed
  <1>5. ASSUME NEW s \in Cycle, SweepStarts(s) \/ Warn(s) \/ SweepDies(s) PROVE Noticed'
    BY <1>1, <1>5 DEF SweepStarts, Warn, SweepDies, SweepGoto, Noticed, StaleInv, StaleTypeOK
  <1>6. ASSUME NEW s \in Cycle, Look(s) PROVE Noticed'
    BY <1>1, <1>6 DEF Look, Resting, Noticed, StaleInv, StaleTypeOK
  <1>7. ASSUME NEW s \in Cycle, Submit(s) \/ Dispute(s) \/ Resolve(s) \/ Mark(s) PROVE FALSE
    BY <1>1, <1>7 DEF Submit, Dispute, Resolve, Mark, Transition
  <1>8. QED
    BY <1>2, <1>3, <1>4, <1>5, <1>6, <1>7 DEF StaleNext, SweepProceeds

\* Only its own submission takes a sweep on, and no job becomes accepted again.
LEMMA WalkStep == StaleInv /\ [StaleNext]_staleVars => WalksOwnJob'
  <1> SUFFICES ASSUME StaleInv, [StaleNext]_staleVars PROVE WalksOwnJob'
    OBVIOUS
  <1>1. CASE TimePasses \/ Progress \/ Answer \/ UNCHANGED staleVars
    BY <1>1 DEF TimePasses, Progress, Answer, staleVars, WalksOwnJob, StaleInv
  <1>2. ASSUME NEW s \in Cycle, SweepStarts(s) \/ Warn(s) \/ SweepDies(s) PROVE WalksOwnJob'
    BY <1>2 DEF SweepStarts, Warn, SweepDies, SweepGoto, WalksOwnJob, StaleInv, StaleTypeOK
  <1>3. ASSUME NEW s \in Cycle, Look(s) PROVE WalksOwnJob'
    BY <1>3 DEF Look, Resting, WalksOwnJob, StaleInv, StaleTypeOK
  <1>4. ASSUME NEW s \in Cycle, Decide(s) PROVE WalksOwnJob'
    <2>1. sweep'[s].at \in {"idle", "warn", "submit"}
      BY <1>4 DEF Decide, ReclaimDecision, SweepGoto, StaleInv, StaleTypeOK
    <2>2. onChain' = onChain /\ \A t \in Cycle \ {s} : sweep'[t] = sweep[t]
      BY <1>4 DEF Decide, SweepGoto, StaleInv, StaleTypeOK
    <2>3. QED
      BY <2>1, <2>2 DEF WalksOwnJob, StaleInv
  <1>5. ASSUME NEW s \in Cycle, Submit(s) \/ Dispute(s) \/ Resolve(s) PROVE WalksOwnJob'
    BY <1>5 DEF Submit, Dispute, Resolve, Transition, SweepGoto, WalksOwnJob, StaleInv, StaleTypeOK
  <1>6. ASSUME NEW s \in Cycle, Mark(s) PROVE WalksOwnJob'
    BY <1>6 DEF Mark, SweepGoto, WalksOwnJob, StaleInv, StaleTypeOK
  <1>7. QED
    BY <1>1, <1>2, <1>3, <1>4, <1>5, <1>6 DEF StaleNext, SweepProceeds

LEMMA StaleInvHolds == ASSUME ClaimsAssumption PROVE StaleSpec => []StaleInv
  <1>1. StaleInit => StaleInv
    <2> SUFFICES ASSUME StaleInit PROVE StaleInv
      OBVIOUS
    <2>1. notices \in [1 .. MaxNotices -> 0 .. GRACE \cup {NoAge}]
      BY DEF StaleInit
    <2>2. sweep \in [Cycle -> {Resting} \cup
              [at : {"look", "warn", "submit", "dispute", "resolve", "mark"}]
              \cup [at : {"decide"}, phase : Phase]]
      BY DEF StaleInit
    <2>3. quiet \in 0 .. DEADLINE + 1 \cup {NoAge} /\ deaths \in 0 .. MaxDeaths
      BY DEF StaleInit, ClaimsAssumption
    <2>4. onChain \in JobStatus /\ marked \in BOOLEAN
      BY DEF StaleInit, JobStatus
    <2>5. StaleTypeOK
      BY <2>1, <2>2, <2>3, <2>4 DEF StaleTypeOK
    <2>6. \A s \in Cycle : sweep[s].at = "idle"
      BY DEF StaleInit, Resting
    <2>7. QED
      BY <2>5, <2>6 DEF StaleInit, StaleInv, Noticed, WalksOwnJob
  <1>2. StaleInv /\ [StaleNext]_staleVars => StaleInv'
    BY StaleTypeStep, NoticedStep, WalkStep DEF StaleInv
  <1>3. QED
    BY <1>1, <1>2, PTL DEF StaleSpec

-----------------------------------------------------------------------------
\* reclaimAbandonedJobs: a worker's record is marked only after the whole grace has
\* passed since a notice was recorded, whatever sweeps run together or die.
THEOREM ClaimNotice == ASSUME ClaimsAssumption PROVE StaleSpec => []NoticeBeforeMark
  <1>1. StaleInv => NoticeBeforeMark
    BY DEF StaleInv, Noticed, NoticeBeforeMark
  <1>2. QED
    BY <1>1, StaleInvHolds, PTL

\* reclaimAbandonedJobs: no step of any sweep takes the worker's answer away.
THEOREM ClaimAnswer == ASSUME ClaimsAssumption PROVE StaleSpec => AnswerStands
  <1>1. StaleInv /\ [StaleNext]_staleVars => [onChain = "Answer" => onChain' = "Answer"]_staleVars
    <2> SUFFICES ASSUME StaleInv, StaleNext, onChain = "Answer" PROVE onChain' = "Answer"
      OBVIOUS
    <2>1. ASSUME NEW s \in Cycle, Submit(s) \/ Dispute(s) \/ Resolve(s)
          PROVE  onChain' = "Answer"
      BY <2>1 DEF Submit, Dispute, Resolve, Transition, StaleInv, WalksOwnJob
    <2>2. QED
      BY <2>1 DEF StaleNext, SweepProceeds, TimePasses, Progress, Answer, SweepStarts, Look, Decide, Warn,
         Mark, SweepDies
  <1>2. QED
    BY <1>1, StaleInvHolds, PTL DEF StaleSpec, AnswerStands

-----------------------------------------------------------------------------
(***************************************************************************)
(* A payout is recorded and rewarded once, and the record stays, for any   *)
(* number of jobs, callers, operators who retract duplicates and           *)
(* crashes.                                                                *)
(***************************************************************************)
Writing == {"select", "insert", "reward"}

CallState ==
  {AtRest}
  \cup [at : {"lookup", "index"}, job : CreditJob, rest : SUBSET CreditJob, fixed : Nat]
  \cup [at : Writing, job : CreditJob, rest : SUBSET CreditJob, fixed : Nat, indexed : BOOLEAN]

CreditTypeOK ==
  /\ events \in Seq(Event)
  /\ rewards \in [CreditJob -> Nat]
  /\ caller \in [Crediter -> CallState]
  /\ cleaner \in [Cleaner -> SUBSET (DOMAIN events)]

\* No event is from before the guards.
Fresh == \A i \in DOMAIN events : ~events[i].old

Single == \A j \in CreditJob : \A i, k \in Live(j) : i = k

\* A world that starts fresh builds the index before it writes, and the insert then
\* lets one caller through.
Guarded ==
  /\ Single
  /\ \A d \in Cleaner : cleaner[d] = {}
  /\ \A c \in Crediter : caller[c].at \in Writing => index /\ caller[c].indexed
  /\ \A c \in Crediter : caller[c].at = "reward" =>
       rewards[caller[c].job] = 0 /\ Live(caller[c].job) # {}
  /\ \A c, e \in Crediter :
       caller[c].at = "reward" /\ caller[e].at = "reward" /\ caller[c].job = caller[e].job => c = e
  /\ \A j \in CreditJob : rewards[j] <= 1 /\ (rewards[j] = 1 => Live(j) # {})

\* The earliest live event of the job is in nobody's plan.
Keeps(j) ==
  \E first \in Live(j) :
    /\ \A k \in Live(j) : first <= k
    /\ \A d \in Cleaner : first \notin cleaner[d]

Survivors == \A i \in DOMAIN events : Keeps(events[i].job)

CreditInv == CreditTypeOK /\ (Fresh => Guarded) /\ Survivors

-----------------------------------------------------------------------------
\* Every set of jobs has a latest one.
LEMMA LatestJob == ASSUME CreditAssumption, NEW S \in SUBSET CreditJob, S # {} PROVE Max(S) \in S
  <1> DEFINE D == {MaxPayouts - j : j \in S}
  <1>1. D \in SUBSET Nat /\ D # {}
    <2>1. \A j \in S : MaxPayouts - j \in Nat
      BY DEF CreditJob, CreditAssumption
    <2>2. QED
      BY <2>1
  <1>2. PICK n \in D : \A m \in D : n <= m
    <2> HIDE DEF D
    <2>1. QED
      BY <1>1, LeastOf
  <1>3. PICK j \in S : n = MaxPayouts - j
    BY <1>2
  <1>4. \A k \in S : j >= k
    <2>1. \A k \in S : n <= MaxPayouts - k
      BY <1>2
    <2>2. QED
      BY <1>3, <2>1 DEF CreditJob, CreditAssumption
  <1>5. QED
    BY <1>4 DEF Max

-----------------------------------------------------------------------------
LEMMA LiveFacts ==
  ASSUME CreditTypeOK, NEW j
  PROVE  /\ Live(j) \subseteq DOMAIN events /\ Live(j) \subseteq Nat
         /\ IsFiniteSet(Live(j))
  <1>1. DOMAIN events = 1 .. Len(events) /\ Len(events) \in Nat
    BY DEF CreditTypeOK
  <1>2. IsFiniteSet(1 .. Len(events))
    BY <1>1, FS_Interval
  <1>3. Live(j) \subseteq 1 .. Len(events)
    BY <1>1 DEF Live
  <1>4. QED
    BY <1>1, <1>2, <1>3, FS_Subset

\* The index can be built where every job has one live event at most, and nothing
\* is planned there.
LEMMA SingleCount ==
  ASSUME CreditTypeOK, Single
  PROVE  /\ \A j \in CreditJob : Cardinality(Live(j)) <= 1
         /\ Duplicated = {}
  <1>1. ASSUME NEW j \in CreditJob PROVE Cardinality(Live(j)) <= 1 /\ ~(Cardinality(Live(j)) > 1)
    <2>1. CASE Live(j) = {}
      BY <2>1, FS_EmptySet
    <2>2. ASSUME NEW i \in Live(j) PROVE Live(j) = {i}
      BY DEF Single
    <2>3. CASE Live(j) # {}
      BY <2>2, <2>3, FS_Singleton
    <2>4. QED
      BY <2>1, <2>3
  <1>2. QED
    BY <1>1 DEF Duplicated

\* A call that writes nothing leaves only itself to show of.
LEMMA CallStep ==
  ASSUME CreditInv, NEW c \in Crediter, NEW n \in CallState,
         caller' = [caller EXCEPT ![c] = n], UNCHANGED <<events, rewards, cleaner>>,
         index => index',
         Fresh => n.at # "reward" /\ (n.at \in Writing => index' /\ n.indexed)
  PROVE  CreditInv'
  <1>1. CreditTypeOK'
    BY DEF CreditInv, CreditTypeOK
  <1>2. caller'[c] = n /\ \A e \in Crediter \ {c} : caller'[e] = caller[e]
    BY DEF CreditInv, CreditTypeOK
  <1>3. \A j : Live(j)' = Live(j)
    BY DEF Live
  <1>4. Survivors'
    BY <1>3 DEF CreditInv, Survivors, Keeps
  <1>5. ASSUME Fresh PROVE Guarded'
    <2>1. Guarded
      BY <1>5 DEF CreditInv
    <2>2. Single' /\ (\A d \in Cleaner : cleaner'[d] = {})
          /\ (\A j \in CreditJob : rewards'[j] <= 1 /\ (rewards'[j] = 1 => Live(j)' # {}))
      BY <1>3, <2>1 DEF Guarded, Single
    <2>3. \A e \in Crediter : caller'[e].at \in Writing => index' /\ caller'[e].indexed
      BY <1>2, <1>5, <2>1 DEF Guarded
    <2>4. \A e \in Crediter : caller'[e].at = "reward" => e # c /\ caller'[e] = caller[e]
      BY <1>2, <1>5
    <2>5. ASSUME NEW e \in Crediter, caller'[e].at = "reward"
          PROVE  rewards'[caller'[e].job] = 0 /\ Live(caller[e].job)' # {}
      BY <2>1, <2>4, <2>5 DEF Guarded, Live
    <2>6. \A f, e \in Crediter :
             caller'[f].at = "reward" /\ caller'[e].at = "reward"
             /\ caller'[f].job = caller'[e].job => f = e
      BY <2>1, <2>4 DEF Guarded
    <2>7. QED
      BY <2>2, <2>3, <2>5, <2>6 DEF Guarded
  <1>6. Fresh' => Fresh
    BY DEF Fresh
  <1>7. QED
    BY <1>1, <1>4, <1>5, <1>6 DEF CreditInv

\* Where a call is after it has dealt with one job of its pass.
LEMMA ReturnedIs ==
  ASSUME CreditAssumption, CreditTypeOK, NEW c \in Crediter, caller[c] # AtRest
  PROVE  \E n \in CallState : Returned(c) = [caller EXCEPT ![c] = n] /\ n.at \notin Writing
  <1> DEFINE rest == caller[c].rest
             fixed == caller[c].fixed + 1
             next == Crediting(Max(rest), rest \ {Max(rest)}, fixed)
  <1>1. rest \in SUBSET CreditJob /\ fixed \in Nat
    BY DEF CreditTypeOK, CallState
  <1>2. AtRest \in CallState /\ AtRest.at \notin Writing
    BY DEF CallState, AtRest, Writing
  <1>3. CASE rest = {} \/ fixed >= MAX_PER_PASS
    BY <1>2, <1>3 DEF Returned
  <1>4. CASE ~(rest = {} \/ fixed >= MAX_PER_PASS)
    <2>1. Max(rest) \in rest
      BY <1>1, <1>4, LatestJob
    <2>2. next \in CallState /\ next.at \notin Writing
      BY <1>1, <2>1 DEF Crediting, CallState, Writing
    <2>3. Returned(c) = [caller EXCEPT ![c] = next]
      BY <1>4 DEF Returned
    <2> HIDE DEF next
    <2>4. QED
      BY <2>2, <2>3
  <1>5. QED
    BY <1>3, <1>4

LEMMA ReturnStep ==
  ASSUME CreditAssumption, CreditInv, NEW c \in Crediter, caller[c] # AtRest,
         caller' = Returned(c), UNCHANGED <<events, rewards, cleaner, index>>
  PROVE  CreditInv'
  <1>1. PICK n \in CallState : caller' = [caller EXCEPT ![c] = n] /\ n.at \notin Writing
    BY ReturnedIs DEF CreditInv
  <1>2. n.at # "reward"
    BY <1>1 DEF Writing
  <1>3. QED
    BY <1>1, <1>2, CallStep

LEMMA StartStep ==
  ASSUME CreditAssumption, CreditInv, NEW c \in Crediter, NEW j \in CreditJob, NEW rest \in SUBSET CreditJob,
         caller' = [caller EXCEPT ![c] = Crediting(j, rest, 0)],
         UNCHANGED <<events, rewards, cleaner, index>>
  PROVE  CreditInv'
  <1>1. Crediting(j, rest, 0) \in CallState /\ Crediting(j, rest, 0).at \notin Writing
    BY DEF Crediting, CallState, Writing
  <1>2. Crediting(j, rest, 0).at # "reward"
    BY DEF Crediting
  <1>3. QED
    BY <1>1, <1>2, CallStep

LEMMA LookUpStep ==
  ASSUME CreditAssumption, CreditInv, NEW c \in Crediter, LookUp(c) PROVE CreditInv'
  <1>1. caller[c] # AtRest
    BY DEF LookUp, AtRest
  <1>2. CASE caller[c].job \in Unknown
    BY <1>1, <1>2, ReturnStep DEF LookUp
  <1>3. CASE caller[c].job \notin Unknown
    <2> DEFINE n == [caller[c] EXCEPT !.at = "index"]
    <2>1. caller[c] \in CallState /\ caller[c].at = "lookup"
      BY DEF LookUp, CreditInv, CreditTypeOK
    <2>2. n \in CallState /\ n.at \notin Writing /\ n.at # "reward"
      BY <2>1 DEF CallState, Writing, AtRest
    <2>3. caller' = [caller EXCEPT ![c] = n]
      BY <1>3 DEF LookUp
    <2> HIDE DEF n
    <2>4. QED
      BY <2>2, <2>3, CallStep DEF LookUp
  <1>4. QED
    BY <1>2, <1>3

LEMMA EnsureIndexStep ==
  ASSUME CreditAssumption, CreditInv, NEW c \in Crediter, EnsureIndex(c) PROVE CreditInv'
  <1> DEFINE indexed == index \/ \A j \in CreditJob : Cardinality(Live(j)) <= 1
  <1>0. PICK yes \in BOOLEAN : yes = indexed
    OBVIOUS
  <1> DEFINE n == [at |-> "select", job |-> caller[c].job, rest |-> caller[c].rest,
                   fixed |-> caller[c].fixed, indexed |-> yes]
  <1>1. caller[c] \in CallState /\ caller[c].at = "index"
    BY DEF EnsureIndex, CreditInv, CreditTypeOK
  <1>2. n \in CallState /\ n.at # "reward"
    BY <1>1 DEF CallState, Writing, AtRest
  <1>3. caller' = [caller EXCEPT ![c] = n] /\ index' = yes
    BY <1>0 DEF EnsureIndex
  <1>4. Fresh => yes
    BY <1>0, SingleCount DEF CreditInv, Guarded
  <1>5. n.indexed = yes
    OBVIOUS
  <1>6. index => index'
    BY <1>0, <1>3
  <1> HIDE DEF n
  <1>7. QED
    BY <1>2, <1>3, <1>4, <1>5, <1>6, CallStep DEF EnsureIndex

LEMMA SelectStep ==
  ASSUME CreditAssumption, CreditInv, NEW c \in Crediter, SelectEvent(c) PROVE CreditInv'
  <1>1. caller[c] # AtRest
    BY DEF SelectEvent, AtRest
  <1>2. CASE Live(caller[c].job) # {}
    BY <1>1, <1>2, ReturnStep DEF SelectEvent
  <1>3. CASE Live(caller[c].job) = {}
    <2> DEFINE n == [caller[c] EXCEPT !.at = "insert"]
    <2>1. caller[c] \in CallState /\ caller[c].at = "select"
      BY DEF SelectEvent, CreditInv, CreditTypeOK
    <2>2. n \in CallState /\ n.at = "insert" /\ n.indexed = caller[c].indexed
      BY <2>1 DEF CallState, Writing, AtRest
    <2>3. caller' = [caller EXCEPT ![c] = n]
      BY <1>3 DEF SelectEvent
    <2>4. Fresh => index /\ caller[c].indexed
      BY <2>1 DEF CreditInv, Guarded, Writing
    <2> HIDE DEF n
    <2>5. QED
      BY <2>2, <2>3, <2>4, CallStep DEF SelectEvent
  <1>4. QED
    BY <1>2, <1>3

LEMMA CrashStep ==
  ASSUME CreditAssumption, CreditInv, NEW c \in Crediter, CallDies(c) PROVE CreditInv'
  <1>1. AtRest \in CallState /\ AtRest.at \notin Writing /\ AtRest.at # "reward"
    BY DEF CallState, AtRest, Writing
  <1>2. QED
    BY <1>1, CallStep DEF CallDies

\* The reward follows the one insert, so it is the first.
LEMMA RewardStep ==
  ASSUME CreditAssumption, CreditInv, NEW c \in Crediter, Reward(c) PROVE CreditInv'
  <1>0. PICK j : j = caller[c].job
    OBVIOUS
  <1>1. caller[c] \in CallState /\ caller[c].at = "reward" /\ caller[c] # AtRest
    BY DEF Reward, CreditInv, CreditTypeOK, AtRest
  <1>2. j \in CreditJob
    BY <1>0, <1>1 DEF CallState, AtRest, Writing
  <1>3. PICK n \in CallState : caller' = [caller EXCEPT ![c] = n] /\ n.at \notin Writing
    BY <1>1, ReturnedIs DEF CreditInv, Reward
  <1>4. rewards'[j] = rewards[j] + 1 /\ \A k \in CreditJob \ {j} : rewards'[k] = rewards[k]
    BY <1>0, <1>2 DEF Reward, CreditInv, CreditTypeOK
  <1>5. caller'[c] = n /\ \A e \in Crediter \ {c} : caller'[e] = caller[e]
    BY <1>3 DEF CreditInv, CreditTypeOK
  <1>6. UNCHANGED <<events, index, cleaner>>
    BY DEF Reward
  <1>7. \A k : Live(k)' = Live(k)
    BY <1>6 DEF Live
  <1>8. CreditTypeOK'
    BY <1>0, <1>2, <1>3, <1>6 DEF CreditInv, CreditTypeOK, Reward
  <1>9. Survivors'
    BY <1>6, <1>7 DEF CreditInv, Survivors, Keeps
  <1>10. ASSUME Fresh PROVE Guarded'
    <2>1. Guarded
      BY <1>10 DEF CreditInv
    <2>2. rewards[j] = 0 /\ Live(j) # {}
      BY <1>0, <1>1, <2>1 DEF Guarded
    <2>3. \A k \in CreditJob : rewards'[k] <= 1 /\ (rewards'[k] = 1 => Live(k)' # {})
      BY <1>4, <1>7, <2>1, <2>2 DEF Guarded
    <2>4. \A e \in Crediter : caller'[e].at = "reward" =>
             e # c /\ caller'[e] = caller[e] /\ caller[e].job # j
      BY <1>0, <1>1, <1>3, <1>5, <2>1 DEF Guarded, Writing
    <2>5. \A e \in Crediter : caller'[e].at = "reward" => caller'[e].job \in CreditJob
      BY <1>8 DEF CreditTypeOK, CallState, AtRest, Writing
    <2>6. ASSUME NEW e \in Crediter, caller'[e].at = "reward"
          PROVE  rewards'[caller'[e].job] = 0 /\ Live(caller[e].job)' # {}
      BY <1>4, <1>6, <2>1, <2>4, <2>5, <2>6 DEF Guarded, Live
    <2>7. \A f, e \in Crediter :
             caller'[f].at = "reward" /\ caller'[e].at = "reward"
             /\ caller'[f].job = caller'[e].job => f = e
      BY <2>1, <2>4 DEF Guarded
    <2>8. \A e \in Crediter : caller'[e].at \in Writing => index' /\ caller'[e].indexed
      BY <1>3, <1>5, <1>6, <2>1 DEF Guarded
    <2>9. Single' /\ \A d \in Cleaner : cleaner'[d] = {}
      BY <1>6, <1>7, <2>1 DEF Guarded, Single
    <2>10. QED
      BY <2>3, <2>6, <2>7, <2>8, <2>9 DEF Guarded
  <1>11. Fresh' => Fresh
    BY <1>6 DEF Fresh
  <1>12. QED
    BY <1>8, <1>9, <1>10, <1>11 DEF CreditInv

\* A new event is the last, and nobody plans to retract it.
LEMMA AppendLive ==
  ASSUME CreditTypeOK, NEW j \in CreditJob,
         events' = Append(events, [job |-> j, live |-> TRUE, old |-> FALSE])
  PROVE  /\ events' \in Seq(Event)
         /\ DOMAIN events' = DOMAIN events \cup {Len(events) + 1}
         /\ Len(events) + 1 \notin DOMAIN events
         /\ \A i \in DOMAIN events : events'[i] = events[i] /\ i < Len(events) + 1
         /\ events'[Len(events) + 1] = [job |-> j, live |-> TRUE, old |-> FALSE]
         /\ Live(j)' = Live(j) \cup {Len(events) + 1}
         /\ \A k : k # j => Live(k)' = Live(k)
  <1> DEFINE new == [job |-> j, live |-> TRUE, old |-> FALSE]
  <1>0. new.job = j /\ new.live
    OBVIOUS
  <1>1. new \in Event /\ events \in Seq(Event)
    BY DEF CreditTypeOK, Event
  <1> HIDE DEF new
  <1>2. /\ Append(events, new) \in Seq(Event)
        /\ Len(Append(events, new)) = Len(events) + 1
        /\ \A i \in 1 .. Len(events) : Append(events, new)[i] = events[i]
        /\ Append(events, new)[Len(events) + 1] = new
    BY <1>1, AppendProperties
  <1>3. events' = Append(events, new)
    BY DEF new
  <1>4. /\ DOMAIN events = 1 .. Len(events) /\ Len(events) \in Nat
        /\ DOMAIN events' = 1 .. Len(events) + 1
    BY <1>1, <1>2, <1>3
  <1>5. DOMAIN events' = DOMAIN events \cup {Len(events) + 1}
        /\ Len(events) + 1 \notin DOMAIN events
        /\ \A i \in DOMAIN events : i < Len(events) + 1
    BY <1>4
  <1>6. \A i \in DOMAIN events : events'[i] = events[i]
    BY <1>2, <1>3, <1>4
  <1>7. events'[Len(events) + 1] = new
    BY <1>2, <1>3
  <1>8. Live(j)' = Live(j) \cup {Len(events) + 1}
    BY <1>0, <1>5, <1>6, <1>7 DEF Live
  <1>9. \A k : k # j => Live(k)' = Live(k)
    BY <1>0, <1>5, <1>6, <1>7 DEF Live
  <1>10. QED
    BY <1>2, <1>3, <1>5, <1>6, <1>7, <1>8, <1>9 DEF new

LEMMA WriteStep ==
  ASSUME CreditAssumption, CreditInv, NEW c \in Crediter, NEW j \in CreditJob, NEW n \in CallState,
         caller[c].at = "insert", caller[c].job = j, ~(index /\ Live(j) # {}),
         n.at = "reward", n.job = j, n.indexed = caller[c].indexed,
         caller' = [caller EXCEPT ![c] = n],
         events' = Append(events, [job |-> j, live |-> TRUE, old |-> FALSE]),
         UNCHANGED <<index, rewards, cleaner>>
  PROVE  CreditInv'
  <1>0. PICK last : last = Len(events) + 1
    OBVIOUS
  <1>1. /\ events' \in Seq(Event)
        /\ DOMAIN events' = DOMAIN events \cup {last}
        /\ last \notin DOMAIN events
        /\ \A i \in DOMAIN events : events'[i] = events[i] /\ i < last
        /\ events'[last] = [job |-> j, live |-> TRUE, old |-> FALSE]
        /\ Live(j)' = Live(j) \cup {last}
        /\ \A k : k # j => Live(k)' = Live(k)
    BY <1>0, AppendLive DEF CreditInv
  <1>2. caller'[c] = n /\ \A e \in Crediter \ {c} : caller'[e] = caller[e]
    BY DEF CreditInv, CreditTypeOK
  <1>3. CreditTypeOK'
    <2>1. cleaner' \in [Cleaner -> SUBSET (DOMAIN events')]
      BY <1>1 DEF CreditInv, CreditTypeOK
    <2>2. QED
      BY <1>1, <2>1 DEF CreditInv, CreditTypeOK
  <1>4. Fresh' => Fresh
    BY <1>1 DEF Fresh
  <1>5. \A d \in Cleaner : last \notin cleaner'[d]
    BY <1>1 DEF CreditInv, CreditTypeOK
  <1>6. Survivors'
    <2>1. ASSUME NEW m, Keeps(m) PROVE Keeps(m)'
      <3>1. PICK first \in Live(m) : (\A k \in Live(m) : first <= k)
                                     /\ \A d \in Cleaner : first \notin cleaner[d]
        BY <2>1 DEF Keeps
      <3>2. first \in DOMAIN events /\ first \in Nat /\ last \in Nat
        BY <1>0, LiveFacts DEF CreditInv, CreditTypeOK
      <3>3. first <= last
        BY <1>1, <3>2
      <3>4. Live(m)' \subseteq Live(m) \cup {last} /\ Live(m) \subseteq Live(m)'
        BY <1>1
      <3>5. QED
        BY <3>1, <3>3, <3>4 DEF Keeps
    <2>2. Keeps(j)'
      <3>1. CASE Live(j) = {}
        <4>1. last \in Nat
          BY <1>0 DEF CreditInv, CreditTypeOK
        <4>2. Live(j)' = {last}
          BY <1>1, <3>1
        <4>3. QED
          BY <1>5, <4>1, <4>2 DEF Keeps
      <3>2. ASSUME NEW l \in Live(j) PROVE Keeps(j)'
        <4>1. l \in DOMAIN events /\ events[l].job = j
          BY DEF Live
        <4>2. Keeps(j)
          BY <4>1 DEF CreditInv, Survivors
        <4>3. QED
          BY <2>1, <4>2
      <3>3. QED
        BY <3>1, <3>2
    <2>3. ASSUME NEW i \in DOMAIN events' PROVE Keeps(events[i].job)'
      <3>1. CASE i = last
        <4>1. events'[i].job = j
          BY <1>1, <3>1
        <4>2. QED
          BY <2>2, <4>1 DEF Keeps, Live
      <3>2. CASE i # last
        <4>1. i \in DOMAIN events /\ events'[i] = events[i]
          BY <1>1, <3>2
        <4>2. PICK m : m = events[i].job
          OBVIOUS
        <4>3. Keeps(m)
          BY <4>1, <4>2 DEF CreditInv, Survivors
        <4>4. Keeps(m)'
          BY <2>1, <4>3
        <4>5. QED
          BY <4>1, <4>2, <4>4 DEF Keeps, Live
      <3>3. QED
        BY <3>1, <3>2
    <2>4. QED
      BY <2>3 DEF Survivors
  <1>7. ASSUME Fresh PROVE Guarded'
    <2>1. Guarded
      BY <1>7 DEF CreditInv
    <2>2. index /\ caller[c].indexed
      BY <2>1 DEF Guarded, Writing
    <2>3. Live(j) = {} /\ rewards[j] = 0
      <3>1. Live(j) = {}
        BY <2>2
      <3>2. rewards[j] <= 1 /\ rewards[j] # 1 /\ rewards[j] \in Nat
        BY <2>1, <3>1 DEF Guarded, CreditInv, CreditTypeOK
      <3>3. QED
        BY <3>1, <3>2
    <2>4. Single'
      BY <1>1, <2>1, <2>3 DEF Guarded, Single
    <2>5. \A e \in Crediter \ {c} : caller'[e].at = "reward" =>
             /\ caller[e].job # j
             /\ rewards[caller[e].job] = 0
             /\ caller'[e].job = caller[e].job
      BY <1>2, <2>1, <2>3 DEF Guarded
    <2>6. ASSUME NEW e \in Crediter, caller'[e].at = "reward"
          PROVE  rewards'[caller'[e].job] = 0 /\ Live(caller[e].job)' # {}
      <3>1. PICK m : m = caller'[e].job
        OBVIOUS
      <3>2. CASE e = c
        <4>1. m = j
          BY <1>2, <3>1, <3>2
        <4>2. Live(j)' # {}
          BY <1>1
        <4>3. QED
          BY <2>3, <3>1, <4>1, <4>2 DEF Live
      <3>3. CASE e # c
        <4>1. caller'[e] = caller[e] /\ m # j /\ m = caller[e].job /\ caller[e].at = "reward"
          BY <1>2, <2>5, <2>6, <3>1, <3>3
        <4>2. Live(m) # {}
          BY <2>1, <4>1 DEF Guarded
        <4>3. Live(m)' # {}
          BY <1>1, <4>1, <4>2
        <4>4. QED
          BY <2>5, <2>6, <3>1, <3>3, <4>1, <4>3 DEF Live
      <3>4. QED
        BY <3>2, <3>3
    <2>7. ASSUME NEW f \in Crediter, NEW e \in Crediter, caller'[f].at = "reward",
                 caller'[e].at = "reward", caller'[f].job = caller'[e].job
          PROVE  f = e
      <3>1. CASE f = c \/ e = c
        BY <1>2, <2>5, <2>7, <3>1
      <3>2. CASE f # c /\ e # c
        BY <1>2, <2>1, <2>7, <3>2 DEF Guarded
      <3>3. QED
        BY <3>1, <3>2
    <2>8. \A e \in Crediter : caller'[e].at \in Writing => index' /\ caller'[e].indexed
      BY <1>2, <2>1, <2>2 DEF Guarded
    <2>9. \A k \in CreditJob : rewards'[k] <= 1 /\ (rewards'[k] = 1 => Live(k)' # {})
      BY <1>1, <2>1, <2>3 DEF Guarded
    <2>10. QED
      BY <2>1, <2>4, <2>6, <2>7, <2>8, <2>9 DEF Guarded
  <1>8. QED
    BY <1>3, <1>4, <1>6, <1>7 DEF CreditInv

LEMMA InsertStep ==
  ASSUME CreditAssumption, CreditInv, NEW c \in Crediter, InsertEvent(c) PROVE CreditInv'
  <1>0. PICK j, was : j = caller[c].job /\ was = caller[c]
    OBVIOUS
  <1> DEFINE written == ~(index /\ Live(j) # {})
             n == [was EXCEPT !.at = "reward"]
  <1>1. was \in CallState /\ was.at = "insert" /\ caller[c] # AtRest
    BY <1>0 DEF InsertEvent, CreditInv, CreditTypeOK, AtRest
  <1>2. j \in CreditJob /\ was.indexed \in BOOLEAN
    BY <1>0, <1>1 DEF CallState, AtRest, Writing
  <1>3. /\ n \in CallState /\ n.at = "reward" /\ n.job = j /\ n.indexed = was.indexed
    BY <1>0, <1>1 DEF CallState, AtRest, Writing
  <1>4. UNCHANGED <<index, rewards, cleaner>>
    BY DEF InsertEvent
  <1>5. CASE written
    <2>1. /\ events' = Append(events, [job |-> j, live |-> TRUE, old |-> FALSE])
          /\ caller' = [caller EXCEPT ![c] = n]
      BY <1>0, <1>5 DEF InsertEvent, StandsDown
    <2> HIDE DEF n
    <2>2. QED
      BY <1>0, <1>1, <1>2, <1>3, <1>4, <1>5, <2>1, WriteStep
  <1>6. CASE ~written
    <2>1. events' = events
      BY <1>0, <1>6 DEF InsertEvent
    <2>2. CASE was.indexed
      <3>1. caller' = Returned(c)
        BY <1>0, <1>6, <2>2 DEF InsertEvent, StandsDown
      <3>2. QED
        BY <1>1, <1>4, <2>1, <3>1, ReturnStep
    <2>3. CASE ~was.indexed
      <3>1. caller' = [caller EXCEPT ![c] = n]
        BY <1>0, <1>6, <2>3 DEF InsertEvent, StandsDown
      <3>2. ~Fresh
        BY <1>0, <1>1, <2>3 DEF CreditInv, Guarded, Writing
      <3> HIDE DEF n
      <3>3. QED
        BY <1>3, <1>4, <2>1, <3>1, <3>2, CallStep
    <2>4. QED
      BY <2>2, <2>3
  <1>7. QED
    BY <1>5, <1>6

-----------------------------------------------------------------------------
\* A plan spares the earliest event of every job.
LEMMA PlanStep ==
  ASSUME CreditAssumption, CreditInv, NEW d \in Cleaner, PlanDedupe(d) PROVE CreditInv'
  <1> DEFINE plan == UNION {Live(j) \ {Min(Live(j))} : j \in Duplicated}
  <1>0. PICK p : p = plan
    OBVIOUS
  <1>1. cleaner' = [cleaner EXCEPT ![d] = p] /\ UNCHANGED <<events, index, rewards, caller>>
    BY <1>0 DEF PlanDedupe
  <1>2. \A j : Live(j)' = Live(j)
    BY <1>1 DEF Live
  <1>3. p \subseteq DOMAIN events
    BY <1>0, LiveFacts DEF CreditInv
  <1>4. CreditTypeOK'
    BY <1>1, <1>3 DEF CreditInv, CreditTypeOK
  <1>5. ~Fresh
    BY SingleCount DEF CreditInv, Guarded, PlanDedupe
  <1>6. ASSUME NEW m, Keeps(m) PROVE Keeps(m)'
    <2>1. PICK first \in Live(m) : (\A k \in Live(m) : first <= k)
                                   /\ \A e \in Cleaner : first \notin cleaner[e]
      BY <1>6 DEF Keeps
    <2>2. first \notin p
      <3>1. ASSUME NEW j \in Duplicated, first \in Live(j) PROVE first = Min(Live(j))
        <4>1. j = m
          BY <3>1 DEF Live
        <4>2. \A x, y \in Nat : x <= y /\ y <= x => x = y
          OBVIOUS
        <4>3. Live(m) \subseteq Nat
          BY LiveFacts DEF CreditInv
        <4>4. Min(Live(m)) \in Live(m) /\ \A k \in Live(m) : Min(Live(m)) =< k
          BY <2>1 DEF Min
        <4>5. QED
          BY <2>1, <4>1, <4>2, <4>3, <4>4
      <3>2. QED
        BY <1>0, <3>1
    <2>3. \A e \in Cleaner : first \notin cleaner'[e]
      BY <1>1, <2>1, <2>2 DEF CreditInv, CreditTypeOK
    <2>4. QED
      BY <1>2, <2>1, <2>3 DEF Keeps
  <1>7. Survivors'
    <2>1. ASSUME NEW i \in DOMAIN events PROVE Keeps(events[i].job)'
      <3>1. PICK m : m = events[i].job
        OBVIOUS
      <3>2. Keeps(m)'
        BY <1>6, <3>1 DEF CreditInv, Survivors
      <3>3. QED
        BY <1>1, <3>1, <3>2 DEF Keeps, Live
    <2>2. QED
      BY <1>1, <2>1 DEF Survivors
  <1>8. Fresh' => Fresh
    BY <1>1 DEF Fresh
  <1>9. QED
    BY <1>4, <1>5, <1>7, <1>8 DEF CreditInv

\* The retraction takes only what a plan holds, and a fresh world has no plan.
LEMMA RetractStep ==
  ASSUME CreditAssumption, CreditInv, NEW d \in Cleaner, RetractDuplicates(d) PROVE CreditInv'
  <1>1. /\ events' = [i \in DOMAIN events |->
                        IF i \in cleaner[d] THEN [events[i] EXCEPT !.live = FALSE] ELSE events[i]]
        /\ cleaner' = [cleaner EXCEPT ![d] = {}] /\ UNCHANGED <<index, rewards, caller>>
    BY DEF RetractDuplicates
  <1>2. DOMAIN events = 1 .. Len(events) /\ Len(events) \in Nat
        /\ \A i \in DOMAIN events : events[i] \in Event
    BY DEF CreditInv, CreditTypeOK
  <1>3. \A i \in DOMAIN events : events'[i] \in Event /\ events'[i].job = events[i].job
                                 /\ events'[i].old = events[i].old
                                 /\ (events'[i].live <=> events[i].live /\ i \notin cleaner[d])
    BY <1>1, <1>2 DEF Event
  <1>4. events' \in Seq(Event) /\ DOMAIN events' = DOMAIN events
    <2>1. events' = [i \in 1 .. Len(events) |-> events'[i]]
      BY <1>1, <1>2
    <2>2. \A i \in 1 .. Len(events) : events'[i] \in Event
      BY <1>2, <1>3
    <2>3. QED
      BY <1>1, <1>2, <2>1, <2>2
  <1>5. CreditTypeOK'
    BY <1>1, <1>4 DEF CreditInv, CreditTypeOK
  <1>6. \A j : Live(j)' = Live(j) \ cleaner[d]
    BY <1>3, <1>4 DEF Live
  <1>7. ~Fresh
    BY DEF CreditInv, Guarded, RetractDuplicates
  <1>8. Fresh' => Fresh
    BY <1>3, <1>4 DEF Fresh
  <1>9. ASSUME NEW m, Keeps(m) PROVE Keeps(m)'
    <2>1. PICK first \in Live(m) : (\A k \in Live(m) : first <= k)
                                   /\ \A e \in Cleaner : first \notin cleaner[e]
      BY <1>9 DEF Keeps
    <2>2. \A e \in Cleaner : first \notin cleaner'[e]
      BY <1>1, <2>1 DEF CreditInv, CreditTypeOK
    <2>3. QED
      BY <1>6, <2>1, <2>2 DEF Keeps
  <1>10. Survivors'
    <2>1. ASSUME NEW i \in DOMAIN events PROVE Keeps(events[i].job)'
      <3>1. PICK m : m = events[i].job
        OBVIOUS
      <3>2. Keeps(m)'
        BY <1>9, <3>1 DEF CreditInv, Survivors
      <3>3. events'[i].job = m
        BY <1>3, <3>1
      <3>4. QED
        BY <3>2, <3>3 DEF Keeps, Live
    <2>2. QED
      BY <1>4, <2>1 DEF Survivors
  <1>11. QED
    BY <1>5, <1>7, <1>8, <1>10 DEF CreditInv

\* The chain moves, and no record with it.
LEMMA RestStep ==
  ASSUME CreditInv, UNCHANGED <<events, index, rewards, caller, cleaner>> PROVE CreditInv'
  <1>1. CreditTypeOK' /\ (Fresh' => Fresh)
    BY DEF CreditInv, CreditTypeOK, Fresh
  <1>2. Survivors'
    BY DEF CreditInv, Survivors, Keeps, Live
  <1>3. Guarded => Guarded'
    BY DEF Guarded, Single, Live
  <1>4. QED
    BY <1>1, <1>2, <1>3 DEF CreditInv

LEMMA CreditInvStep == ASSUME CreditAssumption, CreditInv, [RecordNext]_recordVars PROVE CreditInv'
  <1>1. CASE UNCHANGED recordVars
    BY <1>1, RestStep DEF recordVars
  <1>2. ASSUME NEW j \in CreditJob, Approve(j) \/ RaiseDispute(j) \/ ResolutionMined(j) \/ RefundRequester(j)
        PROVE  CreditInv'
    BY <1>2, RestStep DEF Approve, RaiseDispute, ResolutionMined, RefundRequester
  <1>3. ASSUME NEW j \in CreditJob, NEW c \in Crediter, CreditPaid(c, j) \/ ResolveForWorker(c, j)
        PROVE  CreditInv'
    BY <1>3, StartStep DEF CreditPaid, ResolveForWorker
  <1>4. ASSUME NEW c \in Crediter, Reconcile(c) PROVE CreditInv'
    <2>1. Max(Uncredited) \in Uncredited /\ Uncredited \subseteq CreditJob
      BY <1>4, LatestJob DEF Reconcile, Uncredited
    <2>2. PICK newest, rest : newest = Max(Uncredited) /\ rest = Uncredited \ {newest}
      OBVIOUS
    <2>3. /\ caller' = [caller EXCEPT ![c] = Crediting(newest, rest, 0)]
          /\ UNCHANGED <<events, rewards, cleaner, index>>
      BY <1>4, <2>2 DEF Reconcile
    <2>4. newest \in CreditJob /\ rest \in SUBSET CreditJob
      BY <2>1, <2>2
    <2>5. QED
      BY <2>3, <2>4, StartStep
  <1>5. ASSUME NEW c \in Crediter, GoOn(c) PROVE CreditInv'
    BY <1>5, LookUpStep, EnsureIndexStep, SelectStep, InsertStep, RewardStep DEF GoOn
  <1>6. QED
    BY <1>1, <1>2, <1>3, <1>4, <1>5, CrashStep, PlanStep, RetractStep DEF RecordNext

\* The events of the old code stand twice each, and all of them are live.
LEMMA CreditInvInit == ASSUME CreditAssumption, RecordInit PROVE CreditInv
  <1>1. PICK n \in 0 .. Len(Legacy) : events = LegacyEvents(n)
    BY DEF RecordInit
  <1>2. n \in Nat /\ Len(Legacy) \in Nat /\ DOMAIN events = 1 .. 2 * n
    BY <1>1 DEF LegacyEvents, CreditAssumption
  <1>3. ASSUME NEW i \in 1 .. 2 * n PROVE events[i] \in Event /\ events[i].live /\ events[i].old
    <2>1. (i + 1) \div 2 \in 1 .. Len(Legacy)
      BY <1>1, <1>2
    <2>2. Legacy[(i + 1) \div 2] \in CreditJob
      BY <2>1 DEF CreditAssumption
    <2>3. events[i] = [job |-> Legacy[(i + 1) \div 2], live |-> TRUE, old |-> TRUE]
      BY <1>1 DEF LegacyEvents
    <2>4. QED
      BY <2>2, <2>3 DEF Event
  <1>4. events \in Seq(Event)
    <2>1. events = [i \in 1 .. 2 * n |-> events[i]]
      BY <1>1, <1>2 DEF LegacyEvents
    <2>2. 2 * n \in Nat
      BY <1>2
    <2>3. QED
      BY <1>3, <2>1, <2>2
  <1>5. CreditTypeOK
    BY <1>4 DEF RecordInit, CreditTypeOK, CallState
  <1>6. Survivors
    <2>1. ASSUME NEW i \in DOMAIN events PROVE Keeps(events[i].job)
      <3>1. i \in Live(events[i].job)
        BY <1>2, <1>3 DEF Live
      <3>2. PICK first \in Live(events[i].job) : \A k \in Live(events[i].job) : first <= k
        BY <1>5, <3>1, LiveFacts, LeastOf
      <3>3. QED
        BY <3>2 DEF Keeps, RecordInit
    <2>2. QED
      BY <2>1 DEF Survivors
  <1>7. ASSUME Fresh PROVE Guarded
    <2>1. DOMAIN events = {}
      BY <1>2, <1>3, <1>7 DEF Fresh
    <2>2. \A j : Live(j) = {}
      BY <2>1 DEF Live
    <2>3. Single /\ \A d \in Cleaner : cleaner[d] = {}
      BY <2>2 DEF Single, RecordInit
    <2>4. \A c \in Crediter : caller[c].at \notin Writing /\ caller[c].at # "reward"
      BY DEF RecordInit, AtRest, Writing
    <2>5. \A j \in CreditJob : rewards[j] = 0
      BY DEF RecordInit
    <2>6. QED
      BY <2>3, <2>4, <2>5 DEF Guarded
  <1>8. QED
    BY <1>5, <1>6, <1>7 DEF CreditInv

-----------------------------------------------------------------------------
\* labor.ts, credit-reconcile.ts, completion-index.ts and completion-dedupe.ts: a
\* payout moves the record once and its record is never cleaned away.
THEOREM PayoutIsRecordedOnce == ASSUME CreditAssumption PROVE RecordSpec => []RecordedOnce
  <1>1. RecordInit => CreditInv
    BY CreditInvInit
  <1>2. CreditInv /\ [RecordNext]_recordVars => CreditInv'
    BY CreditInvStep
  <1>3. CreditInv => RecordedOnce
    <2> SUFFICES ASSUME CreditInv PROVE RewardOnce /\ OneSurvives
      BY DEF RecordedOnce
    <2>1. RewardOnce
      BY DEF CreditInv, RewardOnce, Fresh, Guarded
    <2>2. OneSurvives
      BY DEF CreditInv, OneSurvives, Survivors, Keeps
    <2>3. QED
      BY <2>1, <2>2
  <1>4. QED
    BY <1>1, <1>2, <1>3, PTL DEF RecordSpec

\* What the record keeps beside the events: the chain's side of each job, the index
\* and the calls that died.
LedgerTyped ==
  /\ chain \in [CreditJob -> CreditStatus]
  /\ index \in BOOLEAN
  /\ crashes \in 0 .. MaxCrashes

LEMMA ChainMoves ==
  ASSUME LedgerTyped, NEW j \in CreditJob, NEW st \in CreditStatus,
         chain' = [chain EXCEPT ![j] = st], UNCHANGED <<index, crashes>>
  PROVE  LedgerTyped'
  BY DEF LedgerTyped

LEMMA LedgerTypedStep ==
  ASSUME CreditAssumption, LedgerTyped, [RecordNext]_recordVars
  PROVE  LedgerTyped'
  <1>1. CASE UNCHANGED <<chain, index, crashes>>
    BY <1>1 DEF LedgerTyped
  <1>2. ASSUME NEW j \in CreditJob,
               \/ Approve(j) \/ RaiseDispute(j) \/ ResolutionMined(j) \/ RefundRequester(j)
               \/ \E c \in Crediter : ResolveForWorker(c, j)
        PROVE  LedgerTyped'
    <2>1. /\ \E st \in CreditStatus : chain' = [chain EXCEPT ![j] = st]
          /\ UNCHANGED <<index, crashes>>
      BY <1>2 DEF Approve, RaiseDispute, ResolutionMined, RefundRequester, ResolveForWorker, CreditStatus
    <2>2. QED
      BY <2>1, ChainMoves
  <1>3. ASSUME NEW c \in Crediter, EnsureIndex(c) PROVE LedgerTyped'
    <2>1. index' \in BOOLEAN /\ UNCHANGED <<chain, crashes>>
      BY <1>3 DEF EnsureIndex, LedgerTyped
    <2>2. QED
      BY <2>1 DEF LedgerTyped
  <1>4. ASSUME NEW c \in Crediter, CallDies(c) PROVE LedgerTyped'
    <2>1. crashes < MaxCrashes /\ crashes' = crashes + 1 /\ UNCHANGED <<chain, index>>
      BY <1>4 DEF CallDies
    <2>2. QED
      BY <2>1 DEF LedgerTyped, CreditAssumption
  <1>5. ASSUME NEW c \in Crediter,
               \/ \E j \in CreditJob : CreditPaid(c, j)
               \/ Reconcile(c) \/ LookUp(c) \/ SelectEvent(c) \/ InsertEvent(c) \/ Reward(c)
        PROVE  LedgerTyped'
    BY <1>1, <1>5 DEF CreditPaid, Reconcile, LookUp, SelectEvent, InsertEvent, Reward
  <1>6. ASSUME NEW d \in Cleaner, PlanDedupe(d) \/ RetractDuplicates(d) PROVE LedgerTyped'
    BY <1>1, <1>6 DEF PlanDedupe, RetractDuplicates
  <1>7. CASE UNCHANGED recordVars
    BY <1>1, <1>7 DEF recordVars
  <1>8. QED
    BY <1>2, <1>3, <1>4, <1>5, <1>6, <1>7 DEF RecordNext, GoOn

LEMMA RecordTypesHold == ASSUME CreditAssumption PROVE RecordSpec => []RecordTypeOK
  <1>1. RecordInit => CreditInv /\ LedgerTyped
    <2> SUFFICES ASSUME RecordInit PROVE CreditInv /\ LedgerTyped
      OBVIOUS
    <2>1. PICK n : chain = [j \in CreditJob |-> IF \E i \in 1 .. n : Legacy[i] = j THEN "Completed"
                                               ELSE "Submitted"]
      BY DEF RecordInit
    <2>2. chain \in [CreditJob -> CreditStatus]
      BY <2>1 DEF CreditStatus
    <2>3. index \in BOOLEAN
      BY Zenon DEF RecordInit
    <2>4. crashes \in 0 .. MaxCrashes
      <3>1. crashes = 0 /\ MaxCrashes \in Nat
        BY DEF RecordInit, CreditAssumption
      <3>2. QED
        BY <3>1
    <2>5. LedgerTyped
      BY <2>2, <2>3, <2>4, Zenon DEF LedgerTyped
    <2>6. QED
      BY <2>5, CreditInvInit
  <1>2. CreditInv /\ LedgerTyped /\ [RecordNext]_recordVars => CreditInv' /\ LedgerTyped'
    BY CreditInvStep, LedgerTypedStep
  <1>3. CreditInv /\ LedgerTyped => RecordTypeOK
    BY DEF CreditInv, CreditTypeOK, LedgerTyped, RecordTypeOK
  <1>4. QED
    BY <1>1, <1>2, <1>3, PTL DEF RecordSpec

-----------------------------------------------------------------------------
(***************************************************************************)
(* The two runs: one part steps, the others stay in their initial states.  *)
(* A part under a bound of its own is still the delegation.                *)
(***************************************************************************)
LEMMA PostingParts == PostingSpec => Spec /\ DelegationSpec
  <1>1. PostingInit => Init /\ DelegationInit
    BY DEF PostingInit
  <1>2. [PostingNext]_<<part, vars, delegationVars>> => [Next]_vars /\ [DelegationNext]_delegationVars
    BY DEF PostingNext
  <1>3. QED
    BY <1>1, <1>2, PTL DEF PostingSpec, Spec, DelegationSpec

\* Whatever is posted for an owner keeps its types: no price above its ceiling and no
\* job reposted beyond the cap (lib/price-raise.ts, lib/delegation.ts).
THEOREM PostingTypes == ASSUME DelegationAssumption PROVE PostingSpec => []PartsTypeOK
  <1>1. Spec => [](TypeOK /\ Linked)
    BY RaiseTypeOK
  <1>2. DelegationSpec => []DelegationTypeOK
    BY DelegationTypes
  <1>3. TypeOK /\ Linked /\ DelegationTypeOK => PartsTypeOK
    BY DEF PartsTypeOK
  <1>4. QED
    BY <1>1, <1>2, <1>3, PostingParts, PTL

LEMMA WorkStages == WorkSpec => ClaimSpec /\ StaleSpec /\ RecordSpec /\ DelegationSpec
  <1>1. WorkInit => ClaimInit /\ StaleInit /\ RecordInit /\ DelegationInit
    BY DEF WorkInit
  <1>2. [WorkNext]_workVars => /\ [ClaimNext]_claimVars /\ [StaleNext]_staleVars
                               /\ [RecordNext]_recordVars /\ [DelegationNext]_delegationVars
    BY DEF WorkNext, workVars
  <1>3. QED
    BY <1>1, <1>2, PTL DEF WorkSpec, ClaimSpec, StaleSpec, RecordSpec, DelegationSpec

LEMMA StagesTyped ==
  ASSUME stage \in Stage, ClaimTypeOK, StaleTypeOK, RecordTypeOK, DelegationTypeOK
  PROVE  StagesTypeOK
  BY DEF StagesTypeOK, Stage

\* What follows a post keeps its types, whichever stage is at work: a claim nobody
\* holds has no age, and what is recorded is recorded of a job on the board
\* (lib/labor-dispatch.ts, lib/stale-claim.ts, lib/credit-reconcile.ts).
THEOREM WorkTypes == WorkSpec => []StagesTypeOK
  <1>1. ClaimSpec => []ClaimInv
    BY Assumptions, ClaimInvHolds
  <1>2. StaleSpec => []StaleInv
    BY Assumptions, StaleInvHolds
  <1>3. RecordSpec => []RecordTypeOK
    BY Assumptions, RecordTypesHold
  <1>4. DelegationSpec => []DelegationTypeOK
    BY Assumptions, DelegationTypes
  <1>5. WorkSpec => [](stage \in Stage)
    <2>1. WorkInit => stage \in Stage
      BY DEF WorkInit
    <2>2. stage \in Stage /\ [WorkNext]_workVars => (stage \in Stage)'
      BY DEF WorkNext, workVars, Stage
    <2>3. QED
      BY <2>1, <2>2, PTL DEF WorkSpec
  <1>6. ClaimInv /\ StaleInv /\ RecordTypeOK /\ DelegationTypeOK /\ stage \in Stage => StagesTypeOK
    BY StagesTyped DEF ClaimInv, StaleInv
  <1>7. QED
    BY <1>1, <1>2, <1>3, <1>4, <1>5, <1>6, WorkStages, PTL
=============================================================================

-------------------------- MODULE SettlementProofs ---------------------------
(***************************************************************************)
(* Money moves for a cause and a replacement replaces what is lost, for    *)
(* any number of jobs, rows, workers and routines, and reposts of reposts. *)
(***************************************************************************)
EXTENDS Settlement, SequenceTheorems, WellFoundedInduction, TLAPS

Offer == Job({1}, {0})
Claimed == {"Open", "Accepted", "Cancelled"}
Contested == {"Disputed", "Refunded"}

\* What is once true of a row or a job and stays so.  Where a call may be taken
\* for done that was not, a worker on the row need not be one of the chain.
WorkedOn(s, w) == OutcomeKnown => \E k \in JobId : jobs[k].specHash = s /\ jobs[k].worker = w
Given(s) == s \in SpecId /\ specs[s].workerAgentId # NoWorker
Judged(s, v) == s \in SpecId /\ \E w \in Worker : <<v, w>> \in specs[s].feed
Cause(j) ==
  OutcomeKnown => Judged(jobs[j].specHash, "failed") \/ jobs[j].resultHash = Abandoned
Replaced(p, k, s) ==
  /\ jobs[k].specHash = p /\ jobs[k].status \in Contested
  /\ jobs[k].resultHash = Delivered => \E w \in specs[s].failedWorkerIds : WorkedOn(p, w)

Typed ==
  /\ TypeOK
  /\ Len(specs) \in 0 .. MaxSpecs /\ \A s \in SpecId : specs[s] \in Spec_
  /\ Len(jobs) \in 0 .. MaxJobs /\ \A j \in JobId : jobs[j] \in Offer

\* A job is paid or contested for a cause; only a linked worker's run delivers;
\* nobody takes a row it is blocked from.
JobOK(j) ==
  /\ jobs[j].specHash \in SpecId
  /\ jobs[j].status = "Open" => jobs[j].worker = NoWorker
  /\ jobs[j].status = "Accepted" => jobs[j].worker \in Worker
  /\ jobs[j].resultHash = NoResult <=> jobs[j].status \in Claimed
  /\ jobs[j].status = "Completed" => Judged(jobs[j].specHash, "passed")
  /\ jobs[j].status \in Contested => Cause(j)
  /\ jobs[j].resultHash = Delivered => Given(jobs[j].specHash)
  /\ jobs[j].worker \notin specs[jobs[j].specHash].failedWorkerIds

\* A row is linked to a job of its own; a verdict is in the feed, and the feed
\* speaks of workers of the row.
LinkOK(s) ==
  /\ specs[s].task # "none" => specs[s].workerAgentId # NoWorker
  /\ specs[s].workerAgentId # NoWorker =>
       /\ specs[s].onchainJobId \in JobId /\ jobs[specs[s].onchainJobId].specHash = s
       /\ WorkedOn(s, specs[s].workerAgentId)
FeedOK(s) ==
  /\ \A v \in Verdict, w \in Worker : <<v, w>> \in specs[s].feed => WorkedOn(s, w)
  /\ specs[s].verdict # "none" => Judged(s, specs[s].verdict)

\* A replacement is later than what it replaces, blocks whom that blocked, and
\* was made for a contested job whose worker, had it delivered, it blocks too.
LineOK(s) ==
  specs[s].parent # 0 =>
    /\ specs[s].parent \in 1 .. s - 1
    /\ specs[specs[s].parent].failedWorkerIds \subseteq specs[s].failedWorkerIds
    /\ \E k \in JobId : Replaced(specs[s].parent, k, s)

\* An operation still has its reason whenever it lands.
OpOK(o) ==
  /\ o.op # "post" => o.job \in JobId
  /\ o.op = "accept" =>
       o.by \in Worker /\ o.by \notin specs[jobs[o.job].specHash].failedWorkerIds
  /\ o.op = "submit" =>
       o.result \in Result /\ (o.result = Delivered => Given(jobs[o.job].specHash))
  /\ o.op = "approve" => Judged(jobs[o.job].specHash, "passed")
  /\ o.op = "dispute" => Cause(o.job)
  /\ o.op = "post" => o.spec \in SpecId

\* A routine works on a job of its row for a worker of that row, and has a reason
\* for what it is about to do.
Bound(h) ==
  LET r == handlers[h]
  IN  /\ r.pc # "idle" => r.spec \in SpecId /\ (r.worker # NoWorker => WorkedOn(r.spec, r.worker))
      /\ r.pc \in {"submit", "grade", "record"} \/ r.callback => r.worker # NoWorker
      /\ r.pc \notin {"idle", "record"} =>
           /\ r.job \in JobId /\ jobs[r.job].specHash = r.spec
           /\ r.repost => r.worker # NoWorker \/ jobs[r.job].resultHash = Abandoned
Due(h) ==
  LET r == handlers[h]
  IN  /\ r.pc = "submit" => Given(r.spec)
      /\ r.pc = "approve" => Judged(r.spec, "passed")
      /\ r.pc = "dispute" => Cause(r.job)
      /\ r.pc \in {"dispute", "resolve", "repost"} /\ r.repost =>
           specs[r.spec].repostCount < MAX_AUTO_REPOSTS
      /\ r.pc = "repost" => r.repost /\ jobs[r.job].status \in Contested
      /\ r.pc = "post" => r.child \in SpecId
      /\ r.pc = "abandon" => ~r.repost

Jobs == \A j \in JobId : JobOK(j)
Rows == \A s \in SpecId : LinkOK(s) /\ FeedOK(s) /\ LineOK(s)
Operations == \A o \in inFlight : OpOK(o)
Routines == \A h \in Handler : Bound(h) /\ Due(h)

SettlementInv == Typed /\ Jobs /\ Rows /\ Operations /\ Routines

-----------------------------------------------------------------------------
(***************************************************************************)
(* What every step keeps.                                                  *)
(***************************************************************************)
JobsGrow ==
  /\ Len(jobs') \in Len(jobs) .. MaxJobs
  /\ \A j \in JobId :
       /\ jobs'[j].specHash = jobs[j].specHash
       /\ jobs[j].worker # NoWorker => jobs'[j].worker = jobs[j].worker
       /\ jobs[j].status \in Contested => jobs'[j].status \in Contested
       /\ jobs[j].resultHash # NoResult => jobs'[j].resultHash = jobs[j].resultHash

RowsGrow ==
  /\ Len(specs') \in Len(specs) .. MaxSpecs
  /\ \A s \in SpecId :
       /\ specs[s].workerAgentId # NoWorker => specs'[s].workerAgentId # NoWorker
       /\ specs[s].feed \subseteq specs'[s].feed
       /\ specs'[s].parent = specs[s].parent /\ specs'[s].repostCount = specs[s].repostCount
       /\ specs'[s].failedWorkerIds = specs[s].failedWorkerIds

LEMMA WorkersAreNamed ==
  /\ NoWorker \notin Worker /\ Worker \subseteq Caller
  /\ Abandoned # NoResult /\ Delivered # NoResult /\ Abandoned # Delivered
  BY SettlementAssumption

LEMMA IdsStay ==
  ASSUME Typed
  PROVE  /\ JobsGrow => \A j \in JobId : j \in JobId'
         /\ RowsGrow => \A s \in SpecId : s \in SpecId'
  BY DEF Typed, JobsGrow, RowsGrow, JobId, jobCount, SpecId

LEMMA WorkedOnStays ==
  ASSUME Typed, JobsGrow, NEW s, NEW w, w # NoWorker, WorkedOn(s, w)
  PROVE  WorkedOn(s, w)'
  <1>1. CASE OutcomeKnown
    <2>1. PICK k \in JobId : jobs[k].specHash = s /\ jobs[k].worker = w
      BY <1>1 DEF WorkedOn
    <2>2. k \in JobId' /\ jobs'[k].specHash = s /\ jobs'[k].worker = w
      BY <2>1, IdsStay DEF JobsGrow
    <2>3. QED
      BY <2>2 DEF WorkedOn
  <1>2. QED
    BY <1>1 DEF WorkedOn

LEMMA GivenStays == ASSUME Typed, RowsGrow, NEW s, Given(s) PROVE Given(s)'
  BY IdsStay DEF Given, RowsGrow

LEMMA JudgedStays == ASSUME Typed, RowsGrow, NEW s, NEW v, Judged(s, v) PROVE Judged(s, v)'
  BY IdsStay DEF Judged, RowsGrow

LEMMA CauseStays ==
  ASSUME Typed, JobsGrow, RowsGrow, NEW j \in JobId, Cause(j)
  PROVE  Cause(j)'
  <1> DEFINE s == jobs[j].specHash
  <1>1. jobs'[j].specHash = s
        /\ (jobs[j].resultHash = Abandoned => jobs'[j].resultHash = Abandoned)
    BY WorkersAreNamed DEF JobsGrow
  <1>2. ASSUME NEW t, t = jobs'[j].specHash, Judged(t, "failed")
        PROVE  t \in SpecId' /\ \E w \in Worker : <<"failed", w>> \in specs'[t].feed
    BY <1>2, JudgedStays DEF Judged
  <1>3. QED
    BY <1>1, <1>2 DEF Cause, Judged

LEMMA ReplacedStays ==
  ASSUME Typed, JobsGrow, RowsGrow, NEW p, NEW k \in JobId, NEW s \in SpecId, Replaced(p, k, s),
         jobs[k].status \in Contested => jobs[k].resultHash # NoResult
  PROVE  Replaced(p, k, s)'
  <1>1. /\ jobs'[k].specHash = p /\ jobs'[k].status \in Contested
        /\ jobs'[k].resultHash = jobs[k].resultHash
    BY DEF Replaced, JobsGrow
  <1>2. specs'[s].failedWorkerIds = specs[s].failedWorkerIds /\ specs[s].failedWorkerIds \subseteq Worker
    BY DEF RowsGrow, Typed, Spec_
  <1>3. \A w \in Worker : WorkedOn(p, w) => WorkedOn(p, w)'
    BY WorkersAreNamed, WorkedOnStays
  <1>4. QED
    BY <1>1, <1>2, <1>3 DEF Replaced

-----------------------------------------------------------------------------
(***************************************************************************)
(* What a step leaves alone stays in order.                                *)
(***************************************************************************)
LEMMA LineStays ==
  ASSUME SettlementInv, JobsGrow, RowsGrow, NEW s \in SpecId
  PROVE  LineOK(s)'
  <1>1. PICK p : p = specs[s].parent
    OBVIOUS
  <1>2. p = specs'[s].parent
    BY <1>1 DEF RowsGrow
  <1>3. CASE p = 0
    BY <1>2, <1>3 DEF LineOK
  <1>4. CASE p # 0
    <2>1. /\ p \in 1 .. s - 1 /\ specs[p].failedWorkerIds \subseteq specs[s].failedWorkerIds
          /\ \E k \in JobId : Replaced(p, k, s)
      BY <1>1, <1>4 DEF SettlementInv, Rows, LineOK
    <2>2. p \in SpecId
      BY <2>1 DEF SpecId, SettlementInv, Typed
    <2>3. PICK k \in JobId : Replaced(p, k, s)
      BY <2>1
    <2>4. jobs[k].status \in Contested => jobs[k].resultHash # NoResult
      BY DEF SettlementInv, Jobs, JobOK, Contested, Claimed
    <2>5. k \in JobId' /\ Replaced(p, k, s)'
      BY <2>3, <2>4, IdsStay, ReplacedStays DEF SettlementInv
    <2>6. specs'[p].failedWorkerIds \subseteq specs'[s].failedWorkerIds
      BY <2>1, <2>2 DEF RowsGrow
    <2>7. \E i \in JobId' :
            /\ jobs'[i].specHash = p /\ jobs'[i].status \in Contested
            /\ jobs'[i].resultHash = Delivered =>
                 \E w \in specs'[s].failedWorkerIds : WorkedOn(p, w)'
      BY <2>5 DEF Replaced
    <2>8. QED
      BY <1>2, <2>1, <2>6, <2>7 DEF LineOK, Replaced, WorkedOn
  <1>5. QED
    BY <1>3, <1>4

LEMMA LinkStays ==
  ASSUME SettlementInv, JobsGrow, RowsGrow, NEW s \in SpecId,
         specs'[s].workerAgentId = specs[s].workerAgentId,
         specs'[s].onchainJobId = specs[s].onchainJobId,
         specs'[s].task # "none" => specs[s].workerAgentId # NoWorker
  PROVE  LinkOK(s)'
  <1>1. PICK w, j : w = specs[s].workerAgentId /\ j = specs[s].onchainJobId
    OBVIOUS
  <1>2. CASE w = NoWorker
    BY <1>1, <1>2 DEF LinkOK
  <1>3. CASE w # NoWorker
    <2>1. j \in JobId /\ jobs[j].specHash = s /\ WorkedOn(s, w)
      BY <1>1, <1>3 DEF SettlementInv, Rows, LinkOK
    <2>2. j \in JobId' /\ jobs'[j].specHash = s
      BY <2>1, IdsStay DEF SettlementInv, JobsGrow
    <2>3. OutcomeKnown => \E k \in JobId' : jobs'[k].specHash = s /\ jobs'[k].worker = w
      BY <1>3, <2>1, WorkedOnStays DEF SettlementInv, WorkedOn
    <2>4. QED
      BY <1>1, <1>3, <2>2, <2>3 DEF LinkOK, WorkedOn
  <1>4. QED
    BY <1>2, <1>3

LEMMA FeedStays ==
  ASSUME SettlementInv, JobsGrow, RowsGrow, NEW s \in SpecId,
         specs'[s].feed = specs[s].feed,
         specs'[s].verdict \in {specs[s].verdict, "none"}
  PROVE  FeedOK(s)'
  <1>1. \A v \in Verdict, w \in Worker : <<v, w>> \in specs[s].feed => WorkedOn(s, w)'
    BY WorkersAreNamed, WorkedOnStays DEF SettlementInv, Rows, FeedOK
  <1>2. PICK v : v = specs'[s].verdict
    OBVIOUS
  <1>3. v # "none" => Judged(s, v)'
    BY <1>2, JudgedStays DEF SettlementInv, Rows, FeedOK
  <1>4. QED
    BY <1>1, <1>2, <1>3 DEF FeedOK, Judged

\* One row changes; the others, and the lineages, are as they were.
RowsSound ==
  /\ specs' \in Seq(Spec_) /\ \A s \in SpecId' : specs'[s] \in Spec_
  /\ \A s \in SpecId' : LinkOK(s)' /\ FeedOK(s)' /\ LineOK(s)'

LEMMA RowReplaced ==
  ASSUME Typed, NEW s \in SpecId, NEW new \in Spec_, specs' = [specs EXCEPT ![s] = new],
         specs[s].workerAgentId # NoWorker => new.workerAgentId # NoWorker,
         specs[s].feed \subseteq new.feed,
         new.parent = specs[s].parent, new.repostCount = specs[s].repostCount,
         new.failedWorkerIds = specs[s].failedWorkerIds
  PROVE  /\ RowsGrow /\ SpecId' = SpecId
         /\ specs' \in Seq(Spec_) /\ \A q \in SpecId : specs'[q] \in Spec_
         /\ specs'[s] = new /\ \A q \in SpecId : q # s => specs'[q] = specs[q]
  <1>1. /\ specs' \in Seq(Spec_) /\ Len(specs') = Len(specs)
        /\ \A q \in 1 .. Len(specs) : specs'[q] = IF q = s THEN new ELSE specs[q]
    BY ExceptSeq DEF Typed, TypeOK, SpecId
  <1>2. QED
    BY <1>1 DEF RowsGrow, SpecId, Typed

LEMMA RowMoves ==
  ASSUME SettlementInv, JobsGrow, RowsGrow, SpecId' = SpecId, NEW s \in SpecId,
         specs' \in Seq(Spec_), \A q \in SpecId : specs'[q] \in Spec_,
         \A q \in SpecId : q # s => specs'[q] = specs[q],
         LinkOK(s)', FeedOK(s)'
  PROVE  RowsSound
  <1>1. ASSUME NEW q \in SpecId PROVE LinkOK(q)' /\ FeedOK(q)' /\ LineOK(q)'
    <2>1. CASE q = s
      BY <2>1, LineStays
    <2>2. CASE q # s
      <3>1. LinkOK(q)'
        BY <2>2, LinkStays DEF SettlementInv, Rows, LinkOK
      <3>2. FeedOK(q)'
        BY <2>2, FeedStays
      <3>3. QED
        BY <3>1, <3>2, LineStays
    <2>3. QED
      BY <2>1, <2>2
  <1>2. QED
    BY <1>1 DEF RowsSound

LEMMA RowsUnchanged ==
  ASSUME SettlementInv, UNCHANGED specs
  PROVE  RowsGrow /\ (JobsGrow => RowsSound)
  <1>1. RowsGrow /\ SpecId' = SpecId
    BY DEF SettlementInv, Typed, RowsGrow, SpecId
  <1>2. ASSUME JobsGrow, NEW s \in SpecId PROVE LinkOK(s)' /\ FeedOK(s)' /\ LineOK(s)'
    <2>1. LinkOK(s)'
      BY <1>1, <1>2, LinkStays DEF SettlementInv, Rows, LinkOK
    <2>2. QED
      BY <1>1, <1>2, <2>1, FeedStays, LineStays
  <1>3. QED
    BY <1>1, <1>2 DEF RowsSound, SettlementInv, Typed, TypeOK

-----------------------------------------------------------------------------
(***************************************************************************)
(* Jobs.                                                                   *)
(***************************************************************************)
JobsSound ==
  /\ JobsGrow /\ jobs' \in Seq(Offer)
  /\ \A j \in JobId' : jobs'[j] \in Offer /\ JobOK(j)'

\* What makes a job's record sound, whichever job it is the record of.
SoundJob(job) ==
  /\ job.specHash \in SpecId
  /\ job.status = "Open" => job.worker = NoWorker
  /\ job.status = "Accepted" => job.worker \in Worker
  /\ job.resultHash = NoResult <=> job.status \in Claimed
  /\ job.status = "Completed" => Judged(job.specHash, "passed")
  /\ job.status \in Contested =>
       (OutcomeKnown => Judged(job.specHash, "failed") \/ job.resultHash = Abandoned)
  /\ job.resultHash = Delivered => Given(job.specHash)
  /\ job.worker \notin specs[job.specHash].failedWorkerIds

LEMMA JobIsSound ==
  ASSUME SettlementInv, RowsGrow, NEW j, NEW job, jobs'[j] = job, SoundJob(job)
  PROVE  JobOK(j)'
  <1>1. PICK s : s = job.specHash
    OBVIOUS
  <1>2. /\ s \in SpecId /\ s \in SpecId'
        /\ specs'[s].failedWorkerIds = specs[s].failedWorkerIds
    BY <1>1, IdsStay DEF SettlementInv, SoundJob, RowsGrow
  <1>3. Given(s) => specs'[s].workerAgentId # NoWorker
    BY GivenStays DEF SettlementInv, Given
  <1>4. \A v : Judged(s, v) => \E w \in Worker : <<v, w>> \in specs'[s].feed
    BY JudgedStays DEF SettlementInv, Judged
  <1>5. (job.status = "Completed" => \E w \in Worker : <<"passed", w>> \in specs'[s].feed)
    BY <1>1, <1>4 DEF SoundJob
  <1>6. job.status \in Contested => (OutcomeKnown =>
          (\E w \in Worker : <<"failed", w>> \in specs'[s].feed) \/ job.resultHash = Abandoned)
    BY <1>1, <1>4 DEF SoundJob
  <1>7. QED
    BY <1>1, <1>2, <1>3, <1>5, <1>6 DEF SoundJob, JobOK, Judged, Given, Cause

LEMMA JobStays ==
  ASSUME SettlementInv, RowsGrow, NEW j \in JobId, jobs'[j] = jobs[j]
  PROVE  JobOK(j)'
  <1>1. PICK job : job = jobs[j]
    OBVIOUS
  <1>2. SoundJob(job)
    BY <1>1 DEF SettlementInv, Jobs, JobOK, SoundJob, Cause
  <1>3. QED
    BY <1>1, <1>2, JobIsSound

LEMMA JobMoves ==
  ASSUME SettlementInv, RowsGrow, NEW j \in JobId, NEW new \in Offer,
         jobs' = [jobs EXCEPT ![j] = new], SoundJob(new), new.specHash = jobs[j].specHash,
         jobs[j].worker # NoWorker => new.worker = jobs[j].worker,
         jobs[j].status \in Contested => new.status \in Contested,
         jobs[j].resultHash # NoResult => new.resultHash = jobs[j].resultHash
  PROVE  JobsSound
  <1>1. jobs \in Seq(Offer) /\ j \in 1 .. Len(jobs) /\ Len(jobs) \in 0 .. MaxJobs
    BY DEF SettlementInv, Typed, TypeOK, Offer, JobId, jobCount
  <1> HIDE DEF Offer
  <1>2. /\ jobs' \in Seq(Offer) /\ Len(jobs') = Len(jobs)
        /\ \A i \in 1 .. Len(jobs) : jobs'[i] = IF i = j THEN new ELSE jobs[i]
    BY <1>1, ExceptSeq
  <1>3. JobId' = JobId /\ \A i \in JobId : jobs'[i] = IF i = j THEN new ELSE jobs[i]
    BY <1>2 DEF JobId, jobCount
  <1>4. JobsGrow
    BY <1>1, <1>2, <1>3, SettlementAssumption DEF JobsGrow
  <1>5. \A i \in JobId : jobs'[i] \in Offer
    BY <1>3 DEF SettlementInv, Typed
  <1>6. ASSUME NEW i \in JobId PROVE JobOK(i)'
    BY <1>3, JobStays, JobIsSound
  <1>7. QED
    BY <1>2, <1>3, <1>4, <1>5, <1>6 DEF JobsSound

LEMMA JobsUnchanged ==
  ASSUME SettlementInv, UNCHANGED jobs
  PROVE  JobsGrow /\ (RowsGrow => JobsSound)
  <1>1. JobsGrow /\ JobId' = JobId /\ jobs' \in Seq(Offer) /\ \A j \in JobId : jobs'[j] \in Offer
    BY SettlementAssumption DEF SettlementInv, Typed, TypeOK, JobsGrow, JobId, jobCount, Offer
  <1>2. QED
    BY <1>1, JobStays DEF JobsSound

LEMMA JobIsPosted ==
  ASSUME SettlementInv, RowsGrow, NEW s \in SpecId, jobCount < MaxJobs, Posted(Requester, 1, 0, s)
  PROVE  JobsSound
  <1> DEFINE new == [requester |-> Requester, worker |-> NoWorker, bounty |-> 1, minScore |-> 0,
                     status |-> "Open", specHash |-> s, resultHash |-> NoResult]
  <1>1. s \in SpecHash /\ Requester \in Caller /\ specs[s].failedWorkerIds \subseteq Worker
    BY SettlementAssumption DEF SettlementInv, Typed, Spec_, SpecId
  <1>2. new \in Offer
    BY <1>1 DEF Offer, Job, Status
  <1>3. SoundJob(new)
    BY <1>1, WorkersAreNamed DEF SoundJob, Claimed, Contested
  <1>4. jobs' = Append(jobs, new) /\ jobs \in Seq(Offer) /\ Len(jobs) \in 0 .. MaxJobs
    BY DEF Posted, SettlementInv, Typed, TypeOK, Offer
  <1> HIDE DEF new, Offer
  <1>5. /\ jobs' \in Seq(Offer) /\ Len(jobs') = Len(jobs) + 1
        /\ \A j \in 1 .. Len(jobs) : jobs'[j] = jobs[j]
        /\ jobs'[Len(jobs) + 1] = new
    BY <1>2, <1>4, AppendProperties
  <1>6. JobId' = JobId \cup {Len(jobs) + 1} /\ \A j \in JobId : jobs'[j] = jobs[j]
    BY <1>4, <1>5 DEF JobId, jobCount
  <1>7. JobsGrow
    <2>1. Len(jobs') \in Len(jobs) .. MaxJobs
      BY <1>4, <1>5, SettlementAssumption DEF jobCount
    <2>2. QED
      BY <1>6, <2>1 DEF JobsGrow
  <1>8. ASSUME NEW j \in JobId' PROVE jobs'[j] \in Offer /\ JobOK(j)'
    <2>1. CASE j \in JobId
      BY <1>6, <2>1, JobStays DEF SettlementInv, Typed
    <2>2. CASE j = Len(jobs) + 1
      BY <1>2, <1>3, <1>5, <2>2, JobIsSound
    <2>3. QED
      BY <1>6, <2>1, <2>2
  <1>9. QED
    BY <1>5, <1>7, <1>8 DEF JobsSound

-----------------------------------------------------------------------------
(***************************************************************************)
(* Operations.                                                             *)
(***************************************************************************)
LEMMA AcceptSound ==
  ASSUME SettlementInv, RowsGrow, NEW j \in JobId, NEW w \in Worker, Accepted(w, j),
         w \notin specs[jobs[j].specHash].failedWorkerIds
  PROVE  JobsSound
  <1> DEFINE new == [jobs[j] EXCEPT !.worker = w, !.status = "Accepted"]
  <1>1. jobs[j] \in Offer /\ jobs[j].status = "Open" /\ JobOK(j)
    BY DEF Accepted, CanAccept, SettlementInv, Typed, Jobs
  <1>2. /\ new \in Offer /\ new.worker = w /\ new.status = "Accepted"
        /\ new.specHash = jobs[j].specHash /\ new.resultHash = jobs[j].resultHash
    BY <1>1, WorkersAreNamed DEF Offer, Job, Status
  <1>3. jobs' = [jobs EXCEPT ![j] = new]
    BY DEF Accepted
  <1> HIDE DEF new
  <1>4. jobs[j].resultHash = NoResult /\ jobs[j].worker = NoWorker
    BY <1>1 DEF JobOK, Claimed
  <1>5. SoundJob(new)
    BY <1>1, <1>2, <1>4, WorkersAreNamed DEF SoundJob, JobOK, Claimed, Contested
  <1>6. QED
    BY <1>1, <1>2, <1>3, <1>4, <1>5, JobMoves DEF Contested

LEMMA SubmitSound ==
  ASSUME SettlementInv, RowsGrow, NEW j \in JobId, NEW w, NEW result \in Result,
         Submitted(w, j, result), result = Delivered => Given(jobs[j].specHash)
  PROVE  JobsSound /\ jobs'[j].resultHash = result
  <1> DEFINE new == [jobs[j] EXCEPT !.resultHash = result, !.status = "Submitted"]
  <1>1. jobs[j] \in Offer /\ jobs[j].status = "Accepted" /\ JobOK(j)
    BY DEF Submitted, CanSubmit, SettlementInv, Typed, Jobs
  <1>2. /\ new \in Offer /\ new.resultHash = result /\ new.status = "Submitted"
        /\ new.specHash = jobs[j].specHash /\ new.worker = jobs[j].worker
    BY <1>1 DEF Offer, Job, Status
  <1>3. jobs' = [jobs EXCEPT ![j] = new]
    BY DEF Submitted
  <1> HIDE DEF new
  <1>4. jobs[j].resultHash = NoResult /\ result # NoResult
    BY <1>1, SettlementAssumption DEF JobOK, Claimed
  <1>5. SoundJob(new)
    BY <1>1, <1>2, <1>4 DEF SoundJob, JobOK, Claimed, Contested
  <1>6. JobsSound
    BY <1>1, <1>2, <1>3, <1>4, <1>5, JobMoves DEF Contested
  <1>7. jobs'[j] = new
    BY <1>3 DEF SettlementInv, Typed, TypeOK, JobId, jobCount
  <1>8. QED
    BY <1>2, <1>6, <1>7

LEMMA StatusSound ==
  ASSUME SettlementInv, RowsGrow, NEW j \in JobId, NEW status \in Status \ Claimed,
         SetStatus(j, status), jobs[j].status \notin Claimed,
         jobs[j].status \in Contested => status \in Contested,
         status = "Completed" => Judged(jobs[j].specHash, "passed"),
         status \in Contested => Cause(j)
  PROVE  JobsSound
  <1> DEFINE new == [jobs[j] EXCEPT !.status = status]
  <1>1. jobs[j] \in Offer /\ JobOK(j)
    BY DEF SettlementInv, Typed, Jobs
  <1>2. /\ new \in Offer /\ new.resultHash = jobs[j].resultHash /\ new.status = status
        /\ new.specHash = jobs[j].specHash /\ new.worker = jobs[j].worker
    BY <1>1 DEF Offer, Job
  <1>3. jobs' = [jobs EXCEPT ![j] = new]
    BY DEF SetStatus
  <1> HIDE DEF new
  <1>4. SoundJob(new)
    BY <1>1, <1>2 DEF SoundJob, JobOK, Claimed, Cause
  <1>5. QED
    BY <1>1, <1>2, <1>3, <1>4, JobMoves

LEMMA OperationMined ==
  ASSUME SettlementInv, RowsGrow, NEW o, OpOK(o), Executes(o)
  PROVE  JobsSound
  <1>1. CASE o.op = "accept" /\ Accepted(o.by, o.job)
    BY <1>1, AcceptSound DEF OpOK
  <1>2. CASE o.op = "submit" /\ Submitted(o.by, o.job, o.result)
    BY <1>2, SubmitSound DEF OpOK
  <1>3. CASE o.op = "approve" /\ Approved(o.by, o.job)
    BY <1>3, StatusSound DEF OpOK, Approved, CanApprove, Status, Claimed, Contested
  <1>4. CASE o.op = "dispute" /\ Disputed(o.by, o.job)
    BY <1>4, StatusSound DEF OpOK, Disputed, CanDispute, Status, Claimed, Contested
  <1>5. CASE o.op = "resolve" /\ Resolved(o.by, o.job, FALSE)
    <2>1. /\ o.job \in JobId /\ SetStatus(o.job, "Refunded") /\ jobs[o.job].status = "Disputed"
      BY <1>5 DEF OpOK, Resolved, CanResolve
    <2>2. Cause(o.job)
      BY <2>1 DEF SettlementInv, Jobs, JobOK, Contested
    <2>3. QED
      BY <2>1, <2>2, StatusSound DEF Status, Claimed, Contested
  <1>6. CASE o.op = "post" /\ jobCount < MaxJobs /\ Posted(Requester, 1, 0, o.spec)
    BY <1>6, JobIsPosted DEF OpOK
  <1>7. QED
    BY <1>1, <1>2, <1>3, <1>4, <1>5, <1>6 DEF Executes

OperationsSound == inFlight' \subseteq Operation /\ \A o \in inFlight' : OpOK(o)'

LEMMA OpStays ==
  ASSUME SettlementInv, JobsGrow, RowsGrow, NEW o, OpOK(o)
  PROVE  OpOK(o)'
  <1>1. CASE o.op = "post"
    BY <1>1, IdsStay DEF SettlementInv, OpOK
  <1>2. CASE o.op # "post"
    <2>1. PICK j : j = o.job
      OBVIOUS
    <2>2. PICK s : s = jobs[j].specHash
      OBVIOUS
    <2>3. j \in JobId /\ s \in SpecId /\ j \in JobId' /\ jobs'[j].specHash = s
          /\ specs'[s].failedWorkerIds = specs[s].failedWorkerIds
      BY <1>2, <2>1, <2>2, IdsStay DEF SettlementInv, Jobs, JobOK, OpOK, JobsGrow, RowsGrow
    <2>4. Given(s) => s \in SpecId' /\ specs'[s].workerAgentId # NoWorker
      BY GivenStays DEF SettlementInv, Given
    <2>5. Judged(s, "passed") => s \in SpecId' /\ \E w \in Worker : <<"passed", w>> \in specs'[s].feed
      BY JudgedStays DEF SettlementInv, Judged
    <2>6. Cause(j) => Cause(j)'
      BY <2>3, CauseStays DEF SettlementInv
    <2> HIDE DEF Cause
    <2>7. QED
      BY <1>2, <2>1, <2>2, <2>3, <2>4, <2>5, <2>6 DEF OpOK, Given, Judged
  <1>3. QED
    BY <1>1, <1>2

\* However a call ends, the jobs and the operations in flight stay sound.
LEMMA CallSound ==
  ASSUME SettlementInv, RowsGrow, NEW o, Confirmed(o) \/ Refused \/ Pending(o),
         Feasible(o) => o \in Operation /\ OpOK(o)
  PROVE  JobsSound /\ OperationsSound
  <1>1. Executes(o) => Feasible(o)
    BY DEF Executes, Feasible, Accepted, Submitted, Approved, Disputed, Resolved
  <1>2. JobsSound
    BY <1>1, OperationMined, JobsUnchanged DEF Confirmed, Refused, Pending, Overtaken
  <1>3. \A q \in inFlight' : q \in Operation /\ OpOK(q)
    BY DEF Confirmed, Refused, Pending, SettlementInv, Typed, TypeOK, Operations
  <1>4. QED
    BY <1>2, <1>3, OpStays DEF JobsSound, OperationsSound

LEMMA NoCallSound ==
  ASSUME SettlementInv, RowsGrow, UNCHANGED jobs, inFlight' \subseteq inFlight
  PROVE  JobsSound /\ OperationsSound
  <1>1. JobsSound
    BY JobsUnchanged
  <1>2. QED
    BY <1>1, OpStays DEF JobsSound, OperationsSound, SettlementInv, Typed, TypeOK, Operations

-----------------------------------------------------------------------------
(***************************************************************************)
(* Routines.                                                               *)
(***************************************************************************)
RoutinesSound == handlers' \in [Handler -> Routine] /\ \A h \in Handler : Bound(h)' /\ Due(h)'

\* What binds a routine's record to its row and job, whichever routine it is.
BoundTo(r) ==
  /\ r.pc # "idle" => r.spec \in SpecId /\ (r.worker # NoWorker => WorkedOn(r.spec, r.worker))
  /\ r.pc \in {"submit", "grade", "record"} \/ r.callback => r.worker # NoWorker
  /\ r.pc \notin {"idle", "record"} =>
       /\ r.job \in JobId /\ jobs[r.job].specHash = r.spec
       /\ r.repost => r.worker # NoWorker \/ jobs[r.job].resultHash = Abandoned

LEMMA RoutineIsBound ==
  ASSUME SettlementInv, JobsGrow, RowsGrow, NEW h, NEW r, handlers'[h] = r, BoundTo(r)
  PROVE  Bound(h)'
  <1>1. PICK s, w, j : s = r.spec /\ w = r.worker /\ j = r.job
    OBVIOUS
  <1>2. r.pc # "idle" => s \in SpecId' /\ (w # NoWorker => WorkedOn(s, w)')
    BY <1>1, IdsStay, WorkedOnStays DEF SettlementInv, BoundTo
  <1>3. r.pc # "idle" => s \in SpecId' /\ (w # NoWorker => (OutcomeKnown =>
          \E k \in JobId' : jobs'[k].specHash = s /\ jobs'[k].worker = w))
    BY <1>2 DEF WorkedOn
  <1>4. r.pc \notin {"idle", "record"} =>
          /\ j \in JobId' /\ jobs'[j].specHash = s
          /\ r.repost => w # NoWorker \/ jobs'[j].resultHash = Abandoned
    BY <1>1, IdsStay, WorkersAreNamed DEF SettlementInv, BoundTo, JobsGrow
  <1>5. QED
    BY <1>1, <1>3, <1>4 DEF Bound, BoundTo, WorkedOn

LEMMA RoutineIsDue ==
  ASSUME SettlementInv, JobsGrow, RowsGrow, NEW h, NEW r, handlers'[h] = r, BoundTo(r),
         NEW s, NEW j, s = r.spec, j = r.job,
         r.pc = "submit" => Given(s),
         r.pc = "approve" => Judged(s, "passed")',
         r.pc = "dispute" => Cause(j)',
         r.pc \in {"dispute", "resolve", "repost"} /\ r.repost =>
           specs[s].repostCount < MAX_AUTO_REPOSTS,
         r.pc = "repost" => r.repost /\ jobs'[j].status \in Contested,
         r.pc = "post" => r.child \in SpecId',
         r.pc = "abandon" => ~r.repost
  PROVE  Due(h)'
  <1>1. r.pc = "submit" => s \in SpecId' /\ specs'[s].workerAgentId # NoWorker
    BY GivenStays DEF SettlementInv, Given
  <1>2. r.pc = "approve" => s \in SpecId' /\ \E w \in Worker : <<"passed", w>> \in specs'[s].feed
    BY DEF Judged
  <1>3. r.pc = "dispute" => (OutcomeKnown =>
          \/ /\ jobs'[j].specHash \in SpecId'
             /\ \E w \in Worker : <<"failed", w>> \in specs'[jobs'[j].specHash].feed
          \/ jobs'[j].resultHash = Abandoned)
    BY DEF Cause, Judged
  <1>4. r.pc \in {"dispute", "resolve", "repost"} /\ r.repost =>
          specs'[s].repostCount < MAX_AUTO_REPOSTS
    BY DEF BoundTo, RowsGrow
  <1>5. QED
    BY <1>1, <1>2, <1>3, <1>4 DEF Due, Given, Judged, Cause

LEMMA RoutineStays ==
  ASSUME SettlementInv, JobsGrow, RowsGrow, NEW h \in Handler, handlers'[h] = handlers[h]
  PROVE  Bound(h)' /\ Due(h)'
  <1>1. PICK r : r = handlers[h]
    OBVIOUS
  <1>2. PICK s, j : s = r.spec /\ j = r.job
    OBVIOUS
  <1>3. Bound(h) /\ Due(h)
    BY DEF SettlementInv, Routines
  <1>4. BoundTo(r)
    BY <1>1, <1>3 DEF Bound, BoundTo
  <1>5. r.pc = "approve" => Judged(s, "passed")'
    BY <1>1, <1>2, <1>3, JudgedStays DEF SettlementInv, Due
  <1>6. r.pc = "dispute" => Cause(j)'
    <2>1. r.pc = "dispute" => j \in JobId /\ Cause(j)
      BY <1>1, <1>2, <1>3, <1>4 DEF Due, BoundTo
    <2>2. QED
      BY <2>1, CauseStays DEF SettlementInv
  <1>7. r.pc = "repost" => r.repost /\ jobs'[j].status \in Contested
    BY <1>1, <1>2, <1>3, <1>4 DEF Due, BoundTo, JobsGrow
  <1>8. r.pc = "post" => r.child \in SpecId'
    BY <1>1, <1>3, IdsStay DEF SettlementInv, Due
  <1>9. /\ r.pc = "submit" => Given(s)
        /\ r.pc \in {"dispute", "resolve", "repost"} /\ r.repost =>
             specs[s].repostCount < MAX_AUTO_REPOSTS
        /\ r.pc = "abandon" => ~r.repost
    BY <1>1, <1>2, <1>3 DEF Due
  <1>10. handlers'[h] = r
    BY <1>1
  <1>11. Bound(h)'
    BY <1>4, <1>10, RoutineIsBound
  <1>12. Due(h)'
    BY <1>2, <1>4, <1>5, <1>6, <1>7, <1>8, <1>9, <1>10, RoutineIsDue
  <1>13. QED
    BY <1>11, <1>12

\* One routine moves to a record that is bound and due; the others stand.
LEMMA RoutineMoves ==
  ASSUME SettlementInv, JobsGrow, RowsGrow, NEW h \in Handler, NEW r \in Routine,
         handlers' = [handlers EXCEPT ![h] = r], BoundTo(r),
         NEW s, NEW j, s = r.spec, j = r.job,
         r.pc = "submit" => Given(s),
         r.pc = "approve" => Judged(s, "passed")',
         r.pc = "dispute" => Cause(j)',
         r.pc \in {"dispute", "resolve", "repost"} /\ r.repost =>
           specs[s].repostCount < MAX_AUTO_REPOSTS,
         r.pc = "repost" => r.repost /\ jobs'[j].status \in Contested,
         r.pc = "post" => r.child \in SpecId',
         r.pc = "abandon" => ~r.repost
  PROVE  RoutinesSound
  <1>1. /\ handlers' \in [Handler -> Routine] /\ handlers'[h] = r
        /\ \A g \in Handler : g # h => handlers'[g] = handlers[g]
    BY DEF SettlementInv, Typed, TypeOK
  <1>2. Bound(h)'
    BY <1>1, RoutineIsBound
  <1>3. Due(h)'
    BY <1>1, RoutineIsDue
  <1>4. \A g \in Handler : Bound(g)' /\ Due(g)'
    BY <1>1, <1>2, <1>3, RoutineStays
  <1>5. QED
    BY <1>1, <1>4 DEF RoutinesSound

LEMMA RoutinesStand ==
  ASSUME SettlementInv, JobsGrow, RowsGrow, UNCHANGED handlers
  PROVE  RoutinesSound
  BY RoutineStays DEF RoutinesSound, SettlementInv, Typed, TypeOK

LEMMA IdleRoutine ==
  /\ Idle \in Routine /\ Idle.pc = "idle" /\ Idle.worker = NoWorker
  /\ Idle.callback = FALSE /\ Idle.repost = FALSE
  BY SettlementAssumption DEF Idle, Routine

LEMMA RoutineRests ==
  ASSUME SettlementInv, JobsGrow, RowsGrow, NEW h \in Handler,
         handlers' = [handlers EXCEPT ![h] = Idle]
  PROVE  RoutinesSound
  <1>1. BoundTo(Idle)
    BY IdleRoutine DEF BoundTo
  <1>2. PICK s, j : s = Idle.spec /\ j = Idle.job
    OBVIOUS
  <1>3. QED
    BY <1>1, <1>2, IdleRoutine, RoutineMoves

LEMMA RoutineEnds ==
  ASSUME SettlementInv, JobsGrow, RowsGrow, NEW h \in Handler, handlers[h].pc # "idle", End(h)
  PROVE  RoutinesSound
  <1>1. CASE ~handlers[h].callback
    BY <1>1, RoutineRests DEF End, Ended
  <1>2. CASE handlers[h].callback
    <2> DEFINE r == [Idle EXCEPT !.pc = "record", !.spec = handlers[h].spec,
                                 !.worker = handlers[h].worker, !.callback = TRUE]
    <2>1. handlers' = [handlers EXCEPT ![h] = r] /\ handlers[h] \in Routine /\ Bound(h)
      BY <1>2 DEF End, Ended, SettlementInv, Typed, TypeOK, Routines
    <2>2. /\ r \in Routine /\ r.pc = "record" /\ r.spec = handlers[h].spec
          /\ r.worker = handlers[h].worker
      BY <2>1, IdleRoutine DEF Routine
    <2> HIDE DEF r
    <2>3. BoundTo(r)
      BY <1>2, <2>1, <2>2 DEF Bound, BoundTo
    <2>4. PICK s, j : s = r.spec /\ j = r.job
      OBVIOUS
    <2>5. QED
      BY <2>1, <2>2, <2>3, <2>4, RoutineMoves
  <1>3. QED
    BY <1>1, <1>2

LEMMA RoutineGoes ==
  ASSUME SettlementInv, JobsGrow, RowsGrow, NEW h \in Handler,
         handlers[h].pc \notin {"idle", "record"},
         NEW pc \in {"grade", "approve", "dispute", "resolve", "repost"}, Goto(h, pc),
         NEW s, NEW j, s = handlers[h].spec, j = handlers[h].job,
         pc = "grade" => handlers[h].worker # NoWorker,
         pc = "approve" => Judged(s, "passed")',
         pc = "dispute" => Cause(j)',
         pc \in {"dispute", "resolve", "repost"} /\ handlers[h].repost =>
           specs[s].repostCount < MAX_AUTO_REPOSTS,
         pc = "repost" => handlers[h].repost /\ jobs'[j].status \in Contested
  PROVE  RoutinesSound
  <1> DEFINE r == [handlers[h] EXCEPT !.pc = pc]
  <1>1. handlers' = [handlers EXCEPT ![h] = r] /\ handlers[h] \in Routine /\ Bound(h)
    BY DEF Goto, SettlementInv, Typed, TypeOK, Routines
  <1>2. /\ r \in Routine /\ r.pc = pc /\ r.spec = s /\ r.job = j /\ r.worker = handlers[h].worker
        /\ r.callback = handlers[h].callback /\ r.repost = handlers[h].repost
    BY <1>1 DEF Routine
  <1> HIDE DEF r
  <1>3. BoundTo(r)
    BY <1>1, <1>2 DEF Bound, BoundTo
  <1>4. QED
    BY <1>1, <1>2, <1>3, RoutineMoves

-----------------------------------------------------------------------------
LEMMA InvFollows ==
  ASSUME SettlementInv, RowsGrow, JobsSound, RowsSound, OperationsSound, RoutinesSound
  PROVE  SettlementInv'
  <1>1. Typed'
    BY DEF SettlementInv, Typed, TypeOK, JobsSound, JobsGrow, RowsGrow, RowsSound,
           OperationsSound, RoutinesSound, Offer
  <1>2. QED
    BY <1>1 DEF SettlementInv, JobsSound, RowsSound, OperationsSound, RoutinesSound,
                Jobs, Rows, Operations, Routines

\* Steps that leave the rows alone.
LEMMA RowsAtRest ==
  ASSUME SettlementInv, UNCHANGED specs, JobsSound
  PROVE  RowsGrow /\ RowsSound
  BY RowsUnchanged DEF JobsSound

LEMMA ChainStepKeeps == ASSUME SettlementInv, ChainStep PROVE SettlementInv'
  <1>1. PICK o \in inFlight : Mine(o) \/ Discard(o)
    BY DEF ChainStep
  <1>2. UNCHANGED <<specs, handlers>> /\ inFlight' \subseteq inFlight /\ OpOK(o)
    BY <1>1 DEF Mine, Discard, SettlementInv, Operations
  <1>3. RowsGrow
    BY <1>2, RowsUnchanged
  <1>4. JobsSound
    BY <1>1, <1>2, <1>3, OperationMined, JobsUnchanged DEF Mine, Discard
  <1>5. OperationsSound
    BY <1>2, <1>3, <1>4, OpStays DEF JobsSound, OperationsSound, SettlementInv, Typed, TypeOK, Operations
  <1>6. QED
    BY <1>2, <1>3, <1>4, <1>5, RowsAtRest, RoutinesStand, InvFollows DEF JobsSound

-----------------------------------------------------------------------------
\* A row that is dispatched is linked to its job and keeps its verdicts.
LEMMA RowIsDispatched ==
  ASSUME SettlementInv, NEW s \in SpecId, NEW j \in JobId, NEW w \in Worker,
         specs' \in Dispatched(s, j, w)
  PROVE  /\ RowsGrow /\ SpecId' = SpecId
         /\ specs' \in Seq(Spec_) /\ \A q \in SpecId : specs'[q] \in Spec_
         /\ \A q \in SpecId : q # s => specs'[q] = specs[q]
         /\ specs'[s].workerAgentId = w /\ specs'[s].onchainJobId = j
         /\ specs'[s].feed = specs[s].feed /\ specs'[s].verdict = specs[s].verdict
  <1>1. PICK t \in {"running", "completed"} :
          specs' = [specs EXCEPT ![s].workerAgentId = w, ![s].onchainJobId = j, ![s].task = t]
    BY DEF Dispatched
  <1> DEFINE new == [specs[s] EXCEPT !.workerAgentId = w, !.onchainJobId = j, !.task = t]
  <1>2. specs[s] \in Spec_ /\ j \in 0 .. MaxJobs /\ s \in DOMAIN specs
    BY SettlementAssumption DEF SettlementInv, Typed, TypeOK, JobId, jobCount, SpecId
  <1>3. /\ new \in Spec_ /\ new.workerAgentId = w /\ new.onchainJobId = j
        /\ new.feed = specs[s].feed /\ new.verdict = specs[s].verdict
        /\ new.parent = specs[s].parent /\ new.repostCount = specs[s].repostCount
        /\ new.failedWorkerIds = specs[s].failedWorkerIds
    BY <1>2 DEF Spec_
  <1>4. specs' = [specs EXCEPT ![s] = new]
    BY <1>1, <1>2
  <1> HIDE DEF new
  <1>5. w # NoWorker
    BY WorkersAreNamed
  <1>6. QED
    BY <1>3, <1>4, <1>5, RowReplaced DEF SettlementInv

LEMMA DispatchedSound ==
  ASSUME SettlementInv, NEW s \in SpecId, NEW j \in JobId, NEW w \in Worker,
         specs' \in Dispatched(s, j, w), JobsGrow, jobs[j].specHash = s,
         OutcomeKnown => jobs'[j].worker = w
  PROVE  RowsSound
  <1>1. /\ RowsGrow /\ SpecId' = SpecId
        /\ specs' \in Seq(Spec_) /\ \A q \in SpecId : specs'[q] \in Spec_
        /\ \A q \in SpecId : q # s => specs'[q] = specs[q]
        /\ specs'[s].workerAgentId = w /\ specs'[s].onchainJobId = j
        /\ specs'[s].feed = specs[s].feed /\ specs'[s].verdict = specs[s].verdict
    BY RowIsDispatched
  <1>2. j \in JobId' /\ jobs'[j].specHash = s
    BY IdsStay DEF SettlementInv, JobsGrow
  <1>3. LinkOK(s)'
    BY <1>1, <1>2, WorkersAreNamed DEF LinkOK, WorkedOn
  <1>4. FeedOK(s)'
    BY <1>1, FeedStays
  <1>5. QED
    BY <1>1, <1>3, <1>4, RowMoves

LEMMA AcceptAndDispatchKeeps ==
  ASSUME SettlementInv, NEW w \in Worker, NEW j \in JobId, AcceptAndDispatch(w, j)
  PROVE  SettlementInv'
  <1> DEFINE s == jobs[j].specHash
             o == Op("accept", j, w)
  <1>1. /\ w \notin specs[s].failedWorkerIds
        /\ Confirmed(o) \/ (~OutcomeKnown /\ Pending(o))
        /\ specs' \in {specs} \cup Dispatched(s, j, w)
        /\ UNCHANGED handlers
    BY DEF AcceptAndDispatch
  <1>2. s \in SpecId
    BY DEF SettlementInv, Jobs, JobOK
  <1>3. RowsGrow
    BY <1>1, <1>2, RowIsDispatched, RowsUnchanged
  <1>4. o.op = "accept" /\ o.job = j /\ o.by = w /\ o \in Operation
    BY WorkersAreNamed, SettlementAssumption DEF Op, Operation, SettlementInv, Typed, JobId, jobCount
  <1>5. OpOK(o)
    BY <1>1, <1>4 DEF OpOK
  <1> HIDE DEF o
  <1>6. JobsSound /\ OperationsSound
    BY <1>1, <1>3, <1>4, <1>5, CallSound
  <1>7. OutcomeKnown => jobs'[j].worker = w
    <2> SUFFICES ASSUME OutcomeKnown PROVE jobs'[j].worker = w
      OBVIOUS
    <2>1. Accepted(w, j)
      BY <1>1, <1>4 DEF Confirmed, Overtaken, Executes
    <2>2. jobs' = [jobs EXCEPT ![j].worker = w, ![j].status = "Accepted"] /\ jobs[j] \in Offer
          /\ j \in DOMAIN jobs
      BY <2>1 DEF Accepted, SettlementInv, Typed, TypeOK, JobId, jobCount
    <2>3. QED
      BY <2>2 DEF Offer, Job
  <1>8. RowsSound
    BY <1>1, <1>2, <1>6, <1>7, DispatchedSound, RowsAtRest DEF JobsSound
  <1>9. QED
    BY <1>1, <1>3, <1>6, <1>8, RoutinesStand, InvFollows DEF JobsSound

LEMMA RedispatchKeeps ==
  ASSUME SettlementInv, NEW j \in JobId, Redispatch(j) PROVE SettlementInv'
  <1> DEFINE s == jobs[j].specHash
             w == jobs[j].worker
  <1>1. /\ jobs[j].status = "Accepted" /\ specs' \in Dispatched(s, j, w)
        /\ UNCHANGED <<jobs, inFlight, handlers>>
    BY DEF Redispatch
  <1>2. s \in SpecId /\ w \in Worker
    BY <1>1 DEF SettlementInv, Jobs, JobOK
  <1>3. RowsGrow
    BY <1>1, <1>2, RowIsDispatched
  <1>4. JobsSound /\ OperationsSound
    BY <1>1, <1>3, NoCallSound
  <1>5. RowsSound
    BY <1>1, <1>2, <1>4, DispatchedSound DEF JobsSound
  <1>6. QED
    BY <1>1, <1>3, <1>4, <1>5, RoutinesStand, InvFollows DEF JobsSound

-----------------------------------------------------------------------------
\* The task of a linked row changes.
LEMMA TaskChanges ==
  ASSUME SettlementInv, NEW s \in SpecId,
         NEW t \in {"processing", "completed", "failed"}, specs' = [specs EXCEPT ![s].task = t],
         specs[s].workerAgentId # NoWorker
  PROVE  RowsGrow /\ (JobsGrow => RowsSound)
  <1> DEFINE new == [specs[s] EXCEPT !.task = t]
  <1>1. specs[s] \in Spec_
    BY DEF SettlementInv, Typed
  <1>2. /\ new \in Spec_ /\ new.workerAgentId = specs[s].workerAgentId
        /\ new.onchainJobId = specs[s].onchainJobId
        /\ new.feed = specs[s].feed /\ new.verdict = specs[s].verdict
        /\ new.parent = specs[s].parent /\ new.repostCount = specs[s].repostCount
        /\ new.failedWorkerIds = specs[s].failedWorkerIds
    BY <1>1 DEF Spec_
  <1>3. specs' = [specs EXCEPT ![s] = new]
    OBVIOUS
  <1> HIDE DEF new
  <1>4. /\ RowsGrow /\ SpecId' = SpecId
        /\ specs' \in Seq(Spec_) /\ \A q \in SpecId : specs'[q] \in Spec_
        /\ specs'[s] = new /\ \A q \in SpecId : q # s => specs'[q] = specs[q]
    BY <1>2, <1>3, RowReplaced DEF SettlementInv
  <1>5. JobsGrow => LinkOK(s)' /\ FeedOK(s)'
    BY <1>2, <1>4, LinkStays, FeedStays
  <1>6. QED
    BY <1>4, <1>5, RowMoves

LEMMA ReapTaskKeeps ==
  ASSUME SettlementInv, NEW s \in SpecId, ReapTask(s) PROVE SettlementInv'
  <1>1. /\ specs' = [specs EXCEPT ![s].task = "failed"] /\ UNCHANGED <<jobs, inFlight, handlers>>
        /\ specs[s].workerAgentId # NoWorker
    BY DEF ReapTask, SettlementInv, Rows, LinkOK
  <1>2. RowsGrow /\ (JobsGrow => RowsSound)
    BY <1>1, TaskChanges
  <1>3. QED
    BY <1>1, <1>2, NoCallSound, RoutinesStand, InvFollows DEF JobsSound

-----------------------------------------------------------------------------
LEMMA RoutineStarts ==
  ASSUME SettlementInv, JobsGrow, RowsGrow, NEW h \in Handler,
         NEW pc \in {"submit", "grade", "approve", "dispute", "resolve", "abandon"},
         NEW s \in SpecId, NEW j \in JobId, NEW callback \in BOOLEAN, NEW repost \in BOOLEAN,
         Start(h, pc, s, j, callback, repost), jobs[j].specHash = s,
         pc \in {"submit", "grade"} \/ callback => Given(s),
         repost => Given(s) \/ jobs[j].resultHash = Abandoned,
         pc = "approve" => Judged(s, "passed"),
         pc = "dispute" => Cause(j),
         pc \in {"dispute", "resolve"} /\ repost => specs[s].repostCount < MAX_AUTO_REPOSTS,
         pc = "abandon" => ~repost
  PROVE  RoutinesSound
  <1> DEFINE r == [pc |-> pc, spec |-> s, job |-> j, worker |-> specs[s].workerAgentId,
                   callback |-> callback, repost |-> repost, child |-> 0, tries |-> 0]
  <1>1. handlers' = [handlers EXCEPT ![h] = r]
    BY DEF Start
  <1>2. /\ s \in 0 .. MaxSpecs /\ j \in 0 .. MaxJobs /\ 0 \in 0 .. MaxSpecs /\ 0 \in 0 .. Tries - 1
        /\ specs[s].workerAgentId \in Worker \cup {NoWorker}
    BY SettlementAssumption DEF SettlementInv, Typed, Spec_, SpecId, JobId, jobCount
  <1>3. /\ r \in Routine /\ r.pc = pc /\ r.spec = s /\ r.job = j /\ r.callback = callback
        /\ r.repost = repost /\ r.worker = specs[s].workerAgentId
    BY <1>2 DEF Routine
  <1> HIDE DEF r
  <1>4. specs[s].workerAgentId # NoWorker => WorkedOn(s, specs[s].workerAgentId)
    BY DEF SettlementInv, Rows, LinkOK
  <1>5. BoundTo(r)
    BY <1>3, <1>4 DEF BoundTo, Given
  <1>6. pc = "approve" => Judged(s, "passed")'
    BY JudgedStays DEF SettlementInv
  <1>7. pc = "dispute" => Cause(j)'
    BY CauseStays DEF SettlementInv
  <1>8. QED
    BY <1>1, <1>3, <1>5, <1>6, <1>7, RoutineMoves

LEMMA CallbackKeeps ==
  ASSUME SettlementInv, NEW h \in Handler, NEW s \in SpecId, Callback(h, s)
  PROVE  SettlementInv'
  <1>1. /\ specs' = [specs EXCEPT ![s].task = "processing"] /\ UNCHANGED <<jobs, inFlight>>
        /\ Start(h, "submit", s, specs[s].onchainJobId, TRUE, TRUE)
        /\ specs[s].task = "running"
    BY DEF Callback
  <1>2. /\ Given(s) /\ specs[s].workerAgentId # NoWorker /\ specs[s].onchainJobId \in JobId
        /\ jobs[specs[s].onchainJobId].specHash = s
    BY <1>1 DEF SettlementInv, Rows, LinkOK, Given
  <1>3. RowsGrow /\ (JobsGrow => RowsSound)
    BY <1>1, <1>2, TaskChanges
  <1>4. JobsSound /\ OperationsSound
    BY <1>1, <1>3, NoCallSound
  <1>5. RoutinesSound
    BY <1>1, <1>2, <1>3, <1>4, RoutineStarts DEF JobsSound
  <1>6. QED
    BY <1>3, <1>4, <1>5, InvFollows DEF JobsSound

\* What a sweep finds: a job of its row that was delivered by the linked worker
\* or abandoned, and a verdict that is on record.
LEMMA SweepFinds ==
  ASSUME SettlementInv, NEW j \in JobId
  PROVE  LET s == jobs[j].specHash
         IN  /\ s \in SpecId
             /\ jobs[j].status \in {"Submitted", "Disputed"} =>
                  Given(s) \/ jobs[j].resultHash = Abandoned
             /\ specs[s].verdict = "passed" => Judged(s, "passed")
             /\ specs[s].verdict = "failed" => Judged(s, "failed")
             /\ specs[s].task = "completed" => Given(s)
  <1>1. JobOK(j) /\ jobs[j] \in Offer
    BY DEF SettlementInv, Jobs, Typed
  <1>2. jobs[j].status \in {"Submitted", "Disputed"} => jobs[j].resultHash \in {Delivered, Abandoned}
    BY <1>1, SettlementAssumption DEF JobOK, Claimed, Offer, Job
  <1>3. QED
    BY <1>1, <1>2 DEF JobOK, SettlementInv, Rows, LinkOK, FeedOK, Given

LEMMA SweepStarts ==
  ASSUME SettlementInv, NEW h \in Handler, NEW j \in JobId, Sweep(h, j)
  PROVE  RowsGrow /\ JobsSound /\ OperationsSound /\ RowsSound /\ RoutinesSound
  <1>1. PICK s : s = jobs[j].specHash
    OBVIOUS
  <1>2. /\ s \in SpecId
        /\ jobs[j].status \in {"Submitted", "Disputed"} => Given(s) \/ jobs[j].resultHash = Abandoned
        /\ specs[s].verdict = "passed" => Judged(s, "passed")
        /\ specs[s].verdict = "failed" => Judged(s, "failed")
        /\ specs[s].task = "completed" => Given(s)
    BY <1>1, SweepFinds
  <1>3. UNCHANGED <<jobs, specs, inFlight>>
    BY DEF Sweep, SweepStuckGraded, SweepDisputed, ReclaimAbandoned, RefundExhausted
  <1>4. RowsGrow /\ JobsSound /\ OperationsSound /\ RowsSound
    BY <1>3, RowsUnchanged, NoCallSound, RowsAtRest
  <1>5. Judged(s, "failed") => Cause(j)
    BY <1>1 DEF Cause
  <1>6. specs[s].verdict \in Verdict \cup {"none"}
    BY <1>2 DEF SettlementInv, Typed, Spec_
  <1>7. ASSUME NEW pc \in {"approve", "dispute"}, jobs[j].status = "Submitted",
               pc = Drive(s, specs[s].verdict), Start(h, pc, s, j, FALSE, TRUE)
        PROVE  RoutinesSound
    <2>1. \/ pc = "approve" /\ Judged(s, "passed")
          \/ pc = "dispute" /\ Cause(j) /\ specs[s].repostCount < MAX_AUTO_REPOSTS
      BY <1>2, <1>5, <1>6, <1>7 DEF Drive, Verdict
    <2>2. QED
      BY <1>1, <1>2, <1>4, <1>7, <2>1, RoutineStarts DEF JobsSound
  <1>8. ASSUME SweepStuckGraded(h, j) PROVE RoutinesSound
    <2>1. jobs[j].status = "Submitted"
      BY <1>8 DEF SweepStuckGraded
    <2>2. CASE Drive(s, specs[s].verdict) # "record" /\ specs[s].verdict # "none"
               /\ Start(h, Drive(s, specs[s].verdict), s, j, FALSE, TRUE)
      <3>1. Drive(s, specs[s].verdict) \in {"approve", "dispute"}
        BY <1>6, <2>2 DEF Drive, Verdict
      <3>2. QED
        BY <1>7, <2>1, <2>2, <3>1
    <2>3. CASE specs[s].task = "completed" /\ Start(h, "grade", s, j, FALSE, TRUE)
      BY <1>1, <1>2, <1>4, <2>3, RoutineStarts DEF JobsSound
    <2>4. QED
      BY <1>1, <1>8, <2>2, <2>3 DEF SweepStuckGraded
  <1>9. ASSUME SweepDisputed(h, j) PROVE RoutinesSound
    <2>1. /\ jobs[j].status = "Disputed" /\ specs[s].repostCount < MAX_AUTO_REPOSTS
          /\ Start(h, "resolve", s, j, FALSE, TRUE)
      BY <1>1, <1>9 DEF SweepDisputed
    <2>2. QED
      BY <1>1, <1>2, <1>4, <2>1, RoutineStarts DEF JobsSound
  <1>10. ASSUME ReclaimAbandoned(h, j) PROVE RoutinesSound
    <2>1. Start(h, "abandon", s, j, FALSE, FALSE)
      BY <1>1, <1>10 DEF ReclaimAbandoned
    <2>2. QED
      BY <1>1, <1>2, <1>4, <2>1, RoutineStarts DEF JobsSound
  <1>11. ASSUME RefundExhausted(h, j) PROVE RoutinesSound
    <2>1. specs[s].verdict = "failed" /\ Start(h, "dispute", s, j, FALSE, FALSE)
      BY <1>1, <1>11 DEF RefundExhausted
    <2>2. QED
      BY <1>1, <1>2, <1>4, <1>5, <2>1, RoutineStarts DEF JobsSound
  <1>12. QED
    BY <1>4, <1>8, <1>9, <1>10, <1>11 DEF Sweep

LEMMA SweepKeeps ==
  ASSUME SettlementInv, NEW h \in Handler, NEW j \in JobId, Sweep(h, j)
  PROVE  SettlementInv'
  BY SweepStarts, InvFollows

-----------------------------------------------------------------------------
(***************************************************************************)
(* The steps of a routine.                                                 *)
(***************************************************************************)
\* What a routine at work knows of its job and its row.
LEMMA AtWork ==
  ASSUME SettlementInv, NEW h \in Handler, handlers[h].pc \notin {"idle", "record"}
  PROVE  /\ handlers[h] \in Routine /\ Due(h) /\ BoundTo(handlers[h])
         /\ handlers[h].job \in JobId /\ handlers[h].job \in 1 .. MaxJobs
         /\ handlers[h].spec \in SpecId /\ jobs[handlers[h].job].specHash = handlers[h].spec
         /\ handlers[h].worker \in Worker \cup {NoWorker}
  <1>1. handlers[h] \in Routine /\ Bound(h) /\ Due(h)
    BY DEF SettlementInv, Typed, TypeOK, Routines
  <1>2. /\ handlers[h].job \in JobId /\ handlers[h].spec \in SpecId
        /\ jobs[handlers[h].job].specHash = handlers[h].spec
        /\ handlers[h].worker \in Worker \cup {NoWorker}
    BY <1>1 DEF Bound, Routine
  <1>3. handlers[h].job \in 1 .. MaxJobs
    BY <1>2, SettlementAssumption DEF SettlementInv, Typed, JobId, jobCount
  <1>4. QED
    BY <1>1, <1>2, <1>3 DEF Bound, BoundTo

LEMMA SubmissionIs ==
  \A j, w, result :
    Submission(j, w, result) = [op |-> "submit", job |-> j, by |-> w, result |-> result]
  BY DEF Submission, Op

LEMMA SubmitDeliveredKeeps ==
  ASSUME SettlementInv, NEW h \in Handler, SubmitDelivered(h) PROVE SettlementInv'
  <1> DEFINE o == Submission(handlers[h].job, handlers[h].worker, Delivered)
  <1>1. /\ At(h, "submit") /\ (Confirmed(o) \/ Refused \/ Pending(o)) /\ Goto(h, "grade")
        /\ UNCHANGED specs
    BY DEF SubmitDelivered
  <1>2. PICK s, j : s = handlers[h].spec /\ j = handlers[h].job
    OBVIOUS
  <1>3. /\ j \in JobId /\ j \in 1 .. MaxJobs /\ jobs[j].specHash = s /\ Given(s)
        /\ handlers[h].worker \in Worker
    BY <1>1, <1>2, AtWork DEF At, Due, BoundTo
  <1>4. /\ o.op = "submit" /\ o.job = j /\ o.result = Delivered /\ o.by \in Caller
        /\ o \in Operation
    BY <1>2, <1>3, SubmissionIs, WorkersAreNamed, SettlementAssumption DEF Operation
  <1>5. OpOK(o)
    BY <1>3, <1>4, SettlementAssumption DEF OpOK
  <1> HIDE DEF o
  <1>6. RowsGrow
    BY <1>1, RowsUnchanged
  <1>7. JobsSound /\ OperationsSound
    BY <1>1, <1>4, <1>5, <1>6, CallSound
  <1>8. RoutinesSound
    BY <1>1, <1>2, <1>3, <1>6, <1>7, WorkersAreNamed, RoutineGoes DEF At, JobsSound
  <1>9. QED
    BY <1>1, <1>6, <1>7, <1>8, RowsAtRest, InvFollows

LEMMA ApproveKeeps == ASSUME SettlementInv, NEW h \in Handler, Approve(h) PROVE SettlementInv'
  <1> DEFINE o == Op("approve", handlers[h].job, Requester)
  <1>1. /\ At(h, "approve") /\ (Confirmed(o) \/ Refused \/ Pending(o)) /\ End(h)
        /\ UNCHANGED specs
    BY DEF Approve
  <1>2. /\ handlers[h].job \in JobId /\ handlers[h].job \in 1 .. MaxJobs
        /\ Judged(jobs[handlers[h].job].specHash, "passed")
    BY <1>1, AtWork DEF At, Due
  <1>3. o.op = "approve" /\ o.job = handlers[h].job /\ o \in Operation
    BY <1>2, SettlementAssumption DEF Op, Operation
  <1>4. OpOK(o)
    BY <1>2, <1>3 DEF OpOK
  <1> HIDE DEF o
  <1>5. RowsGrow
    BY <1>1, RowsUnchanged
  <1>6. JobsSound /\ OperationsSound
    BY <1>1, <1>3, <1>4, <1>5, CallSound
  <1>7. RoutinesSound
    BY <1>1, <1>5, <1>6, RoutineEnds DEF At, JobsSound
  <1>8. QED
    BY <1>1, <1>5, <1>6, <1>7, RowsAtRest, InvFollows

LEMMA SubmitAbandonedKeeps ==
  ASSUME SettlementInv, NEW h \in Handler, SubmitAbandoned(h) PROVE SettlementInv'
  <1> DEFINE o == Submission(handlers[h].job, jobs[handlers[h].job].worker, Abandoned)
  <1>1. At(h, "abandon") /\ Call(h, o, "dispute") /\ UNCHANGED specs
    BY DEF SubmitAbandoned
  <1>2. PICK s, j : s = handlers[h].spec /\ j = handlers[h].job
    OBVIOUS
  <1>3. j \in JobId /\ j \in 1 .. MaxJobs /\ JobOK(j) /\ ~handlers[h].repost
    BY <1>1, <1>2, AtWork DEF At, Due, SettlementInv, Jobs
  <1>4. o = [op |-> "submit", job |-> j, by |-> jobs[j].worker, result |-> Abandoned]
    BY <1>2, SubmissionIs
  <1>5. o.op = "submit" /\ o.job = j /\ o.by = jobs[j].worker /\ o.result = Abandoned
    BY <1>4
  <1>6. ASSUME Feasible(o) PROVE o \in Operation /\ OpOK(o)
    <2>1. jobs[j].worker \in Caller
      BY <1>3, <1>5, <1>6, WorkersAreNamed DEF Feasible, CanSubmit, JobOK
    <2>2. o \in Operation
      BY <1>3, <1>4, <2>1, SettlementAssumption DEF Operation
    <2>3. QED
      BY <1>3, <1>5, <2>2, SettlementAssumption, WorkersAreNamed DEF OpOK
  <1> HIDE DEF o
  <1>7. RowsGrow
    BY <1>1, RowsUnchanged
  <1>8. JobsSound /\ OperationsSound
    BY <1>1, <1>6, <1>7, CallSound DEF Call
  <1>9. RoutinesSound
    <2>1. CASE End(h)
      BY <1>1, <1>7, <1>8, <2>1, RoutineEnds DEF At, JobsSound
    <2>2. CASE Confirmed(o) /\ Goto(h, "dispute")
      <3>1. Cause(j)'
        <4>1. CASE ~OutcomeKnown
          BY <4>1 DEF Cause
        <4>2. CASE OutcomeKnown
          <5>1. Submitted(o.by, j, Abandoned)
            BY <1>5, <2>2, <4>2 DEF Confirmed, Overtaken, Executes
          <5>2. jobs'[j].resultHash = Abandoned
            BY <1>3, <1>7, <5>1, SettlementAssumption, WorkersAreNamed, SubmitSound
          <5>3. QED
            BY <5>2 DEF Cause
        <4>3. QED
          BY <4>1, <4>2
      <3>2. QED
        BY <1>1, <1>2, <1>3, <1>7, <1>8, <2>2, <3>1, RoutineGoes DEF At, JobsSound
    <2>3. QED
      BY <1>1, <2>1, <2>2 DEF Call
  <1>10. QED
    BY <1>1, <1>7, <1>8, <1>9, RowsAtRest, InvFollows

LEMMA RaiseDisputeKeeps ==
  ASSUME SettlementInv, NEW h \in Handler, RaiseDispute(h) PROVE SettlementInv'
  <1> DEFINE o == Op("dispute", handlers[h].job, Requester)
  <1>1. At(h, "dispute") /\ Call(h, o, "resolve") /\ UNCHANGED specs
    BY DEF RaiseDispute
  <1>2. PICK s, j : s = handlers[h].spec /\ j = handlers[h].job
    OBVIOUS
  <1>3. /\ j \in JobId /\ j \in 1 .. MaxJobs /\ Cause(j)
        /\ handlers[h].repost => specs[s].repostCount < MAX_AUTO_REPOSTS
    BY <1>1, <1>2, AtWork DEF At, Due
  <1>4. o.op = "dispute" /\ o.job = j /\ o \in Operation
    BY <1>2, <1>3, SettlementAssumption DEF Op, Operation
  <1>5. OpOK(o)
    BY <1>3, <1>4 DEF OpOK
  <1> HIDE DEF o
  <1>6. RowsGrow
    BY <1>1, RowsUnchanged
  <1>7. JobsSound /\ OperationsSound
    BY <1>1, <1>4, <1>5, <1>6, CallSound DEF Call
  <1>8. RoutinesSound
    BY <1>1, <1>2, <1>3, <1>6, <1>7, RoutineEnds, RoutineGoes DEF At, JobsSound, Call
  <1>9. QED
    BY <1>1, <1>6, <1>7, <1>8, RowsAtRest, InvFollows

LEMMA ResolveDisputeKeeps ==
  ASSUME SettlementInv, NEW h \in Handler, ResolveDispute(h) PROVE SettlementInv'
  <1> DEFINE o == Resolution(handlers[h].job)
  <1>1. /\ At(h, "resolve") /\ UNCHANGED specs
        /\ \/ Pending(o) /\ IF handlers[h].repost THEN Goto(h, "repost") ELSE End(h)
           \/ Refused /\ End(h)
    BY DEF ResolveDispute
  <1>2. PICK s, j : s = handlers[h].spec /\ j = handlers[h].job
    OBVIOUS
  <1>3. /\ j \in JobId /\ j \in 1 .. MaxJobs
        /\ handlers[h].repost => specs[s].repostCount < MAX_AUTO_REPOSTS
    BY <1>1, <1>2, AtWork DEF At, Due
  <1>4. o.op = "resolve" /\ o.job = j /\ o \in Operation
    BY <1>2, <1>3, SettlementAssumption DEF Resolution, Op, Operation
  <1>5. OpOK(o)
    BY <1>3, <1>4 DEF OpOK
  <1> HIDE DEF o
  <1>6. RowsGrow
    BY <1>1, RowsUnchanged
  <1>7. JobsSound /\ OperationsSound
    BY <1>1, <1>4, <1>5, <1>6, CallSound
  <1>8. Pending(o) => jobs'[j].status \in Contested
    BY <1>4 DEF Pending, Feasible, CanResolve, Contested
  <1>9. RoutinesSound
    BY <1>1, <1>2, <1>3, <1>6, <1>7, <1>8, RoutineEnds, RoutineGoes DEF At, JobsSound
  <1>10. QED
    BY <1>1, <1>6, <1>7, <1>9, RowsAtRest, InvFollows

-----------------------------------------------------------------------------
\* A verdict is written with its worker, or the row loses the one it had.
LEMMA RowIsGraded ==
  ASSUME SettlementInv, JobsGrow, NEW s \in SpecId, NEW w \in Worker, WorkedOn(s, w),
         NEW verdict \in Verdict,
         specs' = [specs EXCEPT ![s].verdict = verdict, ![s].feed = @ \cup {<<verdict, w>>}]
  PROVE  RowsGrow /\ RowsSound /\ Judged(s, verdict)'
  <1> DEFINE new == [specs[s] EXCEPT !.verdict = verdict, !.feed = @ \cup {<<verdict, w>>}]
  <1>1. specs[s] \in Spec_ /\ s \in DOMAIN specs
    BY DEF SettlementInv, Typed, TypeOK, SpecId
  <1>2. /\ new \in Spec_ /\ new.workerAgentId = specs[s].workerAgentId
        /\ new.onchainJobId = specs[s].onchainJobId /\ new.task = specs[s].task
        /\ new.feed = specs[s].feed \cup {<<verdict, w>>} /\ new.verdict = verdict
        /\ new.parent = specs[s].parent /\ new.repostCount = specs[s].repostCount
        /\ new.failedWorkerIds = specs[s].failedWorkerIds
    BY <1>1 DEF Spec_
  <1>3. specs' = [specs EXCEPT ![s] = new]
    BY <1>1
  <1> HIDE DEF new
  <1>4. /\ RowsGrow /\ SpecId' = SpecId
        /\ specs' \in Seq(Spec_) /\ \A q \in SpecId : specs'[q] \in Spec_
        /\ specs'[s] = new /\ \A q \in SpecId : q # s => specs'[q] = specs[q]
    <2>1. /\ Typed /\ specs[s].feed \subseteq new.feed
          /\ specs[s].workerAgentId # NoWorker => new.workerAgentId # NoWorker
      BY <1>2 DEF SettlementInv
    <2>2. QED
      BY <1>2, <1>3, <2>1, RowReplaced
  <1>5. LinkOK(s)'
    BY <1>2, <1>4, LinkStays DEF SettlementInv, Rows, LinkOK
  <1>6. Judged(s, verdict)'
    BY <1>2, <1>4 DEF Judged
  <1>7. FeedOK(s)'
    <2>1. \A v \in Verdict, x \in Worker : <<v, x>> \in specs'[s].feed => WorkedOn(s, x)
      BY <1>2, <1>4 DEF SettlementInv, Rows, FeedOK
    <2>2. \A v \in Verdict, x \in Worker : <<v, x>> \in specs'[s].feed => WorkedOn(s, x)'
      BY <2>1, WorkersAreNamed, WorkedOnStays DEF SettlementInv
    <2>3. specs'[s].verdict = verdict
      BY <1>2, <1>4
    <2>4. QED
      BY <1>6, <2>2, <2>3 DEF FeedOK, Judged
  <1>8. QED
    BY <1>4, <1>5, <1>6, <1>7, RowMoves

LEMMA VerdictIsErased ==
  ASSUME SettlementInv, JobsGrow, NEW s \in SpecId, specs' = [specs EXCEPT ![s].verdict = "none"]
  PROVE  RowsGrow /\ RowsSound
  <1> DEFINE new == [specs[s] EXCEPT !.verdict = "none"]
  <1>1. specs[s] \in Spec_
    BY DEF SettlementInv, Typed
  <1>2. /\ new \in Spec_ /\ new.workerAgentId = specs[s].workerAgentId
        /\ new.onchainJobId = specs[s].onchainJobId /\ new.task = specs[s].task
        /\ new.feed = specs[s].feed /\ new.verdict = "none"
        /\ new.parent = specs[s].parent /\ new.repostCount = specs[s].repostCount
        /\ new.failedWorkerIds = specs[s].failedWorkerIds
    BY <1>1 DEF Spec_
  <1>3. specs' = [specs EXCEPT ![s] = new]
    OBVIOUS
  <1> HIDE DEF new
  <1>4. /\ RowsGrow /\ SpecId' = SpecId
        /\ specs' \in Seq(Spec_) /\ \A q \in SpecId : specs'[q] \in Spec_
        /\ specs'[s] = new /\ \A q \in SpecId : q # s => specs'[q] = specs[q]
    <2>1. /\ Typed /\ specs[s].feed \subseteq new.feed
          /\ specs[s].workerAgentId # NoWorker => new.workerAgentId # NoWorker
      BY <1>2 DEF SettlementInv
    <2>2. QED
      BY <1>2, <1>3, <2>1, RowReplaced
  <1>5. LinkOK(s)' /\ FeedOK(s)'
    BY <1>2, <1>4, LinkStays, FeedStays DEF SettlementInv, Rows, LinkOK
  <1>6. QED
    BY <1>4, <1>5, RowMoves

LEMMA GradeKeeps == ASSUME SettlementInv, NEW h \in Handler, Grade(h) PROVE SettlementInv'
  <1>1. At(h, "grade") /\ UNCHANGED <<jobs, inFlight>>
    BY DEF Grade
  <1>2. PICK s, j, w : s = handlers[h].spec /\ j = handlers[h].job /\ w = handlers[h].worker
    OBVIOUS
  <1>3. /\ s \in SpecId /\ j \in JobId /\ jobs[j].specHash = s
        /\ w \in Worker /\ WorkedOn(s, w)
    BY <1>1, <1>2, AtWork DEF At, BoundTo
  <1>4. JobsGrow
    BY <1>1, JobsUnchanged
  <1>5. ASSUME NEW verdict \in Verdict,
               specs' = [specs EXCEPT ![s].verdict = verdict, ![s].feed = @ \cup {<<verdict, w>>}],
               IF Drive(s, verdict) = "record" THEN End(h) ELSE Goto(h, Drive(s, verdict))
        PROVE  SettlementInv'
    <2>1. RowsGrow /\ RowsSound /\ Judged(s, verdict)'
      BY <1>3, <1>4, <1>5, RowIsGraded
    <2>2. JobsSound /\ OperationsSound
      BY <1>1, <2>1, NoCallSound
    <2>3. RoutinesSound
      <3>1. CASE Drive(s, verdict) = "record"
        BY <1>1, <1>4, <1>5, <2>1, <3>1, RoutineEnds DEF At
      <3>2. CASE verdict = "passed"
        <4>1. Goto(h, "approve") /\ Judged(s, "passed")'
          BY <1>5, <2>1, <3>2 DEF Drive
        <4>2. QED
          BY <1>1, <1>2, <1>4, <2>1, <4>1, RoutineGoes DEF At
      <3>3. CASE verdict = "failed" /\ specs[s].repostCount < MAX_AUTO_REPOSTS
        <4>1. Goto(h, "dispute") /\ Judged(s, "failed")'
          BY <1>5, <2>1, <3>3 DEF Drive
        <4>2. jobs'[j].specHash = s
          BY <1>1, <1>3
        <4>3. Cause(j)'
          BY <4>1, <4>2 DEF Cause, Judged
        <4>4. QED
          BY <1>1, <1>2, <1>4, <2>1, <3>3, <4>1, <4>3, RoutineGoes DEF At
      <3>4. QED
        BY <3>1, <3>2, <3>3 DEF Verdict, Drive
    <2>4. QED
      BY <2>1, <2>2, <2>3, InvFollows
  <1>6. ASSUME specs' = [specs EXCEPT ![s].verdict = "none"], End(h) PROVE SettlementInv'
    <2>1. RowsGrow /\ RowsSound
      BY <1>3, <1>4, <1>6, VerdictIsErased
    <2>2. RoutinesSound
      BY <1>1, <1>4, <1>6, <2>1, RoutineEnds DEF At
    <2>3. QED
      BY <1>1, <2>1, <2>2, NoCallSound, InvFollows
  <1>7. QED
    BY <1>2, <1>5, <1>6 DEF Grade

-----------------------------------------------------------------------------
LEMMA FreshRow ==
  /\ FreshSpec \in Spec_ /\ FreshSpec.workerAgentId = NoWorker /\ FreshSpec.task = "none"
  /\ FreshSpec.feed = {} /\ FreshSpec.verdict = "none" /\ FreshSpec.parent = 0
  BY SettlementAssumption DEF FreshSpec, Spec_

LEMMA InsertReplacementKeeps ==
  ASSUME SettlementInv, NEW h \in Handler, InsertReplacement(h) PROVE SettlementInv'
  <1>1. At(h, "repost") /\ UNCHANGED <<jobs, inFlight>>
    BY DEF InsertReplacement
  <1>2. JobsGrow
    BY <1>1, JobsUnchanged
  <1>3. CASE End(h) /\ UNCHANGED specs
    <2>1. RowsGrow /\ RowsSound
      BY <1>2, <1>3, RowsUnchanged
    <2>2. RoutinesSound
      BY <1>1, <1>2, <1>3, <2>1, RoutineEnds DEF At
    <2>3. QED
      BY <1>1, <2>1, <2>2, NoCallSound, InvFollows
  <1>4. CASE ~(End(h) /\ UNCHANGED specs)
    <2>1. PICK p, k, w, c : /\ p = handlers[h].spec /\ k = handlers[h].job /\ w = handlers[h].worker
                            /\ c = Len(specs) + 1
      OBVIOUS
    <2> DEFINE blocked == specs[p].failedWorkerIds \cup ({w} \ {NoWorker})
               new == [FreshSpec EXCEPT !.repostCount = specs[p].repostCount + 1,
                                        !.failedWorkerIds = blocked, !.parent = p]
               r == [handlers[h] EXCEPT !.pc = "post", !.child = c]
    <2>2. /\ Len(specs) < MaxSpecs /\ specs' = Append(specs, new)
          /\ handlers' = [handlers EXCEPT ![h].pc = "post", ![h].child = c]
      BY <1>4, <2>1 DEF InsertReplacement
    <2>3. /\ handlers[h] \in Routine /\ p \in SpecId /\ k \in JobId /\ jobs[k].specHash = p
          /\ w \in Worker \cup {NoWorker} /\ (w # NoWorker => WorkedOn(p, w))
          /\ jobs[k].status \in Contested /\ specs[p].repostCount < MAX_AUTO_REPOSTS
          /\ w # NoWorker \/ jobs[k].resultHash = Abandoned
      BY <1>1, <2>1, AtWork DEF At, Due, BoundTo
    <2>4. /\ specs \in Seq(Spec_) /\ Len(specs) \in 0 .. MaxSpecs
          /\ \A q \in SpecId : specs[q] \in Spec_
      BY DEF SettlementInv, Typed, TypeOK
    <2>5. /\ new \in Spec_ /\ new.workerAgentId = NoWorker /\ new.task = "none"
          /\ new.feed = {} /\ new.verdict = "none" /\ new.parent = p
          /\ new.failedWorkerIds = blocked
      <3>1. /\ specs[p].repostCount \in 0 .. MAX_AUTO_REPOSTS /\ blocked \subseteq Worker
            /\ p \in 0 .. MaxSpecs
        BY <2>3, <2>4, SettlementAssumption DEF Spec_, SpecId
      <3>2. specs[p].repostCount + 1 \in 0 .. MAX_AUTO_REPOSTS
        BY <2>3, <3>1, SettlementAssumption
      <3>3. QED
        BY <3>1, <3>2, FreshRow DEF Spec_
    <2>6. handlers' = [handlers EXCEPT ![h] = r]
      BY <2>2 DEF SettlementInv, Typed, TypeOK
    <2>7. /\ r \in Routine /\ r.pc = "post" /\ r.child = c /\ r.spec = p /\ r.job = k
          /\ r.worker = w /\ r.repost = handlers[h].repost /\ r.callback = handlers[h].callback
      <3>1. c \in 0 .. MaxSpecs
        BY <2>1, <2>2, <2>4, SettlementAssumption
      <3>2. QED
        BY <2>1, <2>3, <3>1 DEF Routine
    <2> HIDE DEF new, r
    <2>8. /\ specs' \in Seq(Spec_) /\ Len(specs') = Len(specs) + 1
          /\ \A q \in 1 .. Len(specs) : specs'[q] = specs[q]
          /\ specs'[c] = new
      BY <2>1, <2>2, <2>4, <2>5, AppendProperties
    <2>9. /\ SpecId' = SpecId \cup {c} /\ c \notin SpecId /\ p \in 1 .. c - 1
          /\ \A q \in SpecId : specs'[q] = specs[q]
      BY <2>1, <2>3, <2>4, <2>8 DEF SpecId
    <2>10. RowsGrow
      <3>1. Len(specs') \in Len(specs) .. MaxSpecs
        BY <2>2, <2>4, <2>8, SettlementAssumption
      <3>2. QED
        BY <2>9, <3>1 DEF RowsGrow
    <2>11. LinkOK(c)' /\ FeedOK(c)'
      BY <2>5, <2>8 DEF LinkOK, FeedOK
    <2>12. LineOK(c)'
      <3>1. specs'[p].failedWorkerIds \subseteq blocked
        BY <2>3, <2>9
      <3>2. jobs'[k].specHash = p /\ jobs'[k].status \in Contested
            /\ jobs'[k].resultHash = jobs[k].resultHash
        BY <1>1, <2>3
      <3>3. jobs[k].resultHash = Delivered => w \in blocked /\ w # NoWorker /\ WorkedOn(p, w)
        BY <2>3, WorkersAreNamed
      <3>4. w # NoWorker /\ WorkedOn(p, w) => WorkedOn(p, w)'
        BY <1>2, WorkedOnStays DEF SettlementInv
      <3>5. specs'[c].failedWorkerIds = blocked /\ specs'[c].parent = p /\ k \in JobId'
        BY <1>1, <2>3, <2>5, <2>8 DEF JobId, jobCount
      <3> HIDE DEF blocked
      <3>6. specs'[c].parent # 0 =>
              /\ p \in 1 .. c - 1 /\ specs'[p].failedWorkerIds \subseteq specs'[c].failedWorkerIds
              /\ \E i \in JobId' : /\ jobs'[i].specHash = p /\ jobs'[i].status \in Contested
                                   /\ jobs'[i].resultHash = Delivered =>
                                        \E x \in specs'[c].failedWorkerIds : WorkedOn(p, x)'
        BY <2>9, <3>1, <3>2, <3>3, <3>4, <3>5
      <3>7. QED
        BY <3>5, <3>6 DEF LineOK, Replaced, WorkedOn
    <2>13. RowsSound
      <3>1. ASSUME NEW q \in SpecId PROVE LinkOK(q)' /\ FeedOK(q)' /\ LineOK(q)'
        <4>1. LinkOK(q)'
          BY <1>2, <2>9, <2>10, LinkStays DEF SettlementInv, Rows, LinkOK
        <4>2. FeedOK(q)'
          BY <1>2, <2>9, <2>10, FeedStays
        <4>3. QED
          BY <1>2, <2>10, <4>1, <4>2, LineStays
      <3>2. QED
        BY <2>4, <2>5, <2>8, <2>9, <2>11, <2>12, <3>1 DEF RowsSound
    <2>14. RoutinesSound
      <3>1. BoundTo(r)
        BY <1>1, <2>1, <2>7, AtWork DEF BoundTo, At
      <3>2. c \in SpecId'
        BY <2>9
      <3>3. QED
        BY <1>2, <2>6, <2>7, <2>10, <3>1, <3>2, RoutineMoves
    <2>15. QED
      BY <1>1, <2>10, <2>13, <2>14, NoCallSound, InvFollows
  <1>5. QED
    BY <1>3, <1>4

LEMMA PostReplacementKeeps ==
  ASSUME SettlementInv, NEW h \in Handler, PostReplacement(h) PROVE SettlementInv'
  <1> DEFINE o == [op |-> "post", spec |-> handlers[h].child, try |-> handlers[h].tries]
             r == [handlers[h] EXCEPT !.tries = @ + 1]
  <1>1. At(h, "post") /\ UNCHANGED specs
    BY DEF PostReplacement
  <1>2. /\ handlers[h] \in Routine /\ handlers[h].child \in SpecId /\ BoundTo(handlers[h])
        /\ handlers[h].child \in 1 .. MaxSpecs
    <2>1. handlers[h] \in Routine /\ handlers[h].child \in SpecId /\ BoundTo(handlers[h])
      BY <1>1, AtWork DEF At, Due
    <2>2. QED
      BY <2>1, SettlementAssumption DEF SettlementInv, Typed, SpecId
  <1>3. o.op = "post" /\ o.spec = handlers[h].child /\ o \in Operation
    BY <1>2 DEF Operation, Routine
  <1>4. OpOK(o)
    BY <1>2, <1>3 DEF OpOK
  <1>5. RowsGrow
    BY <1>1, RowsUnchanged
  <1>6. /\ Confirmed(o) \/ Refused \/ Pending(o)
        /\ \/ End(h)
           \/ /\ handlers[h].tries < Tries - 1
              /\ handlers' = [handlers EXCEPT ![h].tries = @ + 1]
    BY DEF PostReplacement
  <1> HIDE DEF o
  <1>7. JobsSound /\ OperationsSound
    BY <1>3, <1>4, <1>5, <1>6, CallSound
  <1>8. RoutinesSound
    <2>1. CASE End(h)
      BY <1>1, <1>5, <1>7, <2>1, RoutineEnds DEF At, JobsSound
    <2>2. CASE handlers[h].tries < Tries - 1 /\ handlers' = [handlers EXCEPT ![h].tries = @ + 1]
      <3>1. /\ r \in Routine /\ r.pc = "post" /\ r.child = handlers[h].child
            /\ r.spec = handlers[h].spec /\ r.job = handlers[h].job
            /\ r.worker = handlers[h].worker /\ r.callback = handlers[h].callback
            /\ r.repost = handlers[h].repost
        <4>1. handlers[h].tries + 1 \in 0 .. Tries - 1
          BY <1>2, <2>2, SettlementAssumption DEF Routine
        <4>2. QED
          BY <1>1, <1>2, <4>1 DEF Routine, At
      <3>2. handlers' = [handlers EXCEPT ![h] = r]
        BY <2>2
      <3> HIDE DEF r
      <3>3. BoundTo(r)
        BY <1>1, <1>2, <3>1 DEF BoundTo, At
      <3>4. PICK s, j : s = r.spec /\ j = r.job
        OBVIOUS
      <3>5. r.child \in SpecId'
        BY <1>2, <1>5, <3>1, IdsStay DEF SettlementInv
      <3>6. QED
        BY <1>5, <1>7, <3>1, <3>2, <3>3, <3>4, <3>5, RoutineMoves DEF JobsSound
    <2>3. QED
      BY <1>6, <2>1, <2>2
  <1>9. QED
    BY <1>1, <1>5, <1>7, <1>8, RowsAtRest, InvFollows

LEMMA RecordTaskKeeps == ASSUME SettlementInv, NEW h \in Handler, RecordTask(h) PROVE SettlementInv'
  <1>1. PICK s : s = handlers[h].spec
    OBVIOUS
  <1>2. /\ At(h, "record") /\ handlers' = [handlers EXCEPT ![h] = Idle]
        /\ UNCHANGED <<jobs, inFlight>>
    BY DEF RecordTask
  <1>3. s \in SpecId /\ handlers[h].worker # NoWorker
    BY <1>1, <1>2 DEF SettlementInv, Routines, Bound, At
  <1>4. JobsGrow
    BY <1>2, JobsUnchanged
  <1>5. RowsGrow /\ RowsSound
    <2>1. CASE UNCHANGED specs
      BY <1>4, <2>1, RowsUnchanged
    <2>2. CASE specs' # specs
      <3>1. /\ specs[s].workerAgentId = handlers[h].worker
            /\ \E end \in {"completed", "failed"} : specs' = [specs EXCEPT ![s].task = end]
        BY <1>1, <2>2 DEF RecordTask
      <3>2. QED
        BY <1>3, <1>4, <3>1, TaskChanges
    <2>3. QED
      BY <2>1, <2>2
  <1>6. QED
    BY <1>2, <1>4, <1>5, NoCallSound, RoutineRests, InvFollows

LEMMA CrashKeeps == ASSUME SettlementInv, NEW h \in Handler, Crash(h) PROVE SettlementInv'
  <1>1. handlers' = [handlers EXCEPT ![h] = Idle] /\ UNCHANGED <<jobs, specs, inFlight>>
    BY DEF Crash
  <1>2. RowsGrow /\ JobsGrow
    BY <1>1, RowsUnchanged, JobsUnchanged
  <1>3. QED
    BY <1>1, <1>2, NoCallSound, RowsUnchanged, RoutineRests, InvFollows

LEMMA StutterKeeps == ASSUME SettlementInv, UNCHANGED vars PROVE SettlementInv'
  <1>1. UNCHANGED <<jobs, specs, inFlight, handlers>>
    BY DEF vars
  <1>2. RowsGrow /\ JobsGrow
    BY <1>1, RowsUnchanged, JobsUnchanged
  <1>3. QED
    BY <1>1, <1>2, NoCallSound, RowsUnchanged, RoutinesStand, InvFollows

-----------------------------------------------------------------------------
LEMMA SettlementInit == Init => SettlementInv
  <1> SUFFICES ASSUME Init PROVE SettlementInv
    OBVIOUS
  <1> DEFINE job == [requester |-> Requester, worker |-> NoWorker, bounty |-> 1, minScore |-> 0,
                     status |-> "Open", specHash |-> 1, resultHash |-> NoResult]
             row == [FreshSpec EXCEPT !.onchainJobId = 1]
  <1>1. 1 \in 0 .. MaxJobs /\ 1 \in SpecHash /\ 1 \in 0 .. MaxSpecs /\ Requester \in Caller
    BY SettlementAssumption
  <1>2. job \in Offer
    BY <1>1 DEF Offer, Job, Status
  <1>3. /\ row \in Spec_ /\ row.workerAgentId = NoWorker /\ row.task = "none" /\ row.feed = {}
        /\ row.verdict = "none" /\ row.parent = 0 /\ row.failedWorkerIds \subseteq Worker
    BY <1>1, FreshRow DEF Spec_
  <1>4. jobs = <<job>> /\ specs = <<row>> /\ inFlight = {} /\ handlers = [h \in Handler |-> Idle]
    BY DEF Init
  <1>5. /\ job.specHash = 1 /\ job.status = "Open" /\ job.worker = NoWorker
        /\ job.resultHash = NoResult
    OBVIOUS
  <1> HIDE DEF job, row, Offer
  <1>6. /\ jobs \in Seq(Offer) /\ Len(jobs) = 1 /\ jobs[1] = job
        /\ specs \in Seq(Spec_) /\ Len(specs) = 1 /\ specs[1] = row
    BY <1>2, <1>3, <1>4
  <1>7. JobId = {1} /\ SpecId = {1}
    BY <1>6 DEF JobId, jobCount, SpecId
  <1>8. Typed
    <2>1. handlers \in [Handler -> Routine]
      BY <1>4, IdleRoutine
    <2>2. TypeOK
      BY <1>4, <1>6, <2>1 DEF TypeOK, Offer
    <2>3. QED
      BY <1>1, <1>2, <1>3, <1>6, <1>7, <2>2 DEF Typed
  <1>9. Jobs
    BY <1>3, <1>5, <1>6, <1>7, WorkersAreNamed DEF Jobs, JobOK, Claimed, Contested
  <1>10. Rows
    BY <1>3, <1>6, <1>7 DEF Rows, LinkOK, FeedOK, LineOK
  <1>11. Operations /\ Routines
    BY <1>4, IdleRoutine DEF Operations, Routines, Bound, Due
  <1>12. QED
    BY <1>8, <1>9, <1>10, <1>11 DEF SettlementInv

LEMMA SettlementStep == SettlementInv /\ [Next]_vars => SettlementInv'
  <1> SUFFICES ASSUME SettlementInv, [Next]_vars PROVE SettlementInv'
    OBVIOUS
  <1>1. CASE ChainStep
    BY <1>1, ChainStepKeeps
  <1>2. CASE WorkerStep
    BY <1>2, AcceptAndDispatchKeeps, RedispatchKeeps, ReapTaskKeeps DEF WorkerStep
  <1>3. ASSUME NEW h \in Handler, HandlerStep(h) PROVE SettlementInv'
    <2>1. CASE \E s \in SpecId : Callback(h, s)
      BY <2>1, CallbackKeeps
    <2>2. CASE \E j \in JobId : Sweep(h, j)
      BY <2>2, SweepKeeps
    <2>3. CASE Continue(h)
      BY <2>3, SubmitDeliveredKeeps, GradeKeeps, ApproveKeeps, SubmitAbandonedKeeps,
         RaiseDisputeKeeps, ResolveDisputeKeeps, InsertReplacementKeeps, PostReplacementKeeps,
         RecordTaskKeeps DEF Continue
    <2>4. CASE Crash(h)
      BY <2>4, CrashKeeps
    <2>5. QED
      BY <1>3, <2>1, <2>2, <2>3, <2>4 DEF HandlerStep
  <1>4. CASE UNCHANGED vars
    BY <1>4, StutterKeeps
  <1>5. QED
    BY <1>1, <1>2, <1>3, <1>4 DEF Next

-----------------------------------------------------------------------------
(***************************************************************************)
(* What reaches the chain.  Whatever a routine believes, what is mined is  *)
(* a call that the contract allows to the account that makes it.           *)
(***************************************************************************)
OnChain == \E c \in Caller : JobCall(c, {1}, {0})

\* A call that is sent: whatever is feasible of it is an operation with a reason.
Sent(o) ==
  /\ Confirmed(o) \/ Refused \/ Pending(o)
  /\ Feasible(o) => o \in Operation /\ OpOK(o)

LEMMA MinedIsCall ==
  ASSUME SettlementInv, NEW o \in Operation, OpOK(o), Executes(o)
  PROVE  OnChain
  <1>1. CASE o.op = "post"
    <2>1. Posted(Requester, 1, 0, o.spec) /\ o.spec \in SpecId
      BY <1>1 DEF Executes, OpOK
    <2>2. o.spec \in SpecHash /\ Requester \in Caller
      BY <2>1, SettlementAssumption DEF SettlementInv, Typed, SpecId
    <2>3. QED
      BY <2>1, <2>2 DEF OnChain, JobCall
  <1>2. CASE o.op # "post"
    <2>1. PICK c, j : c = o.by /\ j = o.job
      OBVIOUS
    <2>2. c \in Caller /\ j \in JobId /\ (o.op = "submit" => o.result \in Result)
      BY <1>2, <2>1 DEF Operation, OpOK
    <2>3. \/ Accepted(c, j) \/ (o.result \in Result /\ Submitted(c, j, o.result))
          \/ Approved(c, j) \/ Disputed(c, j) \/ Resolved(c, j, FALSE)
      BY <1>2, <2>1, <2>2 DEF Executes
    <2>4. FALSE \in BOOLEAN
      OBVIOUS
    <2>5. QED
      BY <2>2, <2>3, <2>4 DEF OnChain, JobCall
  <1>3. QED
    BY <1>1, <1>2

LEMMA SentIsCall ==
  ASSUME SettlementInv, NEW o, Sent(o) PROVE OnChain \/ UNCHANGED jobs
  <1>1. Executes(o) => Feasible(o)
    BY DEF Executes, Feasible, Accepted, Submitted, Approved, Disputed, Resolved
  <1>2. CASE Executes(o)
    BY <1>1, <1>2, MinedIsCall DEF Sent
  <1>3. CASE ~Executes(o)
    BY <1>3 DEF Sent, Confirmed, Refused, Pending, Overtaken
  <1>4. QED
    BY <1>2, <1>3

\* The operations of the five routines that call the contract and of the dispatch.
LEMMA AcceptIsSent ==
  ASSUME SettlementInv, NEW w \in Worker, NEW j \in JobId, AcceptAndDispatch(w, j)
  PROVE  \E o : Sent(o)
  <1>1. PICK o : o = Op("accept", j, w)
    OBVIOUS
  <1>2. o.op = "accept" /\ o.job = j /\ o.by = w /\ o \in Operation
    BY <1>1, WorkersAreNamed, SettlementAssumption DEF Op, Operation, SettlementInv, Typed, JobId, jobCount
  <1>3. w \notin specs[jobs[j].specHash].failedWorkerIds /\ (Confirmed(o) \/ Pending(o))
    BY <1>1 DEF AcceptAndDispatch
  <1>4. QED
    BY <1>2, <1>3 DEF Sent, OpOK

LEMMA SubmitIsSent ==
  ASSUME SettlementInv, NEW h \in Handler, SubmitDelivered(h) PROVE \E o : Sent(o)
  <1>1. PICK o : o = Submission(handlers[h].job, handlers[h].worker, Delivered)
    OBVIOUS
  <1>2. At(h, "submit") /\ (Confirmed(o) \/ Refused \/ Pending(o))
    BY <1>1 DEF SubmitDelivered
  <1>3. PICK s, j : s = handlers[h].spec /\ j = handlers[h].job
    OBVIOUS
  <1>4. /\ j \in JobId /\ j \in 1 .. MaxJobs /\ jobs[j].specHash = s /\ Given(s)
        /\ handlers[h].worker \in Worker
    BY <1>2, <1>3, AtWork DEF At, Due, BoundTo
  <1>5. o.op = "submit" /\ o.job = j /\ o.result = Delivered /\ o \in Operation
    BY <1>1, <1>3, <1>4, SubmissionIs, WorkersAreNamed, SettlementAssumption DEF Operation
  <1>6. QED
    BY <1>2, <1>4, <1>5, SettlementAssumption DEF Sent, OpOK

LEMMA ApproveIsSent ==
  ASSUME SettlementInv, NEW h \in Handler, Approve(h) PROVE \E o : Sent(o)
  <1>1. PICK o : o = Op("approve", handlers[h].job, Requester)
    OBVIOUS
  <1>2. At(h, "approve") /\ (Confirmed(o) \/ Refused \/ Pending(o))
    BY <1>1 DEF Approve
  <1>3. /\ handlers[h].job \in JobId /\ handlers[h].job \in 1 .. MaxJobs
        /\ Judged(jobs[handlers[h].job].specHash, "passed")
    BY <1>2, AtWork DEF At, Due
  <1>4. o.op = "approve" /\ o.job = handlers[h].job /\ o \in Operation
    BY <1>1, <1>3, SettlementAssumption DEF Op, Operation
  <1>5. QED
    BY <1>2, <1>3, <1>4 DEF Sent, OpOK

LEMMA AbandonIsSent ==
  ASSUME SettlementInv, NEW h \in Handler, SubmitAbandoned(h) PROVE \E o : Sent(o)
  <1>1. PICK o : o = Submission(handlers[h].job, jobs[handlers[h].job].worker, Abandoned)
    OBVIOUS
  <1>2. At(h, "abandon") /\ Call(h, o, "dispute")
    BY <1>1 DEF SubmitAbandoned
  <1>3. PICK j : j = handlers[h].job
    OBVIOUS
  <1>4. j \in JobId /\ j \in 1 .. MaxJobs /\ JobOK(j)
    BY <1>2, <1>3, AtWork DEF At, SettlementInv, Jobs
  <1>5. o = [op |-> "submit", job |-> j, by |-> jobs[j].worker, result |-> Abandoned]
    BY <1>1, <1>3, SubmissionIs
  <1>6. o.op = "submit" /\ o.job = j /\ o.by = jobs[j].worker /\ o.result = Abandoned
    BY <1>5
  <1>7. ASSUME Feasible(o) PROVE o \in Operation /\ OpOK(o)
    <2>1. jobs[j].worker \in Caller
      BY <1>4, <1>6, <1>7, WorkersAreNamed DEF Feasible, CanSubmit, JobOK
    <2>2. o \in Operation
      BY <1>4, <1>5, <2>1, SettlementAssumption DEF Operation
    <2>3. QED
      BY <1>4, <1>6, <2>2, SettlementAssumption, WorkersAreNamed DEF OpOK
  <1>8. QED
    BY <1>2, <1>7 DEF Sent, Call

LEMMA DisputeIsSent ==
  ASSUME SettlementInv, NEW h \in Handler, RaiseDispute(h) PROVE \E o : Sent(o)
  <1>1. PICK o : o = Op("dispute", handlers[h].job, Requester)
    OBVIOUS
  <1>2. At(h, "dispute") /\ Call(h, o, "resolve")
    BY <1>1 DEF RaiseDispute
  <1>3. handlers[h].job \in JobId /\ handlers[h].job \in 1 .. MaxJobs /\ Cause(handlers[h].job)
    BY <1>2, AtWork DEF At, Due
  <1>4. o.op = "dispute" /\ o.job = handlers[h].job /\ o \in Operation
    BY <1>1, <1>3, SettlementAssumption DEF Op, Operation
  <1>5. QED
    BY <1>2, <1>3, <1>4 DEF Sent, OpOK, Call

LEMMA PostIsSent ==
  ASSUME SettlementInv, NEW h \in Handler, PostReplacement(h) PROVE \E o : Sent(o)
  <1>1. PICK o : o = [op |-> "post", spec |-> handlers[h].child, try |-> handlers[h].tries]
    OBVIOUS
  <1>2. At(h, "post") /\ (Confirmed(o) \/ Refused \/ Pending(o))
    BY <1>1 DEF PostReplacement
  <1>3. handlers[h] \in Routine /\ handlers[h].child \in SpecId
    BY <1>2, AtWork DEF At, Due
  <1>4. handlers[h].child \in 1 .. MaxSpecs
    BY <1>3, SettlementAssumption DEF SettlementInv, Typed, SpecId
  <1>5. o.op = "post" /\ o.spec = handlers[h].child /\ o \in Operation
    BY <1>1, <1>3, <1>4 DEF Operation, Routine
  <1>6. QED
    BY <1>2, <1>3, <1>5 DEF Sent, OpOK

LEMMA StepIsCall ==
  ASSUME SettlementInv, [Next]_vars PROVE OnChain \/ UNCHANGED jobs
  <1>1. ASSUME \E o : Sent(o) PROVE OnChain \/ UNCHANGED jobs
    BY <1>1, SentIsCall
  <1>2. CASE ChainStep
    <2>1. PICK o \in inFlight : Mine(o) \/ Discard(o)
      BY <1>2 DEF ChainStep
    <2>2. o \in Operation /\ OpOK(o)
      BY <2>1 DEF SettlementInv, Typed, TypeOK, Operations
    <2>3. QED
      BY <2>1, <2>2, MinedIsCall DEF Mine, Discard
  <1>3. ASSUME NEW w \in Worker, NEW j \in JobId, AcceptAndDispatch(w, j) PROVE OnChain \/ UNCHANGED jobs
    BY <1>1, <1>3, AcceptIsSent
  <1>4. ASSUME (\E j \in JobId : Redispatch(j)) \/ (\E s \in SpecId : ReapTask(s)) PROVE UNCHANGED jobs
    BY <1>4 DEF Redispatch, ReapTask
  <1>5. ASSUME NEW h \in Handler,
               \/ SubmitDelivered(h) \/ Approve(h) \/ SubmitAbandoned(h)
               \/ RaiseDispute(h) \/ PostReplacement(h)
        PROVE  OnChain \/ UNCHANGED jobs
    BY <1>1, <1>5, SubmitIsSent, ApproveIsSent, AbandonIsSent, DisputeIsSent, PostIsSent
  <1>6. ASSUME NEW h \in Handler,
               \/ \E s \in SpecId : Callback(h, s)
               \/ \E j \in JobId : Sweep(h, j)
               \/ Grade(h) \/ ResolveDispute(h) \/ InsertReplacement(h) \/ RecordTask(h) \/ Crash(h)
        PROVE  UNCHANGED jobs
    BY <1>6 DEF Callback, Sweep, SweepStuckGraded, SweepDisputed, ReclaimAbandoned, RefundExhausted,
                Grade, ResolveDispute, Refused, Pending, InsertReplacement, RecordTask, Crash
  <1>7. QED
    BY <1>2, <1>3, <1>4, <1>5, <1>6 DEF Next, WorkerStep, HandlerStep, Continue, vars

\* Whatever overlapping callbacks, sweeps, deaths and late operations do to a job is
\* a behaviour of the contract's job table, every call by the account that the
\* contract expects it from: the routines' stale copies and the receipts they trust
\* never take a job where LaborMarket.sol would not.
THEOREM SettlementImplementsJobs == Spec => JobsSpec({1}, {0})
  <1>1. Init => JobsInit({1}, {0})
    BY SettlementInit DEF Init, JobsInit, JobId, jobCount, SettlementInv, Typed, TypeOK
  <1>2. SettlementInv /\ [Next]_vars => [\E c \in Caller : JobCall(c, {1}, {0})]_jobs
    BY StepIsCall DEF OnChain
  <1>3. QED
    BY <1>1, <1>2, SettlementInit, SettlementStep, PTL DEF Spec, JobsSpec

LEMMA CallKeepsAgreement ==
  ASSUME SettlementInv, OnChain, NEW j \in JobId PROVE AgreementStands(j)
  <1>1. jobs \in Seq(Offer) /\ DOMAIN jobs = JobId /\ \A i \in JobId : jobs[i] \in Offer /\ JobOK(i)
    BY DEF SettlementInv, Typed, TypeOK, Offer, Jobs, JobId, jobCount
  <1>2. PICK c \in Caller : JobCall(c, {1}, {0})
    BY DEF OnChain
  <1>3. ASSUME NEW b, NEW m, NEW s, Posted(c, b, m, s) PROVE jobs'[j] = jobs[j]
    BY <1>1, <1>3 DEF Posted, JobId, jobCount
  <1>4. ASSUME NEW i \in JobId, Accepted(c, i) PROVE AgreementStands(j)
    BY <1>1, <1>4 DEF Accepted, CanAccept, Offer, Job, JobOK, AgreementStands, Settled
  <1>5. ASSUME NEW i \in JobId, NEW result \in Result, Submitted(c, i, result) PROVE AgreementStands(j)
    BY <1>1, <1>5 DEF Submitted, CanSubmit, Offer, Job, JobOK, Claimed, AgreementStands, Settled
  <1>6. ASSUME NEW i \in JobId, NEW st, SetStatus(i, st), jobs[i].status \notin Settled
        PROVE  AgreementStands(j)
    BY <1>1, <1>6 DEF SetStatus, Offer, Job, AgreementStands
  <1>7. ASSUME NEW i \in JobId, NEW r,
               Approved(c, i) \/ Disputed(c, i) \/ Resolved(c, i, r) \/ Cancelled(c, i)
        PROVE  AgreementStands(j)
    <2>1. jobs[i].status \notin Settled /\ \E st : SetStatus(i, st)
      BY <1>7 DEF Approved, CanApprove, Disputed, CanDispute, Resolved, CanResolve, Cancelled, CanCancel, Settled
    <2>2. QED
      BY <1>6, <2>1
  <1>8. ASSUME jobs'[j] = jobs[j] PROVE AgreementStands(j)
    BY <1>8 DEF AgreementStands
  <1>9. QED
    BY <1>2, <1>3, <1>4, <1>5, <1>7, <1>8 DEF JobCall

\* A job that the platform settles keeps its parties, its price and its first
\* delivery, and a settled one is never settled again, however many routines work on
\* it from stale copies and whenever their operations land (lib/labor-settle.ts,
\* lib/stale-claim.ts, lib/exhausted-refund.ts).
THEOREM SettlementKeepsAgreement == Spec => [][\A j \in JobId : AgreementStands(j)]_vars
  <1>1. SettlementInv /\ [Next]_vars => [\A j \in JobId : AgreementStands(j)]_vars
    <2> SUFFICES ASSUME SettlementInv, [Next]_vars, NEW j \in JobId PROVE AgreementStands(j)
      OBVIOUS
    <2>1. UNCHANGED jobs => AgreementStands(j)
      BY DEF AgreementStands
    <2>2. QED
      BY <2>1, StepIsCall, CallKeepsAgreement
  <1>2. QED
    BY <1>1, SettlementInit, SettlementStep, PTL DEF Spec

-----------------------------------------------------------------------------
(***************************************************************************)
(* Lineages.  What a row's lineage is follows by descent: a parent is an   *)
(* earlier row, so a first row for which it fails would have none.         *)
(***************************************************************************)
Below == {p \in Nat \X Nat : p[1] < p[2]}

LEMMA LeastNat ==
  ASSUME NEW T \in SUBSET Nat, T # {}
  PROVE  \E x \in T : \A y \in T : x <= y
  <1>1. IsWellFoundedOn(Below, Nat)
    BY NatLessThanWellFounded, Zenon DEF OpToRel, Below
  <1>2. PICK x \in T : \A y \in T : <<y, x>> \notin Below
    BY <1>1, WFMin, Zenon
  <1>3. \A y \in T : <<y, x>> \in Below \/ x <= y
    <2> SUFFICES ASSUME NEW y \in T, y < x PROVE <<y, x>> \in Below
      OBVIOUS
    <2>1. <<y, x>> \in Nat \X Nat /\ <<y, x>>[1] < <<y, x>>[2]
      OBVIOUS
    <2>2. QED
      BY <2>1 DEF Below
  <1>4. QED
    BY <1>2, <1>3

\* g is the lineage of every row up to n.
LineageTo(n, g) ==
  \A s \in 0 .. n :
    g[s] = IF s = 0 THEN {} ELSE {s} \cup (IF s \in SpecId THEN g[specs[s].parent] ELSE {})

LEMMA ParentIsEarlier ==
  ASSUME SettlementInv, NEW s \in SpecId
  PROVE  s \in Nat \ {0} /\ s <= MaxSpecs /\ specs[s].parent \in 0 .. s - 1
  <1>1. s \in Nat \ {0} /\ s <= MaxSpecs
    BY SettlementAssumption DEF SettlementInv, Typed, SpecId
  <1>2. specs[s].parent # 0 => specs[s].parent \in 1 .. s - 1
    BY DEF SettlementInv, Rows, LineOK
  <1>3. QED
    BY <1>1, <1>2

LEMMA LineageExtends ==
  ASSUME SettlementInv, NEW n \in Nat, n # 0, NEW g, LineageTo(n - 1, g)
  PROVE  \E f : LineageTo(n, f)
  <1> DEFINE top == {n} \cup (IF n \in SpecId THEN g[specs[n].parent] ELSE {})
             f == [s \in 0 .. n |-> IF s = n THEN top ELSE g[s]]
  <1>1. ASSUME NEW s \in 0 .. n
        PROVE  f[s] = IF s = 0 THEN {}
                      ELSE {s} \cup (IF s \in SpecId THEN f[specs[s].parent] ELSE {})
    <2>1. s \in SpecId => specs[s].parent \in 0 .. n - 1 /\ f[specs[s].parent] = g[specs[s].parent]
      BY ParentIsEarlier
    <2>2. CASE s = n
      BY <2>1, <2>2
    <2>3. CASE s # n
      <3>1. s \in 0 .. n - 1 /\ f[s] = g[s]
        BY <2>3
      <3>2. QED
        BY <2>1, <3>1 DEF LineageTo
    <2>4. QED
      BY <2>2, <2>3
  <1>2. QED
    BY <1>1 DEF LineageTo

LEMMA LineageExists ==
  ASSUME SettlementInv, NEW n \in Nat
  PROVE  \E g : LineageTo(n, g)
  <1> DEFINE None == {m \in Nat : ~ \E g : LineageTo(m, g)}
  <1> SUFFICES ASSUME None # {} PROVE FALSE
    OBVIOUS
  <1>1. PICK m \in None : \A k \in None : m <= k
    BY LeastNat
  <1>2. CASE m = 0
    <2>1. LineageTo(0, [s \in {0} |-> {}])
      BY DEF LineageTo
    <2>2. QED
      BY <1>2, <2>1
  <1>3. CASE m # 0
    <2>1. m - 1 \in Nat /\ m - 1 \notin None
      BY <1>1, <1>3
    <2>2. PICK g : LineageTo(m - 1, g)
      BY <2>1
    <2>3. QED
      BY <1>3, <2>2, LineageExtends
  <1>4. QED
    BY <1>2, <1>3

LEMMA LineageIs ==
  ASSUME SettlementInv
  PROVE  /\ Lineage[0] = {}
         /\ \A s \in SpecId : Lineage[s] = {s} \cup Lineage[specs[s].parent]
  <1>1. MaxSpecs \in Nat
    BY SettlementAssumption
  <1>2. PICK g : LineageTo(MaxSpecs, g)
    BY <1>1, LineageExists
  <1>3. PICK f : f = [s \in 0 .. MaxSpecs |-> g[s]]
    OBVIOUS
  <1>4. f = [s \in 0 .. MaxSpecs |->
               IF s = 0 THEN {} ELSE {s} \cup (IF s \in SpecId THEN f[specs[s].parent] ELSE {})]
    <2>1. \A s \in SpecId : specs[s].parent \in 0 .. MaxSpecs
      BY <1>1, ParentIsEarlier
    <2>2. \A s \in 0 .. MaxSpecs : s \in SpecId => f[specs[s].parent] = g[specs[s].parent]
      BY <1>3, <2>1
    <2>3. \A s \in 0 .. MaxSpecs :
            g[s] = IF s = 0 THEN {} ELSE {s} \cup (IF s \in SpecId THEN f[specs[s].parent] ELSE {})
      BY <1>2, <2>2 DEF LineageTo
    <2>4. QED
      BY <1>3, <2>3
  <1>5. Lineage = [s \in 0 .. MaxSpecs |->
          IF s = 0 THEN {} ELSE {s} \cup (IF s \in SpecId THEN Lineage[specs[s].parent] ELSE {})]
    BY <1>4, Zenon DEF Lineage
  <1>6. 0 \in 0 .. MaxSpecs /\ \A s \in SpecId : s \in 0 .. MaxSpecs /\ s # 0
    BY <1>1, ParentIsEarlier
  <1>7. QED
    BY <1>5, <1>6

\* Whoever had the work of an earlier row of the lineage is blocked from this one.
LEMMA LineageIsReplaced ==
  ASSUME SettlementInv, NEW s \in SpecId, NEW a \in Lineage[s], a # s
  PROVE  \E k \in JobId : Replaced(a, k, s)
  <1> DEFINE Follows(t) == \A b \in Lineage[t] : b # t => \E k \in JobId : Replaced(b, k, t)
             Not == {t \in SpecId : ~Follows(t)}
  <1> SUFFICES ASSUME Not # {} PROVE FALSE
    OBVIOUS
  <1>1. Not \in SUBSET Nat
    BY ParentIsEarlier
  <1>2. PICK t \in Not : \A y \in Not : t <= y
    BY <1>1, LeastNat
  <1>3. PICK b \in Lineage[t] : b # t /\ ~ \E k \in JobId : Replaced(b, k, t)
    BY <1>2
  <1>4. PICK p : p = specs[t].parent
    OBVIOUS
  <1>5. b \in Lineage[p] /\ p # 0 /\ p \in 0 .. t - 1
    BY <1>2, <1>3, <1>4, LineageIs, ParentIsEarlier
  <1>6. /\ p \in SpecId /\ p \notin Not
        /\ specs[p].failedWorkerIds \subseteq specs[t].failedWorkerIds
        /\ \E k \in JobId : Replaced(p, k, t)
    <2>1. /\ specs[p].failedWorkerIds \subseteq specs[t].failedWorkerIds
          /\ \E k \in JobId : Replaced(p, k, t)
      BY <1>2, <1>4, <1>5 DEF SettlementInv, Rows, LineOK
    <2>2. p \in SpecId /\ p < t
      BY <1>2, <1>5 DEF SettlementInv, Typed, SpecId
    <2>3. QED
      BY <1>1, <1>2, <2>1, <2>2
  <1>7. CASE b = p
    BY <1>3, <1>6, <1>7
  <1>8. CASE b # p
    <2>1. PICK k \in JobId : Replaced(b, k, p)
      BY <1>5, <1>6, <1>8
    <2>2. Replaced(b, k, t)
      BY <1>6, <2>1 DEF Replaced
    <2>3. QED
      BY <1>3, <2>2
  <1>9. QED
    BY <1>7, <1>8

-----------------------------------------------------------------------------
\* Nothing dangles: a job's row, a row's linked job and what a routine works on
\* or an operation names are there, and belong together.
Linked ==
  /\ \A j \in JobId : jobs[j].specHash \in SpecId
  /\ \A s \in SpecId : specs[s].workerAgentId # NoWorker =>
       specs[s].onchainJobId \in JobId /\ jobs[specs[s].onchainJobId].specHash = s
  /\ \A o \in inFlight : IF o.op = "post" THEN o.spec \in SpecId ELSE o.job \in JobId
  /\ \A h \in Handler : handlers[h].pc \notin {"idle", "record"} =>
       /\ handlers[h].spec \in SpecId /\ handlers[h].job \in JobId
       /\ jobs[handlers[h].job].specHash = handlers[h].spec

\* What the four variables hold, and the links between them, which the code
\* keeps by hand: it derives a job's row by matching the spec hash.
THEOREM SettlementTypeOK == Spec => [](TypeOK /\ Linked)
  <1>1. ASSUME SettlementInv PROVE TypeOK /\ Linked
    <2>1. \A j \in JobId : jobs[j].specHash \in SpecId
      BY <1>1 DEF SettlementInv, Jobs, JobOK
    <2>2. \A s \in SpecId : specs[s].workerAgentId # NoWorker =>
            specs[s].onchainJobId \in JobId /\ jobs[specs[s].onchainJobId].specHash = s
      BY <1>1 DEF SettlementInv, Rows, LinkOK
    <2>3. \A o \in inFlight : IF o.op = "post" THEN o.spec \in SpecId ELSE o.job \in JobId
      BY <1>1 DEF SettlementInv, Operations, OpOK
    <2>4. \A h \in Handler : handlers[h].pc \notin {"idle", "record"} =>
            /\ handlers[h].spec \in SpecId /\ handlers[h].job \in JobId
            /\ jobs[handlers[h].job].specHash = handlers[h].spec
      BY <1>1 DEF SettlementInv, Routines, Bound
    <2>5. QED
      BY <1>1, <2>1, <2>2, <2>3, <2>4 DEF Linked, SettlementInv, Typed
  <1>2. QED
    BY <1>1, SettlementInit, SettlementStep, PTL DEF Spec

\* Provided a call the code takes for done is done, a worker is paid only for
\* work of its own that a grader passed, and its delivery contested only after a
\* grader failed it, or for an abandoned claim: whatever number of callbacks and
\* sweeps overlap, die, and leave operations that land late.
THEOREM SettlementForCause == OutcomeKnown => (Spec => []SettledForCause)
  <1> SUFFICES ASSUME OutcomeKnown PROVE Spec => []SettledForCause
    OBVIOUS
  <1>1. ASSUME SettlementInv PROVE SettledForCause
    <2>1. ASSUME NEW j \in JobId, NEW v \in Verdict, Judged(jobs[j].specHash, v)
          PROVE  Graded(j, v)
      <3>1. PICK s : s = jobs[j].specHash
        OBVIOUS
      <3>2. PICK w \in Worker : <<v, w>> \in specs[s].feed
        BY <2>1, <3>1 DEF Judged
      <3>3. s \in SpecId /\ WorkedOn(s, w)
        BY <1>1, <2>1, <3>1, <3>2 DEF SettlementInv, Rows, FeedOK, Judged
      <3>4. PICK k \in JobId : jobs[k].specHash = s /\ jobs[k].worker = w
        BY <3>3 DEF WorkedOn
      <3>5. PostedOnce(s) => k = j
        BY <3>1, <3>4 DEF PostedOnce
      <3>6. QED
        BY <3>1, <3>2, <3>4, <3>5 DEF Graded, SpecOf
    <2>2. ASSUME NEW j \in JobId
          PROVE  /\ jobs[j].status = "Completed" => Graded(j, "passed")
                 /\ jobs[j].status \in Contested =>
                      Graded(j, "failed") \/ jobs[j].resultHash = Abandoned
      <3>1. JobOK(j)
        BY <1>1 DEF SettlementInv, Jobs
      <3>2. QED
        BY <2>1, <3>1 DEF JobOK, Cause, Verdict
    <2>3. QED
      BY <2>2 DEF SettledForCause, Contested
  <1>2. QED
    BY <1>1, SettlementInit, SettlementStep, PTL DEF Spec

\* No replacement stands beside work that can still be paid, even while the
\* refund it was posted on has not been mined.  It takes no assumption about
\* receipts: the resolution passed its simulation, so the job was in dispute.
THEOREM SettlementReplacedOnlyInDispute == Spec => []ReplacedOnlyInDispute
  <1>1. ASSUME SettlementInv PROVE ReplacedOnlyInDispute
    <2> SUFFICES ASSUME NEW j \in JobId, SpecOf(j).parent # 0
                 PROVE  \E i \in JobId :
                          jobs[i].specHash = SpecOf(j).parent /\ jobs[i].status \in Contested
      BY DEF ReplacedOnlyInDispute, Contested
    <2>1. PICK s : s = jobs[j].specHash
      OBVIOUS
    <2>2. s \in SpecId /\ specs[s].parent # 0
      BY <1>1, <2>1 DEF SettlementInv, Jobs, JobOK, SpecOf
    <2>3. PICK k \in JobId : Replaced(specs[s].parent, k, s)
      BY <1>1, <2>2 DEF SettlementInv, Rows, LineOK
    <2>4. QED
      BY <2>1, <2>3 DEF Replaced, SpecOf
  <1>2. QED
    BY <1>1, SettlementInit, SettlementStep, PTL DEF Spec

\* Provided a call the code takes for done is done, a worker whose delivery was
\* failed and replaced gets no later replacement of that work, however many
\* reposts lie between: each row blocks all whom the rows before it blocked.
THEOREM SettlementFailedWorkerNeverReturns ==
  OutcomeKnown => (Spec => []FailedWorkerNeverReturns)
  <1> SUFFICES ASSUME OutcomeKnown PROVE Spec => []FailedWorkerNeverReturns
    OBVIOUS
  <1>1. ASSUME SettlementInv PROVE FailedWorkerNeverReturns
    <2> SUFFICES ASSUME NEW i \in JobId, NEW j \in JobId, i # j, PostedOnce(jobs[i].specHash),
                        jobs[i].specHash \in Lineage[jobs[j].specHash],
                        jobs[i].resultHash = Delivered
                 PROVE  jobs[j].worker # jobs[i].worker
      BY DEF FailedWorkerNeverReturns
    <2>1. PICK a, s : a = jobs[i].specHash /\ s = jobs[j].specHash
      OBVIOUS
    <2>2. s \in SpecId /\ a \in Lineage[s] /\ jobs[j].worker \notin specs[s].failedWorkerIds
      BY <1>1, <2>1 DEF SettlementInv, Jobs, JobOK
    <2>3. a # s
      BY <2>1 DEF PostedOnce
    <2>4. PICK k \in JobId : Replaced(a, k, s)
      BY <1>1, <2>2, <2>3, LineageIsReplaced
    <2>5. k = i
      BY <2>1, <2>4 DEF Replaced, PostedOnce
    <2>6. PICK w \in specs[s].failedWorkerIds : WorkedOn(a, w)
      BY <2>4, <2>5 DEF Replaced
    <2>7. PICK l \in JobId : jobs[l].specHash = a /\ jobs[l].worker = w
      BY <2>6 DEF WorkedOn
    <2>8. l = i
      BY <2>1, <2>7 DEF PostedOnce
    <2>9. QED
      BY <2>2, <2>6, <2>7, <2>8
  <1>2. QED
    BY <1>1, SettlementInit, SettlementStep, PTL DEF Spec
=============================================================================

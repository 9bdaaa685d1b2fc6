------------------------- MODULE LaborMarketProofs --------------------------
(***************************************************************************)
(* The labour market's theorems, for every set of callers, bounties, jobs  *)
(* and every width of the token's integers.                                *)
(***************************************************************************)
EXTENDS LaborMarket, SequenceTheorems, FiniteSetTheorems, FunctionTheorems, TLAPS

JobRecord == Job(Bounty, Score)

\* The record of an existing job has its type.
LEMMA JobType ==
  ASSUME TypeOK, NEW j \in JobId
  PROVE  jobs[j] \in JobRecord
  BY ElementOfSeq DEF TypeOK, JobId, jobCount, JobRecord

\* Replacing one job's record by another of the right type keeps the type.
LEMMA JobReplaced ==
  ASSUME TypeOK, NEW j \in JobId, NEW job \in JobRecord,
         jobs' = [jobs EXCEPT ![j] = job]
  PROVE  /\ jobs' \in Seq(JobRecord)
         /\ Len(jobs') = Len(jobs)
         /\ jobs'[j] = job
         /\ \A k \in JobId : k # j => jobs'[k] = jobs[k]
  BY ExceptSeq DEF TypeOK, JobId, jobCount, JobRecord

\* A transfer keeps the token's types, whoever makes it.
LEMMA TransferType ==
  ASSUME TokenTypeOK, NEW from \in Account, NEW to \in Account,
         NEW amount \in Uint, Transfer(from, to, amount)
  PROVE  TokenTypeOK'
  BY MaxUintAssumption DEF TokenTypeOK, Transfer, Uint

\* A step of the market is made by one account on one job.
Touches(j) ==
  \/ \E w \in Caller : AcceptJob(w, j)
  \/ \E w \in Caller, result \in Result : SubmitWork(w, j, result)
  \/ \E r \in Caller : ApproveJob(r, j) \/ RaiseDispute(r, j) \/ CancelJob(r, j)
  \/ \E a \in Caller, releaseToWorker \in BOOLEAN : ResolveDispute(a, j, releaseToWorker)

LEMMA NextCases ==
  ASSUME Next
  PROVE  \/ TokenStep
         \/ RegistryStep
         \/ \E r \in Caller, bounty \in Bounty, minScore \in Score, h \in SpecHash :
              PostJob(r, bounty, minScore, h)
         \/ \E j \in JobId : Touches(j)
  BY DEF Next, MarketStep, Touches

\* What a call on an existing job does to its record.
LEMMA TouchedJob ==
  ASSUME TypeOK, NEW j \in JobId, Touches(j)
  PROVE  /\ \E job \in JobRecord : jobs' = [jobs EXCEPT ![j] = job]
         /\ jobs'[j].requester = jobs[j].requester
         /\ jobs'[j].bounty = jobs[j].bounty
         /\ jobs[j].status \notin Settled
         /\ \/ jobs[j].status = "Open" /\ jobs'[j].status = "Accepted"
                 /\ jobs'[j].worker \in Caller /\ jobs'[j].worker # jobs[j].requester
                 /\ jobs'[j].resultHash = jobs[j].resultHash
            \/ jobs[j].status = "Accepted" /\ jobs'[j].status = "Submitted"
                 /\ jobs'[j].worker = jobs[j].worker /\ jobs'[j].resultHash \in Result
            \/ /\ \/ jobs[j].status = "Open" /\ jobs'[j].status = "Cancelled"
                  \/ jobs[j].status = "Submitted" /\ jobs'[j].status \in {"Completed", "Disputed"}
                  \/ jobs[j].status = "Disputed" /\ jobs'[j].status \in {"Completed", "Refunded"}
               /\ jobs'[j].worker = jobs[j].worker
               /\ jobs'[j].resultHash = jobs[j].resultHash
         /\ \/ jobs'[j].status \notin Settled /\ UNCHANGED tokenVars
            \/ jobs'[j].status = "Completed" /\ Transfer(Market, jobs[j].worker, jobs[j].bounty)
            \/ jobs'[j].status \in {"Cancelled", "Refunded"}
                 /\ Transfer(Market, jobs[j].requester, jobs[j].bounty)
  <1>1. jobs[j] \in JobRecord
    BY JobType
  <1>2. jobs \in Seq(JobRecord) /\ DOMAIN jobs = 1 .. Len(jobs) /\ j \in DOMAIN jobs
    BY LenProperties DEF TypeOK, JobRecord, JobId, jobCount
  <1>3. ASSUME NEW w \in Caller, AcceptJob(w, j)
        PROVE  jobs' = [jobs EXCEPT ![j] = [jobs[j] EXCEPT !.worker = w, !.status = "Accepted"]]
               /\ jobs[j].status = "Open" /\ w # jobs[j].requester /\ UNCHANGED tokenVars
    BY <1>2, <1>3 DEF AcceptJob, Accepted, CanAccept
  <1>4. ASSUME NEW w \in Caller, NEW result \in Result, SubmitWork(w, j, result)
        PROVE  jobs' = [jobs EXCEPT ![j] = [jobs[j] EXCEPT !.resultHash = result,
                                                           !.status = "Submitted"]]
               /\ jobs[j].status = "Accepted" /\ UNCHANGED tokenVars
    BY <1>2, <1>4 DEF SubmitWork, Submitted, CanSubmit
  <1>5. ASSUME \/ \E r \in Caller : ApproveJob(r, j) \/ RaiseDispute(r, j) \/ CancelJob(r, j)
               \/ \E a \in Caller, release \in BOOLEAN : ResolveDispute(a, j, release)
        PROVE  \E s \in Status :
                 /\ jobs' = [jobs EXCEPT ![j] = [jobs[j] EXCEPT !.status = s]]
                 /\ \/ jobs[j].status = "Open" /\ s = "Cancelled"
                    \/ jobs[j].status = "Submitted" /\ s \in {"Completed", "Disputed"}
                    \/ jobs[j].status = "Disputed" /\ s \in {"Completed", "Refunded"}
                 /\ \/ s = "Disputed" /\ UNCHANGED tokenVars
                    \/ s = "Completed" /\ Transfer(Market, jobs[j].worker, jobs[j].bounty)
                    \/ s \in {"Cancelled", "Refunded"} /\ Transfer(Market, jobs[j].requester, jobs[j].bounty)
    BY <1>2, <1>5 DEF ApproveJob, Approved, CanApprove, RaiseDispute, Disputed, CanDispute,
                 CancelJob, Cancelled, CanCancel, ResolveDispute, Resolved, CanResolve,
                 SetStatus, Status
  <1>6. CASE \E w \in Caller : AcceptJob(w, j)
    <2>1. PICK w \in Caller : AcceptJob(w, j)
      BY <1>6
    <2> DEFINE job == [jobs[j] EXCEPT !.worker = w, !.status = "Accepted"]
    <2>2. job \in JobRecord
      BY <1>1 DEF JobRecord, Job, Status
    <2>3. jobs'[j] = job /\ jobs' = [jobs EXCEPT ![j] = job] /\ jobs[j].status = "Open"
          /\ w # jobs[j].requester /\ UNCHANGED tokenVars
      BY <1>3, <2>1, <2>2, JobReplaced
    <2>4. /\ job.requester = jobs[j].requester /\ job.bounty = jobs[j].bounty
          /\ job.resultHash = jobs[j].resultHash
          /\ job.worker = w /\ job.status = "Accepted"
      BY <1>1 DEF JobRecord, Job
    <2>5. QED
      BY <2>2, <2>3, <2>4 DEF Settled
  <1>7. CASE \E w \in Caller, result \in Result : SubmitWork(w, j, result)
    <2>1. PICK w \in Caller, result \in Result : SubmitWork(w, j, result)
      BY <1>7
    <2> DEFINE job == [jobs[j] EXCEPT !.resultHash = result, !.status = "Submitted"]
    <2>2. job \in JobRecord
      BY <1>1 DEF JobRecord, Job, Status
    <2>3. jobs'[j] = job /\ jobs' = [jobs EXCEPT ![j] = job] /\ jobs[j].status = "Accepted"
          /\ UNCHANGED tokenVars
      BY <1>4, <2>1, <2>2, JobReplaced
    <2>4. /\ job.requester = jobs[j].requester /\ job.bounty = jobs[j].bounty
          /\ job.worker = jobs[j].worker
          /\ job.resultHash = result /\ job.status = "Submitted"
      BY <1>1 DEF JobRecord, Job
    <2>5. QED
      BY <2>2, <2>3, <2>4 DEF Settled
  <1>8. CASE \/ \E r \in Caller : ApproveJob(r, j) \/ RaiseDispute(r, j) \/ CancelJob(r, j)
             \/ \E a \in Caller, release \in BOOLEAN : ResolveDispute(a, j, release)
    <2>1. PICK s \in Status :
                 /\ jobs' = [jobs EXCEPT ![j] = [jobs[j] EXCEPT !.status = s]]
                 /\ \/ jobs[j].status = "Open" /\ s = "Cancelled"
                    \/ jobs[j].status = "Submitted" /\ s \in {"Completed", "Disputed"}
                    \/ jobs[j].status = "Disputed" /\ s \in {"Completed", "Refunded"}
                 /\ \/ s = "Disputed" /\ UNCHANGED tokenVars
                    \/ s = "Completed" /\ Transfer(Market, jobs[j].worker, jobs[j].bounty)
                    \/ s \in {"Cancelled", "Refunded"} /\ Transfer(Market, jobs[j].requester, jobs[j].bounty)
      BY <1>5, <1>8
    <2> DEFINE job == [jobs[j] EXCEPT !.status = s]
    <2>2. job \in JobRecord
      BY <1>1 DEF JobRecord, Job
    <2>3. jobs'[j] = job
      BY <2>1, <2>2, JobReplaced
    <2>4. /\ job.requester = jobs[j].requester /\ job.bounty = jobs[j].bounty
          /\ job.worker = jobs[j].worker /\ job.resultHash = jobs[j].resultHash
          /\ job.status = s
      BY <1>1 DEF JobRecord, Job
    <2>5. QED
      BY <2>1, <2>2, <2>3, <2>4 DEF Settled
  <1>9. QED
    BY <1>6, <1>7, <1>8 DEF Touches

-----------------------------------------------------------------------------
\* Posting appends one open job and leaves the others alone.
LEMMA PostedJob ==
  ASSUME TypeOK, NEW r \in Caller, NEW bounty \in Bounty, NEW minScore \in Score,
         NEW h \in SpecHash, PostJob(r, bounty, minScore, h)
  PROVE  /\ jobs' \in Seq(JobRecord)
         /\ Len(jobs') = Len(jobs) + 1
         /\ \A j \in JobId : jobs'[j] = jobs[j]
         /\ jobs'[Len(jobs) + 1].bounty = bounty
         /\ jobs'[Len(jobs) + 1].status = "Open"
         /\ jobs'[Len(jobs) + 1].worker = NoWorker
         /\ jobs'[Len(jobs) + 1].resultHash = NoResult
  <1> DEFINE job == [requester |-> r, worker |-> NoWorker, bounty |-> bounty,
                     minScore |-> minScore, status |-> "Open", specHash |-> h,
                     resultHash |-> NoResult]
  <1>1. job \in JobRecord
    BY DEF JobRecord, Job, Status
  <1>2. jobs \in Seq(JobRecord) /\ jobs' = Append(jobs, job)
    BY DEF TypeOK, JobRecord, PostJob, Posted
  <1>3. QED
    BY <1>1, <1>2, AppendProperties DEF JobId, jobCount

\* TypeOK is not inductive: a release pays the recorded worker, which is an
\* account only because a submitted job has one.
IInv == TypeOK /\ PartiesRecorded

\* Nobody works on a job of his own.
WorkerIsAnother == \A j \in JobId : jobs[j].worker # jobs[j].requester

LEMMA TypeStep == IInv /\ [Next]_vars => TypeOK'
  <1> SUFFICES ASSUME IInv, [Next]_vars PROVE TypeOK'
    OBVIOUS
  <1> USE DEF IInv, TypeOK
  <1>1. CASE TokenStep
    <2>1. TokenTypeOK'
      <3>1. ASSUME NEW to \in Account, Mint(to, 1)
            PROVE  TokenTypeOK'
        BY <3>1, MaxUintAssumption DEF Mint, TokenTypeOK, Uint
      <3>2. ASSUME NEW from \in Caller, NEW to \in Account, NEW amount \in Bounty,
                   Transfer(from, to, amount)
            PROVE  TokenTypeOK'
        BY <3>2, MarketAssumption, TransferType
      <3>3. QED
        BY <1>1, <3>1, <3>2 DEF TokenStep
    <2>2. QED
      BY <1>1, <2>1 DEF TokenStep, registryVars, RegistryTypeOK
  <1>2. CASE RegistryStep
    BY <1>2 DEF RegistryStep, SetLimit, SetOracle, tokenVars, TokenTypeOK, RegistryTypeOK
  <1>3. ASSUME NEW r \in Caller, NEW bounty \in Bounty, NEW minScore \in Score,
               NEW h \in SpecHash, PostJob(r, bounty, minScore, h)
        PROVE  TypeOK'
    <2>1. TokenTypeOK'
      BY <1>3, MarketAssumption, TransferType DEF PostJob
    <2>2. QED
      BY <1>3, <2>1, PostedJob DEF PostJob, registryVars, RegistryTypeOK, JobRecord
  <1>4. ASSUME NEW j \in JobId, Touches(j)
        PROVE  TypeOK'
    <2>1. jobs' \in Seq(JobRecord)
      BY <1>4, TouchedJob, JobReplaced
    <2>2. /\ jobs[j].bounty \in Uint /\ jobs[j].requester \in Account
          /\ jobs[j].status \in {"Submitted", "Disputed"} => jobs[j].worker \in Account
      BY JobType, MarketAssumption DEF JobRecord, Job, PartiesRecorded
    <2>3. \/ UNCHANGED tokenVars
          \/ \E to \in Account : Transfer(Market, to, jobs[j].bounty)
      BY <1>4, <2>2 DEF Touches, AcceptJob, SubmitWork, ApproveJob, RaiseDispute,
         CancelJob, ResolveDispute, Approved, CanApprove, Resolved, CanResolve
    <2>4. TokenTypeOK'
      BY <2>2, <2>3, MarketAssumption, TransferType DEF tokenVars, TokenTypeOK
    <2>5. QED
      BY <1>4, <2>1, <2>4 DEF Touches, AcceptJob, SubmitWork, ApproveJob, RaiseDispute,
           CancelJob, ResolveDispute, registryVars, RegistryTypeOK, JobRecord
  <1>5. CASE UNCHANGED vars
    BY <1>5 DEF vars, TokenTypeOK, RegistryTypeOK
  <1>6. QED
    BY <1>1, <1>2, <1>3, <1>4, <1>5, NextCases

\* Workers and results are recorded when they should be, after every step.
LEMMA PartiesStep == IInv /\ [Next]_vars => PartiesRecorded'
  <1> SUFFICES ASSUME IInv, [Next]_vars, NEW j \in JobId' PROVE
        /\ (jobs[j].worker = NoWorker <=> jobs[j].status \in {"Open", "Cancelled"})'
        /\ (jobs[j].resultHash = NoResult
              <=> jobs[j].status \in {"Open", "Cancelled", "Accepted"})'
    BY DEF PartiesRecorded
  <1>1. CASE UNCHANGED jobs
    BY <1>1 DEF IInv, PartiesRecorded, JobId, jobCount
  <1>2. ASSUME NEW r \in Caller, NEW bounty \in Bounty, NEW minScore \in Score,
               NEW h \in SpecHash, PostJob(r, bounty, minScore, h)
        PROVE  \/ j \in JobId /\ jobs'[j] = jobs[j]
               \/ jobs'[j].status = "Open" /\ jobs'[j].worker = NoWorker
                    /\ jobs'[j].resultHash = NoResult
    BY <1>2, PostedJob, LenProperties DEF IInv, TypeOK, JobId, jobCount
  <1>3. ASSUME NEW k \in JobId, Touches(k), j # k
        PROVE  j \in JobId /\ jobs'[j] = jobs[j]
    BY <1>3, TouchedJob, JobReplaced DEF IInv, JobId, jobCount
  <1>4. ASSUME Touches(j), j \in JobId
        PROVE  /\ jobs'[j].worker = NoWorker <=> jobs'[j].status \in {"Open", "Cancelled"}
               /\ jobs'[j].resultHash = NoResult
                    <=> jobs'[j].status \in {"Open", "Cancelled", "Accepted"}
    BY <1>4, TouchedJob, MarketAssumption DEF IInv, PartiesRecorded
  <1>5. QED
    BY <1>1, <1>2, <1>3, <1>4, NextCases
       DEF IInv, PartiesRecorded, TokenStep, RegistryStep, vars

LEMMA IInvInit == Init => IInv
  BY MaxUintAssumption, MarketAssumption
     DEF Init, IInv, TypeOK, TokenInit, TokenTypeOK, RegistryInit, RegistryTypeOK, Uint,
         PartiesRecorded, JobId, jobCount

\* The market's state always has its type, and every job that may still pay
\* its worker names one.
THEOREM MarketTypeOK == Spec => [](TypeOK /\ PartiesRecorded)
  <1>1. IInv /\ [Next]_vars => IInv'
    BY TypeStep, PartiesStep DEF IInv
  <1>2. QED
    BY <1>1, IInvInit, PTL DEF Spec, IInv

\* What two parties agreed on stands until the job settles, and a settled job
\* stands for ever, whoever calls the contract in whatever order.
THEOREM MarketAgreement == Spec => AgreementIsBinding
  <1>1. IInv /\ [Next]_vars => [\A j \in JobId : AgreementStands(j)]_vars
    <2> SUFFICES ASSUME IInv, [Next]_vars, NEW j \in JobId PROVE AgreementStands(j)
      OBVIOUS
    <2>1. CASE UNCHANGED jobs
      BY <2>1 DEF AgreementStands
    <2>2. ASSUME NEW r \in Caller, NEW bounty \in Bounty, NEW minScore \in Score,
                 NEW h \in SpecHash, PostJob(r, bounty, minScore, h)
          PROVE  jobs'[j] = jobs[j]
      BY <2>2, PostedJob DEF IInv
    <2>3. ASSUME NEW k \in JobId, Touches(k), j # k
          PROVE  jobs'[j] = jobs[j]
      BY <2>3, TouchedJob, JobReplaced DEF IInv
    <2>4. ASSUME Touches(j)
          PROVE  AgreementStands(j)
      BY <2>4, TouchedJob DEF IInv, PartiesRecorded, AgreementStands
    <2>5. QED
      BY <2>1, <2>2, <2>3, <2>4, NextCases DEF TokenStep, RegistryStep, vars, AgreementStands
  <1>2. QED
    BY <1>1, MarketTypeOK, PTL DEF Spec, IInv, AgreementIsBinding

\* Without its money the contract is the table of jobs that the models of the
\* off-chain code take its side from (LaborJobs).
THEOREM MarketImplementsJobs == Spec => JobsSpec(Bounty, Score)
  <1>1. Init => JobsInit(Bounty, Score)
    BY DEF Init, JobsInit, JobId, jobCount
  <1>2. ASSUME NEW c \in Caller, MarketStep(c) PROVE JobCall(c, Bounty, Score)
    BY <1>2 DEF MarketStep, JobCall, PostJob, AcceptJob, SubmitWork, ApproveJob, RaiseDispute,
                ResolveDispute, CancelJob
  <1>3. [Next]_vars => [\E c \in Caller : JobCall(c, Bounty, Score)]_jobs
    BY <1>2 DEF Next, TokenStep, RegistryStep, vars
  <1>4. QED
    BY <1>1, <1>3, PTL DEF Spec, JobsSpec

LEMMA WorkerIsAnotherHolds == Spec => []WorkerIsAnother
  <1>1. Init => WorkerIsAnother
    BY DEF Init, WorkerIsAnother, JobId, jobCount
  <1>2. IInv /\ WorkerIsAnother /\ [Next]_vars => WorkerIsAnother'
    <2> SUFFICES ASSUME IInv, WorkerIsAnother, [Next]_vars, NEW j \in JobId'
                 PROVE  jobs'[j].worker # jobs'[j].requester
      BY DEF WorkerIsAnother
    <2>1. CASE UNCHANGED jobs
      BY <2>1 DEF WorkerIsAnother, JobId, jobCount
    <2>2. ASSUME NEW r \in Caller, NEW bounty \in Bounty, NEW minScore \in Score,
                 NEW h \in SpecHash, PostJob(r, bounty, minScore, h)
          PROVE  jobs'[j].worker # jobs'[j].requester
      <3>1. CASE j \in JobId
        BY <2>2, <3>1, PostedJob DEF IInv, WorkerIsAnother
      <3>2. CASE j \notin JobId
        <4>1. /\ j = Len(jobs) + 1 /\ jobs' \in Seq(JobRecord)
              /\ j \in 1 .. Len(jobs') /\ jobs'[j].worker = NoWorker
          BY <2>2, <3>2, PostedJob, LenProperties DEF IInv, TypeOK, JobId, jobCount
        <4>2. jobs'[j] \in JobRecord
          BY <4>1, ElementOfSeq
        <4>3. QED
          BY <4>1, <4>2, MarketAssumption DEF JobRecord, Job
      <3>3. QED
        BY <3>1, <3>2
    <2>3. ASSUME NEW k \in JobId, Touches(k)
          PROVE  jobs'[j].worker # jobs'[j].requester
      <3>1. j \in JobId /\ (j # k => jobs'[j] = jobs[j])
        BY <2>3, TouchedJob, JobReplaced DEF IInv, JobId, jobCount
      <3>2. CASE j # k
        BY <3>1, <3>2 DEF WorkerIsAnother
      <3>3. CASE j = k
        BY <2>3, <3>1, <3>3, TouchedJob DEF IInv, WorkerIsAnother
      <3>4. QED
        BY <3>2, <3>3
    <2>4. QED
      BY <2>1, <2>2, <2>3, NextCases DEF TokenStep, RegistryStep, vars
  <1>3. QED
    BY <1>1, <1>2, MarketTypeOK, PTL DEF Spec, IInv

\* From the acceptance on, a step that moves a job on and makes its requester
\* richer is the arbiter's refund of a delivery in dispute.  Without
\* WorkerIsAnother an approval could be a payment to oneself.
THEOREM MarketNoUnilateralRefund == Spec => NoUnilateralRefund
  <1> DEFINE Refunds(j) ==
        /\ jobs[j].worker # NoWorker
        /\ jobs'[j].status # jobs[j].status
        /\ balanceOf'[jobs[j].requester] > balanceOf[jobs[j].requester]
  <1>1. IInv /\ WorkerIsAnother /\ [Next]_vars
          => [\A j \in JobId :
                Refunds(j) => jobs[j].status = "Disputed" /\ jobs[j].resultHash # NoResult]_vars
    <2> SUFFICES ASSUME IInv, WorkerIsAnother, [Next]_vars, NEW j \in JobId, Refunds(j)
                 PROVE  jobs[j].status = "Disputed" /\ jobs[j].resultHash # NoResult
      OBVIOUS
    <2>1. Touches(j)
      <3>1. ASSUME NEW k \in JobId, Touches(k), j # k
            PROVE  jobs'[j] = jobs[j]
        BY <3>1, TouchedJob, JobReplaced DEF IInv
      <3>2. QED
        BY <3>1, NextCases, PostedJob DEF TokenStep, RegistryStep, vars, IInv
    <2>2. /\ jobs[j].requester \in Account /\ jobs[j].requester # Market
          /\ jobs[j].bounty \in Uint
          /\ jobs[j].worker \in Account /\ jobs[j].worker # Market
          /\ jobs[j].worker # jobs[j].requester
          /\ jobs[j].status \notin {"Open", "Cancelled"}
      BY JobType, MarketAssumption
         DEF JobRecord, Job, IInv, PartiesRecorded, WorkerIsAnother
    <2>3. balanceOf \in [Account -> Uint]
      BY DEF IInv, TypeOK, TokenTypeOK
    <2>4. ~ UNCHANGED tokenVars
      BY <2>2, <2>3, MaxUintAssumption DEF tokenVars, Uint
    <2>5. ~ Transfer(Market, jobs[j].worker, jobs[j].bounty)
      BY <2>2, <2>3, MarketAssumption, MaxUintAssumption DEF Transfer, Uint
    <2>6. jobs'[j].status \in {"Cancelled", "Refunded"}
      BY <2>1, <2>4, <2>5, TouchedJob DEF IInv
    <2>7. jobs[j].status = "Disputed"
      BY <2>1, <2>2, <2>6, TouchedJob DEF IInv
    <2>8. QED
      BY <2>7 DEF IInv, PartiesRecorded
  <1>2. QED
    BY <1>1, MarketTypeOK, WorkerIsAnotherHolds, PTL DEF Spec, IInv, NoUnilateralRefund

-----------------------------------------------------------------------------
\* The jobs as the abstract escrow sees them.
DealsOf(js) == [j \in 1 .. Len(js) |-> DealOf(js[j])]

LEMMA DealsType ==
  ASSUME NEW js \in Seq(JobRecord)
  PROVE  /\ Len(js) \in Nat
         /\ DealsOf(js) \in Seq([amount : Uint, to : Account \cup {NoWorker}])
         /\ Len(DealsOf(js)) = Len(js)
  <1>1. Len(js) \in Nat
    BY LenProperties
  <1>2. ASSUME NEW j \in 1 .. Len(js)
        PROVE  DealOf(js[j]) \in [amount : Uint, to : Account \cup {NoWorker}]
    <2>1. js[j] \in JobRecord
      BY ElementOfSeq
    <2>2. /\ js[j].bounty \in Uint /\ js[j].requester \in Account
          /\ js[j].worker \in Account \cup {NoWorker}
      BY <2>1, MarketAssumption DEF JobRecord, Job
    <2>3. QED
      BY <2>2 DEF DealOf, Payee
  <1>3. QED
    BY <1>1, <1>2 DEF DealsOf

\* A post is a deposit by the requester.
LEMMA PostIsDeposit ==
  ASSUME IInv, NEW r \in Caller, NEW bounty \in Bounty,
         NEW minScore \in Score, NEW h \in SpecHash, PostJob(r, bounty, minScore, h),
         TokenTypeOK'
  PROVE  E!Deposit(r, bounty)
  <1> DEFINE S == [amount : Uint, to : Account \cup {NoWorker}]
             deal == [amount |-> bounty, to |-> NoWorker]
  <1>1. E!Shift(r, Market, bounty)
    BY MarketAssumption DEF E!Shift, PostJob, Transfer, IInv, TypeOK, TokenTypeOK
  <1>2. jobs \in Seq(JobRecord) /\ jobs' \in Seq(JobRecord)
        /\ Len(jobs') = Len(jobs) + 1
    BY PostedJob DEF IInv, TypeOK, JobRecord
  <1>3. /\ DealsOf(jobs) \in Seq(S) /\ Len(DealsOf(jobs)) = Len(jobs)
        /\ DealsOf(jobs') \in Seq(S) /\ Len(DealsOf(jobs')) = Len(jobs) + 1
        /\ Len(jobs) \in Nat /\ deal \in S
    BY <1>2, DealsType, MarketAssumption
  <1>4. ASSUME NEW j \in 1 .. Len(jobs) + 1
        PROVE  DealsOf(jobs')[j] = Append(DealsOf(jobs), deal)[j]
    <2>1. CASE j = Len(jobs) + 1
      BY <1>2, <1>3, <2>1, PostedJob, AppendProperties DEF DealsOf, DealOf, Payee, IInv
    <2>2. CASE j # Len(jobs) + 1
      <3>1. j \in 1 .. Len(jobs) /\ jobs'[j] = jobs[j]
        BY <1>3, <2>2, PostedJob DEF IInv, JobId, jobCount
      <3>2. Append(DealsOf(jobs), deal)[j] = DealsOf(jobs)[j]
        BY <1>3, <3>1, AppendProperties
      <3>3. QED
        BY <1>2, <1>3, <3>1, <3>2 DEF DealsOf
    <2>3. QED
      BY <2>1, <2>2
  <1>5. DealsOf(jobs') = Append(DealsOf(jobs), deal)
    BY <1>3, <1>4, AppendProperties, SeqEqual
  <1>6. Len(DealsOf(jobs)) < MaxJobs
    BY <1>3 DEF PostJob, jobCount
  <1>7. QED
    BY <1>1, <1>5, <1>6 DEF E!Deposit, DealsOf, JobId, jobCount

\* A call on an existing job either settles it, which closes its deal with the
\* payment the contract makes, or moves neither money nor deal.
LEMMA TouchIsCloseOrNothing ==
  ASSUME IInv, NEW j \in JobId, Touches(j), TokenTypeOK'
  PROVE  \/ \E to \in Account : E!Close(j, to)
         \/ UNCHANGED E!vars
  <1> DEFINE S == [amount : Uint, to : Account \cup {NoWorker}]
  <1>1. PICK job \in JobRecord : jobs' = [jobs EXCEPT ![j] = job]
    BY TouchedJob DEF IInv
  <1>2. /\ jobs \in Seq(JobRecord) /\ jobs' \in Seq(JobRecord)
        /\ Len(jobs') = Len(jobs) /\ j \in 1 .. Len(jobs) /\ jobs'[j] = job
        /\ \A k \in 1 .. Len(jobs) : k # j => jobs'[k] = jobs[k]
    BY <1>1, JobReplaced DEF IInv, TypeOK, JobRecord, JobId, jobCount
  <1>3. /\ DealsOf(jobs) \in Seq(S) /\ Len(DealsOf(jobs)) = Len(jobs)
        /\ DealsOf(jobs') \in Seq(S) /\ Len(DealsOf(jobs')) = Len(jobs)
    BY <1>2, DealsType
  <1>4. /\ jobs[j].bounty \in Uint /\ job.bounty = jobs[j].bounty
        /\ jobs[j].requester \in Caller /\ job.requester = jobs[j].requester
        /\ jobs[j].status \notin Settled
        /\ jobs[j].status \in {"Submitted", "Disputed"} => jobs[j].worker \in Caller
        /\ jobs[j].status # "Open" => job.worker = jobs[j].worker
    BY <1>2, JobType, TouchedJob, MarketAssumption
       DEF IInv, JobRecord, Job, PartiesRecorded, JobId, jobCount
  <1>5. DealsOf(jobs') = [DealsOf(jobs) EXCEPT ![j] = DealOf(job)]
    BY <1>2, <1>3 DEF DealsOf
  <1>6. DealsOf(jobs)[j] = [amount |-> jobs[j].bounty, to |-> NoWorker]
    BY <1>2, <1>4 DEF DealsOf, DealOf, Payee, Settled
  <1>7. CASE job.status \notin Settled
    <2>1. DealOf(job) = DealsOf(jobs)[j]
      BY <1>4, <1>6, <1>7 DEF DealOf, Payee, Settled
    <2>2. DealsOf(jobs') = DealsOf(jobs)
      BY <1>2, <1>3, <1>5, <2>1 DEF DealsOf
    <2>3. UNCHANGED balanceOf
      BY <1>2, <1>7, TouchedJob DEF IInv, Settled, tokenVars
    <2>4. QED
      BY <2>2, <2>3 DEF E!vars, DealsOf, JobId, jobCount
  <1>8. CASE job.status \in Settled
    <2>1. \/ job.status = "Completed" /\ Transfer(Market, jobs[j].worker, jobs[j].bounty)
             /\ jobs[j].status \in {"Submitted", "Disputed"}
          \/ job.status # "Completed" /\ Transfer(Market, jobs[j].requester, jobs[j].bounty)
      BY <1>2, <1>8, TouchedJob DEF IInv, Settled
    <2>2. PICK to \in Caller : Transfer(Market, to, jobs[j].bounty) /\ to = Payee(job)
      BY <1>4, <1>8, <2>1 DEF Payee, Settled
    <2>3. E!Shift(Market, to, jobs[j].bounty)
      BY <2>2, MarketAssumption DEF E!Shift, Transfer, TokenTypeOK
    <2>4. DealOf(job) = [DealsOf(jobs)[j] EXCEPT !.to = to]
      BY <1>4, <1>6, <2>2 DEF DealOf
    <2>5. DealsOf(jobs') = [DealsOf(jobs) EXCEPT ![j] = [DealsOf(jobs)[j] EXCEPT !.to = to]]
      BY <1>5, <2>4
    <2>6. /\ [k \in JobId |-> DealOf(jobs[k])] = DealsOf(jobs)
          /\ [k \in JobId |-> DealOf(jobs[k])]' = DealsOf(jobs')
      BY DEF DealsOf, JobId, jobCount
    <2>7. DealsOf(jobs)[j].to = NoWorker /\ DealsOf(jobs)[j].amount = jobs[j].bounty
      BY <1>6
    <2>8. DealsOf(jobs') = [DealsOf(jobs) EXCEPT ![j].to = to]
      BY <2>5
    <2>9. E!Close(j, to)
      BY <2>3, <2>6, <2>7, <2>8 DEF E!Close
    <2>10. QED
      BY <2>9, MarketAssumption
  <1>9. QED
    BY <1>7, <1>8

-----------------------------------------------------------------------------
\* Every behaviour of the market is a behaviour of the abstract escrow: a bounty
\* is taken once, held, and paid once and whole to the account the outcome names.
THEOREM MarketImplementsEscrow == Spec => ImplementsEscrow
  <1>1. Init => E!Init
    <2>1. Init => Len(jobs) = 0 /\ balanceOf \in [Account -> Uint]
      BY MaxUintAssumption DEF Init, TokenInit, Uint
    <2>2. Init => [j \in JobId |-> DealOf(jobs[j])] = << >>
      BY <2>1 DEF JobId, jobCount
    <2>3. QED
      BY <2>1, <2>2 DEF E!Init
  <1>2. IInv /\ IInv' /\ [Next]_vars => [E!Next]_(E!vars)
    <2> SUFFICES ASSUME IInv, IInv', [Next]_vars PROVE [E!Next]_(E!vars)
      OBVIOUS
    <2>1. TokenTypeOK /\ TokenTypeOK'
      BY DEF IInv, TypeOK
    <2>2. CASE TokenStep
      <3>1. balanceOf'[Market] >= balanceOf[Market]
        <4>1. ASSUME NEW to \in Account, Mint(to, 1)
              PROVE  balanceOf'[Market] >= balanceOf[Market]
          BY <2>1, <4>1, MarketAssumption DEF Mint, TokenTypeOK, Uint
        <4>2. ASSUME NEW from \in Caller, NEW to \in Account, NEW amount \in Bounty,
                     Transfer(from, to, amount)
              PROVE  balanceOf'[Market] >= balanceOf[Market]
          BY <2>1, <4>2, MarketAssumption DEF Transfer, TokenTypeOK, Uint
        <4>3. QED
          BY <2>2, <4>1, <4>2 DEF TokenStep
      <3>2. [j \in JobId |-> DealOf(jobs[j])]' = [j \in JobId |-> DealOf(jobs[j])]
        BY <2>2 DEF TokenStep, JobId, jobCount
      <3>3. E!Elsewhere
        BY <2>1, <3>1, <3>2 DEF E!Elsewhere, TokenTypeOK
      <3>4. QED
        BY <3>3 DEF E!Next
    <2>3. CASE RegistryStep \/ UNCHANGED vars
      BY <2>3 DEF RegistryStep, vars, tokenVars, E!vars, JobId, jobCount
    <2>4. ASSUME NEW r \in Caller, NEW bounty \in Bounty, NEW minScore \in Score,
                 NEW h \in SpecHash, PostJob(r, bounty, minScore, h)
          PROVE  E!Next
      BY <2>1, <2>4, PostIsDeposit, MarketAssumption DEF E!Next
    <2>5. ASSUME NEW j \in JobId, Touches(j)
          PROVE  E!Next \/ UNCHANGED E!vars
      <3>1. j \in 1 .. Len([k \in JobId |-> DealOf(jobs[k])])
        BY LenProperties DEF IInv, TypeOK, JobId, jobCount
      <3>2. QED
        BY <2>1, <2>5, <3>1, TouchIsCloseOrNothing DEF E!Next
    <2>6. QED
      BY <2>2, <2>3, <2>4, <2>5, NextCases
  <1>3. QED
    BY <1>1, <1>2, MarketTypeOK, PTL DEF Spec, E!Spec, IInv, ImplementsEscrow

\* The theorem about every escrow, for this one.
EP == INSTANCE EscrowProofs WITH
        Vault <- Market, Nobody <- NoWorker, Money <- Uint, MaxDeals <- MaxJobs,
        balance <- balanceOf, deals <- [j \in JobId |-> DealOf(jobs[j])]

\* The market can always pay every bounty it still holds.
THEOREM MarketEscrowCovered == Spec => []EscrowCovered
  <1>1. EP!EscrowAssumption
    BY MarketAssumption, MaxUintAssumption DEF EP!EscrowAssumption, Uint
  <1>2. EP!Spec => []EP!Covered
    BY <1>1, EP!EscrowCovers
  <1>3. ImplementsEscrow <=> EP!Spec
    BY DEF ImplementsEscrow, E!Spec, EP!Spec, E!Init, EP!Init, E!Next, EP!Next, E!vars, EP!vars,
       E!Deposit, EP!Deposit, E!Close, EP!Close, E!Elsewhere, EP!Elsewhere, E!Shift, EP!Shift
  <1>4. EP!Covered <=> EscrowCovered
    BY DEF EscrowCovered, E!Covered, EP!Covered, E!RunningTotal, EP!RunningTotal,
       E!Held, EP!Held
  <1>5. QED
    BY <1>2, <1>3, <1>4, MarketImplementsEscrow, PTL

-----------------------------------------------------------------------------
\* The units of the token, each with the one account it belongs to: the sum of
\* all balances without summing them, and without assuming how many accounts
\* there are.
Units(owner, a) == {i \in DOMAIN owner : owner[i] = a}
Backs(owner) ==
  /\ owner \in [1 .. totalSupply -> Account]
  /\ \A a \in Account : balanceOf[a] = Cardinality(Units(owner, a))
SupplyBacksBalances == \E owner \in [1 .. totalSupply -> Account] : Backs(owner)

\* A finite set has a subset of every smaller size.
LEMMA SubsetOfSize ==
  ASSUME NEW S, IsFiniteSet(S), NEW n \in Nat, n <= Cardinality(S)
  PROVE  \E T \in SUBSET S : IsFiniteSet(T) /\ Cardinality(T) = n
  <1>1. Cardinality(S) \in Nat /\ ExistsBijection(1 .. Cardinality(S), S)
    BY FS_CardinalityType
  <1>2. PICK f \in Bijection(1 .. Cardinality(S), S) : TRUE
    BY <1>1 DEF ExistsBijection
  <1> DEFINE T == {f[i] : i \in 1 .. n}
  <1>3. f \in [1 .. Cardinality(S) -> S] /\ \A i, j \in 1 .. Cardinality(S) : f[i] = f[j] => i = j
    BY <1>2 DEF Bijection, Injection, IsInjective
  <1>4. T \in SUBSET S /\ 1 .. n \subseteq 1 .. Cardinality(S)
    BY <1>1, <1>3
  <1>5. [i \in 1 .. n |-> f[i]] \in Bijection(1 .. n, T)
    <2> DEFINE g == [i \in 1 .. n |-> f[i]]
    <2>1. g \in [1 .. n -> T] /\ \A i, j \in 1 .. n : g[i] = g[j] => i = j
      BY <1>3, <1>4
    <2>2. \A t \in T : \E i \in 1 .. n : g[i] = t
      OBVIOUS
    <2>3. QED
      BY <2>1, <2>2 DEF Bijection, Injection, Surjection, IsInjective
  <1>6. ExistsBijection(1 .. n, T)
    BY <1>5 DEF ExistsBijection
  <1>7. Cardinality(T) = n /\ IsFiniteSet(T)
    BY <1>6, FS_CountingElements, FS_NatBijection
  <1>8. QED
    BY <1>4, <1>7

LEMMA CardinalityDisjoint ==
  ASSUME NEW S, NEW T, IsFiniteSet(S), IsFiniteSet(T), S \cap T = {}
  PROVE  /\ Cardinality(S) \in Nat /\ Cardinality(T) \in Nat
         /\ Cardinality(S \cup T) = Cardinality(S) + Cardinality(T)
  <1>1. Cardinality(S \cap T) = 0
    BY FS_EmptySet, Zenon
  <1>2. Cardinality(S \cup T) = Cardinality(S) + Cardinality(T) - Cardinality(S \cap T)
    BY FS_Union, Zenon
  <1>3. Cardinality(S) \in Nat /\ Cardinality(T) \in Nat
    BY FS_CardinalityType
  <1>4. QED
    BY <1>1, <1>2, <1>3

LEMMA CardinalityWithout ==
  ASSUME NEW S, NEW T \in SUBSET S, IsFiniteSet(S)
  PROVE  /\ Cardinality(S) \in Nat /\ Cardinality(T) \in Nat
         /\ Cardinality(S \ T) = Cardinality(S) - Cardinality(T)
  <1>1. S \cap T = T
    OBVIOUS
  <1>2. Cardinality(S \ T) = Cardinality(S) - Cardinality(T)
    BY <1>1, FS_Difference, Zenon
  <1>3. IsFiniteSet(T)
    BY FS_Subset
  <1>4. QED
    BY <1>2, <1>3, FS_CardinalityType

LEMMA UnitsFinite ==
  ASSUME TokenTypeOK, NEW owner \in [1 .. totalSupply -> Account], NEW a
  PROVE  IsFiniteSet(Units(owner, a)) /\ Cardinality(Units(owner, a)) \in Nat
  <1>1. IsFiniteSet(1 .. totalSupply)
    BY FS_Interval, MaxUintAssumption DEF TokenTypeOK, Uint
  <1>2. QED
    BY <1>1, FS_Subset, FS_CardinalityType DEF Units

\* No two accounts together have more than there is.
LEMMA TwoBalances ==
  ASSUME TokenTypeOK, SupplyBacksBalances, NEW a \in Account, NEW b \in Account, a # b
  PROVE  balanceOf[a] + balanceOf[b] <= totalSupply
  <1>1. PICK owner \in [1 .. totalSupply -> Account] : Backs(owner)
    BY DEF SupplyBacksBalances
  <1> DEFINE A == Units(owner, a)
             B == Units(owner, b)
  <1>2. IsFiniteSet(A) /\ IsFiniteSet(B) /\ A \cap B = {}
        /\ Cardinality(A) \in Nat /\ Cardinality(B) \in Nat
    BY UnitsFinite DEF Units
  <1>3. IsFiniteSet(1 .. totalSupply) /\ Cardinality(1 .. totalSupply) = totalSupply
        /\ totalSupply \in Nat
    BY FS_Interval, MaxUintAssumption DEF TokenTypeOK, Uint
  <1>4. Cardinality(A \cup B) <= Cardinality(1 .. totalSupply)
    <2>1. A \cup B \in SUBSET (1 .. totalSupply)
      BY DEF Units
    <2>2. QED
      BY <1>3, <2>1, FS_Subset
  <1>5. Cardinality(A \cup B) = Cardinality(A) + Cardinality(B)
    BY <1>2, CardinalityDisjoint, Zenon
  <1>6. QED
    BY <1>1, <1>3, <1>4, <1>5 DEF Backs

\* A transfer gives some of the sender's units to the recipient.
LEMMA TransferKeepsBacking ==
  ASSUME TokenTypeOK, SupplyBacksBalances, NEW from \in Account, NEW to \in Account,
         NEW amount \in Uint, Transfer(from, to, amount)
  PROVE  SupplyBacksBalances'
  <1>1. PICK owner \in [1 .. totalSupply -> Account] : Backs(owner)
    BY DEF SupplyBacksBalances
  <1>2. CASE from = to
    BY <1>1, <1>2 DEF Transfer, Backs, SupplyBacksBalances
  <1>3. CASE from # to
    <2>1. amount \in Nat /\ balanceOf \in [Account -> Nat] /\ amount <= Cardinality(Units(owner, from))
      BY <1>1, MaxUintAssumption DEF Uint, TokenTypeOK, Transfer, Backs
    <2>2. PICK T \in SUBSET Units(owner, from) : IsFiniteSet(T) /\ Cardinality(T) = amount
      BY <2>1, SubsetOfSize, UnitsFinite
    <2> DEFINE next == [i \in 1 .. totalSupply |-> IF i \in T THEN to ELSE owner[i]]
    <2>3. next \in [1 .. totalSupply -> Account]
      OBVIOUS
    <2>4. Units(next, from) = Units(owner, from) \ T /\ Units(owner, from) \cap T = T
      BY <1>3, <2>2 DEF Units
    <2>5. Units(next, to) = Units(owner, to) \cup T /\ Units(owner, to) \cap T = {}
      BY <1>3, <2>2 DEF Units
    <2>6. \A a \in Account \ {from, to} : Units(next, a) = Units(owner, a)
      BY <2>2 DEF Units
    <2>7. Cardinality(Units(next, from)) = balanceOf[from] - amount
      <3>1. Cardinality(Units(owner, from) \ T) = Cardinality(Units(owner, from)) - Cardinality(T)
        BY UnitsFinite, CardinalityWithout, Zenon
      <3>2. Cardinality(Units(next, from)) = Cardinality(Units(owner, from) \ T)
        BY <2>4, Zenon
      <3>3. QED
        BY <1>1, <2>2, <3>1, <3>2 DEF Backs
    <2>8. Cardinality(Units(next, to)) = balanceOf[to] + amount
      <3>1. Cardinality(Units(owner, to) \cup T) = Cardinality(Units(owner, to)) + Cardinality(T)
        BY <2>2, <2>5, UnitsFinite, CardinalityDisjoint, Zenon
      <3>2. Cardinality(Units(next, to)) = Cardinality(Units(owner, to) \cup T)
        BY <2>5, Zenon
      <3>3. QED
        BY <1>1, <2>2, <3>1, <3>2 DEF Backs
    <2>9. \A a \in Account : balanceOf'[a] = Cardinality(Units(next, a))
      BY <1>1, <1>3, <2>1, <2>6, <2>7, <2>8 DEF Transfer, Backs
    <2>10. totalSupply' = totalSupply
      BY DEF Transfer
    <2> HIDE DEF next
    <2>11. QED
      BY <2>3, <2>9, <2>10 DEF SupplyBacksBalances, Backs
  <1>4. QED
    BY <1>2, <1>3

\* A mint adds units that belong to the recipient.
LEMMA MintKeepsBacking ==
  ASSUME TokenTypeOK, SupplyBacksBalances, NEW to \in Account, NEW amount \in Nat,
         Mint(to, amount)
  PROVE  SupplyBacksBalances'
  <1>1. PICK owner \in [1 .. totalSupply -> Account] : Backs(owner)
    BY DEF SupplyBacksBalances
  <1>2. totalSupply \in Nat /\ balanceOf \in [Account -> Nat]
    BY MaxUintAssumption DEF TokenTypeOK, Uint
  <1> DEFINE N == totalSupply + amount
             new == totalSupply + 1 .. N
             next == [i \in 1 .. N |-> IF i \in new THEN to ELSE owner[i]]
  <1>3. next \in [1 .. N -> Account] /\ N \in Nat /\ totalSupply' = N
    BY <1>2 DEF Mint
  <1>4. Units(next, to) = Units(owner, to) \cup new /\ Units(owner, to) \cap new = {}
    BY <1>2 DEF Units
  <1>5. \A a \in Account \ {to} : Units(next, a) = Units(owner, a)
    BY <1>2 DEF Units
  <1>6. IsFiniteSet(new) /\ Cardinality(new) = amount
    <2>1. totalSupply + 1 \in Int /\ N \in Int
          /\ (IF totalSupply + 1 > N THEN 0 ELSE N - (totalSupply + 1) + 1) = amount
      BY <1>2
    <2>2. QED
      BY <2>1, FS_Interval, Zenon
  <1>7. Cardinality(Units(next, to)) = balanceOf[to] + amount
    <2>1. Cardinality(Units(owner, to) \cup new) = Cardinality(Units(owner, to)) + Cardinality(new)
      BY <1>4, <1>6, UnitsFinite, CardinalityDisjoint, Zenon
    <2>2. Cardinality(Units(next, to)) = Cardinality(Units(owner, to) \cup new)
      BY <1>4, Zenon
    <2> HIDE DEF new, next, N
    <2>3. QED
      BY <1>1, <1>6, <2>1, <2>2 DEF Backs
  <1>8. \A a \in Account : balanceOf'[a] = Cardinality(Units(next, a))
    BY <1>1, <1>2, <1>5, <1>7 DEF Mint, Backs
  <1> HIDE DEF next, N
  <1>9. QED
    BY <1>3, <1>8 DEF SupplyBacksBalances, Backs

LEMMA BackingInit == TokenInit => SupplyBacksBalances
  <1> SUFFICES ASSUME TokenInit PROVE SupplyBacksBalances
    OBVIOUS
  <1>1. totalSupply = 0 /\ 1 .. totalSupply = {}
    BY DEF TokenInit
  <1> DEFINE none == [i \in 1 .. totalSupply |-> 0]
  <1>2. none \in [1 .. totalSupply -> Account]
    BY <1>1
  <1>3. \A a \in Account : Units(none, a) = {}
    BY <1>1 DEF Units
  <1>4. \A a \in Account : balanceOf[a] = Cardinality(Units(none, a))
    BY <1>3, FS_EmptySet DEF TokenInit
  <1> HIDE DEF none
  <1>5. QED
    BY <1>2, <1>4 DEF Backs, SupplyBacksBalances

\* Every account's balance stays made of units of the one supply.
LEMMA BackingHolds == Spec => []SupplyBacksBalances
  <1>1. Init => SupplyBacksBalances
    BY BackingInit DEF Init
  <1>2. IInv /\ SupplyBacksBalances /\ [Next]_vars => SupplyBacksBalances'
    <2> SUFFICES ASSUME IInv, SupplyBacksBalances, [Next]_vars PROVE SupplyBacksBalances'
      OBVIOUS
    <2>1. TokenTypeOK /\ Market \in Account /\ Caller \subseteq Account
          /\ Bounty \subseteq Uint
      BY MarketAssumption DEF IInv, TypeOK
    <2>2. CASE TokenStep
      <3>1. ASSUME NEW to \in Account, Mint(to, 1)
            PROVE  SupplyBacksBalances'
        BY <2>1, <3>1, MintKeepsBacking
      <3>2. ASSUME NEW from \in Caller, NEW to \in Account, NEW amount \in Bounty,
                   Transfer(from, to, amount)
            PROVE  SupplyBacksBalances'
        BY <2>1, <3>2, TransferKeepsBacking
      <3>3. QED
        BY <2>2, <3>1, <3>2 DEF TokenStep
    <2>3. CASE UNCHANGED tokenVars
      BY <2>3 DEF tokenVars, SupplyBacksBalances, Backs
    <2>4. ASSUME NEW r \in Caller, NEW bounty \in Bounty, NEW minScore \in Score,
                 NEW h \in SpecHash, PostJob(r, bounty, minScore, h)
          PROVE  SupplyBacksBalances'
      BY <2>1, <2>4, TransferKeepsBacking DEF PostJob
    <2>5. ASSUME NEW j \in JobId, Touches(j)
          PROVE  SupplyBacksBalances'
      <3>1. /\ jobs[j].bounty \in Uint /\ jobs[j].requester \in Account
            /\ jobs[j].status \in {"Submitted", "Disputed"} => jobs[j].worker \in Account
        BY JobType, MarketAssumption DEF JobRecord, Job, IInv, PartiesRecorded
      <3>2. \/ UNCHANGED tokenVars
            \/ \E to \in Account : Transfer(Market, to, jobs[j].bounty)
        BY <2>5, <3>1, TouchedJob DEF IInv
      <3>3. QED
        BY <2>1, <2>3, <3>1, <3>2, TransferKeepsBacking
    <2>6. QED
      BY <2>2, <2>3, <2>4, <2>5, NextCases DEF RegistryStep, vars, tokenVars
  <1>3. QED
    BY <1>1, <1>2, MarketTypeOK, PTL DEF Spec, IInv

\* No payout of the contract ever reverts: the market holds every bounty it may
\* still have to pay, and with a checked supply no recipient can overflow.
THEOREM MarketPayoutNeverReverts == Spec => []PayoutNeverReverts
  <1>1. IInv /\ SupplyBacksBalances /\ EscrowCovered => PayoutNeverReverts
    <2> SUFFICES ASSUME IInv, SupplyBacksBalances, EscrowCovered,
                        NEW j \in JobId, jobs[j].status \notin Settled
                 PROVE  /\ balanceOf[Market] >= jobs[j].bounty
                        /\ \A a \in Caller : balanceOf[a] + jobs[j].bounty <= MaxUint
      BY DEF PayoutNeverReverts
    <2>1. jobs \in Seq(JobRecord) /\ Len(jobs) \in Nat /\ j \in 1 .. Len(jobs)
          /\ jobs[j].bounty \in Nat /\ balanceOf \in [Account -> Nat]
          /\ totalSupply \in Nat /\ totalSupply <= MaxUint
          /\ TokenTypeOK
      <3>1. jobs[j].bounty \in Uint
        BY JobType, MarketAssumption DEF IInv, JobRecord, Job
      <3>2. jobs \in Seq(JobRecord) /\ Len(jobs) \in Nat
        BY LenProperties DEF IInv, TypeOK, JobRecord
      <3>3. QED
        BY <3>1, <3>2, MaxUintAssumption DEF IInv, TypeOK, TokenTypeOK, Uint, JobId, jobCount
    <2>2. balanceOf[Market] >= jobs[j].bounty
      <3>1. /\ Len(DealsOf(jobs)) = Len(jobs)
            /\ [k \in JobId |-> DealOf(jobs[k])] = DealsOf(jobs)
        BY <2>1, DealsType DEF DealsOf, JobId, jobCount
      <3>2. PICK total \in [0 .. Len(jobs) -> 0 .. balanceOf[Market]] : E!RunningTotal(total)
        BY <3>1 DEF EscrowCovered, E!Covered
      <3>3. total[j] = total[j - 1] + E!Held(j)
        BY <2>1, <3>1, <3>2 DEF E!RunningTotal
      <3>4. E!Held(j) = jobs[j].bounty
        BY <2>1, <3>1, MarketAssumption DEF E!Held, DealOf, Payee, Settled, DealsOf
      <3>5. total[j] \in 0 .. balanceOf[Market] /\ total[j - 1] \in 0 .. balanceOf[Market]
        BY <2>1, <3>2
      <3>6. QED
        BY <2>1, <3>3, <3>4, <3>5, MarketAssumption
    <2>3. ASSUME NEW a \in Caller
          PROVE  balanceOf[a] + jobs[j].bounty <= MaxUint
      <3>1. a \in Account /\ Market \in Account /\ a # Market
        BY MarketAssumption
      <3>2. balanceOf[a] + balanceOf[Market] <= totalSupply
        BY <2>1, <3>1, TwoBalances
      <3>3. QED
        BY <2>1, <2>2, <3>1, <3>2, MaxUintAssumption
    <2>4. QED
      BY <2>2, <2>3
  <1>2. QED
    BY <1>1, MarketTypeOK, BackingHolds, MarketEscrowCovered, PTL DEF IInv
=============================================================================

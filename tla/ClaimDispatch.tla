--------------------------- MODULE ClaimDispatch ----------------------------
(***************************************************************************)
(* One posted job on its way to a worker: the off-chain claim, the accept  *)
(* on the chain and the run that is dispatched (lib/labor-dispatch.ts),    *)
(* and the mining tick that selects the job and heals a job accepted but   *)
(* never dispatched (lib/auto-mine.ts).  Capability, score and lineage are *)
(* fixed per agent: an agent here is one that may work the job.            *)
(***************************************************************************)
EXTENDS Integers, FiniteSets

CONSTANTS
  Agent,
  Nobody,
  Ticks,       \* requests that mine or accept at the same time
  TickAgent,   \* the agent each of them serves
  MaxPending,  \* bound: accepts whose receipt never came
  MaxFaults    \* bound: definite failures of a call, and ticks that die

VARIABLES
  job,         \* the job on the chain
  mempool,     \* agents with an accept that is sent and not decided
  board,       \* the snapshot of the chain that readers share
  claim,       \* claimedByAgentId, and whether claimedAt is within the TTL
  link,        \* the agent whose run agentTaskId and workerAgentId name
  runs,        \* runs dispatched to each agent
  tick,        \* what each request is doing
  unconfirmed, \* agents that once had an accept without a receipt
  faults

claimVars == <<job, mempool, board, claim, link, runs, tick, unconfirmed, faults>>

ClaimAssumption ==
  TickAgent \in [Ticks -> Agent] /\ Nobody \notin Agent /\ MaxFaults \in Nat

OpenJob == [status |-> "Open", worker |-> Nobody]
AcceptedBy(a) == [status |-> "Accepted", worker |-> a]
JobState == {OpenJob} \cup {AcceptedBy(a) : a \in Agent}
NoClaim == [by |-> Nobody, live |-> FALSE]

ClaimTypeOK ==
  /\ job \in JobState
  /\ board \in JobState
  /\ mempool \subseteq Agent
  /\ claim \in [by : Agent \cup {Nobody}, live : BOOLEAN]
  /\ claim.by = Nobody => claim = NoClaim
  /\ link \in Agent \cup {Nobody}
  /\ runs \in [Agent -> Nat]
  /\ tick \in [Ticks -> {"idle", "claim", "accept", "release", "run", "link"}]
  /\ mempool \subseteq unconfirmed /\ unconfirmed \subseteq Agent
  /\ faults \in 0 .. MaxFaults

ClaimInit ==
  /\ job = OpenJob
  /\ mempool = {}
  /\ board = OpenJob
  /\ claim = NoClaim
  /\ link = Nobody
  /\ runs = [a \in Agent |-> 0]
  /\ tick = [t \in Ticks |-> "idle"]
  /\ unconfirmed = {}
  /\ faults = 0

TickGoto(t, step) == tick' = [tick EXCEPT ![t] = step]

\* isClaimedByOther.
ClaimedByOther(a) == claim.by # a /\ claim.live

-----------------------------------------------------------------------------
\* The chain.  A sent accept lands if the job is still open, or is lost.
PendingLands(a) ==
  /\ a \in mempool
  /\ mempool' = mempool \ {a}
  /\ job' = IF job.status = "Open" THEN AcceptedBy(a) ELSE job
  /\ UNCHANGED <<board, claim, link, runs, tick, unconfirmed, faults>>

PendingDropped(a) ==
  /\ a \in mempool
  /\ mempool' = mempool \ {a}
  /\ UNCHANGED <<job, board, claim, link, runs, tick, unconfirmed, faults>>

\* readJobs: whoever finds the snapshot too old reads the chain for everybody.
RefreshBoard ==
  /\ board # job
  /\ board' = job
  /\ UNCHANGED <<job, mempool, claim, link, runs, tick, unconfirmed, faults>>

\* JOB_CLAIM_TTL_MS passes.
ClaimExpires ==
  /\ claim.live
  /\ claim' = [claim EXCEPT !.live = FALSE]
  /\ UNCHANGED <<job, mempool, board, link, runs, tick, unconfirmed, faults>>

-----------------------------------------------------------------------------
\* selectMiningBlocks, and acceptJobAction for the one job its user picked.
Select(t) ==
  /\ tick[t] = "idle"
  /\ board.status = "Open"
  /\ ~ClaimedByOther(TickAgent[t])
  /\ TickGoto(t, "claim")
  /\ UNCHANGED <<job, mempool, board, claim, link, runs, unconfirmed, faults>>

\* The condition of the single UPDATE of claimJobSpec.
Claimable(a) == claim.by \in {Nobody, a} \/ ~claim.live

ClaimJobSpec(t) ==
  /\ tick[t] = "claim"
  /\ IF Claimable(TickAgent[t])
     THEN /\ claim' = [by |-> TickAgent[t], live |-> TRUE]
          /\ TickGoto(t, "accept")
     ELSE TickGoto(t, "idle") /\ UNCHANGED claim
  /\ UNCHANGED <<job, mempool, board, link, runs, unconfirmed, faults>>

Accept(t) ==
  /\ tick[t] = "accept"
  /\ job.status = "Open"
  /\ job' = AcceptedBy(TickAgent[t])
  /\ TickGoto(t, "run")
  /\ UNCHANGED <<mempool, board, claim, link, runs, unconfirmed, faults>>

\* Mutant of AcceptFails: every failure is taken for a missing receipt.
AcceptFails_Dispatched(t) ==
  /\ tick[t] = "accept"
  /\ \/ job.status # "Open" /\ UNCHANGED faults
     \/ faults < MaxFaults /\ faults' = faults + 1
  /\ TickGoto(t, "run")
  /\ UNCHANGED <<job, mempool, board, claim, link, runs, unconfirmed>>

\* The job was taken, or the call failed before it was sent.
AcceptFails(t) ==
  /\ tick[t] = "accept"
  /\ \/ job.status # "Open" /\ UNCHANGED faults
     \/ faults < MaxFaults /\ faults' = faults + 1
  /\ TickGoto(t, "release")
  /\ UNCHANGED <<job, mempool, board, claim, link, runs, unconfirmed>>

\* isUserOpPending: sent, and without a receipt in time.
AcceptPending(t) ==
  /\ tick[t] = "accept"
  /\ job.status = "Open"   \* the bundler simulates the call before it takes it
  /\ TickAgent[t] \notin mempool
  /\ Cardinality(unconfirmed) < MaxPending
  /\ mempool' = mempool \cup {TickAgent[t]}
  /\ unconfirmed' = unconfirmed \cup {TickAgent[t]}
  /\ TickGoto(t, "run")
  /\ UNCHANGED <<job, board, claim, link, runs, faults>>

\* Mutant of ReleaseJobClaim: the time of the claim is kept.
ReleaseJobClaim_KeepsTime(t) ==
  /\ tick[t] = "release"
  /\ claim' = IF claim.by = TickAgent[t] THEN [claim EXCEPT !.by = Nobody] ELSE claim
  /\ TickGoto(t, "idle")
  /\ UNCHANGED <<job, mempool, board, link, runs, unconfirmed, faults>>

ReleaseJobClaim(t) ==
  /\ tick[t] = "release"
  /\ claim' = IF claim.by = TickAgent[t] THEN NoClaim ELSE claim
  /\ TickGoto(t, "idle")
  /\ UNCHANGED <<job, mempool, board, link, runs, unconfirmed, faults>>

-----------------------------------------------------------------------------
\* dispatchAcceptedJob: the run is started, then the job is linked to it.
RunAgentTask(t) ==
  /\ tick[t] = "run"
  /\ runs' = [runs EXCEPT ![TickAgent[t]] = @ + 1]
  /\ TickGoto(t, "link")
  /\ UNCHANGED <<job, mempool, board, claim, link, unconfirmed, faults>>

LinkSpec(t) ==
  /\ tick[t] = "link"
  /\ link' = TickAgent[t]
  /\ TickGoto(t, "idle")
  /\ UNCHANGED <<job, mempool, board, claim, runs, unconfirmed, faults>>

\* Mutant of NeedsHeal: only the holder of the claim is sent to work.
NeedsHeal_Claimed(a) == board = AcceptedBy(a) /\ link = Nobody /\ claim.by = a

\* autoMineTick, self-heal: accepted by this agent and without a task.
NeedsHeal(a) == board = AcceptedBy(a) /\ link = Nobody

SelfHeal(t) ==
  /\ tick[t] = "idle"
  /\ NeedsHeal(TickAgent[t])
  /\ TickGoto(t, "run")
  /\ UNCHANGED <<job, mempool, board, claim, link, runs, unconfirmed, faults>>

\* The request dies, or the run could not be started.
TickDies(t) ==
  /\ tick[t] # "idle"
  /\ faults < MaxFaults
  /\ faults' = faults + 1
  /\ TickGoto(t, "idle")
  /\ UNCHANGED <<job, mempool, board, claim, link, runs, unconfirmed>>

TickProceeds(t) ==
  \/ ClaimJobSpec(t) \/ Accept(t) \/ AcceptFails(t) \/ AcceptPending(t)
  \/ ReleaseJobClaim(t) \/ RunAgentTask(t) \/ LinkSpec(t)

ClaimNext ==
  \/ \E a \in Agent : PendingLands(a) \/ PendingDropped(a)
  \/ RefreshBoard \/ ClaimExpires
  \/ \E t \in Ticks : Select(t) \/ TickProceeds(t) \/ SelfHeal(t) \/ TickDies(t)

ClaimSpec == ClaimInit /\ [][ClaimNext]_claimVars

\* A worker polls every three seconds and the board is read anew after four; a
\* request that was started runs on, and a claim grows old.
ClaimFairness ==
  /\ WF_claimVars(RefreshBoard) /\ WF_claimVars(ClaimExpires)
  /\ \A t \in Ticks :
       /\ WF_claimVars(TickProceeds(t))
       /\ SF_claimVars(Select(t))
       /\ SF_claimVars(SelfHeal(t))

FairClaimSpec == ClaimSpec /\ ClaimFairness

-----------------------------------------------------------------------------
\* A live claim is a promise: nobody else takes it, and only a failed accept of
\* its own holder gives it back (claimJobSpec, releaseJobClaim).
ClaimHeld ==
  [][claim.live /\ claim'.by # claim.by =>
       \E t \in Ticks : TickAgent[t] = claim.by /\ tick[t] = "release"]_claimVars

\* Nobody is sent to work on a job that the chain neither gave it nor may yet give
\* it (acceptAndDispatchJob, autoMineTick).
OnlyTheAcceptorRuns ==
  \A a \in Agent : runs[a] > 0 => job.worker = a \/ a \in unconfirmed

\* A posted job ends up with a run, whatever dies between the claim, the accept and
\* the dispatch (autoMineTick, self-heal).
EventuallyDispatched == <>(link # Nobody)
=============================================================================

----------------------------- MODULE MCRecovery -----------------------------
(***************************************************************************)
(* Progress of the two recoveries of a posted job, one part of the run     *)
(* each: a job that is settled by callbacks and sweeps (Settlement), and   *)
(* one whose price climbs (PriceRaise).  The part is chosen at the start.  *)
(***************************************************************************)
EXTENDS Naturals

CONSTANTS n1, n2, h1, h2, w, requester, arbiter, nobody, delivered, abandoned

VARIABLES
  part,
  jobs, specs, inFlight, handlers,              \* settlement
  offers, rows, late, leased, instances         \* price raises

S == INSTANCE Settlement WITH
  Caller <- {w, requester, arbiter}, Worker <- {w}, Requester <- requester,
  Arbiter <- arbiter, NoWorker <- nobody,
  Delivered <- delivered, Abandoned <- abandoned,
  Result <- {delivered, abandoned}, NoResult <- nobody,
  Handler <- {h1, h2}, SpecHash <- {1}, MAX_AUTO_REPOSTS <- 1,
  PostMayTimeOut <- TRUE, OutcomeKnown <- TRUE, Tries <- 3,
  MaxSpecs <- 1, MaxJobs <- 1, MaxInFlight <- 1

P == INSTANCE PriceRaise WITH
  jobs <- offers, inFlight <- late,
  Caller <- {w, requester, arbiter}, Worker <- {w}, Requester <- requester,
  Arbiter <- arbiter, NoWorker <- nobody, Result <- {delivered}, NoResult <- nobody,
  Instance <- {n1, n2}, SpecHash <- {1, 2}, Step <- 2, Ceiling <- 2,
  MAX_RAISES <- 1, RESUMES_PER_PASS <- 3, PostMayTimeOut <- TRUE,
  RevertThrows <- FALSE, Start <- <<1>>, MaxRows <- 2, MaxPosts <- 2

settlementVars == <<jobs, specs, inFlight, handlers>>
priceVars == <<offers, rows, late, leased, instances>>
vars == <<part, settlementVars, priceVars>>

Init == part \in {"settlement", "price"} /\ S!Init /\ P!Init

Next ==
  \/ part = "settlement" /\ S!Next /\ UNCHANGED <<part, priceVars>>
  \/ part = "price" /\ P!Next /\ UNCHANGED <<part, settlementVars>>

Spec == Init /\ [][Next]_vars

\* Work a grader passed is paid in the end (lib/labor-settle.ts:
\* sweepStuckGradedJobs).
PassedWorkIsPaid == part = "settlement" /\ S!Fairness => S!PassedWorkIsPaid

\* Below the cap a dispute some routine died in is resolved
\* (lib/labor-settle.ts: sweepDisputedJobs).
DisputeIsResolved == part = "settlement" /\ S!Fairness => S!DisputeIsResolved

\* An interrupted raise is finished on a later pass (lib/price-raise.ts:
\* resumeOrphanedRaises).
InterruptedRaiseCompletes == part = "price" /\ P!Fairness => P!InterruptedRaiseCompletes
=============================================================================

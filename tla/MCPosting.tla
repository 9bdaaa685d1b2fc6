----------------------------- MODULE MCPosting ------------------------------
(***************************************************************************)
(* What the platform posts for an owner, one part of the run each: a job   *)
(* under a rising price (one worker, two invocations), and a delegation of *)
(* a root, the review of it by a peer, and a subtask that builds on it     *)
(* (two requests; jobs that are reposted, or a request that dies or loses  *)
(* a post).  The part is chosen at the start.                              *)
(***************************************************************************)
EXTENDS PriceRaise, Delegation, TLC

CONSTANTS n1, n2

VARIABLE part

Symmetry == Permutations({n1, n2})
OneJob == <<1>>

\* A root, a review of it and a subtask that builds on it.
Builds == <<{}, {1}, {1}>>
OneReview == <<0, 0, 1>>

\* Jobs are reposted in one part; in the other a request dies or loses a post.
NothingLost == lost = 0
NothingReposted == \A k \in DOMAIN subtaskJobs : subtaskJobs[k].reposts = 0

PostingInit == part \in {"price", "reposted", "lossy"} /\ Init /\ DelegationInit

PostingNext ==
  \/ part = "price" /\ Next /\ UNCHANGED <<part, delegationVars>>
  \/ part = "reposted" /\ DelegationNext /\ NothingLost' /\ UNCHANGED <<part, vars>>
  \/ part = "lossy" /\ DelegationNext /\ NothingReposted' /\ UNCHANGED <<part, vars>>

PostingSpec == PostingInit /\ [][PostingNext]_<<part, vars, delegationVars>>

\* Every part keeps its types: no price above the ceiling (TypeOK is the price
\* raise's; lib/market-price.ts: nextPriceRaise), no repost beyond the cap
\* (lib/labor-settle.ts: returnFailedJobToMarket).
PartsTypeOK == IF part = "price" THEN TypeOK ELSE DelegationTypeOK
=============================================================================

---------------------------- MODULE MCSettlement ----------------------------
(***************************************************************************)
(* One requester, two workers, two concurrent handlers, one repost.        *)
(***************************************************************************)
EXTENDS Settlement, TLC

CONSTANTS w1, w2, h1, h2

Symmetry == Permutations({w1, w2}) \cup Permutations({h1, h2})
=============================================================================

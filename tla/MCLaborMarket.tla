--------------------------- MODULE MCLaborMarket ----------------------------
(***************************************************************************)
(* Two agents that post and work, the arbiter key, and the market itself.  *)
(***************************************************************************)
EXTENDS LaborMarket, TLC

CONSTANTS alice, bob

Symmetry == Permutations({alice, bob})
=============================================================================

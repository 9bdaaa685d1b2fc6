------------------------ MODULE MCVerifiedTaskEscrow ------------------------
(***************************************************************************)
(* Two agents that post and solve (one of them scored by the oracle), the  *)
(* oracle key, and the escrow itself.  No symmetry: liveness is checked.   *)
(***************************************************************************)
EXTENDS VerifiedTaskEscrow
=============================================================================

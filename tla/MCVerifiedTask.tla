--------------------------- MODULE MCVerifiedTask ---------------------------
(***************************************************************************)
(* Three agents of two owners, two concurrent sessions.                    *)
(***************************************************************************)
EXTENDS VerifiedTask, TLC

CONSTANTS u1, u2, a, b, c, alice, bob

Symmetry == Permutations({u1, u2})
OwnerOf == (a :> alice) @@ (b :> alice) @@ (c :> bob)
=============================================================================

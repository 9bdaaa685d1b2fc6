------------------------------ MODULE MCCredit ------------------------------
(***************************************************************************)
(* What an owner is paid and lent, one part of the run each: verified      *)
(* tasks (three agents of two owners, two concurrent sessions), and the    *)
(* loans of an owner with two agents (two requests), in the books alone    *)
(* and through the vault.  The part is chosen at the start.                *)
(***************************************************************************)
EXTENDS VerifiedTask, CreditLine, TLC

CONSTANTS u1, u2, a1, a2, a3, alice, bob

VARIABLE part

Symmetry == Permutations({u1, u2}) \cup Permutations({a1, a2})
OwnerOf == (a1 :> alice) @@ (a2 :> alice) @@ (a3 :> bob)

ASSUME Assumptions == LoansAssumption

\* Through the vault there are more steps: two loans, and lines of 1.
WithinBounds == onVault => Len(loans) <= 2 /\ \A a \in Agent : line[a] = 1

CreditInit ==
  /\ part \in {"tasks", "loans"}
  /\ Init /\ LoansInit /\ WithinBounds
  /\ part # "loans" => ~onVault /\ \A a \in Agent : line[a] = 0

CreditNext ==
  \/ part = "tasks" /\ Next /\ UNCHANGED <<part, loanVars>>
  \/ part = "loans" /\ LoansNext /\ WithinBounds' /\ UNCHANGED <<part, vars>>

CreditSpec == CreditInit /\ [][CreditNext]_<<part, vars, loanVars>>

\* Every part keeps its types: a row names its own task (TypeOK is the verified
\* tasks'), and no available credit falls below zero (lib/credit-engine/index.ts:
\* recalculateCredit).
PartsTypeOK == IF part = "tasks" THEN TypeOK ELSE LoansTypeOK
=============================================================================

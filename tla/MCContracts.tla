---------------------------- MODULE MCContracts -----------------------------
(***************************************************************************)
(* The smaller contracts and what rests on them, one part of the run each: *)
(* the abstract escrow (two parties, up to three deals), the vault of      *)
(* MiniVault (two users), a governance account (two requests), and a       *)
(* proposal with its poll (two agents of one owner, two beats).  The part  *)
(* is chosen at the start.                                                 *)
(***************************************************************************)
EXTENDS Escrow, DelegateVoting, MiniVault, GovLedger, TLC

CONSTANTS u1, u2, owner

VARIABLE part

Symmetry == Permutations({u1, u2})

\* Both agents are of one owner.
OneOwner == [a \in Voter |-> owner]

ASSUME Assumptions == VaultAssumption /\ LedgerAssumption /\ PollAssumption /\ VotingAssumption

Part == {"escrow", "vault", "ledger", "voting"}

\* A part that is not chosen stays in one initial state.
ContractsInit ==
  /\ part \in Part
  /\ Init /\ VaultInit /\ LedgerInit /\ VotingInit
  /\ part # "escrow" => \A x \in Account : balance[x] = 0
  /\ part # "vault" => price = 1
  /\ part # "voting" => power[owner] = 0

ContractsNext ==
  \/ part = "escrow" /\ Next /\ UNCHANGED <<part, vaultVars, ledgerVars, votingVars>>
  \/ part = "vault" /\ VaultNext /\ UNCHANGED <<part, vars, ledgerVars, votingVars>>
  \/ part = "ledger" /\ LedgerNext /\ UNCHANGED <<part, vars, vaultVars, votingVars>>
  \/ part = "voting" /\ VotingNext /\ UNCHANGED <<part, vars, vaultVars, ledgerVars>>

ContractsSpec ==
  ContractsInit /\ [][ContractsNext]_<<part, vars, vaultVars, ledgerVars, votingVars>>

\* Every part keeps its types (TypeOK itself is the escrow's): no balance leaves
\* what an account can hold, and no position and no holding of the vault falls
\* below zero (MiniVault.sol).
PartsTypeOK ==
  CASE part = "escrow" -> TypeOK
    [] part = "vault" -> VaultTypeOK
    [] part = "ledger" -> LedgerTypeOK
    [] part = "voting" -> VotingTypeOK
=============================================================================

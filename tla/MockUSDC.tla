------------------------------ MODULE MockUSDC ------------------------------
(***************************************************************************)
(* The 6-decimal test token of contracts/src/MockUSDC.sol.  Every contract *)
(* of the system holds and moves this one token.                           *)
(*                                                                         *)
(* Allowances are not state here: lib/onchain batches approve(amount) with *)
(* the call that spends it in one atomic user operation, so an allowance   *)
(* never outlives the step that sets it.                                   *)
(***************************************************************************)
EXTENDS Naturals

CONSTANTS
  Account,    \* addresses: agents' smart accounts, EOAs and contracts
  MaxUint     \* type(uint256).max

ASSUME MaxUintAssumption == MaxUint \in Nat \ {0}

VARIABLES
  totalSupply,
  balanceOf   \* mapping(address => uint256)

tokenVars == <<totalSupply, balanceOf>>

Uint == 0 .. MaxUint

TokenTypeOK ==
  /\ totalSupply \in Uint
  /\ balanceOf \in [Account -> Uint]

TokenInit ==
  /\ totalSupply = 0
  /\ balanceOf = [a \in Account |-> 0]

\* Mutant of Mint: the supply wraps around unchecked.
Mint_UncheckedSupply(to, amount) ==
  /\ balanceOf[to] + amount <= MaxUint
  /\ balanceOf' = [balanceOf EXCEPT ![to] = @ + amount]
  /\ totalSupply' = (totalSupply + amount) % (MaxUint + 1)

\* Additions and subtractions are checked arithmetic: on a short balance or an
\* overflow the call reverts, that is, the step does not exist.
Mint(to, amount) ==
  /\ balanceOf[to] + amount <= MaxUint
  /\ totalSupply + amount <= MaxUint
  /\ balanceOf' = [balanceOf EXCEPT ![to] = @ + amount]
  /\ totalSupply' = totalSupply + amount

\* transfer, and transferFrom with the approval batched before it.
Transfer(from, to, amount) ==
  /\ balanceOf[from] >= amount
  /\ from # to => balanceOf[to] + amount <= MaxUint
  /\ balanceOf' = IF from = to THEN balanceOf
                  ELSE [balanceOf EXCEPT ![from] = @ - amount, ![to] = @ + amount]
  /\ UNCHANGED totalSupply
=============================================================================

-------------------------- MODULE AgentCreditVault --------------------------
(***************************************************************************)
(* contracts/src/AgentCreditVault.sol: lends the token to agents up to the *)
(* limit the registry holds for them.                                      *)
(***************************************************************************)
EXTENDS MockUSDC, AgentCreditRegistry

CONSTANTS
  Vault,   \* the contract's own address
  Oracle,  \* the registry's deployer
  Funds    \* what the vault is funded with

VARIABLE outstanding

vaultVars == <<totalSupply, balanceOf, oracle, creditLimit, creditScore, outstanding>>

VaultTypeOK ==
  /\ TokenTypeOK
  /\ RegistryTypeOK(Account)
  /\ outstanding \in [Agent -> Uint]

VaultInit ==
  /\ totalSupply = Funds
  /\ balanceOf = [x \in Account |-> IF x = Vault THEN Funds ELSE 0]
  /\ oracle = Oracle
  /\ creditLimit \in [Agent -> Limit]
  /\ creditScore = [a \in Agent |-> 0]
  /\ outstanding = [a \in Agent |-> 0]

\* Nothing is available under a limit that fell below what is drawn.
Available(a) == IF creditLimit[a] > outstanding[a] THEN creditLimit[a] - outstanding[a] ELSE 0

\* Mutant of Draw: the money goes out and the debt is not written down.
Draw_Unrecorded(a, amount) ==
  /\ amount <= Available(a)
  /\ Transfer(Vault, a, amount)
  /\ UNCHANGED <<registryVars, outstanding>>

Draw(a, amount) ==
  /\ amount <= Available(a)
  /\ outstanding' = [outstanding EXCEPT ![a] = @ + amount]
  /\ Transfer(Vault, a, amount)
  /\ UNCHANGED registryVars

\* A payment beyond the debt is cut to it.
Repay(a, amount) ==
  LET pay == IF amount > outstanding[a] THEN outstanding[a] ELSE amount
  IN  /\ outstanding[a] > 0
      /\ outstanding' = [outstanding EXCEPT ![a] = @ - pay]
      /\ Transfer(a, Vault, pay)
      /\ UNCHANGED registryVars
=============================================================================

------------------------ MODULE AgentCreditRegistry -------------------------
(***************************************************************************)
(* contracts/src/AgentCreditRegistry.sol: the limits and scores the oracle *)
(* (the off-chain scoring engine) publishes and the other contracts read.  *)
(***************************************************************************)
CONSTANTS
  Agent,    \* agents' smart accounts
  Limit,    \* credit limits the engine computes
  Score     \* credit scores the engine computes

VARIABLES oracle, creditLimit, creditScore

registryVars == <<oracle, creditLimit, creditScore>>

RegistryTypeOK(Account) ==
  /\ oracle \in Account
  /\ creditLimit \in [Agent -> Limit]
  /\ creditScore \in [Agent -> Score]

RegistryInit(deployer, zero) ==
  /\ oracle = deployer
  /\ creditLimit = [a \in Agent |-> zero]
  /\ creditScore = [a \in Agent |-> zero]

SetOracle(sender, newOracle) ==
  /\ sender = oracle
  /\ oracle' = newOracle
  /\ UNCHANGED <<creditLimit, creditScore>>

SetLimit(sender, agent, limit, score) ==
  /\ sender = oracle
  /\ creditLimit' = [creditLimit EXCEPT ![agent] = limit]
  /\ creditScore' = [creditScore EXCEPT ![agent] = score]
  /\ UNCHANGED oracle
=============================================================================

------------------------------ MODULE MiniVault ------------------------------
(***************************************************************************)
(* contracts/MiniVault.sol: ETH collateral, gUSD debt, a price set by the  *)
(* owner, liquidation with a close factor and a bonus; and the decisions   *)
(* of lib/mini-vault.ts, the engine the contract is said to mirror.        *)
(*                                                                         *)
(* Amounts are whole wei and gUSD-wei, so every division rounds as in the  *)
(* contract.  The checked additions never come near 2^256; the unchecked   *)
(* ones of the token are the subject of SupplyIsOwed.                      *)
(***************************************************************************)
EXTENDS Integers, FiniteSets, Functions

CONSTANTS
  Borrower,      \* accounts that use the vault or hold gUSD
  WAD,           \* 1e18 in the contract: wei per ETH and the scale of a health factor
  Price,         \* prices the owner sets, in gUSD-wei per ETH
  Amount,        \* arguments of the calls
  MaxCollateral  \* bound: wei in one position

VARIABLES
  price,
  positions,     \* mapping(address => Position)
  totalSupply,
  gusdOf,        \* balanceOf
  ethHeld        \* ETH of the contract

vaultVars == <<price, positions, totalSupply, gusdOf, ethHeld>>

BPS == 10000
MCR_BPS == 15000
LIQ_BPS == 12000
CLOSE_FACTOR_BPS == 5000
BONUS_BPS == 1000

Position == [collateral : 0 .. MaxCollateral, debt : Nat]

\* What the calls rely on: prices and amounts are positive.  A vault has had finitely
\* many users.
VaultAssumption ==
  /\ IsFiniteSet(Borrower)
  /\ WAD \in Nat \ {0}
  /\ Price \subseteq Nat \ {0}
  /\ Amount \subseteq Nat \ {0}
  /\ MaxCollateral \in Nat

VaultTypeOK ==
  /\ price \in Price
  /\ positions \in [Borrower -> Position]
  /\ totalSupply \in Nat
  /\ gusdOf \in [Borrower -> Nat]
  /\ ethHeld \in Nat

VaultInit ==
  /\ price \in Price
  /\ positions = [u \in Borrower |-> [collateral |-> 0, debt |-> 0]]
  /\ totalSupply = 0
  /\ gusdOf = [u \in Borrower |-> 0]
  /\ ethHeld = 0

-----------------------------------------------------------------------------
CollateralValueUsd(p, at) == (p.collateral * at) \div WAD
MaxDebtUsd(p, at) == (CollateralValueUsd(p, at) * BPS) \div MCR_BPS

HealthFactor(p, at) == (CollateralValueUsd(p, at) * BPS * WAD) \div (p.debt * LIQ_BPS)

\* A position without debt has the largest health factor there is.
IsLiquidatable(p, at) == p.debt > 0 /\ HealthFactor(p, at) < WAD

Burn(from, amount) ==
  /\ gusdOf[from] >= amount
  /\ gusdOf' = [gusdOf EXCEPT ![from] = @ - amount]
  /\ totalSupply' = totalSupply - amount

-----------------------------------------------------------------------------
SetPrice(newPrice) ==
  /\ price' = newPrice
  /\ UNCHANGED <<positions, totalSupply, gusdOf, ethHeld>>

DepositEth(u, amount) ==
  /\ positions[u].collateral + amount <= MaxCollateral
  /\ positions' = [positions EXCEPT ![u].collateral = @ + amount]
  /\ ethHeld' = ethHeld + amount
  /\ UNCHANGED <<price, totalSupply, gusdOf>>

\* Mutant of Withdraw: the debt is held against the collateral that was there
\* before.
Withdraw_OldCollateral(u, amount) ==
  /\ amount <= positions[u].collateral
  /\ positions[u].debt <= MaxDebtUsd(positions[u], price)
  /\ positions' = [positions EXCEPT ![u].collateral = @ - amount]
  /\ ethHeld' = ethHeld - amount
  /\ UNCHANGED <<price, totalSupply, gusdOf>>

\* The debt left must pass the gate of a mint, which is stricter than the one
\* of a liquidation.
Withdraw(u, amount) ==
  /\ amount <= positions[u].collateral
  /\ positions' = [positions EXCEPT ![u].collateral = @ - amount]
  /\ positions[u].debt <= MaxDebtUsd(positions'[u], price)
  /\ ethHeld' = ethHeld - amount
  /\ UNCHANGED <<price, totalSupply, gusdOf>>

Mint(u, amount) ==
  /\ positions[u].debt + amount <= MaxDebtUsd(positions[u], price)
  /\ positions' = [positions EXCEPT ![u].debt = @ + amount]
  /\ totalSupply' = totalSupply + amount
  /\ gusdOf' = [gusdOf EXCEPT ![u] = @ + amount]
  /\ UNCHANGED <<price, ethHeld>>

\* Mutant of Repay: the call burns and leaves the debt.
Repay_DebtKept(u, amount) ==
  /\ amount <= positions[u].debt
  /\ Burn(u, amount)
  /\ UNCHANGED <<price, positions, ethHeld>>

Repay(u, amount) ==
  /\ amount <= positions[u].debt
  /\ Burn(u, amount)
  /\ positions' = [positions EXCEPT ![u].debt = @ - amount]
  /\ UNCHANGED <<price, ethHeld>>

\* Mutant of Seized: more may be seized than the position holds.
Seized_Uncapped(p, repaid) == (repaid * (BPS + BONUS_BPS) * WAD) \div (BPS * price)

\* Mutant of Seized: pays out at the ratio of a mint.
Seized_AtMint(p, repaid) ==
  LET worth == (repaid * MCR_BPS * WAD) \div (BPS * price)
  IN  IF worth > p.collateral THEN p.collateral ELSE worth

\* Collateral worth what is repaid and the bonus, as far as there is any.
Seized(p, repaid) ==
  LET worth == (repaid * (BPS + BONUS_BPS) * WAD) \div (BPS * price)
  IN  IF worth > p.collateral THEN p.collateral ELSE worth

\* Anyone repays up to half of an unhealthy debt with gUSD of their own and is
\* sent the collateral.
Liquidate(liquidator, u, repayAmount) ==
  LET p == positions[u]
      maxRepay == (p.debt * CLOSE_FACTOR_BPS) \div BPS
      repaid == IF repayAmount > maxRepay THEN maxRepay ELSE repayAmount
  IN  /\ IsLiquidatable(p, price)
      /\ repaid > 0
      /\ Burn(liquidator, repaid)
      /\ positions' = [positions EXCEPT ![u].debt = @ - repaid,
                                        ![u].collateral = @ - Seized(p, repaid)]
      /\ ethHeld' = ethHeld - Seized(p, repaid)
      /\ UNCHANGED price

Transfer(from, to, amount) ==
  /\ from # to
  /\ gusdOf[from] >= amount
  /\ gusdOf' = [gusdOf EXCEPT ![from] = @ - amount, ![to] = @ + amount]
  /\ UNCHANGED <<price, positions, totalSupply, ethHeld>>

VaultNext ==
  \/ \E at \in Price : SetPrice(at)
  \/ \E u \in Borrower, amount \in Amount :
       \/ DepositEth(u, amount)
       \/ Withdraw(u, amount)
       \/ Mint(u, amount)
       \/ Repay(u, amount)
       \/ \E v \in Borrower : Liquidate(v, u, amount) \/ Transfer(u, v, amount)

VaultSpec == VaultInit /\ [][VaultNext]_vaultVars

-----------------------------------------------------------------------------
\* Every gUSD in circulation is owed by somebody: supply, balances and debts have
\* one sum.  That is what makes the unchecked arithmetic of _transfer and _burn
\* safe: no balance exceeds the supply, and no burn takes it below zero.
SupplyIsOwed ==
  /\ totalSupply = SumFunction([u \in Borrower |-> positions[u].debt])
  /\ totalSupply = SumFunction(gusdOf)

\* Only the price endangers a position, and a liquidation heals it: no call of its
\* owner, and none of a liquidator, makes a healthy position liquidatable; and where
\* the collateral covers the debt and the bonus, a liquidation does not lower the
\* ratio of the two, whatever the divisions round.
PositionsAreKept ==
  [][\A u \in Borrower :
       LET p == positions[u]
           q == positions'[u]
       IN  /\ ~IsLiquidatable(p, price) /\ IsLiquidatable(q, price') => price' # price
           /\ /\ q.debt < p.debt /\ q.collateral < p.collateral
              /\ p.collateral * price * BPS >= p.debt * WAD * (BPS + BONUS_BPS)
              => q.collateral * p.debt >= p.collateral * q.debt]_vaultVars
=============================================================================

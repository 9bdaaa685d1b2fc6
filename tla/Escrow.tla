------------------------------- MODULE Escrow -------------------------------
(***************************************************************************)
(* What every escrow contract of this system promises, independent of how  *)
(* a deal is negotiated: a deposit is held until the deal closes, a deal   *)
(* closes once, it closes in favour of one account for exactly what was    *)
(* deposited, and nothing else takes money out of the contract.            *)
(***************************************************************************)
EXTENDS Integers, Sequences

CONSTANTS
  Account,
  Vault,      \* the contract's own address
  Nobody,     \* the deal is still open
  Money,      \* amounts an account can hold
  MaxDeals    \* bound: deals ever made

ASSUME EscrowAssumption ==
  /\ Vault \in Account
  /\ Nobody \notin Account
  /\ Money \subseteq Nat

VARIABLES
  balance,    \* Account -> Money
  deals       \* sequence of [amount, to]; to = Nobody while the deal is open

vars == <<balance, deals>>

Deal == [amount : Money, to : Account \cup {Nobody}]

Held(i) == IF deals[i].to = Nobody THEN deals[i].amount ELSE 0

TypeOK ==
  /\ balance \in [Account -> Money]
  /\ deals \in Seq(Deal)

Init ==
  /\ balance \in [Account -> Money]
  /\ deals = <<>>

\* Mutant of Shift: pays without asking what is there.
Shift_Unchecked(from, to, amount) ==
  /\ from # to
  /\ balance' = [balance EXCEPT ![from] = @ - amount, ![to] = @ + amount]

Shift(from, to, amount) ==
  /\ from # to
  /\ balance[from] >= amount
  /\ balance' = [balance EXCEPT ![from] = @ - amount, ![to] = @ + amount]
  /\ balance' \in [Account -> Money]

\* A new deal: the depositor's money moves to the contract.
Deposit(from, amount) ==
  /\ Len(deals) < MaxDeals
  /\ Shift(from, Vault, amount)
  /\ deals' = Append(deals, [amount |-> amount, to |-> Nobody])

\* Mutant of Close: pays and leaves the deal open.
Close_NotMarked(i, to) ==
  /\ deals[i].to = Nobody
  /\ Shift(Vault, to, deals[i].amount)
  /\ UNCHANGED deals

\* An open deal closes and pays its whole deposit to one account.
Close(i, to) ==
  /\ deals[i].to = Nobody
  /\ Shift(Vault, to, deals[i].amount)
  /\ deals' = [deals EXCEPT ![i].to = to]

\* Money moves without the contract: nobody else can lower its balance.
Elsewhere ==
  /\ balance' \in [Account -> Money]
  /\ balance'[Vault] >= balance[Vault]
  /\ UNCHANGED deals

Next ==
  \/ \E from \in Account : \E amount \in Money : Deposit(from, amount)
  \/ \E i \in 1 .. Len(deals), to \in Account : Close(i, to)
  \/ Elsewhere

Spec == Init /\ [][Next]_vars

-----------------------------------------------------------------------------
\* `total` is the running sum of what the first n deals still hold.
RunningTotal(total) ==
  /\ total[0] = 0
  /\ \A i \in 1 .. Len(deals) : total[i] = total[i - 1] + Held(i)

\* The contract can pay every open deal at once: its balance covers the sum
\* of the open deposits.
Covered ==
  \E total \in [0 .. Len(deals) -> 0 .. balance[Vault]] : RunningTotal(total)
=============================================================================

---------------------------- MODULE EscrowProofs ----------------------------
(***************************************************************************)
(* The abstract escrow always covers its open deals, for every set of      *)
(* accounts, every set of amounts and any number of deals.                 *)
(***************************************************************************)
EXTENDS Escrow, SequenceTheorems, TLAPS

Index == 0 .. Len(deals)

\* Covered is not inductive: closing a deal subtracts it from every later
\* running total, which stays a natural number only because running totals
\* never decrease.
Monotone(total) == \A i, j \in Index : i <= j => total[i] <= total[j]

IInv ==
  /\ TypeOK
  /\ \E total \in [Index -> 0 .. balance[Vault]] :
       RunningTotal(total) /\ Monotone(total)

-----------------------------------------------------------------------------
\* A deposit or a payment between two accounts moves exactly its amount.
LEMMA ShiftMoves ==
  ASSUME TypeOK, NEW from \in Account, NEW to \in Account, NEW amount \in Nat,
         Shift(from, to, amount)
  PROVE  /\ balance'[from] = balance[from] - amount
         /\ balance'[to] = balance[to] + amount
         /\ balance' \in [Account -> Money]
  BY EscrowAssumption DEF Shift, TypeOK

\* What the deals hold has its type.
LEMMA HeldType ==
  ASSUME TypeOK, NEW i \in 1 .. Len(deals)
  PROVE  /\ deals[i] \in Deal
         /\ deals[i].amount \in Nat
         /\ deals[i].amount \in Money
         /\ Held(i) \in Nat
  <1>1. deals[i] \in Deal
    BY ElementOfSeq DEF TypeOK
  <1>2. deals[i].amount \in Money
    BY <1>1 DEF Deal
  <1>3. QED
    BY <1>1, <1>2, EscrowAssumption DEF Held

\* Every step of the escrow keeps the types.
LEMMA TypeStep == TypeOK /\ [Next]_vars => TypeOK'
  <1> SUFFICES ASSUME TypeOK, [Next]_vars PROVE TypeOK'
    OBVIOUS
  <1>1. ASSUME NEW from \in Account, NEW amount \in Money, Deposit(from, amount)
        PROVE  TypeOK'
    <2>1. [amount |-> amount, to |-> Nobody] \in Deal
      BY DEF Deal
    <2>2. QED
      BY <1>1, <2>1 DEF Deposit, Shift, TypeOK
  <1>2. ASSUME NEW i \in 1 .. Len(deals), NEW to \in Account, Close(i, to)
        PROVE  TypeOK'
    <2>1. [deals[i] EXCEPT !.to = to] \in Deal
      BY HeldType DEF Deal
    <2>2. deals' = [deals EXCEPT ![i] = [deals[i] EXCEPT !.to = to]]
      BY <1>2 DEF Close
    <2>3. deals' \in Seq(Deal)
      BY <2>1, <2>2, ExceptSeq DEF TypeOK
    <2>4. QED
      BY <1>2, <2>3 DEF Close, Shift, TypeOK
  <1>3. CASE Elsewhere
    BY <1>3 DEF Elsewhere, TypeOK
  <1>4. CASE UNCHANGED vars
    BY <1>4 DEF vars, TypeOK
  <1>5. QED
    BY <1>1, <1>2, <1>3, <1>4 DEF Next

\* A deposit adds one running total above all the others.
LEMMA DepositCovered ==
  ASSUME IInv, NEW from \in Account, NEW amount \in Money, Deposit(from, amount),
         TypeOK'
  PROVE  IInv'
  <1>1. PICK n \in Nat : n = Len(deals)
    BY LenProperties DEF IInv, TypeOK
  <1>2. PICK total \in [0 .. n -> 0 .. balance[Vault]] :
               RunningTotal(total) /\ Monotone(total)
    BY <1>1 DEF IInv, Index
  <1>3. /\ amount \in Nat /\ balance[Vault] \in Nat
        /\ balance'[Vault] = balance[Vault] + amount
        /\ Len(deals') = n + 1
        /\ \A i \in 1 .. n : deals'[i] = deals[i]
        /\ deals'[n + 1] = [amount |-> amount, to |-> Nobody]
    BY <1>1, ShiftMoves, EscrowAssumption DEF IInv, TypeOK, Deposit
  <1>4. \A i \in 0 .. n : total[i] \in Nat /\ total[i] <= balance[Vault]
    BY <1>2, <1>3
  <1> DEFINE next == [k \in 0 .. n + 1 |->
                        IF k = n + 1 THEN total[n] + amount ELSE total[k]]
  <1>5. next \in [0 .. n + 1 -> 0 .. balance'[Vault]]
    BY <1>1, <1>3, <1>4
  <1>6. RunningTotal(next)'
    <2>1. next[0] = 0
      BY <1>1, <1>2 DEF RunningTotal
    <2>2. ASSUME NEW i \in 1 .. n + 1
          PROVE  next[i] = next[i - 1] + Held(i)'
      <3>1. CASE i = n + 1
        BY <1>3, <1>4, <3>1 DEF Held
      <3>2. CASE i # n + 1
        <4>1. i \in 1 .. n /\ i - 1 \in 0 .. n /\ Held(i)' = Held(i)
          BY <1>3, <3>2 DEF Held
        <4>2. QED
          BY <1>1, <1>2, <4>1 DEF RunningTotal
      <3>3. QED
        BY <3>1, <3>2
    <2>3. QED
      BY <1>3, <2>1, <2>2 DEF RunningTotal
  <1>7. Monotone(next)'
    BY <1>1, <1>2, <1>3, <1>4 DEF Monotone, Index
  <1>8. QED
    BY <1>3, <1>5, <1>6, <1>7 DEF IInv, Index

\* Closing a deal lowers every running total from that deal on by its deposit.
LEMMA CloseCovered ==
  ASSUME IInv, NEW i \in 1 .. Len(deals), NEW to \in Account, Close(i, to), TypeOK'
  PROVE  IInv'
  <1>1. PICK n \in Nat : n = Len(deals)
    BY LenProperties DEF IInv, TypeOK
  <1>2. PICK total \in [0 .. n -> 0 .. balance[Vault]] :
               RunningTotal(total) /\ Monotone(total)
    BY <1>1 DEF IInv, Index
  <1>3. PICK amount \in Nat : amount = deals[i].amount
    BY HeldType DEF IInv
  <1>4. /\ Held(i) = amount
        /\ Held(i)' = 0
        /\ \A j \in 1 .. n : j # i => Held(j)' = Held(j)
        /\ Len(deals') = n
    BY <1>1, <1>3, EscrowAssumption DEF IInv, TypeOK, Close, Held
  <1>5. /\ balance[Vault] \in Nat
        /\ balance'[Vault] \in Nat
        /\ balance'[Vault] = balance[Vault] - amount
    BY <1>3, ShiftMoves, EscrowAssumption DEF IInv, TypeOK, Close
  <1>6. \A j \in 0 .. n : total[j] \in Nat /\ total[j] <= balance[Vault]
    BY <1>2, <1>5
  <1>7. \A j, k \in 0 .. n : j <= k => total[j] <= total[k]
    BY <1>1, <1>2 DEF Monotone, Index
  <1>8. \A j \in 1 .. n : total[j] = total[j - 1] + Held(j) /\ Held(j) \in Nat
    BY <1>1, <1>2, HeldType DEF RunningTotal, IInv
  <1>9. i \in 0 .. n /\ i - 1 \in 0 .. n /\ total[i] = total[i - 1] + amount
    BY <1>1, <1>4, <1>8
  <1> DEFINE next == [k \in 0 .. n |-> IF k >= i THEN total[k] - amount ELSE total[k]]
  <1>10. next \in [0 .. n -> 0 .. balance'[Vault]]
    <2>1. ASSUME NEW k \in 0 .. n
          PROVE  next[k] \in 0 .. balance'[Vault]
      <3>1. /\ k >= i => total[i] <= total[k]
            /\ k < i => total[k] <= total[i - 1]
        BY <1>7, <1>9
      <3>2. QED
        BY <1>5, <1>6, <1>9, <3>1
    <2>2. QED
      BY <2>1
  <1>11. RunningTotal(next)'
    <2>1. next[0] = 0
      BY <1>1, <1>2 DEF RunningTotal
    <2>2. ASSUME NEW j \in 1 .. n
          PROVE  next[j] = next[j - 1] + Held(j)'
      <3>1. /\ j \in 0 .. n /\ j - 1 \in 0 .. n
            /\ total[j] \in Nat /\ total[j - 1] \in Nat
        BY <1>6
      <3>2. QED
        BY <1>4, <1>8, <3>1
    <2>3. QED
      BY <1>4, <2>1, <2>2 DEF RunningTotal
  <1>12. Monotone(next)'
    <2>1. ASSUME NEW j \in 0 .. n, NEW k \in 0 .. n, j <= k
          PROVE  next[j] <= next[k]
      <3>1. /\ total[j] <= total[k]
            /\ j < i => total[j] <= total[i - 1]
            /\ k >= i => total[i] <= total[k]
        BY <1>7, <1>9, <2>1
      <3>2. QED
        BY <1>6, <1>9, <2>1, <3>1
    <2>2. QED
      BY <1>4, <2>1 DEF Monotone, Index
  <1>13. QED
    BY <1>4, <1>10, <1>11, <1>12 DEF IInv, Index

\* The invariant is inductive.
LEMMA IInvStep == IInv /\ [Next]_vars => IInv'
  <1> SUFFICES ASSUME IInv, [Next]_vars PROVE IInv'
    OBVIOUS
  <1>1. TypeOK'
    BY TypeStep DEF IInv
  <1>2. ASSUME NEW from \in Account, NEW amount \in Money, Deposit(from, amount)
        PROVE  IInv'
    BY <1>1, <1>2, DepositCovered
  <1>3. ASSUME NEW i \in 1 .. Len(deals), NEW to \in Account, Close(i, to)
        PROVE  IInv'
    BY <1>1, <1>3, CloseCovered
  <1>4. CASE Elsewhere \/ UNCHANGED vars
    <2>1. /\ deals' = deals
          /\ balance[Vault] \in Nat /\ balance'[Vault] \in Nat
          /\ balance'[Vault] >= balance[Vault]
      <3>1. balance[Vault] \in Nat /\ balance'[Vault] \in Nat
        BY <1>1, EscrowAssumption DEF IInv, TypeOK
      <3>2. QED
        BY <1>4, <3>1 DEF Elsewhere, vars
    <2>2. PICK total \in [Index -> 0 .. balance[Vault]] :
                 RunningTotal(total) /\ Monotone(total)
      BY DEF IInv
    <2>3. total \in [Index' -> 0 .. balance'[Vault]]
      BY <2>1, <2>2 DEF Index
    <2>4. RunningTotal(total)' /\ Monotone(total)'
      BY <2>1, <2>2 DEF RunningTotal, Monotone, Index, Held
    <2>5. QED
      BY <1>1, <2>3, <2>4 DEF IInv
  <1>5. QED
    BY <1>2, <1>3, <1>4 DEF Next

LEMMA IInvInit == Init => IInv
  <1> SUFFICES ASSUME Init PROVE IInv
    OBVIOUS
  <1>1. TypeOK
    BY DEF Init, TypeOK
  <1>2. Len(deals) = 0 /\ balance[Vault] \in Nat
    BY EscrowAssumption DEF Init
  <1>3. [i \in Index |-> 0] \in [Index -> 0 .. balance[Vault]]
    BY <1>2
  <1>4. RunningTotal([i \in Index |-> 0]) /\ Monotone([i \in Index |-> 0])
    BY <1>2 DEF RunningTotal, Monotone, Index
  <1>5. QED
    BY <1>1, <1>3, <1>4 DEF IInv

-----------------------------------------------------------------------------
\* The state of an escrow always has its type.
THEOREM EscrowTypeOK == Spec => []TypeOK
  <1>1. Init => TypeOK
    BY DEF Init, TypeOK
  <1>2. QED
    BY <1>1, TypeStep, PTL DEF Spec

\* A contract that behaves as an escrow can always pay every open deal.
THEOREM EscrowCovers == Spec => []Covered
  <1>1. IInv => Covered
    BY DEF IInv, Covered, Index
  <1>2. QED
    BY <1>1, IInvInit, IInvStep, PTL DEF Spec
=============================================================================

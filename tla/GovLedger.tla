----------------------------- MODULE GovLedger ------------------------------
(***************************************************************************)
(* lib/governance.ts, the $LEDGER of a governance account: what it earns   *)
(* for completed work, what it locks for voting power and what comes back  *)
(* when a lock expires.  Every database statement is a step of its own:    *)
(* two requests interleave between any two of them, and either may die     *)
(* there.                                                                  *)
(***************************************************************************)
EXTENDS Integers, Sequences, FiniteSetsExt, Functions

CONSTANTS
  Holder,          \* owners of governance accounts
  Call,            \* requests being served at the same time
  Stake,           \* what is earned or locked at once
  MAX_LOCK_WEEKS,
  ReadersOverlap,  \* whether two requests may return one account's locks at once
  MaxEarned,       \* bound: ever earned by one account
  MaxLocks,        \* bound: locks
  MaxWeek          \* bound: weeks

VARIABLES
  week,      \* the time
  account,   \* gov_accounts
  locks,     \* gov_locks
  call       \* what each request is doing

ledgerVars == <<week, account, locks, call>>

NoCall == [op |-> "idle"]

Lock == [user : Holder, amount : Stake, unlockAt : Nat, withdrawn : BOOLEAN]

LedgerAssumption ==
  /\ IsFiniteSet(Call)
  /\ Stake \subseteq Nat \ {0}
  /\ MAX_LOCK_WEEKS \in Nat \ {0}
  /\ {MaxLocks, MaxWeek} \subseteq Nat

LedgerTypeOK ==
  /\ week \in 0 .. MaxWeek
  /\ account \in [Holder -> [balance : Int, totalEarned : Nat]]
  /\ locks \in Seq(Lock)
  /\ call \in [Call ->
       {NoCall}
       \cup [op : {"charge", "insert"}, user : Holder, amount : Stake, weeks : 1 .. MAX_LOCK_WEEKS]
       \cup [op : {"mark", "credit"}, user : Holder, expired : SUBSET (1 .. MaxLocks), lock : 1 .. MaxLocks]]

LedgerInit ==
  /\ week = 0
  /\ account = [u \in Holder |-> [balance |-> 0, totalEarned |-> 0]]
  /\ locks = <<>>
  /\ call = [c \in Call |-> NoCall]

-----------------------------------------------------------------------------
\* Power of a lock in units of 1/MAX_LOCK_WEEKS of a token: linear in the time
\* left, never more than the whole amount.
LockVotingPower(lock) ==
  LET remaining == lock.unlockAt - week
  IN  IF remaining <= 0 THEN 0
      ELSE Min({lock.amount * MAX_LOCK_WEEKS, lock.amount * remaining})

\* The lock is the account's and was not returned.
Holds(u, i) == locks[i].user = u /\ ~locks[i].withdrawn

CurrentVotingPower(u) ==
  SumFunction([i \in DOMAIN locks |-> IF Holds(u, i) THEN LockVotingPower(locks[i]) ELSE 0])

-----------------------------------------------------------------------------
WeekPasses ==
  /\ week < MaxWeek
  /\ week' = week + 1
  /\ UNCHANGED <<account, locks, call>>

\* Completed work is paid in $LEDGER: one update, both columns.
EarnLedger(u, amount) ==
  /\ account[u].totalEarned + amount <= MaxEarned
  /\ account' = [account EXCEPT ![u].balance = @ + amount, ![u].totalEarned = @ + amount]
  /\ UNCHANGED <<week, locks, call>>

\* createLock: the balance is read, charged and the lock inserted, in three steps.
CreateLock(c, u, amount, weeks) ==
  /\ call[c] = NoCall
  /\ account[u].balance >= amount
  /\ call' = [call EXCEPT ![c] = [op |-> "charge", user |-> u, amount |-> amount, weeks |-> weeks]]
  /\ UNCHANGED <<week, account, locks>>

\* Mutant of ChargeBalance: the lock is made and not paid for.
ChargeBalance_Skipped(c) ==
  /\ call[c].op = "charge"
  /\ call' = [call EXCEPT ![c].op = "insert"]
  /\ UNCHANGED <<week, account, locks>>

ChargeBalance(c) ==
  /\ call[c].op = "charge"
  /\ account' = [account EXCEPT ![call[c].user].balance = @ - call[c].amount]
  /\ call' = [call EXCEPT ![c].op = "insert"]
  /\ UNCHANGED <<week, locks>>

InsertLock(c) ==
  /\ call[c].op = "insert"
  /\ Len(locks) < MaxLocks
  /\ locks' = Append(locks, [user |-> call[c].user, amount |-> call[c].amount,
                             unlockAt |-> week + call[c].weeks, withdrawn |-> FALSE])
  /\ call' = [call EXCEPT ![c] = NoCall]
  /\ UNCHANGED <<week, account>>

\* Mutant of Expired: a lock that was already returned is returned again.
Expired_AnyState(u) == {i \in DOMAIN locks : locks[i].user = u /\ locks[i].unlockAt <= week}

Expired(u) ==
  {i \in DOMAIN locks : Holds(u, i) /\ locks[i].unlockAt <= week}

\* The next lock of a withdrawal, or its end.
NextExpired(c, u, expired) ==
  IF expired = {} THEN [call EXCEPT ![c] = NoCall]
  ELSE [call EXCEPT ![c] = [op |-> "mark", user |-> u,
                            expired |-> expired \ {Min(expired)}, lock |-> Min(expired)]]

\* withdrawExpiredLocks, called by every read of the governance page: the locks
\* are selected, then each is marked and its principal credited.
WithdrawExpiredLocks(c, u) ==
  /\ call[c] = NoCall
  /\ Expired(u) # {}
  /\ ReadersOverlap \/ \A d \in Call : call[d].op \in {"mark", "credit"} => call[d].user # u
  /\ call' = NextExpired(c, u, Expired(u))
  /\ UNCHANGED <<week, account, locks>>

MarkWithdrawn(c) ==
  /\ call[c].op = "mark"
  /\ locks' = [locks EXCEPT ![call[c].lock].withdrawn = TRUE]
  /\ call' = [call EXCEPT ![c].op = "credit"]
  /\ UNCHANGED <<week, account>>

CreditPrincipal(c) ==
  /\ call[c].op = "credit"
  /\ account' = [account EXCEPT ![call[c].user].balance = @ + locks[call[c].lock].amount]
  /\ call' = NextExpired(c, call[c].user, call[c].expired)
  /\ UNCHANGED <<week, locks>>

CallDies(c) ==
  /\ call[c] # NoCall
  /\ call' = [call EXCEPT ![c] = NoCall]
  /\ UNCHANGED <<week, account, locks>>

LedgerNext ==
  \/ WeekPasses
  \/ \E u \in Holder, amount \in Stake :
       \/ EarnLedger(u, amount)
       \/ \E c \in Call, weeks \in 1 .. MAX_LOCK_WEEKS : CreateLock(c, u, amount, weeks)
  \/ \E c \in Call :
       \/ \E u \in Holder : WithdrawExpiredLocks(c, u)
       \/ ChargeBalance(c)
       \/ InsertLock(c)
       \/ MarkWithdrawn(c)
       \/ CreditPrincipal(c)
       \/ CallDies(c)

LedgerSpec == LedgerInit /\ [][LedgerNext]_ledgerVars

-----------------------------------------------------------------------------
Locked(u) ==
  SumFunction([i \in DOMAIN locks |-> IF Holds(u, i) THEN locks[i].amount ELSE 0])

\* $LEDGER is earned, never made: whatever requests overlap or die, what an account
\* can spend and what it has locked are no more than it earned.
NothingFromNothing ==
  \A u \in Holder : account[u].balance + Locked(u) <= account[u].totalEarned

\* Voting power is bought with earned $LEDGER only: no account ever votes with
\* more than it earned and has not left in its balance, the overdrafts of two locks
\* made at once included.
PowerIsEarned ==
  \A u \in Holder :
    CurrentVotingPower(u) <= (account[u].totalEarned - account[u].balance) * MAX_LOCK_WEEKS

\* Both: $LEDGER, and the voting power it buys, is earned and never made.
LedgerIsEarned == NothingFromNothing /\ PowerIsEarned
=============================================================================

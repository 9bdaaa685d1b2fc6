----------------------------- MODULE CreditLine -----------------------------
(***************************************************************************)
(* The loans of one owner: draws and repayments off-chain                  *)
(* (app/actions/credit.ts) and through the vault (app/actions/onchain.ts), *)
(* the sweep that makes a default real (lib/loan-sweep.ts) and the         *)
(* recalculation that stores an agent's line and publishes its limit       *)
(* (lib/credit-engine/index.ts).  Each is a sequence of database           *)
(* statements and chain calls; requests interleave between them and may    *)
(* die there.                                                              *)
(*                                                                         *)
(* What the scoring makes of an agent's events is any limit in Line.  Days *)
(* are coarse: TERM and GRACE are numbers of ticks.                        *)
(***************************************************************************)
EXTENDS AgentCreditVault, Sequences, FiniteSetsExt, Functions

CONSTANTS
  Request,     \* requests and sweeps at the same time
  Line,        \* limits the scoring engine computes
  Draws,       \* amounts asked for
  TERM, GRACE,
  MaxDay,      \* bound: days
  MaxLoans     \* bound: loans ever drawn

VARIABLES
  now,
  loans,       \* credit_transactions of type credit_draw
  defaults,    \* REPAYMENT_DEFAULTED events of each loan in agent_events
  line,        \* agents.totalCreditLine
  available,   \* agents.availableCredit
  onVault,     \* whether the owner's agents have accounts on chain, and so the vault
  request

rowVars == <<onVault, loans, defaults, line, available>>
loanVars == <<now, rowVars, request, vaultVars>>

NoRequest == [at |-> "idle"]

Loan == [agent : Agent, amount : Draws, dueAt : 0 .. MaxDay + TERM,
         status : {"active", "defaulted", "settled"}, vault : BOOLEAN]
LoanId == DOMAIN loans

\* Where a request stands between two of its statements, and what it carries on.
Requests ==
  {NoRequest}
  \cup [at : {"draw", "insert"}, agent : Agent, amount : Draws, vault : BOOLEAN]
  \cup [at : {"repay", "settle", "claim", "defaulted"}, loan : Nat]
  \cup [at : {"recalc"}, agent : Agent]
  \cup [at : {"row"}, agent : Agent, line : Line, available : Nat, publish : Nat]
  \cup [at : {"publish"}, agent : Agent, publish : Nat]

\* What the engine and the forms give: whole limits and positive amounts.  The
\* contracts take any limit up to the largest line; the vault, the oracle and the
\* agents have accounts, the vault is no agent, and what is funded and lent fits a
\* uint256.
LoansAssumption ==
  /\ IsFiniteSet(Request) /\ IsFiniteSet(Agent) /\ Vault \notin Agent
  /\ IsFiniteSet(Line) /\ Line # {} /\ Line \subseteq Nat
  /\ Draws \subseteq Nat \ {0}
  /\ TERM \in Nat /\ GRACE \in Nat /\ MaxDay \in Nat
  /\ 0 .. Max(Line) \subseteq Limit /\ 0 \in Score
  /\ Agent \subseteq Account /\ {Vault, Oracle} \subseteq Account
  /\ {Funds, Max(Line)} \subseteq Uint

LoansTypeOK ==
  /\ VaultTypeOK
  /\ now \in 0 .. MaxDay
  /\ loans \in Seq(Loan)
  /\ defaults \in [LoanId -> Nat]
  /\ line \in [Agent -> Line]
  /\ available \in [Agent -> Nat]
  /\ onVault \in BOOLEAN
  /\ request \in [Request -> Requests]

\* The agents have a score, its limit is published and the vault is funded.
LoansInit ==
  /\ now = 0
  /\ onVault \in BOOLEAN
  /\ loans = <<>>
  /\ defaults = <<>>
  /\ \E l \in Line :
       /\ line = [a \in Agent |-> l]
       /\ available = [a \in Agent |-> l]
       /\ creditLimit = [a \in Agent |-> l]
  /\ request = [s \in Request |-> NoRequest]
  /\ VaultInit

Doing(s, where) == request[s].at = where
GoTo(s, where) == request' = [request EXCEPT ![s] = where]
Ends(s) == GoTo(s, NoRequest)
Recalc(a) == [at |-> "recalc", agent |-> a]

-----------------------------------------------------------------------------
\* Defaulted loans stay on the books.
IsOutstanding(i) == loans[i].status \in {"active", "defaulted"}
OutstandingOf(Agents) ==
  SumFunction([i \in LoanId |-> IF IsOutstanding(i) /\ loans[i].agent \in Agents THEN loans[i].amount ELSE 0])
OutstandingBalance(a) == OutstandingOf({a})
OwnerOutstandingBalance == OutstandingOf(Agent)

LoanPhase(i) ==
  IF now <= loans[i].dueAt THEN "active"
  ELSE IF now <= loans[i].dueAt + GRACE THEN "overdue"
  ELSE "defaulted"

\* The delinquency gate: no loan of the owner defaulted or past due.
CanDrawMore ==
  \A i \in LoanId : loans[i].status # "defaulted"
                    /\ (loans[i].status = "active" => now <= loans[i].dueAt)

-----------------------------------------------------------------------------
\* Mutant of DrawCredit: each agent of the owner has a line of its own.
DrawCredit_PerAgent(s, a, amount) ==
  /\ Doing(s, "idle")
  /\ amount <= available[a]
  /\ CanDrawMore
  /\ GoTo(s, [at |-> "insert", agent |-> a, amount |-> amount, vault |-> FALSE])
  /\ UNCHANGED <<now, rowVars, vaultVars>>

\* drawCredit up to the insert.
DrawCredit(s, a, amount) ==
  /\ Doing(s, "idle")
  /\ amount <= available[a]
  /\ CanDrawMore
  /\ amount + OwnerOutstandingBalance <= line[a]
  /\ GoTo(s, [at |-> "insert", agent |-> a, amount |-> amount, vault |-> FALSE])
  /\ UNCHANGED <<now, rowVars, vaultVars>>

\* drawOnchain up to the call: the vault is left to check the amount.
DrawOnchain(s, a, amount) ==
  /\ onVault
  /\ Doing(s, "idle")
  /\ CanDrawMore
  /\ GoTo(s, [at |-> "draw", agent |-> a, amount |-> amount, vault |-> TRUE])
  /\ UNCHANGED <<now, rowVars, vaultVars>>

CallDraw(s) ==
  /\ Doing(s, "draw")
  /\ Draw(request[s].agent, request[s].amount)
  /\ GoTo(s, [request[s] EXCEPT !.at = "insert"])
  /\ UNCHANGED <<now, rowVars>>

InsertLoan(s) ==
  /\ Doing(s, "insert")
  /\ Len(loans) < MaxLoans
  /\ loans' = Append(loans, [agent |-> request[s].agent, amount |-> request[s].amount,
                             dueAt |-> now + TERM, status |-> "active", vault |-> request[s].vault])
  /\ defaults' = Append(defaults, 0)
  /\ GoTo(s, Recalc(request[s].agent))
  /\ UNCHANGED <<now, onVault, line, available, vaultVars>>

-----------------------------------------------------------------------------
\* repayCredit reads the loan, then settles it whatever became of it.
RepayCredit(s, i) ==
  /\ Doing(s, "idle")
  /\ IsOutstanding(i)
  /\ GoTo(s, [at |-> "settle", loan |-> i])
  /\ UNCHANGED <<now, rowVars, vaultVars>>

\* repayOnchain takes active loans only and pays the vault first.
RepayOnchain(s, i) ==
  /\ onVault
  /\ Doing(s, "idle")
  /\ loans[i].status = "active"
  /\ GoTo(s, [at |-> "repay", loan |-> i])
  /\ UNCHANGED <<now, rowVars, vaultVars>>

CallRepay(s) ==
  /\ Doing(s, "repay")
  /\ Repay(loans[request[s].loan].agent, loans[request[s].loan].amount)
  /\ GoTo(s, [request[s] EXCEPT !.at = "settle"])
  /\ UNCHANGED <<now, rowVars>>

\* The repayment's event is one more input of the score.
SettleLoan(s) ==
  /\ Doing(s, "settle")
  /\ loans' = [loans EXCEPT ![request[s].loan].status = "settled"]
  /\ GoTo(s, Recalc(loans[request[s].loan].agent))
  /\ UNCHANGED <<now, onVault, defaults, line, available, vaultVars>>

-----------------------------------------------------------------------------
\* sweepDefaultedLoans, one loan of its selection.
SelectDefaulted(s, i) ==
  /\ Doing(s, "idle")
  /\ loans[i].status = "active"
  /\ LoanPhase(i) = "defaulted"
  /\ GoTo(s, [at |-> "claim", loan |-> i])
  /\ UNCHANGED <<now, rowVars, vaultVars>>

\* Mutant of Claims: the loan is marked as it was selected.
Claims_AsSelected(i) == TRUE

\* Only a loan that is still active is marked: update ... where status = 'active'.
Claims(i) == loans[i].status = "active"

ClaimDefaulted(s) ==
  /\ Doing(s, "claim")
  /\ IF Claims(request[s].loan)
       THEN /\ loans' = [loans EXCEPT ![request[s].loan].status = "defaulted"]
            /\ GoTo(s, [request[s] EXCEPT !.at = "defaulted"])
       ELSE Ends(s) /\ UNCHANGED loans
  /\ UNCHANGED <<now, onVault, defaults, line, available, vaultVars>>

InsertDefaulted(s) ==
  /\ Doing(s, "defaulted")
  /\ defaults' = [defaults EXCEPT ![request[s].loan] = @ + 1]
  /\ GoTo(s, Recalc(loans[request[s].loan].agent))
  /\ UNCHANGED <<now, onVault, loans, line, available, vaultVars>>

-----------------------------------------------------------------------------
\* recalculateCredit, also called when work is scored: events and loans are read,
\* the agent's row is written, and the limit less what the owner's other agents owe
\* is published, unless that fails.
WorkScored(s, a) ==
  /\ Doing(s, "idle")
  /\ GoTo(s, Recalc(a))
  /\ UNCHANGED <<now, rowVars, vaultVars>>

\* Mutant of Minus: a balance above the line leaves less than nothing.
Minus_Signed(x, y) == x - y

Minus(x, y) == IF x > y THEN x - y ELSE 0

RecalculateCredit(s) ==
  LET a == request[s].agent
  IN  /\ Doing(s, "recalc")
      /\ \E l \in Line :
           GoTo(s, [at |-> "row", agent |-> a, line |-> l,
                    available |-> Minus(l, OutstandingBalance(a)),
                    publish |-> Minus(l, OutstandingOf(Agent \ {a}))])
      /\ UNCHANGED <<now, rowVars, vaultVars>>

WriteAgentRow(s) ==
  /\ Doing(s, "row")
  /\ line' = [line EXCEPT ![request[s].agent] = request[s].line]
  /\ available' = [available EXCEPT ![request[s].agent] = request[s].available]
  /\ IF onVault
       THEN GoTo(s, [at |-> "publish", agent |-> request[s].agent, publish |-> request[s].publish])
       ELSE Ends(s)
  /\ UNCHANGED <<now, onVault, loans, defaults, vaultVars>>

PublishLimit(s) ==
  /\ Doing(s, "publish")
  /\ SetLimit(oracle, request[s].agent, request[s].publish, 0)
  /\ Ends(s)
  /\ UNCHANGED <<now, rowVars, tokenVars, outstanding>>

\* A request dies, or a call of its fails and ends it.
RequestDies(s) ==
  /\ ~Doing(s, "idle")
  /\ Ends(s)
  /\ UNCHANGED <<now, rowVars, vaultVars>>

NextDay ==
  /\ now < MaxDay
  /\ now' = now + 1
  /\ UNCHANGED <<rowVars, request, vaultVars>>

LoansNext ==
  \/ NextDay
  \/ \E s \in Request :
       \/ \E a \in Agent : WorkScored(s, a)
       \/ \E a \in Agent, amount \in Draws : DrawCredit(s, a, amount) \/ DrawOnchain(s, a, amount)
       \/ \E i \in LoanId : RepayCredit(s, i) \/ RepayOnchain(s, i) \/ SelectDefaulted(s, i)
       \/ CallDraw(s)
       \/ InsertLoan(s)
       \/ CallRepay(s)
       \/ SettleLoan(s)
       \/ ClaimDefaulted(s)
       \/ InsertDefaulted(s)
       \/ RecalculateCredit(s)
       \/ WriteAgentRow(s)
       \/ PublishLimit(s)
       \/ RequestDies(s)

LoansSpec == LoansInit /\ [][LoansNext]_loanVars

-----------------------------------------------------------------------------
\* A default is recorded once, and only against a loan that was open when it
\* fell: a sweep that selected the loan before it was repaid, and a second sweep,
\* leave no mark on it.
DefaultOnce ==
  [][/\ \A i \in LoanId : loans[i].status = "settled" => loans'[i].status = "settled"
     /\ \A i \in LoanId : defaults'[i] <= 1]_loanVars

\* The owner is the unit of exposure: off-chain, requests that overlap may each
\* draw a line, but never more lines than there are requests, however many agents
\* the owner has; through the vault, no agent owes more than a line, and what has
\* left the vault is owed to it to the last unit.
ExposureIsBounded ==
  /\ SumFunction([i \in LoanId |-> IF IsOutstanding(i) /\ ~loans[i].vault THEN loans[i].amount ELSE 0])
       <= Cardinality(Request) * Max(Line)
  /\ \A a \in Agent : outstanding[a] <= Max(Line)
  /\ balanceOf[Vault] + SumFunction(outstanding) = Funds
=============================================================================

--------------------------- MODULE DelegateVoting ---------------------------
(***************************************************************************)
(* lib/governance.ts and lib/onchain/governance-poll.ts: one proposal, the *)
(* ballots of the owners, and the agents that vote for them when a beat of *)
(* the ops cycle asks a model how.  An uncertain answer is parked for the  *)
(* owner; a confident one is cast and committed to the VeilPoll of the     *)
(* proposal.  A beat may overlap another, an owner's own vote, and die at  *)
(* any step.                                                               *)
(*                                                                         *)
(* Voting power comes and goes with locks (module GovLedger): here it is a *)
(* number that moves on its own.                                           *)
(***************************************************************************)
EXTENDS VeilPoll, FiniteSetsExt

CONSTANTS
  User,
  OwnerOf,        \* Voter -> User: the owner of an agent's account
  Beat,           \* runs of the ops cycle, and of pages, at the same time
  Power,          \* voting power an owner may have
  QUORUM_POWER,
  None            \* no row

VARIABLES
  closed,    \* closesAt has passed
  status,    \* gov_proposals.status
  power,     \* currentVotingPower
  autoVote,  \* the agents enabled as delegates
  ballots,   \* gov_votes
  reviews,   \* gov_delegate_reviews
  onchain,   \* gov_onchain_votes
  beat       \* what each beat is doing

voteVars == <<closed, status, power, autoVote, ballots, reviews, onchain>>
votingVars == <<voteVars, beat, pollVars>>

Idle == [at |-> "idle"]
Choice == {"for", "against", "abstain"}
CHOICE_TO_OPTION == [for |-> 0, against |-> 1, abstain |-> 2]
Decision == [choice : Choice, confident : BOOLEAN, escalate : BOOLEAN, minorityImpactHigh : BOOLEAN]
Via == {"owner", "delegate", "confirmed"}

Ballot == [choice : Choice, power : Power, via : Via, sure : BOOLEAN]
Review == [agent : Voter, choice : Choice, status : {"pending", "dismissed", "voted"}]
OnchainVote == [agent : Voter, optionId : Option, salt : Salt \cup {None}, status : {"committed", "revealed"}]

VotingAssumption ==
  /\ OwnerOf \in [Voter -> User]
  /\ Option = {0, 1, 2}
  /\ Power \subseteq Nat
  /\ None \notin Ballot /\ None \notin Review /\ None \notin OnchainVote

VotingTypeOK ==
  /\ PollTypeOK
  /\ closed \in BOOLEAN
  /\ status \in {"open", "passed", "rejected"}
  /\ power \in [User -> Power]
  /\ autoVote \subseteq Voter
  /\ ballots \in [User -> Ballot \cup {None}]
  /\ reviews \in [User -> Review \cup {None}]
  /\ onchain \in [User -> OnchainVote \cup {None}]

VotingInit ==
  /\ PollInit
  /\ closed = FALSE
  /\ status = "open"
  /\ power \in [User -> Power]
  /\ autoVote = {}
  /\ ballots = [u \in User |-> None]
  /\ reviews = [u \in User |-> None]
  /\ onchain = [u \in User |-> None]
  /\ beat = [b \in Beat |-> Idle]

At(b, where) == beat[b].at = where
GoTo(b, where) == beat' = [beat EXCEPT ![b] = where]
Done(b) == GoTo(b, Idle)

-----------------------------------------------------------------------------
\* The world: the window closes, locks are made and decay, an owner enables or
\* disables a delegate, the poll's deadlines pass.
CloseProposal ==
  /\ ~closed
  /\ closed' = TRUE
  /\ UNCHANGED <<status, power, autoVote, ballots, reviews, onchain, beat, pollVars>>

PowerMoves(u) ==
  /\ \E n \in Power : power' = [power EXCEPT ![u] = n]
  /\ UNCHANGED <<closed, status, autoVote, ballots, reviews, onchain, beat, pollVars>>

SetAutoVote(a) ==
  /\ autoVote' = IF a \in autoVote THEN autoVote \ {a} ELSE autoVote \cup {a}
  /\ UNCHANGED <<closed, status, power, ballots, reviews, onchain, beat, pollVars>>

DeadlinePasses == PassDeadline /\ UNCHANGED <<voteVars, beat>>

-----------------------------------------------------------------------------
\* castVote up to its insert: an open proposal, no ballot yet, some power.
MayCast(u) == ~closed /\ ballots[u] = None /\ power[u] > 0

Casting(u, choice, via, sure, a) ==
  [at |-> "insert", user |-> u, agent |-> a,
   ballot |-> [choice |-> choice, power |-> power[u], via |-> via, sure |-> sure]]

\* The owner votes.
CastVote(b, u, choice) ==
  /\ At(b, "idle")
  /\ MayCast(u)
  /\ GoTo(b, Casting(u, choice, "owner", TRUE, None))
  /\ UNCHANGED <<voteVars, pollVars>>

\* Mutant of Inserts: without the primary key the last vote wins.
Inserts_LastWins(u) == TRUE

\* (proposalId, userId) is the primary key of gov_votes.
Inserts(u) == ballots[u] = None

\* The insert fails on a ballot that came first.  After it an accepted review is
\* marked, a delegate's vote goes on to the chain, and an owner's is done.
InsertBallot(b) ==
  LET c == beat[b]
  IN  /\ At(b, "insert")
      /\ IF Inserts(c.user)
           THEN /\ ballots' = [ballots EXCEPT ![c.user] = c.ballot]
                /\ CASE c.ballot.via = "delegate" ->
                          GoTo(b, [at |-> "commit", user |-> c.user, agent |-> c.agent,
                                   optionId |-> CHOICE_TO_OPTION[c.ballot.choice]])
                     [] c.ballot.via = "confirmed" -> GoTo(b, [at |-> "mark", user |-> c.user])
                     [] OTHER -> Done(b)
           ELSE Done(b) /\ UNCHANGED ballots
      /\ UNCHANGED <<closed, status, power, autoVote, reviews, onchain, pollVars>>

-----------------------------------------------------------------------------
\* runAutoVotes, one delegate of one owner (the one of the highest credit score,
\* which moves with the agent's work: any enabled one).  No ballot, no pending
\* review, some power: the model is asked.
Pending(u) == reviews[u] # None /\ reviews[u].status = "pending"

AskDelegate(b, a) ==
  LET u == OwnerOf[a]
  IN  /\ At(b, "idle")
      /\ status = "open" /\ ~closed
      /\ a \in autoVote
      /\ ballots[u] = None
      /\ ~Pending(u)
      /\ power[u] > 0
      /\ GoTo(b, [at |-> "asked", user |-> u, agent |-> a])
      /\ UNCHANGED <<voteVars, pollVars>>

\* Mutant of MustEscalate: the model's own flag decides.
MustEscalate_AsAsked(d) == d.escalate

MustEscalate(d) == d.escalate \/ d.minorityImpactHigh \/ ~d.confident

\* upsertReview: a first recommendation is pending, a later one keeps the status.
UpsertReview(u, a, choice) ==
  reviews' = [reviews EXCEPT ![u] =
                IF @ = None THEN [agent |-> a, choice |-> choice, status |-> "pending"]
                ELSE [@ EXCEPT !.choice = choice]]

\* The model answers.  What is uncertain or harms a minority is parked; the rest
\* is cast, unless the proposal closed or a vote came first.
Decide(b, d) ==
  LET u == beat[b].user
      a == beat[b].agent
  IN  /\ At(b, "asked")
      /\ \/ /\ MustEscalate(d)
            /\ UpsertReview(u, a, d.choice)
            /\ Done(b)
         \/ /\ ~MustEscalate(d)
            /\ MayCast(u)
            /\ GoTo(b, Casting(u, d.choice, "delegate", d.confident /\ ~d.minorityImpactHigh, a))
            /\ UNCHANGED reviews
         \/ /\ ~MustEscalate(d)
            /\ ~MayCast(u)
            /\ Done(b)
            /\ UNCHANGED reviews
      /\ UNCHANGED <<closed, status, power, autoVote, ballots, onchain, pollVars>>

\* commitDelegateVoteOnchain: the call from the agent's account, then the row that
\* keeps its salt.  The call may fail, or land without its receipt being read.
CommitOnchain(b, salt) ==
  LET c == beat[b]
  IN  /\ At(b, "commit")
      /\ CommitVote(c.agent, [optionId |-> c.optionId, salt |-> salt, voter |-> c.agent])
      /\ \/ GoTo(b, [at |-> "save", user |-> c.user, agent |-> c.agent,
                     optionId |-> c.optionId, salt |-> salt])
         \/ Done(b)
      /\ UNCHANGED voteVars

CommitFails(b) ==
  /\ At(b, "commit")
  /\ Done(b)
  /\ UNCHANGED <<voteVars, pollVars>>

SaveSalt(b) ==
  LET c == beat[b]
  IN  /\ At(b, "save")
      /\ onchain' = IF onchain[c.user] # None THEN onchain
                    ELSE [onchain EXCEPT ![c.user] =
                            [agent |-> c.agent, optionId |-> c.optionId,
                             salt |-> c.salt, status |-> "committed"]]
      /\ Done(b)
      /\ UNCHANGED <<closed, status, power, autoVote, ballots, reviews, pollVars>>

\* revealOnchainVotes: a committed row of a poll that is revealing.  The row is
\* marked, and its salt dropped, once the reveal is in.
RevealOnchain(b, u) ==
  LET v == onchain[u]
  IN  /\ At(b, "idle")
      /\ v # None /\ v.status = "committed"
      /\ RevealVote(v.agent, v.optionId, v.salt)
      /\ GoTo(b, [at |-> "revealed", user |-> u])
      /\ UNCHANGED voteVars

MarkRevealed(b) ==
  /\ At(b, "revealed")
  /\ onchain' = [onchain EXCEPT ![beat[b].user].status = "revealed", ![beat[b].user].salt = None]
  /\ Done(b)
  /\ UNCHANGED <<closed, status, power, autoVote, ballots, reviews, pollVars>>

-----------------------------------------------------------------------------
\* resolveDelegateReview: the owner clears the recommendation, or has it cast.
DismissReview(u) ==
  /\ Pending(u)
  /\ reviews' = [reviews EXCEPT ![u].status = "dismissed"]
  /\ UNCHANGED <<closed, status, power, autoVote, ballots, onchain, beat, pollVars>>

AcceptReview(b, u) ==
  /\ At(b, "idle")
  /\ Pending(u)
  /\ MayCast(u)
  /\ GoTo(b, Casting(u, reviews[u].choice, "confirmed", FALSE, reviews[u].agent))
  /\ UNCHANGED <<voteVars, pollVars>>

MarkVoted(b) ==
  /\ At(b, "mark")
  /\ reviews' = [reviews EXCEPT ![beat[b].user].status = "voted"]
  /\ Done(b)
  /\ UNCHANGED <<closed, status, power, autoVote, ballots, onchain, pollVars>>

-----------------------------------------------------------------------------
PowerFor(choice) ==
  MapThenSumSet(LAMBDA u : ballots[u].power,
                {u \in User : ballots[u] # None /\ ballots[u].choice = choice})

\* tallyVotes: abstentions count toward the quorum only.
Passed ==
  /\ PowerFor("for") + PowerFor("against") + PowerFor("abstain") >= QUORUM_POWER
  /\ PowerFor("for") > PowerFor("against")

\* listProposals reads proposal and votes, then records the outcome of a proposal
\* that is closed by then.
ListProposals(b) ==
  /\ At(b, "idle")
  /\ status = "open"
  /\ GoTo(b, [at |-> "listed", outcome |-> IF Passed THEN "passed" ELSE "rejected"])
  /\ UNCHANGED <<voteVars, pollVars>>

Finalize(b) ==
  /\ At(b, "listed")
  /\ status' = IF closed THEN beat[b].outcome ELSE status
  /\ Done(b)
  /\ UNCHANGED <<closed, power, autoVote, ballots, reviews, onchain, pollVars>>

Crash(b) ==
  /\ ~At(b, "idle")
  /\ Done(b)
  /\ UNCHANGED <<voteVars, pollVars>>

VotingNext ==
  \/ CloseProposal
  \/ DeadlinePasses
  \/ \E u \in User : PowerMoves(u) \/ DismissReview(u)
  \/ \E a \in Voter : SetAutoVote(a)
  \/ \E b \in Beat :
       \/ \E u \in User :
            \/ \E choice \in Choice : CastVote(b, u, choice)
            \/ RevealOnchain(b, u)
            \/ AcceptReview(b, u)
       \/ \E a \in Voter : AskDelegate(b, a)
       \/ \E d \in Decision : Decide(b, d)
       \/ \E salt \in Salt : CommitOnchain(b, salt)
       \/ InsertBallot(b)
       \/ CommitFails(b)
       \/ SaveSalt(b)
       \/ MarkRevealed(b)
       \/ MarkVoted(b)
       \/ ListProposals(b)
       \/ Finalize(b)
       \/ Crash(b)

VotingSpec == VotingInit /\ [][VotingNext]_votingVars

-----------------------------------------------------------------------------
\* What the chain reveals is what was cast: a commitment of an agent hides the
\* ballot of its owner, an owner speaks through one agent only, and a saved salt
\* opens the commitment it was saved for.
RevealMatchesBallot ==
  \A a \in Voter :
    LET u == OwnerOf[a]
    IN  /\ commitments[a] # NoHash =>
             /\ ballots[u] # None /\ ballots[u].via = "delegate"
             /\ commitments[a].optionId = CHOICE_TO_OPTION[ballots[u].choice]
             /\ \A x \in Voter \ {a} : OwnerOf[x] = u => commitments[x] = NoHash
        /\ onchain[u] # None /\ onchain[u].agent = a /\ onchain[u].status = "committed" =>
             commitments[a] = [optionId |-> onchain[u].optionId, salt |-> onchain[u].salt, voter |-> a]

\* A delegate never decides alone what it is not sure of, or what harms a
\* minority, whatever the model leaves out of its answer: such a ballot is one the
\* owner cast or confirmed.
EscalatedNeedsOwner ==
  \A u \in User : ballots[u] # None /\ ballots[u].via = "delegate" => ballots[u].sure

\* From the answer to the tally: a delegate decides only what it may, the chain
\* reveals what was cast, and the poll counts what was revealed.
VotesAreBound == TallyIsCommitted /\ RevealMatchesBallot /\ EscalatedNeedsOwner
=============================================================================

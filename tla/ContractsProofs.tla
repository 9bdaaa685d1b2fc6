--------------------------- MODULE ContractsProofs ---------------------------
(***************************************************************************)
(* The votes, on chain and off, the stablecoin's vault and the ledger of   *)
(* governance.  The tally of a poll is the set of opened commitments, for  *)
(* any number of voters, options and salts; what the chain reveals is what *)
(* was cast, for any owners, agents, beats and salts; every gUSD is owed   *)
(* and every $LEDGER is earned, for any holders, prices and stakes.  The   *)
(* parts share no state; the last section puts them together, with the     *)
(* abstract escrow, as the run does.                                       *)
(***************************************************************************)
EXTENDS MCContracts, EscrowProofs, SumTheorems

(***************************************************************************)
(* VeilPoll: the tally.                                                    *)
(***************************************************************************)
Committed == {v \in Voter : commitments[v] # NoHash}
Opened == {v \in Voter : revealed[v]}

\* Only the voter's own commitment to an option of the poll is ever opened.
OpenedIsOwn ==
  \A v \in Opened :
    /\ commitments[v] # NoHash
    /\ commitments[v].voter = v
    /\ commitments[v].optionId \in Option

Counted ==
  /\ \A o \in Option : votes[o] = Cardinality(RevealedFor(o))
  /\ revealCount = Cardinality(Opened)
  /\ commitCount = Cardinality(Committed)

PollInv == PollTypeOK /\ OpenedIsOwn /\ Counted

-----------------------------------------------------------------------------
LEMMA Finite ==
  ASSUME PollAssumption
  PROVE  /\ IsFiniteSet(Committed) /\ IsFiniteSet(Opened)
         /\ \A o \in Option : IsFiniteSet(RevealedFor(o))
  BY FS_Subset DEF PollAssumption, Committed, Opened, RevealedFor

LEMMA PollTypeStep == ASSUME PollAssumption, PollTypeOK, [PollNext]_pollVars PROVE PollTypeOK'
  <1>1. CASE PassDeadline
    BY <1>1 DEF PassDeadline, PollTypeOK
  <1>2. ASSUME NEW v \in Voter, NEW hash \in Hash, CommitVote(v, hash) PROVE PollTypeOK'
    BY <1>2 DEF CommitVote, PollTypeOK
  <1>3. ASSUME NEW v \in Voter, NEW optionId \in OptionId, NEW salt \in Salt,
               RevealVote(v, optionId, salt)
        PROVE  PollTypeOK'
    BY <1>3 DEF RevealVote, PollTypeOK
  <1>4. CASE UNCHANGED pollVars
    BY <1>4 DEF pollVars, PollTypeOK
  <1>5. QED
    BY <1>1, <1>2, <1>3, <1>4 DEF PollNext

\* A commitment adds its voter to those who committed and opens nothing.
LEMMA CommitStep ==
  ASSUME PollAssumption, PollInv, NEW v \in Voter, NEW hash \in Hash, CommitVote(v, hash)
  PROVE  OpenedIsOwn' /\ Counted'
  <1>1. v \notin Opened /\ v \notin Committed
    BY DEF CommitVote, PollInv, OpenedIsOwn, Committed
  <1>2. \A w \in Voter \ {v} : commitments'[w] = commitments[w]
    BY DEF CommitVote, PollInv, PollTypeOK
  <1>3. commitments'[v] = hash /\ hash # NoHash
    BY DEF CommitVote, PollInv, PollTypeOK, PollAssumption
  <1>4. revealed' = revealed /\ votes' = votes /\ revealCount' = revealCount
    BY DEF CommitVote
  <1>5. Opened' = Opened
    BY <1>4 DEF Opened
  <1>6. \A o \in Option : RevealedFor(o)' = RevealedFor(o)
    BY <1>1, <1>2, <1>4 DEF RevealedFor, Opened
  <1>7. Committed' = Committed \cup {v}
    BY <1>2, <1>3 DEF Committed
  <1>8. commitCount' = Cardinality(Committed')
    BY <1>1, <1>7, Finite, FS_AddElement DEF CommitVote, PollInv, Counted
  <1>9. OpenedIsOwn'
    BY <1>1, <1>2, <1>5 DEF OpenedIsOwn, PollInv, Opened
  <1>10. QED
    BY <1>4, <1>5, <1>6, <1>8, <1>9 DEF PollInv, Counted

\* A reveal adds its voter to the one option that the commitment hid.
LEMMA RevealStep ==
  ASSUME PollAssumption, PollInv, NEW v \in Voter, NEW optionId \in OptionId,
         NEW salt \in Salt, RevealVote(v, optionId, salt)
  PROVE  OpenedIsOwn' /\ Counted'
  <1>1. v \notin Opened /\ optionId \in Option
    BY DEF RevealVote, Opened
  <1>2. commitments[v] # NoHash /\ commitments[v].voter = v
        /\ commitments[v].optionId = optionId
    <2>1. commitments[v] = [optionId |-> optionId, salt |-> salt, voter |-> v]
      BY DEF RevealVote
    <2>2. commitments[v] \in Hash
      BY <2>1 DEF Hash
    <2>3. QED
      BY <2>1, <2>2 DEF PollAssumption
  <1>3. commitments' = commitments /\ commitCount' = commitCount
    BY DEF RevealVote
  <1>4. Opened' = Opened \cup {v}
    BY DEF RevealVote, Opened, PollInv, PollTypeOK
  <1>5. \A w \in Voter \ {v} : revealed'[w] = revealed[w]
    BY DEF RevealVote, PollInv, PollTypeOK
  <1>6. revealed'[v] = TRUE
    BY DEF RevealVote, PollInv, PollTypeOK
  <1>7. v \notin RevealedFor(optionId)
    BY <1>1 DEF RevealedFor, Opened
  <1>8. RevealedFor(optionId)' = RevealedFor(optionId) \cup {v}
    BY <1>2, <1>3, <1>5, <1>6 DEF RevealedFor
  <1>9. \A o \in Option \ {optionId} : RevealedFor(o)' = RevealedFor(o)
    BY <1>2, <1>3, <1>5, <1>6 DEF RevealedFor
  <1>10. \A o \in Option : votes'[o] = Cardinality(RevealedFor(o)')
    <2>1. votes'[optionId] = votes[optionId] + 1
          /\ \A o \in Option \ {optionId} : votes'[o] = votes[o]
      BY <1>1 DEF RevealVote, PollInv, PollTypeOK
    <2>2. Cardinality(RevealedFor(optionId)') = Cardinality(RevealedFor(optionId)) + 1
      BY <1>1, <1>7, <1>8, Finite, FS_AddElement
    <2>3. QED
      BY <1>1, <1>9, <2>1, <2>2 DEF PollInv, Counted
  <1>11. revealCount' = Cardinality(Opened')
    BY <1>1, <1>4, Finite, FS_AddElement DEF RevealVote, PollInv, Counted
  <1>12. Committed' = Committed
    BY <1>3 DEF Committed
  <1>13. OpenedIsOwn'
    BY <1>1, <1>2, <1>3, <1>4 DEF OpenedIsOwn, PollInv
  <1>14. QED
    BY <1>3, <1>10, <1>11, <1>12, <1>13 DEF PollInv, Counted

LEMMA PollInvInit == PollInit => PollInv
  <1> SUFFICES ASSUME PollInit PROVE PollInv
    OBVIOUS
  <1>1. PollTypeOK
    BY DEF PollInit, PollTypeOK
  <1>2. Opened = {} /\ Committed = {} /\ \A o \in Option : RevealedFor(o) = {}
    BY DEF PollInit, Opened, Committed, RevealedFor
  <1>3. Counted
    <2>1. \A o \in Option : votes[o] = 0
      BY DEF PollInit
    <2>2. QED
      BY <1>2, <2>1, FS_EmptySet DEF PollInit, Counted
  <1>4. QED
    BY <1>1, <1>2, <1>3 DEF PollInv, OpenedIsOwn

LEMMA PollInvStep == ASSUME PollAssumption, PollInv, [PollNext]_pollVars PROVE PollInv'
  <1>1. PollTypeOK'
    BY PollTypeStep DEF PollInv
  <1>2. CASE PassDeadline \/ UNCHANGED pollVars
    <2>1. UNCHANGED <<commitments, revealed, votes, commitCount, revealCount>>
      BY <1>2 DEF PassDeadline, pollVars
    <2>2. /\ Opened' = Opened /\ Committed' = Committed
          /\ \A o \in Option : RevealedFor(o)' = RevealedFor(o)
      BY <2>1 DEF Opened, Committed, RevealedFor
    <2>3. OpenedIsOwn' /\ Counted'
      BY <2>1, <2>2 DEF PollInv, OpenedIsOwn, Counted
    <2>4. QED
      BY <1>1, <2>3 DEF PollInv
  <1>3. QED
    BY <1>1, <1>2, CommitStep, RevealStep DEF PollNext, PollInv

LEMMA PollTally == ASSUME PollAssumption, PollInv PROVE TallyIsCommitted
  <1>1. Opened \subseteq Committed
    BY DEF PollInv, OpenedIsOwn, Opened, Committed
  <1>2. Cardinality(Opened) <= Cardinality(Committed)
    BY <1>1, Finite, FS_Subset
  <1>3. QED
    BY <1>2 DEF PollInv, Counted, TallyIsCommitted, Opened, Committed

-----------------------------------------------------------------------------
\* VeilPoll.sol: the published result is the opened commitments and nothing else,
\* each voter once, for the option hidden before the deadline.
THEOREM TallyIsOpened == ASSUME PollAssumption PROVE PollSpec => []TallyIsCommitted
  <1>1. PollInv /\ [PollNext]_pollVars => PollInv'
    BY PollInvStep
  <1>2. PollInv => TallyIsCommitted
    BY PollTally
  <1>3. QED
    BY <1>1, <1>2, PollInvInit, PTL DEF PollSpec

-----------------------------------------------------------------------------
(***************************************************************************)
(* DelegateVoting: the invariant follows a vote through the beat that      *)
(* carries it: from the answer of the model to the insert of the ballot,   *)
(* to the commitment, to the row that keeps its salt.                      *)
(***************************************************************************)
AgentsOf(u) == {a \in Voter : OwnerOf[a] = u}

\* No agent of the owner has committed a vote.
Silent(u) == \A a \in AgentsOf(u) : commitments[a] = NoHash

\* The owner's ballot is a delegate's, for this option.
SpokeFor(u, optionId) ==
  /\ ballots[u] # None
  /\ ballots[u].via = "delegate"
  /\ optionId = CHOICE_TO_OPTION[ballots[u].choice]

\* What a beat may rely on where it stands.
Fine(c) ==
  /\ c.at = "asked" => c.agent \in Voter /\ c.user = OwnerOf[c.agent]
  /\ c.at = "insert" =>
       /\ c.user \in User
       /\ c.ballot \in Ballot
       /\ c.ballot.via = "delegate" =>
            c.agent \in Voter /\ c.user = OwnerOf[c.agent] /\ c.ballot.sure
       /\ c.ballot.via = "confirmed" => reviews[c.user] # None
  /\ c.at = "commit" =>
       /\ c.agent \in Voter /\ c.user = OwnerOf[c.agent]
       /\ c.optionId \in Option
       /\ SpokeFor(c.user, c.optionId)
       /\ Silent(c.user)
  /\ c.at = "save" =>
       /\ c.agent \in Voter /\ c.user = OwnerOf[c.agent]
       /\ c.optionId \in Option /\ c.salt \in Salt
       /\ commitments[c.agent] = [optionId |-> c.optionId, salt |-> c.salt, voter |-> c.agent]
  /\ c.at = "mark" => c.user \in User /\ reviews[c.user] # None
  /\ c.at = "revealed" => c.user \in User /\ onchain[c.user] # None
  /\ c.at = "listed" => c.outcome \in {"passed", "rejected"}

BeatsAreFine ==
  /\ DOMAIN beat = Beat
  /\ beat = [b \in Beat |-> beat[b]]
  /\ \A b \in Beat : Fine(beat[b])

\* The insert of the ballot lets one beat through to the chain.
OneSpeaks ==
  \A b, x \in Beat : At(b, "commit") /\ At(x, "commit") /\ beat[b].user = beat[x].user => b = x

Salted ==
  \A u \in User : onchain[u] # None /\ onchain[u].status = "committed" => onchain[u].salt \in Salt

VoteInv ==
  /\ VotingTypeOK
  /\ PollInv
  /\ BeatsAreFine
  /\ OneSpeaks
  /\ Salted
  /\ RevealMatchesBallot
  /\ EscalatedNeedsOwner

-----------------------------------------------------------------------------
\* What is written is never taken back.
Grows ==
  /\ \A u \in User :
       /\ ballots[u] # None => ballots'[u] = ballots[u]
       /\ reviews[u] # None => reviews'[u] # None
       /\ onchain[u] # None => onchain'[u] # None
  /\ \A a \in Voter : commitments[a] # NoHash => commitments'[a] = commitments[a]

LEMMA FineStays ==
  ASSUME VotingAssumption, PollAssumption, VotingTypeOK, NEW c, Fine(c), Grows,
         c.at = "commit" => Silent(c.user)'
  PROVE  Fine(c)'
  <1>1. c.at = "commit" => SpokeFor(c.user, c.optionId)'
    BY DEF Fine, Grows, SpokeFor, VotingAssumption
  <1>2. c.at = "save" => commitments'[c.agent] = commitments[c.agent]
    <2>1. c.at = "save" => commitments[c.agent] # NoHash
      <3> SUFFICES ASSUME c.at = "save" PROVE commitments[c.agent] # NoHash
        OBVIOUS
      <3>1. commitments[c.agent] \in Hash
        BY DEF Fine, Hash, PollAssumption
      <3>2. QED
        BY <3>1 DEF PollAssumption
    <2>2. QED
      BY <2>1 DEF Grows, Fine
  <1>3. QED
    BY <1>1, <1>2 DEF Fine, Grows

\* A step of one beat that commits nothing and takes nothing back leaves the rest
\* to show of that beat alone.
LEMMA BeatStep ==
  ASSUME VotingAssumption, PollAssumption, VoteInv, NEW b \in Beat, NEW c, GoTo(b, c),
         Grows, commitments' = commitments, Fine(c)',
         c.at = "commit" => \A x \in Beat : At(x, "commit") => beat[x].user # c.user
  PROVE  BeatsAreFine' /\ OneSpeaks'
  <1>1. beat'[b] = c /\ \A x \in Beat \ {b} : beat'[x] = beat[x]
    BY DEF GoTo, VoteInv, BeatsAreFine
  <1>2. DOMAIN beat' = Beat /\ beat' = [x \in Beat |-> beat'[x]]
    BY DEF GoTo, VoteInv, BeatsAreFine
  <1>3. ASSUME NEW x \in Beat \ {b} PROVE Fine(beat[x])'
    <2>1. Fine(beat[x])
      BY DEF VoteInv, BeatsAreFine
    <2>2. beat[x].at = "commit" => Silent(beat[x].user)
      BY <2>1 DEF Fine
    <2>3. PICK d : d = beat[x]
      OBVIOUS
    <2>4. d.at = "commit" => Silent(d.user)'
      BY <2>2, <2>3 DEF Silent
    <2>5. Fine(d)
      BY <2>1, <2>3
    <2>6. Fine(d)'
      BY <2>4, <2>5, FineStays DEF VoteInv
    <2>7. beat'[x] = d
      BY <1>1, <2>3
    <2>8. QED
      BY <2>6, <2>7 DEF Fine, SpokeFor, Silent
  <1>4. Fine(beat[b])'
    BY <1>1 DEF Fine, SpokeFor, Silent
  <1>5. OneSpeaks'
    BY <1>1 DEF OneSpeaks, At, VoteInv
  <1>6. QED
    BY <1>2, <1>3, <1>4, <1>5 DEF BeatsAreFine

\* Nothing a beat stands on moves.
LEMMA BeatsRest ==
  ASSUME VotingAssumption, PollAssumption, VoteInv, beat' = beat, Grows, commitments' = commitments
  PROVE  BeatsAreFine' /\ OneSpeaks'
  <1>1. ASSUME NEW x \in Beat PROVE Fine(beat[x])'
    <2>1. PICK d : d = beat[x]
      OBVIOUS
    <2>2. Fine(d)
      BY <2>1 DEF VoteInv, BeatsAreFine
    <2>3. d.at = "commit" => Silent(d.user)'
      BY <2>2 DEF Fine, Silent
    <2>4. Fine(d)'
      BY <2>2, <2>3, FineStays DEF VoteInv
    <2>5. beat'[x] = d
      BY <2>1
    <2>6. QED
      BY <2>4, <2>5 DEF Fine, SpokeFor, Silent
  <1>2. QED
    BY <1>1 DEF BeatsAreFine, OneSpeaks, At, VoteInv

-----------------------------------------------------------------------------
\* The steps that touch no ballot, no review, no row and no commitment.
LEMMA QuietStep ==
  ASSUME VotingAssumption, PollAssumption, VoteInv,
         UNCHANGED <<ballots, reviews, onchain, commitments>>
  PROVE  /\ Grows /\ Salted' /\ RevealMatchesBallot' /\ EscalatedNeedsOwner'
         /\ \A c : Fine(c) => Fine(c)'
  <1>1. Grows
    BY DEF Grows
  <1>2. Salted' /\ EscalatedNeedsOwner'
    BY DEF Salted, EscalatedNeedsOwner, VoteInv
  <1>3. RevealMatchesBallot'
    BY DEF RevealMatchesBallot, VoteInv
  <1>4. ASSUME NEW c, Fine(c) PROVE Fine(c)'
    BY <1>4 DEF Fine, SpokeFor, Silent
  <1>5. QED
    BY <1>1, <1>2, <1>3, <1>4

\* A beat that reads, or gives up.
LEMMA LooksStep ==
  ASSUME VotingAssumption, PollAssumption, VoteInv, PollInv', VotingTypeOK', NEW b \in Beat, NEW c,
         GoTo(b, c), UNCHANGED <<ballots, reviews, onchain, commitments>>,
         Fine(c), c.at # "commit"
  PROVE  VoteInv'
  <1>1. Fine(c)'
    BY QuietStep
  <1>2. BeatsAreFine' /\ OneSpeaks'
    BY <1>1, QuietStep, BeatStep
  <1>3. QED
    BY <1>2, QuietStep DEF VoteInv

LEMMA WorldStep ==
  ASSUME VotingAssumption, PollAssumption, VoteInv, PollInv', VotingTypeOK',
         UNCHANGED <<ballots, reviews, onchain, commitments, beat>>
  PROVE  VoteInv'
  BY QuietStep, BeatsRest DEF VoteInv

LEMMA CastVoteStep ==
  ASSUME VotingAssumption, PollAssumption, VoteInv, PollInv', VotingTypeOK', NEW b \in Beat,
         NEW u \in User, NEW choice \in Choice, CastVote(b, u, choice)
  PROVE  VoteInv'
  <1> DEFINE c == Casting(u, choice, "owner", TRUE, None)
  <1>1. Fine(c) /\ c.at # "commit"
    BY DEF Casting, Fine, Ballot, Via, VoteInv, VotingTypeOK
  <1>2. GoTo(b, c) /\ UNCHANGED <<ballots, reviews, onchain, commitments>>
    BY DEF CastVote, voteVars, pollVars
  <1> HIDE DEF c
  <1>3. QED
    BY <1>1, <1>2, LooksStep

LEMMA AcceptReviewStep ==
  ASSUME VotingAssumption, PollAssumption, VoteInv, PollInv', VotingTypeOK', NEW b \in Beat,
         NEW u \in User, AcceptReview(b, u)
  PROVE  VoteInv'
  <1> DEFINE c == Casting(u, reviews[u].choice, "confirmed", FALSE, reviews[u].agent)
  <1>1. reviews[u] # None /\ reviews[u] \in Review
    BY DEF AcceptReview, Pending, VoteInv, VotingTypeOK
  <1>2. Fine(c) /\ c.at # "commit"
    BY <1>1 DEF Casting, Fine, Ballot, Review, Via, VoteInv, VotingTypeOK
  <1>3. GoTo(b, c) /\ UNCHANGED <<ballots, reviews, onchain, commitments>>
    BY DEF AcceptReview, voteVars, pollVars
  <1> HIDE DEF c
  <1>4. QED
    BY <1>2, <1>3, LooksStep

LEMMA AskDelegateStep ==
  ASSUME VotingAssumption, PollAssumption, VoteInv, PollInv', VotingTypeOK', NEW b \in Beat,
         NEW a \in Voter, AskDelegate(b, a)
  PROVE  VoteInv'
  <1> DEFINE c == [at |-> "asked", user |-> OwnerOf[a], agent |-> a]
  <1>1. Fine(c) /\ c.at # "commit"
    BY DEF Fine
  <1>2. GoTo(b, c) /\ UNCHANGED <<ballots, reviews, onchain, commitments>>
    BY DEF AskDelegate, voteVars, pollVars
  <1> HIDE DEF c
  <1>3. QED
    BY <1>1, <1>2, LooksStep

LEMMA ListStep ==
  ASSUME VotingAssumption, PollAssumption, VoteInv, PollInv', VotingTypeOK', NEW b \in Beat,
         ListProposals(b)
  PROVE  VoteInv'
  <1> DEFINE c == [at |-> "listed", outcome |-> IF Passed THEN "passed" ELSE "rejected"]
  <1>1. Fine(c) /\ c.at # "commit"
    BY DEF Fine
  <1>2. GoTo(b, c) /\ UNCHANGED <<ballots, reviews, onchain, commitments>>
    BY DEF ListProposals, voteVars, pollVars
  <1> HIDE DEF c
  <1>3. QED
    BY <1>1, <1>2, LooksStep

\* CommitFails, Finalize and Crash leave the beat idle and nothing else changed.
LEMMA StopStep ==
  ASSUME VotingAssumption, PollAssumption, VoteInv, PollInv', VotingTypeOK', NEW b \in Beat,
         Done(b), UNCHANGED <<ballots, reviews, onchain, commitments>>
  PROVE  VoteInv'
  <1>1. Fine(Idle) /\ Idle.at # "commit"
    BY DEF Fine, Idle
  <1>2. QED
    BY <1>1, LooksStep DEF Done

-----------------------------------------------------------------------------
\* The ballot goes in where there was none, so nothing of its owner's is on the
\* chain and no other beat is on its way there.
LEMMA InsertStep ==
  ASSUME VotingAssumption, PollAssumption, VoteInv, PollInv', VotingTypeOK', NEW b \in Beat,
         InsertBallot(b)
  PROVE  VoteInv'
  <1>0. PICK now : now = beat[b]
    OBVIOUS
  <1> DEFINE u == now.user
             ballot == now.ballot
             a == now.agent
  <1>1. Fine(now) /\ now.at = "insert"
    BY <1>0 DEF InsertBallot, At, VoteInv, BeatsAreFine
  <1>2. /\ u \in User /\ ballot \in Ballot
        /\ ballot.via = "delegate" => a \in Voter /\ u = OwnerOf[a] /\ ballot.sure
        /\ ballot.via = "confirmed" => reviews[u] # None
    BY <1>1 DEF Fine
  <1>3. UNCHANGED <<reviews, onchain, commitments>>
    BY <1>0 DEF InsertBallot, pollVars
  <1>4. CASE ~Inserts(u)
    <2>1. Done(b) /\ ballots' = ballots
      BY <1>0, <1>4 DEF InsertBallot
    <2>2. QED
      BY <1>3, <2>1, StopStep
  <1>5. CASE Inserts(u)
    <2>1. ballots[u] = None
      BY <1>5 DEF Inserts
    <2>2. ballots' = [ballots EXCEPT ![u] = ballot]
      BY <1>0, <1>5 DEF InsertBallot
    <2>3. ballots'[u] = ballot /\ \A w \in User \ {u} : ballots'[w] = ballots[w]
      BY <1>2, <2>2 DEF VoteInv, VotingTypeOK
    <2>4. ballot # None
      BY <1>2 DEF VotingAssumption
    <2>5. Grows
      BY <1>3, <2>1, <2>3 DEF Grows
    <2>6. Silent(u)
      BY <2>1 DEF Silent, AgentsOf, VoteInv, RevealMatchesBallot
    <2>7. \A x \in Beat : At(x, "commit") => beat[x].user # u
      BY <1>0, <2>1 DEF VoteInv, BeatsAreFine, Fine, SpokeFor, At
    <2>8. Salted'
      BY <1>3 DEF VoteInv, Salted
    <2>9. EscalatedNeedsOwner'
      BY <1>2, <2>3 DEF VoteInv, EscalatedNeedsOwner
    <2>10. RevealMatchesBallot'
      BY <1>3, <2>1, <2>3 DEF VoteInv, RevealMatchesBallot, VotingAssumption
    <2>11. BeatsAreFine' /\ OneSpeaks'
      <3>1. CASE ballot.via = "delegate"
        <4> DEFINE c == [at |-> "commit", user |-> u, agent |-> a,
                         optionId |-> CHOICE_TO_OPTION[ballot.choice]]
        <4>1. GoTo(b, c)
          BY <1>0, <1>5, <3>1 DEF InsertBallot
        <4>2. CHOICE_TO_OPTION[ballot.choice] \in Option
          BY <1>2 DEF Ballot, Choice, CHOICE_TO_OPTION, VotingAssumption
        <4>3. SpokeFor(u, CHOICE_TO_OPTION[ballot.choice])'
          BY <2>3, <2>4, <3>1 DEF SpokeFor, CHOICE_TO_OPTION
        <4>4. Silent(u)'
          BY <1>3, <2>6 DEF Silent
        <4>5. Fine(c)'
          BY <1>2, <3>1, <4>2, <4>3, <4>4 DEF Fine, SpokeFor, Silent
        <4>6. c.user = u
          OBVIOUS
        <4> HIDE DEF c
        <4>7. QED
          BY <1>3, <2>5, <2>7, <4>1, <4>5, <4>6, BeatStep
      <3>2. CASE ballot.via = "confirmed"
        <4> DEFINE c == [at |-> "mark", user |-> u]
        <4>1. GoTo(b, c)
          BY <1>0, <1>5, <3>2 DEF InsertBallot
        <4>2. Fine(c)' /\ c.at # "commit"
          BY <1>2, <1>3, <3>2 DEF Fine
        <4> HIDE DEF c
        <4>3. QED
          BY <1>3, <2>5, <4>1, <4>2, BeatStep
      <3>3. CASE ballot.via \notin {"delegate", "confirmed"}
        <4>1. GoTo(b, Idle)
          BY <1>0, <1>5, <3>3 DEF InsertBallot, Done
        <4>2. Fine(Idle)' /\ Idle.at # "commit"
          BY DEF Fine, Idle
        <4>3. QED
          BY <1>3, <2>5, <4>1, <4>2, BeatStep
      <3>4. QED
        BY <3>1, <3>2, <3>3
    <2>12. QED
      BY <2>8, <2>9, <2>10, <2>11 DEF VoteInv
  <1>6. QED
    BY <1>4, <1>5

\* What is uncertain is parked; the rest is carried on, and is sure.
LEMMA DecideStep ==
  ASSUME VotingAssumption, PollAssumption, VoteInv, PollInv', VotingTypeOK', NEW b \in Beat,
         NEW d \in Decision, Decide(b, d)
  PROVE  VoteInv'
  <1>0. PICK now : now = beat[b]
    OBVIOUS
  <1> DEFINE u == now.user
             a == now.agent
             c == Casting(u, d.choice, "delegate", d.confident /\ ~d.minorityImpactHigh, a)
  <1>1. a \in Voter /\ u = OwnerOf[a] /\ u \in User
    BY <1>0 DEF Decide, At, VoteInv, BeatsAreFine, Fine, VotingAssumption
  <1>2. UNCHANGED <<ballots, onchain, commitments>>
    BY <1>0 DEF Decide, pollVars
  <1>3. CASE ~MustEscalate(d) /\ MayCast(u) /\ GoTo(b, c) /\ UNCHANGED reviews
    <2>1. d.confident /\ ~d.minorityImpactHigh /\ d.choice \in Choice
      BY <1>3 DEF MustEscalate, Decision
    <2>2. Fine(c) /\ c.at # "commit"
      BY <1>1, <2>1 DEF Casting, Fine, Ballot, Via, VoteInv, VotingTypeOK
    <2> HIDE DEF c
    <2>3. QED
      BY <1>2, <1>3, <2>2, LooksStep
  <1>4. CASE ~MustEscalate(d) /\ Done(b) /\ UNCHANGED reviews
    BY <1>2, <1>4, StopStep
  <1>5. CASE UpsertReview(u, a, d.choice) /\ Done(b)
    <2>1. reviews'[u] # None
      <3>1. d.choice \in Choice
        BY DEF Decision
      <3>2. reviews[u] \in Review \cup {None}
        BY <1>1 DEF VoteInv, VotingTypeOK
      <3>3. reviews'[u] = IF reviews[u] = None
                          THEN [agent |-> a, choice |-> d.choice, status |-> "pending"]
                          ELSE [reviews[u] EXCEPT !.choice = d.choice]
        BY <1>1, <1>5 DEF UpsertReview, VoteInv, VotingTypeOK
      <3>4. reviews'[u] \in Review
        BY <1>1, <3>1, <3>2, <3>3 DEF Review
      <3>5. QED
        BY <3>4 DEF VotingAssumption
    <2>2. \A w \in User \ {u} : reviews'[w] = reviews[w]
      BY <1>5 DEF UpsertReview, VoteInv, VotingTypeOK
    <2>3. Grows
      BY <1>2, <2>1, <2>2 DEF Grows
    <2>4. Fine(Idle)' /\ Idle.at # "commit"
      BY DEF Fine, Idle
    <2>5. BeatsAreFine' /\ OneSpeaks'
      BY <1>2, <1>5, <2>3, <2>4, BeatStep DEF Done
    <2>6. Salted' /\ EscalatedNeedsOwner'
      BY <1>2 DEF VoteInv, Salted, EscalatedNeedsOwner
    <2>7. RevealMatchesBallot'
      BY <1>2 DEF VoteInv, RevealMatchesBallot
    <2>8. QED
      BY <2>5, <2>6, <2>7 DEF VoteInv
  <1>6. QED
    BY <1>0, <1>3, <1>4, <1>5 DEF Decide

\* The commitment hides the ballot that brought the beat here, and no other agent
\* of the owner has one.
LEMMA CommitOnchainStep ==
  ASSUME VotingAssumption, PollAssumption, VoteInv, PollInv', VotingTypeOK', NEW b \in Beat,
         NEW salt \in Salt, CommitOnchain(b, salt)
  PROVE  VoteInv'
  <1>0. PICK now : now = beat[b]
    OBVIOUS
  <1> DEFINE u == now.user
             a == now.agent
             optionId == now.optionId
             hash == [optionId |-> optionId, salt |-> salt, voter |-> a]
             c == [at |-> "save", user |-> u, agent |-> a, optionId |-> optionId, salt |-> salt]
  <1>1. /\ a \in Voter /\ u = OwnerOf[a] /\ optionId \in Option
        /\ SpokeFor(u, optionId) /\ Silent(u)
    BY <1>0 DEF CommitOnchain, At, VoteInv, BeatsAreFine, Fine
  <1>2. UNCHANGED <<ballots, reviews, onchain>>
    BY <1>0 DEF CommitOnchain, voteVars
  <1>3. commitments[a] = NoHash /\ commitments' = [commitments EXCEPT ![a] = hash]
    BY <1>0 DEF CommitOnchain, CommitVote
  <1>4. commitments'[a] = hash /\ \A x \in Voter \ {a} : commitments'[x] = commitments[x]
    BY <1>1, <1>3 DEF VoteInv, VotingTypeOK, PollTypeOK
  <1>5. Grows
    BY <1>2, <1>3, <1>4 DEF Grows
  <1>6. PICK n : GoTo(b, n) /\ n \in {c, Idle}
    BY <1>0 DEF CommitOnchain, Done
  <1>7. Fine(n)' /\ n.at # "commit"
    BY <1>1, <1>4, <1>6 DEF Fine, Idle
  <1>8. beat'[b] = n /\ \A x \in Beat \ {b} : beat'[x] = beat[x]
    BY <1>0, <1>6 DEF GoTo, VoteInv, BeatsAreFine
  <1>9. DOMAIN beat' = Beat /\ beat' = [x \in Beat |-> beat'[x]]
    BY <1>0, <1>6 DEF GoTo, VoteInv, BeatsAreFine
  <1>10. ASSUME NEW x \in Beat \ {b} PROVE Fine(beat[x])'
    <2>1. PICK e : e = beat[x]
      OBVIOUS
    <2>2. Fine(e)
      BY <1>0, <2>1 DEF VoteInv, BeatsAreFine
    <2>3. e.at = "commit" => e.user # u
      BY <1>0, <2>1 DEF CommitOnchain, At, VoteInv, OneSpeaks
    <2>4. e.at = "commit" => Silent(e.user)'
      BY <1>1, <1>4, <2>2, <2>3 DEF Fine, Silent, AgentsOf
    <2>5. Fine(e)'
      BY <1>5, <2>2, <2>4, FineStays DEF VoteInv
    <2>6. beat'[x] = e
      BY <1>8, <2>1
    <2>7. QED
      BY <2>5, <2>6 DEF Fine, SpokeFor, Silent
  <1>11. Fine(beat[b])'
    BY <1>7, <1>8 DEF Fine, SpokeFor, Silent
  <1>12. BeatsAreFine'
    BY <1>0, <1>9, <1>10, <1>11 DEF BeatsAreFine
  <1>13. OneSpeaks'
    BY <1>7, <1>8 DEF OneSpeaks, At, VoteInv
  <1>14. Salted' /\ EscalatedNeedsOwner'
    BY <1>2 DEF VoteInv, Salted, EscalatedNeedsOwner
  <1>15. RevealMatchesBallot'
    <2>1. ASSUME NEW x \in Voter, commitments'[x] # NoHash
          PROVE  /\ ballots[OwnerOf[x]] # None /\ ballots[OwnerOf[x]].via = "delegate"
                 /\ commitments'[x].optionId = CHOICE_TO_OPTION[ballots[OwnerOf[x]].choice]
                 /\ \A y \in Voter \ {x} : OwnerOf[y] = OwnerOf[x] => commitments'[y] = NoHash
      <3>1. CASE x = a
        BY <1>1, <1>4, <3>1 DEF SpokeFor, Silent, AgentsOf
      <3>2. CASE x # a
        <4>1. commitments[x] # NoHash /\ OwnerOf[x] # u
          BY <1>1, <1>4, <2>1, <3>2 DEF Silent, AgentsOf
        <4>2. QED
          BY <1>1, <1>4, <3>2, <4>1 DEF VoteInv, RevealMatchesBallot
      <3>3. QED
        BY <3>1, <3>2
    <2>2. ASSUME NEW x \in Voter, onchain[OwnerOf[x]] # None, onchain[OwnerOf[x]].agent = x,
                 onchain[OwnerOf[x]].status = "committed"
          PROVE  commitments'[x] = [optionId |-> onchain[OwnerOf[x]].optionId,
                                    salt |-> onchain[OwnerOf[x]].salt, voter |-> x]
      <3> DEFINE w == OwnerOf[x]
                 old == [optionId |-> onchain[w].optionId, salt |-> onchain[w].salt, voter |-> x]
      <3>1. commitments[x] = old
        BY <2>2 DEF VoteInv, RevealMatchesBallot
      <3>2. w \in User /\ onchain[w] \in OnchainVote
        BY <2>2 DEF VoteInv, VotingTypeOK, VotingAssumption
      <3>3. old \in Hash
        BY <2>2, <3>2 DEF VoteInv, Salted, OnchainVote, Hash, PollAssumption
      <3>4. commitments[x] # NoHash
        BY <3>1, <3>3 DEF PollAssumption
      <3>5. QED
        BY <1>3, <1>4, <3>1, <3>4
    <2>3. QED
      BY <1>2, <2>1, <2>2 DEF RevealMatchesBallot
  <1>16. QED
    BY <1>12, <1>13, <1>14, <1>15 DEF VoteInv

\* The row keeps the salt of the commitment on the chain.
LEMMA SaveSaltStep ==
  ASSUME VotingAssumption, PollAssumption, VoteInv, PollInv', VotingTypeOK', NEW b \in Beat, SaveSalt(b)
  PROVE  VoteInv'
  <1>0. PICK now : now = beat[b]
    OBVIOUS
  <1> DEFINE u == now.user
             row == [agent |-> now.agent, optionId |-> now.optionId,
                     salt |-> now.salt, status |-> "committed"]
  <1>1. /\ now.agent \in Voter /\ u = OwnerOf[now.agent] /\ u \in User
        /\ now.optionId \in Option /\ now.salt \in Salt
        /\ commitments[now.agent] = [optionId |-> now.optionId, salt |-> now.salt, voter |-> now.agent]
    BY <1>0 DEF SaveSalt, At, VoteInv, BeatsAreFine, Fine, VotingAssumption
  <1>2. UNCHANGED <<ballots, reviews, commitments>> /\ Done(b)
    BY DEF SaveSalt, pollVars
  <1>3. CASE onchain[u] # None
    BY <1>0, <1>2, <1>3, StopStep DEF SaveSalt
  <1>4. CASE onchain[u] = None
    <2>1. onchain'[u] = row /\ \A w \in User \ {u} : onchain'[w] = onchain[w]
      BY <1>0, <1>1, <1>4 DEF SaveSalt, VoteInv, VotingTypeOK
    <2>2. Grows
      BY <1>1, <1>2, <1>4, <2>1 DEF Grows
    <2>3. Fine(Idle)' /\ Idle.at # "commit"
      BY DEF Fine, Idle
    <2>4. BeatsAreFine' /\ OneSpeaks'
      BY <1>2, <2>2, <2>3, BeatStep DEF Done
    <2>5. Salted'
      BY <1>1, <2>1 DEF VoteInv, Salted
    <2>6. EscalatedNeedsOwner'
      BY <1>2 DEF VoteInv, EscalatedNeedsOwner
    <2>7. RevealMatchesBallot'
      <3>1. ASSUME NEW x \in Voter, onchain'[OwnerOf[x]] # None, onchain'[OwnerOf[x]].agent = x,
                  onchain'[OwnerOf[x]].status = "committed"
           PROVE  commitments[x] = [optionId |-> onchain'[OwnerOf[x]].optionId,
                                    salt |-> onchain'[OwnerOf[x]].salt, voter |-> x]
        <4>1. OwnerOf[x] \in User
          BY DEF VotingAssumption
        <4>2. CASE OwnerOf[x] = u
          BY <1>1, <2>1, <3>1, <4>2
        <4>3. CASE OwnerOf[x] # u
          BY <2>1, <3>1, <4>1, <4>3 DEF VoteInv, RevealMatchesBallot
        <4>4. QED
          BY <4>2, <4>3
      <3>2. QED
        BY <1>2, <3>1 DEF VoteInv, RevealMatchesBallot
    <2>8. QED
      BY <2>4, <2>5, <2>6, <2>7 DEF VoteInv
  <1>5. QED
    BY <1>3, <1>4

LEMMA MarkRevealedStep ==
  ASSUME VotingAssumption, PollAssumption, VoteInv, PollInv', VotingTypeOK', NEW b \in Beat,
         MarkRevealed(b)
  PROVE  VoteInv'
  <1>0. PICK u : u = beat[b].user
    OBVIOUS
  <1>1. u \in User /\ onchain[u] # None
    BY <1>0 DEF MarkRevealed, At, VoteInv, BeatsAreFine, Fine
  <1>2. UNCHANGED <<ballots, reviews, commitments>> /\ Done(b)
    BY DEF MarkRevealed, pollVars
  <1>3. onchain[u] \in OnchainVote
    BY <1>1 DEF VoteInv, VotingTypeOK
  <1>4. /\ onchain'[u] = [onchain[u] EXCEPT !.status = "revealed", !.salt = None]
        /\ \A w \in User \ {u} : onchain'[w] = onchain[w]
    BY <1>0, <1>1 DEF MarkRevealed, VoteInv, VotingTypeOK
  <1>5. onchain'[u] \in OnchainVote /\ onchain'[u].status = "revealed"
    BY <1>3, <1>4 DEF OnchainVote
  <1>6. onchain'[u] # None
    BY <1>5 DEF VotingAssumption
  <1>7. Grows
    BY <1>2, <1>4, <1>6 DEF Grows
  <1>8. Fine(Idle)' /\ Idle.at # "commit"
    BY DEF Fine, Idle
  <1>9. BeatsAreFine' /\ OneSpeaks'
    BY <1>2, <1>7, <1>8, BeatStep DEF Done
  <1>10. Salted'
    BY <1>4, <1>5 DEF VoteInv, Salted
  <1>11. EscalatedNeedsOwner'
    BY <1>2 DEF VoteInv, EscalatedNeedsOwner
  <1>12. RevealMatchesBallot'
    <2>1. ASSUME NEW x \in Voter, onchain'[OwnerOf[x]] # None, onchain'[OwnerOf[x]].agent = x,
                onchain'[OwnerOf[x]].status = "committed"
         PROVE  commitments[x] = [optionId |-> onchain'[OwnerOf[x]].optionId,
                                  salt |-> onchain'[OwnerOf[x]].salt, voter |-> x]
      <3>1. OwnerOf[x] \in User
        BY DEF VotingAssumption
      <3>2. CASE OwnerOf[x] = u
        BY <1>5, <2>1, <3>2
      <3>3. CASE OwnerOf[x] # u
        BY <1>4, <2>1, <3>1, <3>3 DEF VoteInv, RevealMatchesBallot
      <3>4. QED
        BY <3>2, <3>3
    <2>2. QED
      BY <1>2, <2>1 DEF VoteInv, RevealMatchesBallot
  <1>13. QED
    BY <1>9, <1>10, <1>11, <1>12 DEF VoteInv

\* A review changes its status, by its owner or after the vote it stood for.
LEMMA ReviewStep ==
  ASSUME VotingAssumption, PollAssumption, VoteInv, PollInv', VotingTypeOK', NEW u \in User,
         NEW s \in {"dismissed", "voted"}, reviews[u] # None,
         reviews' = [reviews EXCEPT ![u].status = s], UNCHANGED <<ballots, onchain, commitments>>
  PROVE  /\ Grows /\ Salted' /\ EscalatedNeedsOwner' /\ RevealMatchesBallot'
  <1>1. reviews[u] \in Review
    BY DEF VoteInv, VotingTypeOK
  <1>2. /\ reviews'[u] = [reviews[u] EXCEPT !.status = s]
        /\ \A w \in User \ {u} : reviews'[w] = reviews[w]
    BY DEF VoteInv, VotingTypeOK
  <1>3. reviews'[u] \in Review
    BY <1>1, <1>2 DEF Review
  <1>4. Grows
    BY <1>2, <1>3 DEF Grows, VotingAssumption
  <1>5. Salted' /\ EscalatedNeedsOwner'
    BY DEF VoteInv, Salted, EscalatedNeedsOwner
  <1>6. RevealMatchesBallot'
    BY DEF VoteInv, RevealMatchesBallot
  <1>7. QED
    BY <1>4, <1>5, <1>6

LEMMA DismissStep ==
  ASSUME VotingAssumption, PollAssumption, VoteInv, PollInv', VotingTypeOK', NEW u \in User,
         DismissReview(u)
  PROVE  VoteInv'
  <1>1. reviews[u] # None /\ reviews' = [reviews EXCEPT ![u].status = "dismissed"]
        /\ UNCHANGED <<ballots, onchain, commitments, beat>>
    BY DEF DismissReview, Pending, pollVars
  <1>2. QED
    BY <1>1, ReviewStep, BeatsRest DEF VoteInv

LEMMA MarkVotedStep ==
  ASSUME VotingAssumption, PollAssumption, VoteInv, PollInv', VotingTypeOK', NEW b \in Beat, MarkVoted(b)
  PROVE  VoteInv'
  <1>0. PICK u : u = beat[b].user
    OBVIOUS
  <1>1. u \in User /\ reviews[u] # None
    BY <1>0 DEF MarkVoted, At, VoteInv, BeatsAreFine, Fine
  <1>2. reviews' = [reviews EXCEPT ![u].status = "voted"]
        /\ UNCHANGED <<ballots, onchain, commitments>> /\ Done(b)
    BY <1>0 DEF MarkVoted, pollVars
  <1>3. Grows /\ Salted' /\ EscalatedNeedsOwner' /\ RevealMatchesBallot'
    BY <1>1, <1>2, ReviewStep
  <1>4. Fine(Idle)' /\ Idle.at # "commit"
    BY DEF Fine, Idle
  <1>5. BeatsAreFine' /\ OneSpeaks'
    BY <1>2, <1>3, <1>4, BeatStep DEF Done
  <1>6. QED
    BY <1>3, <1>5 DEF VoteInv

\* The reveal opens the commitment that the row was saved for.
LEMMA RevealOnchainStep ==
  ASSUME VotingAssumption, PollAssumption, VoteInv, PollInv', VotingTypeOK', NEW b \in Beat,
         NEW u \in User, RevealOnchain(b, u)
  PROVE  VoteInv'
  <1> DEFINE c == [at |-> "revealed", user |-> u]
  <1>1. Fine(c) /\ c.at # "commit"
    BY DEF RevealOnchain, Fine
  <1>2. GoTo(b, c) /\ UNCHANGED <<ballots, reviews, onchain, commitments>>
    BY DEF RevealOnchain, RevealVote, voteVars
  <1> HIDE DEF c
  <1>3. QED
    BY <1>1, <1>2, LooksStep

-----------------------------------------------------------------------------
\* Every step on the poll is a step of the poll.
LEMMA PollSteps == ASSUME VotingAssumption, PollAssumption, VoteInv, VotingNext PROVE [PollNext]_pollVars
  <1>1. CASE DeadlinePasses
    BY <1>1 DEF DeadlinePasses, PollNext
  <1>2. ASSUME NEW b \in Beat, NEW salt \in Salt, CommitOnchain(b, salt) PROVE PollNext
    <2>1. PICK c : c = beat[b]
      OBVIOUS
    <2>2. c.agent \in Voter /\ c.optionId \in Option
      BY <1>2, <2>1 DEF CommitOnchain, At, VoteInv, BeatsAreFine, Fine
    <2>3. [optionId |-> c.optionId, salt |-> salt, voter |-> c.agent] \in Hash
      BY <2>2 DEF Hash, PollAssumption
    <2>4. CommitVote(c.agent, [optionId |-> c.optionId, salt |-> salt, voter |-> c.agent])
      BY <1>2, <2>1 DEF CommitOnchain
    <2>5. QED
      BY <2>2, <2>3, <2>4 DEF PollNext
  <1>3. ASSUME NEW b \in Beat, NEW u \in User, RevealOnchain(b, u) PROVE PollNext
    <2>1. PICK v : v = onchain[u]
      OBVIOUS
    <2>2. v \in OnchainVote /\ v.salt \in Salt
      BY <1>3, <2>1 DEF RevealOnchain, VoteInv, VotingTypeOK, Salted
    <2>3. RevealVote(v.agent, v.optionId, v.salt)
      BY <1>3, <2>1 DEF RevealOnchain
    <2>4. v.agent \in Voter /\ v.optionId \in OptionId
      BY <2>2 DEF OnchainVote, PollAssumption
    <2>5. QED
      BY <2>2, <2>3, <2>4 DEF PollNext
  <1>4. CASE UNCHANGED pollVars
    BY <1>4
  <1>5. QED
    BY <1>1, <1>2, <1>3, <1>4
       DEF VotingNext, CloseProposal, PowerMoves, DismissReview, SetAutoVote, CastVote, AcceptReview, AskDelegate,
           Decide, InsertBallot, CommitFails, SaveSalt, MarkRevealed, MarkVoted, ListProposals,
           Finalize, Crash

LEMMA BallotTypes ==
  ASSUME VotingAssumption, PollAssumption, VoteInv, VotingNext
  PROVE  /\ ballots' \in [User -> Ballot \cup {None}]
         /\ reviews' \in [User -> Review \cup {None}]
         /\ onchain' \in [User -> OnchainVote \cup {None}]
  <1> USE DEF VoteInv, VotingTypeOK
  <1>1. ASSUME NEW b \in Beat, InsertBallot(b) PROVE ballots' \in [User -> Ballot \cup {None}]
    <2>1. beat[b].ballot \in Ballot
      BY <1>1 DEF InsertBallot, At, BeatsAreFine, Fine
    <2>2. QED
      BY <1>1, <2>1 DEF InsertBallot
  <1>2. ASSUME NEW b \in Beat, NEW d \in Decision, Decide(b, d)
        PROVE  reviews' \in [User -> Review \cup {None}]
    <2>1. PICK c : c = beat[b]
      OBVIOUS
    <2>2. c.agent \in Voter /\ d.choice \in Choice
      BY <1>2, <2>1 DEF Decide, At, BeatsAreFine, Fine, Decision
    <2>3. CASE UNCHANGED reviews
      BY <2>3
    <2>4. CASE UpsertReview(c.user, c.agent, d.choice)
      <3> DEFINE new == IF reviews[c.user] = None
                        THEN [agent |-> c.agent, choice |-> d.choice, status |-> "pending"]
                        ELSE [reviews[c.user] EXCEPT !.choice = d.choice]
      <3>1. c.user \in User
        BY <1>2, <2>1 DEF Decide, At, BeatsAreFine, Fine, VotingAssumption
      <3>2. new \in Review
        BY <2>2, <3>1 DEF Review
      <3>3. reviews' = [reviews EXCEPT ![c.user] = new]
        BY <2>4, <3>1 DEF UpsertReview
      <3> HIDE DEF new
      <3>4. QED
        BY <3>2, <3>3
    <2>5. QED
      BY <1>2, <2>1, <2>3, <2>4 DEF Decide
  <1>3. ASSUME NEW u \in User, NEW s \in {"dismissed", "voted"},
               reviews[u] # None, reviews' = [reviews EXCEPT ![u].status = s]
        PROVE  reviews' \in [User -> Review \cup {None}]
    <2>1. [reviews[u] EXCEPT !.status = s] \in Review
      BY <1>3 DEF Review
    <2>2. QED
      BY <1>3, <2>1
  <1>4. ASSUME NEW u \in User, DismissReview(u) PROVE reviews' \in [User -> Review \cup {None}]
    BY <1>3, <1>4 DEF DismissReview, Pending
  <1>5. ASSUME NEW b \in Beat, MarkVoted(b) PROVE reviews' \in [User -> Review \cup {None}]
    BY <1>3, <1>5 DEF MarkVoted, At, BeatsAreFine, Fine
  <1>6. ASSUME NEW b \in Beat, SaveSalt(b) PROVE onchain' \in [User -> OnchainVote \cup {None}]
    <2>1. PICK c : c = beat[b]
      OBVIOUS
    <2>2. [agent |-> c.agent, optionId |-> c.optionId, salt |-> c.salt, status |-> "committed"]
          \in OnchainVote
      BY <1>6, <2>1 DEF SaveSalt, At, BeatsAreFine, Fine, OnchainVote
    <2>3. QED
      BY <1>6, <2>1, <2>2 DEF SaveSalt
  <1>7. ASSUME NEW b \in Beat, MarkRevealed(b) PROVE onchain' \in [User -> OnchainVote \cup {None}]
    <2>1. PICK u : u = beat[b].user
      OBVIOUS
    <2>2. onchain[u] \in OnchainVote /\ u \in User
      BY <1>7, <2>1 DEF MarkRevealed, At, BeatsAreFine, Fine
    <2>3. [onchain[u] EXCEPT !.status = "revealed", !.salt = None] \in OnchainVote
      BY <2>2 DEF OnchainVote
    <2>4. QED
      BY <1>7, <2>1, <2>2, <2>3 DEF MarkRevealed
  <1>8. CASE UNCHANGED ballots
    BY <1>2, <1>4, <1>5, <1>6, <1>7, <1>8
       DEF VotingNext, CloseProposal, DeadlinePasses, PowerMoves, SetAutoVote, CastVote, RevealOnchain, AcceptReview,
           AskDelegate, Decide, CommitOnchain, InsertBallot, CommitFails, SaveSalt, MarkRevealed,
           MarkVoted, ListProposals, Finalize, Crash, DismissReview, voteVars
  <1>9. ASSUME NEW b \in Beat, InsertBallot(b) PROVE UNCHANGED <<reviews, onchain>>
    BY <1>9 DEF InsertBallot
  <1>10. (\E b \in Beat : InsertBallot(b)) \/ UNCHANGED ballots
    BY DEF VotingNext, CloseProposal, DeadlinePasses, PowerMoves, SetAutoVote, CastVote, RevealOnchain, AcceptReview,
           AskDelegate, Decide, CommitOnchain, CommitFails, SaveSalt, MarkRevealed,
           MarkVoted, ListProposals, Finalize, Crash, DismissReview, voteVars
  <1>11. QED
    BY <1>1, <1>8, <1>9, <1>10

LEMMA VotingTypeStep == ASSUME VotingAssumption, PollAssumption, VoteInv, VotingNext PROVE VotingTypeOK'
  <1>1. PollTypeOK'
    BY PollSteps, PollTypeStep DEF VoteInv, VotingTypeOK
  <1>2. /\ closed' \in BOOLEAN
        /\ power' \in [User -> Power]
        /\ autoVote' \subseteq Voter
    <2>1. ASSUME NEW u \in User, PowerMoves(u)
          PROVE  /\ power' \in [User -> Power] /\ UNCHANGED <<closed, autoVote>>
      BY <2>1 DEF PowerMoves, VoteInv, VotingTypeOK
    <2>2. ASSUME NEW a \in Voter, SetAutoVote(a)
          PROVE  /\ autoVote' \subseteq Voter /\ UNCHANGED <<closed, power>>
      BY <2>2 DEF SetAutoVote, VoteInv, VotingTypeOK
    <2>3. CASE CloseProposal
      BY <2>3 DEF CloseProposal, VoteInv, VotingTypeOK
    <2>4. CASE UNCHANGED <<closed, power, autoVote>>
      BY <2>4 DEF VoteInv, VotingTypeOK
    <2>5. QED
      BY <2>1, <2>2, <2>3, <2>4
         DEF VoteInv, VotingTypeOK, VotingNext, DeadlinePasses, CastVote, RevealOnchain, AcceptReview,
             AskDelegate, Decide, CommitOnchain, InsertBallot, CommitFails, SaveSalt, MarkRevealed,
             MarkVoted, ListProposals, Finalize, Crash, DismissReview, voteVars
  <1>3. status' \in {"open", "passed", "rejected"}
    <2>1. ASSUME NEW b \in Beat, Finalize(b) PROVE status' \in {"open", "passed", "rejected"}
      BY <2>1 DEF Finalize, At, VoteInv, VotingTypeOK, BeatsAreFine, Fine
    <2>2. CASE UNCHANGED status
      BY <2>2 DEF VoteInv, VotingTypeOK
    <2>3. QED
      BY <2>1, <2>2
         DEF VotingNext, CloseProposal, PowerMoves, SetAutoVote, DeadlinePasses, CastVote, RevealOnchain,
             AcceptReview, AskDelegate, Decide, CommitOnchain, InsertBallot, CommitFails, SaveSalt,
             MarkRevealed, MarkVoted, ListProposals, Crash, DismissReview, voteVars
  <1>4. QED
    BY <1>1, <1>2, <1>3, BallotTypes DEF VotingTypeOK

LEMMA VoteInvStep == ASSUME VotingAssumption, PollAssumption, VoteInv, [VotingNext]_votingVars PROVE VoteInv'
  <1>1. CASE UNCHANGED votingVars
    <2>1. VotingTypeOK'
      BY <1>1 DEF votingVars, voteVars, pollVars, VoteInv, VotingTypeOK, PollTypeOK
    <2>2. PollInv'
      BY <1>1, PollInvStep DEF votingVars, VoteInv
    <2>3. QED
      BY <1>1, <2>1, <2>2, WorldStep DEF votingVars, voteVars, pollVars
  <1>2. CASE VotingNext
    <2>1. VotingTypeOK' /\ PollInv'
      BY <1>2, VotingTypeStep, PollSteps, PollInvStep DEF VoteInv
    <2>2. CASE CloseProposal \/ DeadlinePasses
      <3>1. UNCHANGED <<ballots, reviews, onchain, commitments, beat>>
        BY <2>2 DEF CloseProposal, DeadlinePasses, PassDeadline, voteVars, pollVars
      <3>2. QED
        BY <2>1, <3>1, WorldStep
    <2>3. ASSUME NEW u \in User, PowerMoves(u) PROVE VoteInv'
      BY <2>1, <2>3, WorldStep DEF PowerMoves, pollVars
    <2>4. ASSUME NEW a \in Voter, SetAutoVote(a) PROVE VoteInv'
      BY <2>1, <2>4, WorldStep DEF SetAutoVote, pollVars
    <2>5. ASSUME NEW b \in Beat, CommitFails(b) \/ Finalize(b) \/ Crash(b) PROVE VoteInv'
      <3>1. Done(b) /\ UNCHANGED <<ballots, reviews, onchain, commitments>>
        BY <2>5 DEF CommitFails, Finalize, Crash, voteVars, pollVars
      <3>2. QED
        BY <2>1, <3>1, StopStep
    <2>6. QED
      BY <1>2, <2>1, <2>2, <2>3, <2>4, <2>5, CastVoteStep, AcceptReviewStep, AskDelegateStep, ListStep,
         InsertStep, DecideStep, CommitOnchainStep, SaveSaltStep, MarkRevealedStep, DismissStep,
         MarkVotedStep, RevealOnchainStep
         DEF VotingNext
  <1>3. QED
    BY <1>1, <1>2

LEMMA VoteInvInit == ASSUME VotingAssumption, PollAssumption, VotingInit PROVE VoteInv
  <1>1. PollInv
    BY PollInvInit DEF VotingInit
  <1>2. VotingTypeOK
    BY <1>1 DEF VotingInit, VotingTypeOK, PollInv
  <1>3. BeatsAreFine /\ OneSpeaks
    BY DEF VotingInit, Idle, BeatsAreFine, OneSpeaks, Fine, At
  <1>4. Salted /\ EscalatedNeedsOwner
    BY DEF VotingInit, Salted, EscalatedNeedsOwner
  <1>5. RevealMatchesBallot
    BY DEF VotingInit, PollInit, RevealMatchesBallot, VotingAssumption
  <1>6. QED
    BY <1>1, <1>2, <1>3, <1>4, <1>5 DEF VoteInv

-----------------------------------------------------------------------------
\* governance.ts and governance-poll.ts with VeilPoll.sol: from the model's answer
\* to the tally, whatever beats overlap or die.
THEOREM VoteIsBound ==
  ASSUME VotingAssumption, PollAssumption
  PROVE  VotingSpec => []VotesAreBound
  <1>1. VotingInit => VoteInv
    BY VoteInvInit
  <1>2. VoteInv /\ [VotingNext]_votingVars => VoteInv'
    BY VoteInvStep
  <1>3. VoteInv => VotesAreBound
    BY PollTally DEF VoteInv, VotesAreBound
  <1>4. QED
    BY <1>1, <1>2, <1>3, PTL DEF VotingSpec

\* The rows and the beats of governance.ts keep their types.
THEOREM VotingTypes ==
  ASSUME VotingAssumption, PollAssumption PROVE VotingSpec => []VotingTypeOK
  <1>1. VoteInv => VotingTypeOK
    BY DEF VoteInv
  <1>2. VoteInv /\ [VotingNext]_votingVars => VoteInv'
    BY VoteInvStep
  <1>3. QED
    BY <1>1, <1>2, VoteInvInit, PTL DEF VotingSpec

\* The votes of a proposal implement the poll of VeilPoll.sol: whatever beats of
\* governance-poll.ts overlap or die, the contract sees commitments before its
\* deadline and openings after it, each a call that it accepts.
THEOREM VotingImplementsPoll ==
  ASSUME VotingAssumption, PollAssumption PROVE VotingSpec => PollSpec
  <1>1. VotingInit => VoteInv /\ PollInit
    BY VoteInvInit DEF VotingInit
  <1>2. VoteInv /\ [VotingNext]_votingVars => VoteInv' /\ [PollNext]_pollVars
    BY VoteInvStep, PollSteps DEF votingVars
  <1>3. QED
    BY <1>1, <1>2, PTL DEF VotingSpec, PollSpec

-----------------------------------------------------------------------------
(***************************************************************************)
(* MiniVault: the books balance, for any number of users and any prices.   *)
(***************************************************************************)
Holding == [collateral : Nat, debt : Nat]
Debts == [u \in Borrower |-> positions[u].debt]
Collaterals == [u \in Borrower |-> positions[u].collateral]

VaultTyped ==
  /\ price \in Price
  /\ positions \in [Borrower -> Holding]
  /\ gusdOf \in [Borrower -> Nat]
  /\ totalSupply \in Nat /\ ethHeld \in Nat

\* The contract's ETH is the collateral of its positions, to the wei.
EthIsCollateral == ethHeld = SumFunction(Collaterals)

VaultInv == VaultTyped /\ SupplyIsOwed /\ EthIsCollateral

LEMMA NatsAreInts == ASSUME NEW S, NEW f \in [S -> Nat] PROVE f \in [S -> Int]
  OBVIOUS

LEMMA BalanceChanges ==
  ASSUME IsFiniteSet(Borrower), NEW g \in [Borrower -> Nat], NEW u \in Borrower, NEW n \in Nat
  PROVE  /\ [g EXCEPT ![u] = n] \in [Borrower -> Nat]
         /\ SumFunction([g EXCEPT ![u] = n]) = SumFunction(g) + (n - g[u])
  <1>1. PICK h : h = [g EXCEPT ![u] = n]
    OBVIOUS
  <1>2. /\ h \in [Borrower -> Nat] /\ h \in [Borrower -> Int] /\ g \in [Borrower -> Int]
        /\ h[u] = n /\ \A y \in Borrower \ {u} : h[y] = g[y]
    BY <1>1
  <1>3. SumFunction(h) = SumFunction(g) + (h[u] - g[u])
    BY <1>2, SumChange
  <1>4. QED
    BY <1>1, <1>2, <1>3

\* A burn never takes the supply below zero, although the token does not check.
LEMMA Burns ==
  ASSUME VaultAssumption, VaultInv, NEW u \in Borrower, NEW amount \in Nat, Burn(u, amount)
  PROVE  /\ gusdOf' \in [Borrower -> Nat] /\ totalSupply' \in Nat
         /\ totalSupply' = totalSupply - amount
         /\ SumFunction(gusdOf') = SumFunction(gusdOf) - amount
  <1>1. PICK n \in Nat : n = gusdOf[u] - amount
    BY DEF Burn, VaultInv, VaultTyped
  <1>2. gusdOf' = [gusdOf EXCEPT ![u] = n] /\ totalSupply' = totalSupply - amount
    BY <1>1 DEF Burn
  <1>3. /\ IsFiniteSet(Borrower) /\ gusdOf \in [Borrower -> Nat] /\ gusdOf \in [Borrower -> Int]
        /\ totalSupply = SumFunction(gusdOf)
    BY DEF VaultAssumption, VaultInv, VaultTyped, SupplyIsOwed
  <1>4. gusdOf' \in [Borrower -> Nat] /\ SumFunction(gusdOf') = SumFunction(gusdOf) + (n - gusdOf[u])
    BY <1>2, <1>3, BalanceChanges
  <1>5. gusdOf' \in [Borrower -> Int]
    BY <1>4
  <1>6. SumFunction(gusdOf') \in Nat /\ SumFunction(gusdOf) \in Int /\ gusdOf[u] \in Nat
    BY <1>3, <1>4, SumNatural, SumType
  <1>7. QED
    BY <1>1, <1>2, <1>3, <1>4, <1>6

LEMMA VaultStarts == ASSUME VaultAssumption, VaultInit PROVE VaultInv
  <1>1. VaultTyped
    BY DEF VaultInit, VaultTyped, Holding
  <1>2. /\ Debts \in [Borrower -> Int] /\ \A u \in Borrower : Debts[u] = 0
        /\ Collaterals \in [Borrower -> Int] /\ \A u \in Borrower : Collaterals[u] = 0
        /\ gusdOf \in [Borrower -> Int] /\ \A u \in Borrower : gusdOf[u] = 0
    BY DEF VaultInit, Debts, Collaterals
  <1>3. SumFunction(Debts) = 0 /\ SumFunction(Collaterals) = 0 /\ SumFunction(gusdOf) = 0
    BY <1>2, SumZero DEF VaultAssumption
  <1>4. QED
    BY <1>1, <1>3 DEF VaultInv, SupplyIsOwed, EthIsCollateral, VaultInit, Debts

LEMMA Seizes ==
  ASSUME VaultAssumption, price \in Nat \ {0}, NEW p \in Holding, NEW repaid \in Nat
  PROVE  /\ Seized(p, repaid) \in 0 .. p.collateral
         /\ (BPS * price) * Seized(p, repaid) <= repaid * (BPS + BONUS_BPS) * WAD
  <1>1. PICK n, d \in Nat : n = repaid * (BPS + BONUS_BPS) * WAD /\ d = BPS * price
    BY DEF VaultAssumption, BPS, BONUS_BPS
  <1>2. d # 0
    BY <1>1 DEF BPS
  <1>3. n \div d \in Nat /\ d * (n \div d) <= n
    BY <1>2
  <1>4. p.collateral \in Nat
    BY DEF Holding
  <1>5. PICK c, q \in Nat : c = p.collateral /\ q = n \div d
    BY <1>3, <1>4
  <1>6. Seized(p, repaid) = IF q > c THEN c ELSE q
    BY <1>1, <1>5 DEF Seized
  <1>7. q > c => d * c <= d * q
    BY <1>5
  <1>8. QED
    BY <1>1, <1>3, <1>5, <1>6, <1>7

\* Half of a debt, rounded down, or less.
LEMMA Repaid ==
  ASSUME VaultAssumption, NEW p \in Holding, NEW amount \in Amount
  PROVE  LET maxRepay == (p.debt * CLOSE_FACTOR_BPS) \div BPS
             repaid == IF amount > maxRepay THEN maxRepay ELSE amount
         IN  repaid \in 0 .. p.debt
  <1>1. PICK d, a \in Nat : d = p.debt /\ a = amount
    BY DEF VaultAssumption, Holding
  <1>2. (d * 5000) \div 10000 \in 0 .. d
    OBVIOUS
  <1>3. QED
    BY <1>1, <1>2 DEF CLOSE_FACTOR_BPS, BPS

\* A step that leaves one position with this collateral and this debt, and the
\* others alone.
Moves(u, c, d) ==
  /\ positions' \in [Borrower -> Holding]
  /\ positions'[u].collateral = c /\ positions'[u].debt = d
  /\ \A y \in Borrower \ {u} : positions'[y] = positions[y]

LEMMA Replaces ==
  ASSUME VaultTyped, NEW u \in Borrower, NEW r \in Holding, positions' = [positions EXCEPT ![u] = r]
  PROVE  Moves(u, r.collateral, r.debt)
  BY DEF VaultTyped, Moves

LEMMA CollateralMoves ==
  ASSUME VaultTyped, NEW u \in Borrower, NEW c \in Nat,
         positions' = [positions EXCEPT ![u].collateral = c]
  PROVE  Moves(u, c, positions[u].debt)
  <1>1. PICK q \in Holding : q = positions[u]
    BY DEF VaultTyped
  <1>2. PICK r : r = [q EXCEPT !.collateral = c]
    OBVIOUS
  <1>3. r \in Holding /\ r.collateral = c /\ r.debt = q.debt
    BY <1>2 DEF Holding
  <1>4. positions' = [positions EXCEPT ![u] = r]
    BY <1>1, <1>2
  <1>5. QED
    BY <1>1, <1>3, <1>4, Replaces

LEMMA DebtMoves ==
  ASSUME VaultTyped, NEW u \in Borrower, NEW d \in Nat,
         positions' = [positions EXCEPT ![u].debt = d]
  PROVE  Moves(u, positions[u].collateral, d)
  <1>1. PICK q \in Holding : q = positions[u]
    BY DEF VaultTyped
  <1>2. PICK r : r = [q EXCEPT !.debt = d]
    OBVIOUS
  <1>3. r \in Holding /\ r.collateral = q.collateral /\ r.debt = d
    BY <1>2 DEF Holding
  <1>4. positions' = [positions EXCEPT ![u] = r]
    BY <1>1, <1>2
  <1>5. QED
    BY <1>1, <1>3, <1>4, Replaces

LEMMA BothMove ==
  ASSUME VaultTyped, NEW u \in Borrower, NEW c \in Nat, NEW d \in Nat,
         positions' = [positions EXCEPT ![u].debt = d, ![u].collateral = c]
  PROVE  Moves(u, c, d)
  <1>1. PICK q \in Holding : q = positions[u]
    BY DEF VaultTyped
  <1>2. PICK r : r = [q EXCEPT !.debt = d]
    OBVIOUS
  <1>3. r \in Holding /\ r.debt = d
    BY <1>2 DEF Holding
  <1>4. PICK t : t = [r EXCEPT !.collateral = c]
    OBVIOUS
  <1>5. t \in Holding /\ t.collateral = c /\ t.debt = d
    BY <1>3, <1>4 DEF Holding
  <1>6. PICK g : g = [positions EXCEPT ![u].debt = d]
    OBVIOUS
  <1>7. g = [positions EXCEPT ![u] = r]
    BY <1>1, <1>2, <1>6
  <1>8. positions' = [g EXCEPT ![u].collateral = c]
    BY <1>6
  <1>9. g[u] = r /\ DOMAIN g = Borrower
    BY <1>7 DEF VaultTyped
  <1>10. positions' = [positions EXCEPT ![u] = t]
    BY <1>4, <1>7, <1>8, <1>9 DEF VaultTyped
  <1>11. QED
    BY <1>5, <1>10, Replaces

\* What a step does to one position, to the supply and to the ETH, all at once.
LEMMA VaultMoves ==
  ASSUME VaultAssumption, VaultInv, NEW u \in Borrower, NEW c \in Nat, NEW d \in Nat, Moves(u, c, d),
         price' \in Price, gusdOf' \in [Borrower -> Nat], totalSupply' \in Nat,
         totalSupply' = totalSupply + (d - positions[u].debt),
         SumFunction(gusdOf') = SumFunction(gusdOf) + (d - positions[u].debt),
         ethHeld' = ethHeld + (c - positions[u].collateral)
  PROVE  VaultInv'
  <1>1. /\ VaultTyped /\ totalSupply = SumFunction(Debts) /\ totalSupply = SumFunction(gusdOf)
        /\ ethHeld = SumFunction(Collaterals)
    BY DEF VaultInv, SupplyIsOwed, EthIsCollateral, Debts
  <1>2. /\ positions' \in [Borrower -> Holding]
        /\ SumFunction(Debts') = SumFunction(Debts) + (d - positions[u].debt)
        /\ SumFunction(Collaterals') = SumFunction(Collaterals) + (c - positions[u].collateral)
    <2>1. positions' \in [Borrower -> Holding]
      BY DEF Moves
    <2>2. /\ Debts \in [Borrower -> Int] /\ Debts' \in [Borrower -> Int]
          /\ Debts'[u] = d /\ Debts[u] = positions[u].debt
          /\ \A y \in Borrower \ {u} : Debts'[y] = Debts[y]
      BY <1>1, <2>1 DEF VaultTyped, Debts, Holding, Moves
    <2>3. /\ Collaterals \in [Borrower -> Int] /\ Collaterals' \in [Borrower -> Int]
          /\ Collaterals'[u] = c /\ Collaterals[u] = positions[u].collateral
          /\ \A y \in Borrower \ {u} : Collaterals'[y] = Collaterals[y]
      BY <1>1, <2>1 DEF VaultTyped, Collaterals, Holding, Moves
    <2>4. IsFiniteSet(Borrower)
      BY DEF VaultAssumption
    <2>5. SumFunction(Debts') = SumFunction(Debts) + (Debts'[u] - Debts[u])
      BY <2>2, <2>4, SumChange
    <2>6. SumFunction(Collaterals') = SumFunction(Collaterals) + (Collaterals'[u] - Collaterals[u])
      BY <2>3, <2>4, SumChange
    <2>7. QED
      BY <2>1, <2>2, <2>3, <2>5, <2>6
  <1>3. ethHeld' \in Nat /\ ethHeld' = SumFunction(Collaterals')
    <2>1. Collaterals' \in [Borrower -> Nat]
      BY <1>2 DEF Collaterals, Holding
    <2>2. SumFunction(Collaterals') \in Nat
      BY <2>1, SumNatural DEF VaultAssumption
    <2>3. QED
      BY <1>1, <1>2, <2>2
  <1>4. VaultTyped'
    BY <1>2, <1>3 DEF VaultTyped
  <1>5. SupplyIsOwed' /\ EthIsCollateral'
    BY <1>1, <1>2, <1>3 DEF SupplyIsOwed, EthIsCollateral, Debts
  <1>6. QED
    BY <1>4, <1>5 DEF VaultInv

\* What a liquidation that repays a and seizes s does to a position of c and d.
Liquidated(v, u, c, d, a, s) ==
  /\ a <= d /\ s <= c /\ s = Seized(positions[u], a) /\ Burn(v, a)
  /\ positions' = [positions EXCEPT ![u].debt = d - a, ![u].collateral = c - s]
  /\ ethHeld' = ethHeld - s /\ price' = price

\* A liquidation repays at most the debt and seizes at most the collateral.
LEMMA Liquidates ==
  ASSUME VaultAssumption, VaultTyped, price \in Nat \ {0},
         NEW v \in Borrower, NEW u \in Borrower, NEW amount \in Amount, Liquidate(v, u, amount),
         NEW c \in Nat, NEW d \in Nat, c = positions[u].collateral, d = positions[u].debt
  PROVE  \E a, s \in Nat : Liquidated(v, u, c, d, a, s)
  <1>1. positions[u] \in Holding
    BY DEF VaultTyped
  <1>2. PICK a : a = IF amount > (positions[u].debt * CLOSE_FACTOR_BPS) \div BPS
                     THEN (positions[u].debt * CLOSE_FACTOR_BPS) \div BPS ELSE amount
    OBVIOUS
  <1>3. a \in 0 .. d
    BY <1>1, <1>2, Repaid
  <1>4. a \in Nat /\ a <= d
    BY <1>3
  <1>5. Burn(v, a) /\ price' = price
    BY <1>2 DEF Liquidate
  <1>6. ethHeld' = ethHeld - Seized(positions[u], a)
    BY <1>2 DEF Liquidate
  <1>7. positions' = [positions EXCEPT ![u].debt = @ - a, ![u].collateral = @ - Seized(positions[u], a)]
    BY <1>2 DEF Liquidate
  <1>8. PICK s \in Nat : s = Seized(positions[u], a) /\ s <= c
    BY <1>1, <1>4, Seizes
  <1>9. positions' = [positions EXCEPT ![u].debt = d - a, ![u].collateral = c - s]
    BY <1>7, <1>8 DEF VaultTyped
  <1>10. QED
    BY <1>4, <1>5, <1>6, <1>8, <1>9 DEF Liquidated

LEMMA VaultStep == ASSUME VaultAssumption, VaultInv, VaultNext PROVE VaultInv'
  <1>1. /\ price \in Price /\ price \in Nat \ {0} /\ gusdOf \in [Borrower -> Nat]
        /\ totalSupply \in Nat /\ ethHeld \in Nat /\ VaultTyped
        /\ SumFunction(gusdOf) = totalSupply /\ IsFiniteSet(Borrower)
    BY DEF VaultAssumption, VaultInv, VaultTyped, SupplyIsOwed
  <1>2. ASSUME NEW u \in Borrower, NEW amount \in Amount
        PROVE  /\ amount \in Nat /\ positions[u] \in Holding
               /\ positions[u].collateral \in Nat /\ positions[u].debt \in Nat /\ gusdOf[u] \in Nat
    BY <1>1 DEF VaultAssumption, VaultTyped, Holding
  <1>3. ASSUME NEW at \in Price, SetPrice(at) PROVE VaultInv'
    BY <1>3 DEF SetPrice, VaultInv, VaultTyped, SupplyIsOwed, EthIsCollateral, Debts, Collaterals
  <1>4. ASSUME NEW u \in Borrower, NEW amount \in Amount, DepositEth(u, amount) PROVE VaultInv'
    <2>1. PICK a, c, d \in Nat : a = amount /\ c = positions[u].collateral /\ d = positions[u].debt
      BY <1>2
    <2>2. c + a \in Nat /\ positions' = [positions EXCEPT ![u].collateral = c + a]
      BY <1>4, <2>1 DEF DepositEth
    <2>3. Moves(u, c + a, d)
      BY <1>1, <2>1, <2>2, CollateralMoves
    <2>4. price' \in Price /\ gusdOf' = gusdOf /\ totalSupply' = totalSupply /\ ethHeld' = ethHeld + a
      BY <1>1, <1>4, <2>1 DEF DepositEth
    <2>5. /\ totalSupply' = totalSupply + (d - positions[u].debt)
          /\ SumFunction(gusdOf') = SumFunction(gusdOf) + (d - positions[u].debt)
          /\ ethHeld' = ethHeld + ((c + a) - positions[u].collateral)
      BY <1>1, <2>1, <2>4
    <2>6. QED
      BY <1>1, <2>2, <2>3, <2>4, <2>5, VaultMoves
  <1>5. ASSUME NEW u \in Borrower, NEW amount \in Amount, Withdraw(u, amount) PROVE VaultInv'
    <2>1. PICK a, c, d \in Nat : a = amount /\ c = positions[u].collateral /\ d = positions[u].debt
      BY <1>2
    <2>2. c - a \in Nat /\ positions' = [positions EXCEPT ![u].collateral = c - a]
      BY <1>5, <2>1 DEF Withdraw
    <2>3. Moves(u, c - a, d)
      BY <1>1, <2>1, <2>2, CollateralMoves
    <2>4. price' \in Price /\ gusdOf' = gusdOf /\ totalSupply' = totalSupply /\ ethHeld' = ethHeld - a
      BY <1>1, <1>5, <2>1 DEF Withdraw
    <2>5. /\ totalSupply' = totalSupply + (d - positions[u].debt)
          /\ SumFunction(gusdOf') = SumFunction(gusdOf) + (d - positions[u].debt)
          /\ ethHeld' = ethHeld + ((c - a) - positions[u].collateral)
      BY <1>1, <2>1, <2>4
    <2>6. QED
      BY <1>1, <2>2, <2>3, <2>4, <2>5, VaultMoves
  <1>6. ASSUME NEW u \in Borrower, NEW amount \in Amount, Mint(u, amount) PROVE VaultInv'
    <2>1. PICK a, c, d, g \in Nat : /\ a = amount /\ c = positions[u].collateral
                                    /\ d = positions[u].debt /\ g = gusdOf[u]
      BY <1>2
    <2>2. /\ positions' = [positions EXCEPT ![u].debt = d + a] /\ d + a \in Nat
          /\ gusdOf' = [gusdOf EXCEPT ![u] = g + a] /\ g + a \in Nat /\ totalSupply' = totalSupply + a
          /\ price' \in Price /\ ethHeld' = ethHeld
      BY <1>1, <1>6, <2>1 DEF Mint
    <2>3. Moves(u, c, d + a)
      BY <1>1, <2>1, <2>2, DebtMoves
    <2>4. gusdOf' \in [Borrower -> Nat] /\ SumFunction(gusdOf') = SumFunction(gusdOf) + ((g + a) - gusdOf[u])
      BY <1>1, <2>2, BalanceChanges
    <2>5. /\ totalSupply' \in Nat /\ totalSupply' = totalSupply + ((d + a) - positions[u].debt)
          /\ SumFunction(gusdOf') = SumFunction(gusdOf) + ((d + a) - positions[u].debt)
          /\ ethHeld' = ethHeld + (c - positions[u].collateral)
      BY <1>1, <2>1, <2>2, <2>4
    <2>6. QED
      BY <1>1, <2>2, <2>3, <2>4, <2>5, VaultMoves
  <1>7. ASSUME NEW u \in Borrower, NEW amount \in Amount, Repay(u, amount) PROVE VaultInv'
    <2>1. PICK a, c, d \in Nat : a = amount /\ c = positions[u].collateral /\ d = positions[u].debt
      BY <1>2
    <2>2. /\ positions' = [positions EXCEPT ![u].debt = d - a] /\ d - a \in Nat
          /\ Burn(u, a) /\ price' \in Price /\ ethHeld' = ethHeld
      BY <1>1, <1>7, <2>1 DEF Repay
    <2>3. Moves(u, c, d - a)
      BY <1>1, <2>1, <2>2, DebtMoves
    <2>4. /\ gusdOf' \in [Borrower -> Nat] /\ totalSupply' \in Nat /\ totalSupply' = totalSupply - a
          /\ SumFunction(gusdOf') = SumFunction(gusdOf) - a
      BY <2>2, Burns
    <2>5. /\ totalSupply' = totalSupply + ((d - a) - positions[u].debt)
          /\ SumFunction(gusdOf') = SumFunction(gusdOf) + ((d - a) - positions[u].debt)
          /\ ethHeld' = ethHeld + (c - positions[u].collateral)
      BY <1>1, <2>1, <2>2, <2>4
    <2>6. QED
      BY <1>1, <2>2, <2>3, <2>4, <2>5, VaultMoves
  <1>8. ASSUME NEW v \in Borrower, NEW u \in Borrower, NEW amount \in Amount, Liquidate(v, u, amount)
        PROVE  VaultInv'
    <2>1. PICK c, d \in Nat : c = positions[u].collateral /\ d = positions[u].debt
      BY <1>2
    <2>2. PICK a, s \in Nat : Liquidated(v, u, c, d, a, s)
      BY <1>1, <1>8, <2>1, Liquidates
    <2>3. /\ a <= d /\ s <= c /\ Burn(v, a) /\ ethHeld' = ethHeld - s /\ price' = price
          /\ positions' = [positions EXCEPT ![u].debt = d - a, ![u].collateral = c - s]
      BY <2>2 DEF Liquidated
    <2>4. c - s \in Nat /\ d - a \in Nat /\ price' \in Price
      BY <1>1, <2>1, <2>3
    <2>5. Moves(u, c - s, d - a)
      BY <1>1, <2>3, <2>4, BothMove
    <2>6. /\ gusdOf' \in [Borrower -> Nat] /\ totalSupply' \in Nat /\ totalSupply' = totalSupply - a
          /\ SumFunction(gusdOf') = SumFunction(gusdOf) - a
      BY <2>3, Burns
    <2>7. /\ totalSupply' = totalSupply + ((d - a) - positions[u].debt)
          /\ SumFunction(gusdOf') = SumFunction(gusdOf) + ((d - a) - positions[u].debt)
          /\ ethHeld' = ethHeld + ((c - s) - positions[u].collateral)
      BY <1>1, <2>1, <2>3, <2>6
    <2>8. QED
      BY <1>1, <2>4, <2>5, <2>6, <2>7, VaultMoves
  <1>9. ASSUME NEW u \in Borrower, NEW v \in Borrower, NEW amount \in Amount, Transfer(u, v, amount)
        PROVE  VaultInv'
    <2>1. PICK m, n \in Nat : m = gusdOf[u] - amount /\ n = gusdOf[v] + amount
      BY <1>1, <1>2, <1>9 DEF Transfer
    <2>2. PICK g : g = [gusdOf EXCEPT ![u] = m]
      OBVIOUS
    <2>3. g \in [Borrower -> Nat] /\ SumFunction(g) = SumFunction(gusdOf) + (m - gusdOf[u])
      BY <1>1, <2>2, BalanceChanges
    <2>4. gusdOf' = [g EXCEPT ![v] = n] /\ g[v] = gusdOf[v]
      BY <1>1, <1>9, <2>1, <2>2 DEF Transfer
    <2>5. gusdOf' \in [Borrower -> Nat] /\ SumFunction(gusdOf') = SumFunction(g) + (n - g[v])
      BY <1>1, <2>3, <2>4, BalanceChanges
    <2>6. SumFunction(gusdOf') = SumFunction(gusdOf)
      BY <1>1, <1>2, <2>1, <2>3, <2>4, <2>5
    <2>7. price' = price /\ positions' = positions /\ totalSupply' = totalSupply /\ ethHeld' = ethHeld
      BY <1>9 DEF Transfer
    <2>8. QED
      BY <2>5, <2>6, <2>7
         DEF VaultInv, VaultTyped, SupplyIsOwed, EthIsCollateral, Debts, Collaterals
  <1>10. QED
    BY <1>3, <1>4, <1>5, <1>6, <1>7, <1>8, <1>9 DEF VaultNext

LEMMA VaultStutters == ASSUME VaultInv, UNCHANGED vaultVars PROVE VaultInv'
  BY DEF vaultVars, VaultInv, VaultTyped, SupplyIsOwed, EthIsCollateral, Debts, Collaterals

\* Supply, debts and balances have one sum, and the contract holds the collateral
\* of all positions: however the divisions of a liquidation round, no gUSD is
\* unbacked by a debt and no wei is missing or stranded (MiniVault.sol).
THEOREM VaultSupplyIsOwed == ASSUME VaultAssumption PROVE VaultSpec => [](SupplyIsOwed /\ EthIsCollateral)
  <1>1. VaultInit => VaultInv
    BY VaultStarts
  <1>2. VaultInv /\ [VaultNext]_vaultVars => VaultInv'
    BY VaultStep, VaultStutters
  <1>3. VaultInv => SupplyIsOwed /\ EthIsCollateral
    BY DEF VaultInv
  <1>4. QED
    BY <1>1, <1>2, <1>3, PTL DEF VaultSpec

-----------------------------------------------------------------------------
\* The guard of a deposit is the only bound on a position: debts need none.
Capped == \A u \in Borrower : positions[u].collateral <= MaxCollateral

LEMMA CapStays ==
  ASSUME VaultTyped, Capped, NEW u \in Borrower, NEW c \in Nat, NEW d \in Nat, Moves(u, c, d),
         c <= positions[u].collateral \/ c <= MaxCollateral, MaxCollateral \in Nat
  PROVE  Capped'
  <1>1. PICK m, b \in Nat : m = MaxCollateral /\ b = positions[u].collateral
    BY DEF VaultTyped, Holding
  <1>2. b <= m /\ (c <= b \/ c <= m)
    BY <1>1 DEF Capped
  <1>3. c <= m
    BY <1>2
  <1>4. positions'[u].collateral <= MaxCollateral
    BY <1>1, <1>3 DEF Moves
  <1>5. \A y \in Borrower \ {u} : positions'[y].collateral <= MaxCollateral
    BY DEF Moves, Capped
  <1>6. QED
    BY <1>4, <1>5 DEF Capped

LEMMA CapStep == ASSUME VaultAssumption, VaultInv, Capped, [VaultNext]_vaultVars PROVE Capped'
  <1>1. VaultTyped /\ price \in Nat \ {0} /\ MaxCollateral \in Nat
    BY DEF VaultInv, VaultTyped, VaultAssumption
  <1>2. ASSUME NEW u \in Borrower, NEW amount \in Amount
        PROVE  /\ amount \in Nat /\ positions[u] \in Holding
               /\ positions[u].collateral \in Nat /\ positions[u].debt \in Nat
    BY <1>1 DEF VaultAssumption, VaultTyped, Holding
  <1>3. CASE UNCHANGED positions
    BY <1>3 DEF Capped
  <1>4. ASSUME NEW u \in Borrower, NEW amount \in Amount, DepositEth(u, amount) PROVE Capped'
    <2>1. PICK a, c, d \in Nat : a = amount /\ c = positions[u].collateral /\ d = positions[u].debt
      BY <1>2
    <2>2. /\ positions' = [positions EXCEPT ![u].collateral = c + a] /\ c + a \in Nat
          /\ c + a <= MaxCollateral
      BY <1>4, <2>1 DEF DepositEth
    <2>3. Moves(u, c + a, d)
      BY <1>1, <2>1, <2>2, CollateralMoves
    <2>4. QED
      BY <1>1, <2>2, <2>3, CapStays
  <1>5. ASSUME NEW u \in Borrower, NEW amount \in Amount, Withdraw(u, amount) PROVE Capped'
    <2>1. PICK a, c, d \in Nat : a = amount /\ c = positions[u].collateral /\ d = positions[u].debt
      BY <1>2
    <2>2. /\ positions' = [positions EXCEPT ![u].collateral = c - a] /\ c - a \in Nat
          /\ c - a <= positions[u].collateral
      BY <1>5, <2>1 DEF Withdraw
    <2>3. Moves(u, c - a, d)
      BY <1>1, <2>1, <2>2, CollateralMoves
    <2>4. QED
      BY <1>1, <2>2, <2>3, CapStays
  <1>6. ASSUME NEW u \in Borrower, NEW amount \in Amount, Mint(u, amount) PROVE Capped'
    <2>1. PICK a, c, d \in Nat : a = amount /\ c = positions[u].collateral /\ d = positions[u].debt
      BY <1>2
    <2>2. positions' = [positions EXCEPT ![u].debt = d + a] /\ d + a \in Nat
      BY <1>6, <2>1 DEF Mint
    <2>3. Moves(u, c, d + a)
      BY <1>1, <2>1, <2>2, DebtMoves
    <2>4. c <= positions[u].collateral
      BY <2>1
    <2>5. QED
      BY <1>1, <2>2, <2>3, <2>4, CapStays
  <1>7. ASSUME NEW u \in Borrower, NEW amount \in Amount, Repay(u, amount) PROVE Capped'
    <2>1. PICK a, c, d \in Nat : a = amount /\ c = positions[u].collateral /\ d = positions[u].debt
      BY <1>2
    <2>2. positions' = [positions EXCEPT ![u].debt = d - a] /\ d - a \in Nat
      BY <1>7, <2>1 DEF Repay
    <2>3. Moves(u, c, d - a)
      BY <1>1, <2>1, <2>2, DebtMoves
    <2>4. c <= positions[u].collateral
      BY <2>1
    <2>5. QED
      BY <1>1, <2>2, <2>3, <2>4, CapStays
  <1>8. ASSUME NEW v \in Borrower, NEW u \in Borrower, NEW amount \in Amount, Liquidate(v, u, amount)
        PROVE  Capped'
    <2>1. PICK c, d \in Nat : c = positions[u].collateral /\ d = positions[u].debt
      BY <1>2
    <2>2. PICK a, s \in Nat : Liquidated(v, u, c, d, a, s)
      BY <1>1, <1>8, <2>1, Liquidates
    <2>3. /\ a <= d /\ s <= c
          /\ positions' = [positions EXCEPT ![u].debt = d - a, ![u].collateral = c - s]
      BY <2>2 DEF Liquidated
    <2>4. c - s \in Nat /\ d - a \in Nat /\ c - s <= positions[u].collateral
      BY <2>1, <2>3
    <2>5. Moves(u, c - s, d - a)
      BY <1>1, <2>3, <2>4, BothMove
    <2>6. QED
      BY <1>1, <2>4, <2>5, CapStays
  <1>9. QED
    BY <1>3, <1>4, <1>5, <1>6, <1>7, <1>8 DEF VaultNext, SetPrice, Transfer, vaultVars

\* No position falls below zero or takes more collateral than a deposit lets in, and
\* no balance of gUSD and no holding of ETH falls below zero, although the token
\* subtracts unchecked (MiniVault.sol).
THEOREM VaultTypes == ASSUME VaultAssumption PROVE VaultSpec => []VaultTypeOK
  <1>1. VaultInit => VaultInv /\ Capped
    BY VaultStarts DEF VaultInit, Capped, VaultAssumption
  <1>2. VaultInv /\ Capped /\ [VaultNext]_vaultVars => VaultInv' /\ Capped'
    BY VaultStep, VaultStutters, CapStep
  <1>3. VaultInv /\ Capped => VaultTypeOK
    <2> SUFFICES ASSUME VaultInv, Capped PROVE VaultTypeOK
      OBVIOUS
    <2>1. VaultTyped
      BY DEF VaultInv
    <2>2. ASSUME NEW u \in Borrower PROVE positions[u] \in Position
      <3>1. PICK p \in Holding : p = positions[u]
        BY <2>1 DEF VaultTyped
      <3>2. p.collateral \in Nat /\ p.debt \in Nat /\ p.collateral <= MaxCollateral /\ MaxCollateral \in Nat
        BY <3>1 DEF Holding, Capped, VaultAssumption
      <3>3. p.collateral \in 0 .. MaxCollateral
        BY <3>2
      <3>4. QED
        BY <3>1, <3>2, <3>3 DEF Position, Holding
    <2>3. QED
      BY <2>1, <2>2 DEF VaultTyped, VaultTypeOK
  <1>4. QED
    BY <1>1, <1>2, <1>3, PTL DEF VaultSpec

-----------------------------------------------------------------------------
LEMMA TimesGrows == ASSUME NEW a \in Nat, NEW b \in Nat, NEW k \in Nat, a <= b PROVE a * k <= b * k
  OBVIOUS

LEMMA TimesCancels == ASSUME NEW a \in Nat, NEW b \in Nat, NEW k \in Nat \ {0}, a * k <= b * k PROVE a <= b
  OBVIOUS

LEMMA DividesBelow ==
  ASSUME NEW n \in Nat, NEW d \in Nat \ {0}
  PROVE  n \div d \in Nat /\ (n \div d) * d <= n /\ \A k \in Nat : n \div d < k <=> n < k * d
  <1>1. n \div d \in Nat /\ d * (n \div d) <= n /\ n < d * ((n \div d) + 1)
    OBVIOUS
  <1>2. PICK q \in Nat : q = n \div d
    BY <1>1
  <1>3. ASSUME NEW k \in Nat, q < k PROVE n < k * d
    <2>1. (q + 1) * d <= k * d
      BY <1>3, TimesGrows
    <2>2. QED
      BY <1>1, <1>2, <2>1
  <1>4. ASSUME NEW k \in Nat, ~(q < k) PROVE ~(n < k * d)
    <2>1. k * d <= q * d
      BY <1>4, TimesGrows
    <2>2. QED
      BY <1>1, <1>2, <2>1
  <1>5. QED
    BY <1>1, <1>2, <1>3, <1>4

\* What the two divisions of the health factor come to: the collateral is worth
\* less than six fifths of the debt.
LEMMA Liquidatable ==
  ASSUME VaultAssumption, NEW p \in Holding, NEW at \in Nat
  PROVE  /\ CollateralValueUsd(p, at) \in Nat
         /\ IsLiquidatable(p, at) <=> p.debt > 0 /\ CollateralValueUsd(p, at) * 10000 < p.debt * 12000
  <1>1. PICK c, d, w \in Nat : c = p.collateral /\ d = p.debt /\ w = WAD /\ w # 0
    BY DEF VaultAssumption, Holding
  <1>2. c * at \in Nat
    OBVIOUS
  <1>3. PICK v \in Nat : v = CollateralValueUsd(p, at)
    BY <1>1, <1>2, DividesBelow DEF CollateralValueUsd
  <1>4. CASE d = 0
    BY <1>1, <1>3, <1>4 DEF IsLiquidatable
  <1>5. CASE d # 0
    <2>1. PICK n, m \in Nat : n = v * 10000 * w /\ m = d * 12000 /\ m # 0
      BY <1>5
    <2>2. n \div m < w <=> n < w * m
      <3>1. m \in Nat \ {0}
        BY <2>1
      <3>2. \A k \in Nat : n \div m < k <=> n < k * m
        BY <3>1, DividesBelow
      <3>3. QED
        BY <3>2
    <2>3. n = (v * 10000) * w /\ w * m = m * w
      BY <2>1
    <2>4. ASSUME NEW x \in Nat, NEW y \in Nat PROVE x * w < y * w <=> x < y
      <3>1. x < y => (x + 1) * w <= y * w
        BY TimesGrows
      <3>2. (x + 1) * w = x * w + w
        OBVIOUS
      <3>3. ~(x < y) => y * w <= x * w
        BY TimesGrows
      <3>4. QED
        BY <1>1, <3>1, <3>2, <3>3
    <2>5. n < w * m <=> v * 10000 < m
      <3>1. PICK x \in Nat : x = v * 10000
        OBVIOUS
      <3>2. x * w < m * w <=> x < m
        BY <2>1, <2>4
      <3>3. QED
        BY <2>3, <3>1, <3>2
    <2>6. HealthFactor(p, at) = n \div m
      BY <1>1, <1>3, <2>1 DEF HealthFactor, BPS, LIQ_BPS
    <2>7. QED
      BY <1>1, <1>3, <1>5, <2>1, <2>2, <2>5, <2>6 DEF IsLiquidatable
  <1>6. QED
    BY <1>4, <1>5

\* A position that passes the gate of a mint is not liquidatable.
LEMMA GateIsStricter ==
  ASSUME VaultAssumption, NEW p \in Holding, NEW at \in Nat, p.debt <= MaxDebtUsd(p, at)
  PROVE  ~IsLiquidatable(p, at)
  <1>1. PICK v, d \in Nat : v = CollateralValueUsd(p, at) /\ d = p.debt
    BY Liquidatable DEF Holding
  <1>2. d <= (v * 10000) \div 15000
    BY <1>1 DEF MaxDebtUsd, BPS, MCR_BPS
  <1>3. d * 15000 <= v * 10000
    BY <1>2
  <1>4. ~(d > 0 /\ v * 10000 < d * 12000)
    BY <1>3
  <1>5. QED
    BY <1>1, <1>4, Liquidatable

\* More collateral, or less debt, never hurts.
LEMMA SaferStaysSafe ==
  ASSUME VaultAssumption, NEW p \in Holding, NEW q \in Holding, NEW at \in Nat,
         p.collateral <= q.collateral, q.debt <= p.debt, IsLiquidatable(q, at)
  PROVE  IsLiquidatable(p, at)
  <1>1. PICK c, d, k, e, w \in Nat : /\ c = p.collateral /\ d = p.debt /\ w = WAD /\ w # 0
                                     /\ k = q.collateral /\ e = q.debt
    BY DEF VaultAssumption, Holding
  <1>2. PICK v, x \in Nat : v = CollateralValueUsd(p, at) /\ x = CollateralValueUsd(q, at)
    BY Liquidatable
  <1>3. PICK m, n \in Nat : m = c * at /\ n = k * at
    OBVIOUS
  <1>4. v = m \div w /\ x = n \div w /\ m <= n
    BY <1>1, <1>2, <1>3, TimesGrows DEF CollateralValueUsd
  <1>5. v <= x
    <2>1. x < v => n < v * w
      BY <1>1, <1>4, DividesBelow
    <2>2. v * w <= m
      BY <1>1, <1>4, DividesBelow
    <2>3. v * w \in Nat
      OBVIOUS
    <2>4. QED
      BY <1>4, <2>1, <2>2, <2>3
  <1>6. e > 0 /\ x * 10000 < e * 12000
    BY <1>1, <1>2, Liquidatable
  <1>7. d > 0 /\ v * 10000 < d * 12000
    BY <1>1, <1>5, <1>6
  <1>8. QED
    BY <1>1, <1>2, <1>7, Liquidatable

\* The collateral is worth the debt and the bonus: what is seized is no larger a
\* share of the one than what is repaid is of the other.
LEMMA RatioIsKept ==
  ASSUME NEW c \in Nat, NEW d \in Nat, NEW s \in Nat, NEW r \in Nat, NEW P \in Nat \ {0}, NEW W \in Nat,
         c * P >= d * W, s * P <= r * W
  PROVE  (c - s) * d >= c * (d - r)
  <1>1. PICK a, b, x, y \in Nat : a = c * P /\ b = d * W /\ x = s * P /\ y = r * W
    OBVIOUS
  <1>2. x * d <= y * d /\ b * r <= a * r
    BY <1>1, TimesGrows
  <1>3. x * d = (s * d) * P /\ a * r = (c * r) * P /\ y * d = b * r
    BY <1>1
  <1>4. s * d \in Nat /\ c * r \in Nat
    OBVIOUS
  <1>5. (s * d) * P <= (c * r) * P
    BY <1>2, <1>3, <1>1, <1>4
  <1>6. s * d <= c * r
    BY <1>4, <1>5, TimesCancels
  <1>7. (c - s) * d = c * d - s * d /\ c * (d - r) = c * d - c * r /\ c * d \in Nat
    OBVIOUS
  <1>8. QED
    BY <1>4, <1>6, <1>7

\* What PositionsAreKept says of one position.
Kept(u) ==
  LET p == positions[u]
      q == positions'[u]
  IN  /\ ~IsLiquidatable(p, price) /\ IsLiquidatable(q, price') => price' # price
      /\ /\ q.debt < p.debt /\ q.collateral < p.collateral
         /\ p.collateral * price * BPS >= p.debt * WAD * (BPS + BONUS_BPS)
         => q.collateral * p.debt >= p.collateral * q.debt

LEMMA StillKept == ASSUME NEW u \in Borrower, positions'[u] = positions[u], VaultTyped PROVE Kept(u)
  <1>1. positions[u].debt \in Nat
    BY DEF VaultTyped, Holding
  <1>2. ~(positions[u].debt < positions[u].debt)
    BY <1>1
  <1>3. IsLiquidatable(positions'[u], price') /\ price' = price => IsLiquidatable(positions[u], price)
    OBVIOUS
  <1>4. QED
    BY <1>2, <1>3 DEF Kept

\* An edit that leaves the price and the debt, or the collateral, alone is judged
\* by what it does to the health of the position.
LEMMA SafeKept ==
  ASSUME NEW u \in Borrower, NEW c \in Nat, NEW d \in Nat, Moves(u, c, d), VaultTyped,
         d >= positions[u].debt \/ c >= positions[u].collateral,
         IsLiquidatable(positions'[u], price) => IsLiquidatable(positions[u], price),
         price' = price
  PROVE  Kept(u)
  <1>1. positions[u].debt \in Nat /\ positions[u].collateral \in Nat
    BY DEF VaultTyped, Holding
  <1>2. ~(positions'[u].debt < positions[u].debt /\ positions'[u].collateral < positions[u].collateral)
    BY <1>1 DEF Moves
  <1>3. IsLiquidatable(positions'[u], price') => IsLiquidatable(positions[u], price)
    OBVIOUS
  <1>4. QED
    BY <1>2, <1>3 DEF Kept

LEMMA PositionsKeptStep ==
  ASSUME VaultAssumption, VaultInv, VaultNext, NEW y \in Borrower
  PROVE  Kept(y)
  <1>1. price \in Price /\ price \in Nat \ {0} /\ VaultTyped /\ positions[y] \in Holding
    BY DEF VaultAssumption, VaultInv, VaultTyped
  <1>2. ASSUME NEW u \in Borrower, NEW amount \in Amount
        PROVE  /\ amount \in Nat /\ positions[u] \in Holding
               /\ positions[u].collateral \in Nat /\ positions[u].debt \in Nat
    BY <1>1 DEF VaultAssumption, VaultTyped, Holding
  <1>3. ASSUME NEW u \in Borrower, u # y, NEW c \in Nat, NEW d \in Nat, Moves(u, c, d) PROVE Kept(y)
    <2>1. positions'[y] = positions[y]
      BY <1>3 DEF Moves
    <2>2. QED
      BY <1>1, <2>1, StillKept
  <1>4. ASSUME NEW at \in Price, SetPrice(at) PROVE Kept(y)
    BY <1>1, <1>4, StillKept DEF SetPrice
  <1>5. ASSUME NEW u \in Borrower, NEW amount \in Amount, DepositEth(u, amount) PROVE Kept(y)
    <2>1. PICK a, c, d \in Nat : a = amount /\ c = positions[u].collateral /\ d = positions[u].debt
      BY <1>2
    <2>2. c + a \in Nat /\ positions' = [positions EXCEPT ![u].collateral = c + a] /\ price' = price
      BY <1>5, <2>1 DEF DepositEth
    <2>3. Moves(u, c + a, d)
      BY <1>1, <2>1, <2>2, CollateralMoves
    <2>4. CASE u = y
      <3>1. /\ positions'[y] \in Holding /\ positions[y].collateral <= positions'[y].collateral
            /\ positions'[y].debt <= positions[y].debt
        BY <2>1, <2>3, <2>4 DEF Moves
      <3>2. IsLiquidatable(positions'[y], price) => IsLiquidatable(positions[y], price)
        BY <1>1, <3>1, SaferStaysSafe
      <3>3. d >= positions[y].debt
        BY <2>1, <2>4
      <3>4. QED
        BY <1>1, <2>2, <2>3, <2>4, <3>2, <3>3, SafeKept
    <2>5. QED
      BY <1>3, <2>2, <2>3, <2>4
  <1>6. ASSUME NEW u \in Borrower, NEW amount \in Amount, Withdraw(u, amount) PROVE Kept(y)
    <2>1. PICK a, c, d \in Nat : a = amount /\ c = positions[u].collateral /\ d = positions[u].debt
      BY <1>2
    <2>2. /\ c - a \in Nat /\ positions' = [positions EXCEPT ![u].collateral = c - a] /\ price' = price
          /\ d <= MaxDebtUsd(positions'[u], price)
      BY <1>6, <2>1 DEF Withdraw
    <2>3. Moves(u, c - a, d)
      BY <1>1, <2>1, <2>2, CollateralMoves
    <2>4. CASE u = y
      <3>1. positions'[y] \in Holding /\ positions'[y].debt = d
        BY <2>3, <2>4 DEF Moves
      <3>2. ~IsLiquidatable(positions'[y], price)
        BY <1>1, <2>2, <2>4, <3>1, GateIsStricter
      <3>3. d >= positions[y].debt
        BY <2>1, <2>4
      <3>4. QED
        BY <1>1, <2>2, <2>3, <2>4, <3>2, <3>3, SafeKept
    <2>5. QED
      BY <1>3, <2>2, <2>3, <2>4
  <1>7. ASSUME NEW u \in Borrower, NEW amount \in Amount, Mint(u, amount) PROVE Kept(y)
    <2>1. PICK a, c, d \in Nat : a = amount /\ c = positions[u].collateral /\ d = positions[u].debt
      BY <1>2
    <2>2. /\ d + a \in Nat /\ positions' = [positions EXCEPT ![u].debt = d + a] /\ price' = price
          /\ d + a <= MaxDebtUsd(positions[u], price)
      BY <1>7, <2>1 DEF Mint
    <2>3. Moves(u, c, d + a)
      BY <1>1, <2>1, <2>2, DebtMoves
    <2>4. CASE u = y
      <3>1. positions'[y] \in Holding /\ positions'[y].debt = d + a /\ positions'[y].collateral = c
        BY <2>3, <2>4 DEF Moves
      <3>2. MaxDebtUsd(positions'[y], price) = MaxDebtUsd(positions[y], price)
        BY <2>1, <2>4, <3>1 DEF MaxDebtUsd, CollateralValueUsd
      <3>3. ~IsLiquidatable(positions'[y], price)
        BY <1>1, <2>2, <2>4, <3>1, <3>2, GateIsStricter
      <3>4. c >= positions[y].collateral
        BY <2>1, <2>4
      <3>5. QED
        BY <1>1, <2>2, <2>3, <2>4, <3>3, <3>4, SafeKept
    <2>5. QED
      BY <1>3, <2>2, <2>3, <2>4
  <1>8. ASSUME NEW u \in Borrower, NEW amount \in Amount, Repay(u, amount) PROVE Kept(y)
    <2>1. PICK a, c, d \in Nat : a = amount /\ c = positions[u].collateral /\ d = positions[u].debt
      BY <1>2
    <2>2. d - a \in Nat /\ positions' = [positions EXCEPT ![u].debt = d - a] /\ price' = price
      BY <1>8, <2>1 DEF Repay
    <2>3. Moves(u, c, d - a)
      BY <1>1, <2>1, <2>2, DebtMoves
    <2>4. CASE u = y
      <3>1. /\ positions'[y] \in Holding /\ positions[y].collateral <= positions'[y].collateral
            /\ positions'[y].debt <= positions[y].debt
        BY <2>1, <2>3, <2>4 DEF Moves
      <3>2. IsLiquidatable(positions'[y], price) => IsLiquidatable(positions[y], price)
        BY <1>1, <3>1, SaferStaysSafe
      <3>3. c >= positions[y].collateral
        BY <2>1, <2>4
      <3>4. QED
        BY <1>1, <2>2, <2>3, <2>4, <3>2, <3>3, SafeKept
    <2>5. QED
      BY <1>3, <2>2, <2>3, <2>4
  <1>9. ASSUME NEW v \in Borrower, NEW u \in Borrower, NEW amount \in Amount, Liquidate(v, u, amount)
        PROVE  Kept(y)
    <2>1. PICK c, d \in Nat : c = positions[u].collateral /\ d = positions[u].debt
      BY <1>2
    <2>2. IsLiquidatable(positions[u], price) /\ price' = price
      BY <1>9 DEF Liquidate
    <2>8. PICK r, s \in Nat : Liquidated(v, u, c, d, r, s)
      BY <1>1, <1>9, <2>1, Liquidates
    <2>3. /\ r <= d /\ s <= c /\ s = Seized(positions[u], r)
          /\ positions' = [positions EXCEPT ![u].debt = d - r, ![u].collateral = c - s]
      BY <2>8 DEF Liquidated
    <2>4. c - s \in Nat /\ d - r \in Nat
      BY <2>1, <2>3
    <2>5. Moves(u, c - s, d - r)
      BY <1>1, <2>3, <2>4, BothMove
    <2>6. CASE u = y
      <3>1. PICK P, W \in Nat : P = BPS * price /\ W = (BPS + BONUS_BPS) * WAD /\ P # 0
        BY <1>1 DEF VaultAssumption, BPS, BONUS_BPS
      <3>2. s * P <= r * W
        <4>1. (BPS * price) * s <= r * (BPS + BONUS_BPS) * WAD
          BY <1>1, <1>2, <2>3, Seizes
        <4>2. r * (BPS + BONUS_BPS) * WAD = r * W
          BY <3>1 DEF VaultAssumption, BPS, BONUS_BPS
        <4>3. QED
          BY <3>1, <4>1, <4>2
      <3>3. ASSUME c * price * BPS >= d * WAD * (BPS + BONUS_BPS) PROVE (c - s) * d >= c * (d - r)
        <4>1. c * price * BPS = c * P
          BY <1>1, <3>1 DEF BPS
        <4>2. d * WAD * (BPS + BONUS_BPS) = d * W
          BY <3>1 DEF VaultAssumption, BPS, BONUS_BPS
        <4>3. c * P >= d * W
          BY <3>3, <4>1, <4>2
        <4>4. P \in Nat \ {0}
          BY <3>1
        <4>5. QED
          BY <3>2, <4>3, <4>4, RatioIsKept
      <3>4. positions'[y].collateral = c - s /\ positions'[y].debt = d - r
        BY <2>5, <2>6 DEF Moves
      <3>5. QED
        BY <2>1, <2>2, <2>6, <3>3, <3>4 DEF Kept
    <2>7. QED
      BY <1>3, <2>4, <2>5, <2>6
  <1>10. ASSUME NEW u \in Borrower, NEW v \in Borrower, NEW amount \in Amount, Transfer(u, v, amount)
         PROVE  Kept(y)
    BY <1>1, <1>10, StillKept DEF Transfer
  <1>11. QED
    BY <1>4, <1>5, <1>6, <1>7, <1>8, <1>9, <1>10 DEF VaultNext

\* Only the price endangers a position: no call of its owner and no liquidation makes
\* a healthy one liquidatable, and a liquidation of a position that covers its debt and
\* the bonus never lowers its ratio, for every price and every rounding (MiniVault.sol).
THEOREM VaultPositionsAreKept == ASSUME VaultAssumption PROVE VaultSpec => PositionsAreKept
  <1>1. VaultInit => VaultInv
    BY VaultStarts
  <1>2. VaultInv /\ [VaultNext]_vaultVars => VaultInv'
    BY VaultStep, VaultStutters
  <1>3. VaultInv /\ [VaultNext]_vaultVars => [\A u \in Borrower : Kept(u)]_vaultVars
    BY PositionsKeptStep
  <1>4. VaultSpec => [][\A u \in Borrower : Kept(u)]_vaultVars
    BY <1>1, <1>2, <1>3, PTL DEF VaultSpec
  <1>5. QED
    BY <1>4 DEF PositionsAreKept, Kept

-----------------------------------------------------------------------------
(***************************************************************************)
(* GovLedger: $LEDGER is earned, never made.                               *)
(***************************************************************************)
LedgerAccount == [balance : Int, totalEarned : Nat]

Making == [op : {"charge", "insert"}, user : Holder, amount : Stake, weeks : 1 .. MAX_LOCK_WEEKS]
Returning == [op : {"mark", "credit"}, user : Holder, expired : SUBSET Nat, lock : Nat]
Calls == {NoCall} \cup Making \cup Returning

LedgerTyped ==
  /\ week \in Nat
  /\ account \in [Holder -> LedgerAccount]
  /\ locks \in Seq(Lock)
  /\ call \in [Call -> Calls]

Returns(c) == call[c].op \in {"mark", "credit"}

\* What a request holds of an account between two of its statements: what it has
\* charged and not locked, or marked as returned and not credited.
InFlight(c, u) ==
  IF call[c] \in Making /\ call[c].op = "insert" /\ call[c].user = u THEN call[c].amount
  ELSE IF call[c] \in Returning /\ call[c].op = "credit" /\ call[c].user = u
       THEN locks[call[c].lock].amount
  ELSE 0

Flights(u) == [c \in Call |-> InFlight(c, u)]
Bars(u) == [i \in DOMAIN locks |-> IF Holds(u, i) THEN locks[i].amount ELSE 0]

\* A withdrawal works through locks that are its account's and not yet returned.
Follows(c) ==
  call[c] \in Returning =>
    /\ call[c].lock \in DOMAIN locks /\ locks[call[c].lock].user = call[c].user
    /\ call[c].lock \notin call[c].expired
    /\ call[c].op = "mark" => ~locks[call[c].lock].withdrawn
    /\ \A i \in call[c].expired : i \in DOMAIN locks /\ Holds(call[c].user, i)

OneReader ==
  \A c, d \in Call : c # d /\ call[c] \in Returning /\ call[d] \in Returning
                     => call[c].user # call[d].user

Balanced(u) ==
  account[u].balance + Locked(u) + SumFunction(Flights(u)) <= account[u].totalEarned

LedgerInv ==
  /\ LedgerTyped
  /\ \A c \in Call : Follows(c)
  /\ OneReader
  /\ \A u \in Holder : Balanced(u)

LEMMA CallKinds ==
  ASSUME NEW r \in Calls
  PROVE  /\ r.op \in {"idle", "charge", "insert", "mark", "credit"}
         /\ r.op = "idle" <=> r = NoCall
         /\ r.op \in {"charge", "insert"} <=> r \in Making
         /\ r.op \in {"mark", "credit"} <=> r \in Returning
  <1>1. CASE r = NoCall
    BY <1>1 DEF NoCall, Making, Returning
  <1>2. CASE r \in Making
    BY <1>2 DEF NoCall, Making, Returning
  <1>3. CASE r \in Returning
    BY <1>3 DEF NoCall, Making, Returning
  <1>4. QED
    BY <1>1, <1>2, <1>3 DEF Calls

LEMMA LocksTyped ==
  ASSUME LedgerAssumption, LedgerTyped, NEW i \in DOMAIN locks
  PROVE  /\ locks[i] \in Lock /\ locks[i].amount \in Nat /\ locks[i].amount \in Stake
         /\ locks[i].user \in Holder /\ locks[i].withdrawn \in BOOLEAN /\ locks[i].unlockAt \in Nat
         /\ i \in 1 .. Len(locks) /\ i \in Nat
  <1>1. Len(locks) \in Nat /\ DOMAIN locks = 1 .. Len(locks) /\ locks[i] \in Lock
    BY DEF LedgerTyped
  <1>2. PICK r \in Lock : r = locks[i]
    BY <1>1
  <1>3. /\ r.amount \in Stake /\ r.user \in Holder /\ r.withdrawn \in BOOLEAN /\ r.unlockAt \in Nat
    BY DEF Lock
  <1>4. r.amount \in Nat
    BY <1>3 DEF LedgerAssumption
  <1>5. QED
    BY <1>1, <1>2, <1>3, <1>4

LEMMA BarsTyped ==
  ASSUME LedgerAssumption, LedgerTyped, NEW u
  PROVE  /\ IsFiniteSet(DOMAIN locks) /\ Bars(u) \in [DOMAIN locks -> Nat]
         /\ Bars(u) \in [DOMAIN locks -> Int]
         /\ Locked(u) = SumFunction(Bars(u)) /\ Locked(u) \in Nat
  <1>1. Len(locks) \in Nat /\ DOMAIN locks = 1 .. Len(locks)
    BY DEF LedgerTyped
  <1>2. IsFiniteSet(DOMAIN locks)
    BY <1>1, FS_Interval
  <1>3. \A i \in DOMAIN locks : locks[i].amount \in Nat
    BY LocksTyped
  <1>4. Bars(u) \in [DOMAIN locks -> Nat] /\ Bars(u) \in [DOMAIN locks -> Int]
    BY <1>3 DEF Bars
  <1>5. Locked(u) = SumFunction(Bars(u))
    BY DEF Locked, Bars
  <1>6. QED
    BY <1>2, <1>4, <1>5, SumNatural

LEMMA FlightTyped ==
  ASSUME LedgerAssumption, LedgerTyped, NEW c \in Call, Follows(c), NEW u
  PROVE  InFlight(c, u) \in Nat
  <1>1. CASE call[c] \in Making
    BY <1>1 DEF Making, Returning, InFlight, LedgerAssumption
  <1>2. CASE call[c] \in Returning /\ call[c] \notin Making
    <2>1. call[c].lock \in DOMAIN locks
      BY <1>2 DEF Follows
    <2>2. locks[call[c].lock].amount \in Nat
      BY <2>1, LocksTyped
    <2>3. QED
      BY <1>2, <2>2 DEF InFlight
  <1>3. CASE call[c] \notin Making /\ call[c] \notin Returning
    BY <1>3 DEF InFlight
  <1>4. QED
    BY <1>1, <1>2, <1>3

LEMMA FlightsTyped ==
  ASSUME LedgerAssumption, LedgerTyped, \A c \in Call : Follows(c), NEW u
  PROVE  /\ Flights(u) \in [Call -> Nat] /\ Flights(u) \in [Call -> Int]
         /\ SumFunction(Flights(u)) \in Nat
  <1>1. Flights(u) \in [Call -> Nat] /\ Flights(u) \in [Call -> Int]
    BY FlightTyped DEF Flights
  <1>2. QED
    BY <1>1, SumNatural DEF LedgerAssumption

LEMMA LedgerStarts == ASSUME LedgerAssumption, LedgerInit PROVE LedgerInv
  <1>1. LedgerTyped
    BY DEF LedgerInit, LedgerTyped, LedgerAccount, Calls
  <1>2. \A c \in Call : call[c].op = "idle"
    BY DEF LedgerInit, NoCall
  <1>3. \A c \in Call : call[c] \notin Making /\ call[c] \notin Returning
    BY <1>2 DEF Making, Returning
  <1>4. \A c \in Call : Follows(c)
    BY <1>3 DEF Follows
  <1>5. OneReader
    BY <1>3 DEF OneReader
  <1>6. ASSUME NEW u \in Holder PROVE Balanced(u)
    <2>1. Flights(u) \in [Call -> Int] /\ \A c \in Call : Flights(u)[c] = 0
      BY <1>3 DEF Flights, InFlight
    <2>2. SumFunction(Flights(u)) = 0
      BY <2>1, SumZero DEF LedgerAssumption
    <2>3. DOMAIN locks = {}
      BY DEF LedgerInit
    <2>4. Bars(u) \in [{} -> Int]
      BY <2>3 DEF Bars
    <2>5. Locked(u) = 0
      BY <1>1, <2>4, SumEmpty, BarsTyped
    <2>6. account[u].balance = 0 /\ account[u].totalEarned = 0
      BY DEF LedgerInit
    <2>7. QED
      BY <2>2, <2>5, <2>6 DEF Balanced
  <1>7. QED
    BY <1>1, <1>4, <1>5, <1>6 DEF LedgerInv

LEMMA InvIsEarned == ASSUME LedgerAssumption, LedgerInv PROVE LedgerIsEarned
  <1>1. LedgerTyped /\ \A c \in Call : Follows(c)
    BY DEF LedgerInv
  <1>2. ASSUME NEW u \in Holder
        PROVE  /\ account[u].balance + Locked(u) <= account[u].totalEarned
               /\ CurrentVotingPower(u) <= (account[u].totalEarned - account[u].balance) * MAX_LOCK_WEEKS
    <2>1. PICK b \in Int, e, l, f \in Nat :
            b = account[u].balance /\ e = account[u].totalEarned
            /\ l = Locked(u) /\ f = SumFunction(Flights(u))
      BY <1>1, BarsTyped, FlightsTyped DEF LedgerTyped, LedgerAccount
    <2>2. b + l + f <= e
      BY <2>1 DEF LedgerInv, Balanced
    <2>3. b + l <= e /\ l <= e - b
      BY <2>2
    <2>4. PICK m \in Nat : m = MAX_LOCK_WEEKS
      BY DEF LedgerAssumption
    <2>5. PICK g : g = [i \in DOMAIN locks |-> IF Holds(u, i) THEN LockVotingPower(locks[i]) ELSE 0]
      OBVIOUS
    <2>6. ASSUME NEW i \in DOMAIN locks PROVE g[i] \in Int /\ g[i] <= m * Bars(u)[i]
      <3>1. PICK a, t, w \in Nat : a = locks[i].amount /\ t = locks[i].unlockAt /\ w = week
        BY <1>1, LocksTyped DEF LedgerTyped
      <3>2. PICK p : p = LockVotingPower(locks[i])
        OBVIOUS
      <3>3. p \in Int /\ p <= m * a
        <4>1. CASE t - w <= 0
          BY <2>4, <3>1, <3>2, <4>1 DEF LockVotingPower
        <4>2. CASE ~(t - w <= 0)
          <5>1. PICK x, y \in Nat : x = a * m /\ y = a * (t - w)
            BY <4>2
          <5>2. p = Min({x, y})
            BY <2>4, <3>1, <3>2, <4>2, <5>1 DEF LockVotingPower
          <5>3. p \in {x, y} /\ p <= x
            BY <5>2 DEF Min
          <5>4. QED
            BY <5>1, <5>3
        <4>3. QED
          BY <4>1, <4>2
      <3>4. CASE Holds(u, i)
        BY <2>5, <3>1, <3>2, <3>3, <3>4 DEF Bars
      <3>5. CASE ~Holds(u, i)
        BY <2>5, <3>5 DEF Bars
      <3>6. QED
        BY <3>4, <3>5
    <2>7. g \in [DOMAIN locks -> Int] /\ Bars(u) \in [DOMAIN locks -> Int] /\ IsFiniteSet(DOMAIN locks)
      BY <1>1, <2>5, <2>6, BarsTyped
    <2>8. SumFunction(g) <= m * SumFunction(Bars(u)) /\ SumFunction(g) \in Int
      BY <2>6, <2>7, SumCompare, SumType
    <2>9. CurrentVotingPower(u) = SumFunction(g) /\ SumFunction(Bars(u)) = l
      BY <1>1, <2>1, <2>5, BarsTyped DEF CurrentVotingPower
    <2>10. m * l <= (e - b) * m
      BY <2>3
    <2>11. QED
      BY <2>1, <2>3, <2>4, <2>8, <2>9, <2>10
  <1>3. QED
    BY <1>2 DEF LedgerIsEarned, NothingFromNothing, PowerIsEarned

-----------------------------------------------------------------------------
LEMMA Flies ==
  ASSUME LedgerAssumption, LedgerTyped, \A d \in Call : Follows(d), NEW c \in Call, NEW u,
         NEW n \in Nat, InFlight(c, u)' = n,
         \A d \in Call \ {c} : InFlight(d, u)' = InFlight(d, u)
  PROVE  SumFunction(Flights(u)') = SumFunction(Flights(u)) + (n - InFlight(c, u))
  <1>1. Flights(u) \in [Call -> Int]
    BY FlightsTyped
  <1>2. \A d \in Call : InFlight(d, u) \in Nat
    BY FlightTyped
  <1>3. \A d \in Call : InFlight(d, u)' \in Nat
    BY <1>2
  <1>4. /\ Flights(u)' \in [Call -> Int] /\ Flights(u)'[c] = n /\ Flights(u)[c] = InFlight(c, u)
        /\ \A d \in Call \ {c} : Flights(u)'[d] = Flights(u)[d]
    BY <1>3 DEF Flights
  <1>5. SumFunction(Flights(u)') = SumFunction(Flights(u)) + (Flights(u)'[c] - Flights(u)[c])
    BY <1>1, <1>4, SumChange DEF LedgerAssumption
  <1>6. QED
    BY <1>4, <1>5

\* Without a change to the locks the books change by the balances and the requests.
LEMMA Balances ==
  ASSUME LedgerAssumption, LedgerInv, NEW u \in Holder,
         NEW da \in Int, NEW de \in Int, NEW dl \in Int, NEW df \in Int, da + dl + df <= de,
         account'[u].balance = account[u].balance + da,
         account'[u].totalEarned = account[u].totalEarned + de,
         Locked(u)' = Locked(u) + dl,
         SumFunction(Flights(u)') = SumFunction(Flights(u)) + df
  PROVE  Balanced(u)'
  <1>1. LedgerTyped /\ \A c \in Call : Follows(c)
    BY DEF LedgerInv
  <1>2. PICK b \in Int, e, l, f \in Nat :
          b = account[u].balance /\ e = account[u].totalEarned
          /\ l = Locked(u) /\ f = SumFunction(Flights(u))
    BY <1>1, BarsTyped, FlightsTyped DEF LedgerTyped, LedgerAccount
  <1>3. b + l + f <= e
    BY <1>2 DEF LedgerInv, Balanced
  <1>4. (b + da) + (l + dl) + (f + df) <= e + de
    BY <1>3
  <1>5. QED
    BY <1>2, <1>4 DEF Balanced

LEMMA AccountMoves ==
  ASSUME account \in [Holder -> LedgerAccount], NEW v \in Holder, NEW b \in Int,
         account' = [account EXCEPT ![v].balance = b]
  PROVE  /\ account' \in [Holder -> LedgerAccount]
         /\ account'[v].balance = b /\ account'[v].totalEarned = account[v].totalEarned
         /\ \A u \in Holder \ {v} : account'[u] = account[u]
  <1>1. PICK q \in LedgerAccount : q = account[v]
    OBVIOUS
  <1>2. PICK r : r = [q EXCEPT !.balance = b]
    OBVIOUS
  <1>3. r \in LedgerAccount /\ r.balance = b /\ r.totalEarned = q.totalEarned
    BY <1>2 DEF LedgerAccount
  <1>4. account' = [account EXCEPT ![v] = r]
    BY <1>1, <1>2
  <1>5. QED
    BY <1>1, <1>3, <1>4

\* The steps that leave the locks alone keep the other requests' plans and holdings.
LEMMA OthersFly ==
  ASSUME LedgerTyped, NEW c \in Call, NEW r, call' = [call EXCEPT ![c] = r], locks' = locks
  PROVE  /\ \A d \in Call \ {c} : call'[d] = call[d] /\ (Follows(d) => Follows(d)')
         /\ \A u : \A d \in Call \ {c} : InFlight(d, u)' = InFlight(d, u)
         /\ \A u \in Holder : Locked(u)' = Locked(u)
         /\ call'[c] = r
         /\ r \in Calls => call' \in [Call -> Calls]
  <1>1. \A d \in Call \ {c} : call'[d] = call[d]
    BY DEF LedgerTyped
  <1>2. \A d \in Call \ {c} : Follows(d) => Follows(d)'
    BY <1>1 DEF Follows, Holds
  <1>3. ASSUME NEW u, NEW d \in Call \ {c} PROVE InFlight(d, u)' = InFlight(d, u)
    BY <1>1 DEF InFlight
  <1>4. ASSUME NEW u \in Holder PROVE Locked(u)' = Locked(u)
    BY DEF Locked, Holds
  <1>5. call'[c] = r /\ (r \in Calls => call' \in [Call -> Calls])
    BY DEF LedgerTyped
  <1>6. QED
    BY <1>1, <1>2, <1>3, <1>4, <1>5

LEMMA ReadersApart ==
  ASSUME OneReader, NEW c \in Call, \A d \in Call \ {c} : call'[d] = call[d],
         call'[c] \in Returning =>
           \A d \in Call \ {c} : call[d] \in Returning => call[d].user # call'[c].user
  PROVE  OneReader'
  BY DEF OneReader

-----------------------------------------------------------------------------
\* Writing the op of a request alone.
LEMMA OpMoves ==
  ASSUME call \in [Call -> Calls], NEW c \in Call, NEW to,
         \/ call[c] \in Making /\ to = "insert"
         \/ call[c] \in Returning /\ to = "credit",
         call' = [call EXCEPT ![c].op = to]
  PROVE  \E r \in Calls :
           /\ call' = [call EXCEPT ![c] = r] /\ r.op = to /\ r.user = call[c].user
           /\ call[c] \in Making => r \in Making /\ r.amount = call[c].amount
           /\ call[c] \in Returning => r \in Returning /\ r.lock = call[c].lock /\ r.expired = call[c].expired
  <1>1. PICK q \in Calls : q = call[c]
    OBVIOUS
  <1>2. PICK r : r = [q EXCEPT !.op = to]
    OBVIOUS
  <1>3. call' = [call EXCEPT ![c] = r]
    BY <1>1, <1>2
  <1>4. CASE q \in Making
    <2>1. q \notin Returning /\ to = "insert"
      BY <1>1, <1>4, CallKinds DEF Making, Returning
    <2>2. r \in Making /\ r.op = to /\ r.user = q.user /\ r.amount = q.amount
      BY <1>2, <1>4, <2>1 DEF Making
    <2>3. QED
      BY <1>1, <1>3, <2>1, <2>2 DEF Calls
  <1>5. CASE q \in Returning
    <2>1. q \notin Making /\ to = "credit"
      BY <1>1, <1>5, CallKinds DEF Making, Returning
    <2>2. r \in Returning /\ r.op = to /\ r.user = q.user /\ r.lock = q.lock /\ r.expired = q.expired
      BY <1>2, <1>5, <2>1 DEF Returning
    <2>3. QED
      BY <1>1, <1>3, <2>1, <2>2 DEF Calls
  <1>6. QED
    BY <1>1, <1>4, <1>5

\* A request whose step holds nothing of u.
LEMMA HoldsNothing ==
  ASSUME NEW c \in Call, NEW u,
         \/ call[c] \notin Making /\ call[c] \notin Returning
         \/ call[c].op \notin {"insert", "credit"}
         \/ call[c].user # u
  PROVE  InFlight(c, u) = 0
  BY DEF InFlight

LEMMA NextIs ==
  ASSUME LedgerTyped, NEW c \in Call, NEW u \in Holder, NEW expired \in SUBSET (DOMAIN locks)
  PROVE  \E r \in Calls :
           /\ NextExpired(c, u, expired) = [call EXCEPT ![c] = r]
           /\ \/ r = NoCall
              \/ /\ r \in Returning /\ r.op = "mark" /\ r.user = u
                 /\ r.lock \in expired /\ r.expired = expired \ {r.lock}
  <1>1. DOMAIN locks \subseteq Nat
    BY DEF LedgerTyped
  <1>2. CASE expired = {}
    BY <1>2 DEF NextExpired, Calls
  <1>3. CASE expired # {}
    <2>1. PICK x : x = Min(expired)
      OBVIOUS
    <2>2. expired \in SUBSET Nat
      BY <1>1
    <2>3. \E z \in expired : \A y \in expired : z <= y
      BY <1>3, <2>2, LeastOf
    <2>4. x \in expired
      BY <2>1, <2>3 DEF Min
    <2>5. PICK r : r = [op |-> "mark", user |-> u, expired |-> expired \ {x}, lock |-> x]
      OBVIOUS
    <2>6. r \in Returning /\ r.op = "mark" /\ r.user = u /\ r.lock = x /\ r.expired = expired \ {x}
      BY <2>2, <2>4, <2>5 DEF Returning
    <2>7. NextExpired(c, u, expired) = [call EXCEPT ![c] = r]
      BY <1>3, <2>1, <2>5 DEF NextExpired
    <2>8. QED
      BY <2>4, <2>6, <2>7 DEF Calls
  <1>4. QED
    BY <1>2, <1>3

-----------------------------------------------------------------------------
LEMMA KeptByEarn ==
  ASSUME LedgerAssumption, LedgerInv, NEW v \in Holder, NEW amount \in Stake, EarnLedger(v, amount)
  PROVE  LedgerInv'
  <1>1. amount \in Nat /\ LedgerTyped
    BY DEF LedgerAssumption, LedgerInv
  <1>2. week' = week /\ locks' = locks /\ call' = call
    BY DEF EarnLedger
  <1>3. PICK q \in LedgerAccount : q = account[v]
    BY <1>1 DEF LedgerTyped
  <1>4. PICK r : r = [balance |-> q.balance + amount, totalEarned |-> q.totalEarned + amount]
    OBVIOUS
  <1>5. r \in LedgerAccount /\ r.balance = q.balance + amount /\ r.totalEarned = q.totalEarned + amount
    BY <1>1, <1>4 DEF LedgerAccount
  <1>6. PICK a : a = [account EXCEPT ![v].balance = q.balance + amount]
    OBVIOUS
  <1>7. account' = [a EXCEPT ![v].totalEarned = q.totalEarned + amount]
    BY <1>1, <1>3, <1>6 DEF EarnLedger, LedgerTyped, LedgerAccount
  <1>8. PICK s : s = [q EXCEPT !.balance = q.balance + amount]
    OBVIOUS
  <1>9. s \in LedgerAccount /\ s.balance = q.balance + amount /\ s.totalEarned = q.totalEarned
    BY <1>1, <1>8 DEF LedgerAccount
  <1>10. a = [account EXCEPT ![v] = s]
    BY <1>3, <1>6, <1>8
  <1>11. PICK t : t = [s EXCEPT !.totalEarned = q.totalEarned + amount]
    OBVIOUS
  <1>12. t \in LedgerAccount /\ t.balance = q.balance + amount /\ t.totalEarned = q.totalEarned + amount
    BY <1>1, <1>9, <1>11 DEF LedgerAccount
  <1>13. account' = [account EXCEPT ![v] = t]
    BY <1>1, <1>7, <1>10, <1>11 DEF LedgerTyped
  <1>14. account' \in [Holder -> LedgerAccount]
    BY <1>1, <1>12, <1>13 DEF LedgerTyped
  <1>15. LedgerTyped'
    BY <1>1, <1>2, <1>14 DEF LedgerTyped
  <1>16. (\A c \in Call : Follows(c)') /\ OneReader'
    BY <1>2 DEF LedgerInv, Follows, Holds, OneReader
  <1>17. ASSUME NEW u \in Holder PROVE Balanced(u)'
    <2>1. Locked(u)' = Locked(u) /\ SumFunction(Flights(u)') = SumFunction(Flights(u))
      BY <1>2 DEF Locked, Holds, Flights, InFlight
    <2>2. Locked(u) \in Nat /\ SumFunction(Flights(u)) \in Nat
      BY <1>1, BarsTyped, FlightsTyped DEF LedgerInv
    <2>3. account[u].balance \in Int /\ account[u].totalEarned \in Nat
      BY <1>1 DEF LedgerTyped, LedgerAccount
    <2>4. CASE u = v
      <3>1. /\ account'[u].balance = account[u].balance + amount
            /\ account'[u].totalEarned = account[u].totalEarned + amount
        BY <1>1, <1>3, <1>12, <1>13, <2>4 DEF LedgerTyped
      <3>2. Locked(u)' = Locked(u) + 0 /\ SumFunction(Flights(u)') = SumFunction(Flights(u)) + 0
        BY <2>1, <2>2
      <3>3. amount + 0 + 0 <= amount /\ amount \in Int /\ 0 \in Int
        BY <1>1
      <3>4. QED
        BY <3>1, <3>2, <3>3, Balances
    <2>5. CASE u # v
      <3>1. account'[u] = account[u]
        BY <1>1, <1>13, <2>5 DEF LedgerTyped
      <3>2. QED
        BY <2>1, <3>1 DEF LedgerInv, Balanced
    <2>6. QED
      BY <2>4, <2>5
  <1>18. QED
    BY <1>15, <1>16, <1>17 DEF LedgerInv

\* Steps of one request that change nothing but what it is doing.
LEMMA KeptByPlan ==
  ASSUME LedgerAssumption, LedgerInv, NEW c \in Call, NEW r \in Calls,
         call' = [call EXCEPT ![c] = r], week' = week, account' = account, locks' = locks,
         r.op \notin {"insert", "credit"},
         Follows(c)',
         r \in Returning => \A d \in Call \ {c} : call[d] \in Returning => call[d].user # r.user
  PROVE  LedgerInv'
  <1>1. LedgerTyped
    BY DEF LedgerInv
  <1>2. /\ \A d \in Call \ {c} : call'[d] = call[d] /\ (Follows(d) => Follows(d)')
        /\ \A u : \A d \in Call \ {c} : InFlight(d, u)' = InFlight(d, u)
        /\ \A u \in Holder : Locked(u)' = Locked(u)
        /\ call'[c] = r /\ call' \in [Call -> Calls]
    BY <1>1, OthersFly
  <1>3. LedgerTyped'
    BY <1>1, <1>2 DEF LedgerTyped
  <1>4. \A d \in Call : Follows(d)'
    BY <1>2 DEF LedgerInv
  <1>5. OneReader'
    BY <1>2, ReadersApart DEF LedgerInv
  <1>6. ASSUME NEW u \in Holder PROVE Balanced(u)'
    <2>1. InFlight(c, u)' = 0
      BY <1>2 DEF InFlight
    <2>2. PICK f \in Nat : f = InFlight(c, u)
      BY <1>1, FlightTyped DEF LedgerInv
    <2>3. SumFunction(Flights(u)') = SumFunction(Flights(u)) + (0 - f)
      BY <1>1, <1>2, <2>1, <2>2, Flies DEF LedgerInv
    <2>4. /\ Locked(u) \in Nat /\ account[u].balance \in Int /\ account[u].totalEarned \in Nat
      BY <1>1, BarsTyped DEF LedgerTyped, LedgerAccount
    <2>5. /\ Locked(u)' = Locked(u) + 0 /\ account'[u].balance = account[u].balance + 0
          /\ account'[u].totalEarned = account[u].totalEarned + 0
      BY <1>2, <2>4
    <2>6. 0 + 0 + (0 - f) <= 0 /\ 0 \in Int /\ 0 - f \in Int
      BY <2>2
    <2>7. QED
      BY <2>3, <2>5, <2>6, Balances
  <1>7. QED
    BY <1>3, <1>4, <1>5, <1>6 DEF LedgerInv

LEMMA KeptByCreateLock ==
  ASSUME LedgerAssumption, LedgerInv, NEW c \in Call, NEW u \in Holder, NEW amount \in Stake,
         NEW weeks \in 1 .. MAX_LOCK_WEEKS, CreateLock(c, u, amount, weeks)
  PROVE  LedgerInv'
  <1>1. PICK r : r = [op |-> "charge", user |-> u, amount |-> amount, weeks |-> weeks]
    OBVIOUS
  <1>2. r \in Making /\ r.op = "charge"
    BY <1>1 DEF Making
  <1>3. r \in Calls /\ r \notin Returning
    BY <1>2, CallKinds DEF Calls
  <1>4. /\ call' = [call EXCEPT ![c] = r] /\ week' = week /\ account' = account /\ locks' = locks
    BY <1>1 DEF CreateLock
  <1>5. call'[c] = r
    BY <1>4 DEF LedgerInv, LedgerTyped
  <1>6. Follows(c)'
    BY <1>3, <1>5 DEF Follows
  <1>7. QED
    BY <1>2, <1>3, <1>4, <1>6, KeptByPlan

LEMMA KeptByDeath ==
  ASSUME LedgerAssumption, LedgerInv, NEW c \in Call, CallDies(c)
  PROVE  LedgerInv'
  <1>1. NoCall \in Calls /\ NoCall.op = "idle" /\ NoCall \notin Returning
    BY DEF NoCall, Calls, Returning
  <1>2. /\ call' = [call EXCEPT ![c] = NoCall] /\ week' = week /\ account' = account /\ locks' = locks
    BY DEF CallDies
  <1>3. call'[c] = NoCall
    BY <1>2 DEF LedgerInv, LedgerTyped
  <1>4. Follows(c)'
    BY <1>1, <1>3 DEF Follows
  <1>5. QED
    BY <1>1, <1>2, <1>4, KeptByPlan

\* The guard of a withdrawal: no other request returns locks of this account.
LEMMA KeptByWithdraw ==
  ASSUME LedgerAssumption, ~ReadersOverlap, LedgerInv, NEW c \in Call, NEW u \in Holder,
         WithdrawExpiredLocks(c, u)
  PROVE  LedgerInv'
  <1>1. LedgerTyped
    BY DEF LedgerInv
  <1>2. /\ week' = week /\ account' = account /\ locks' = locks
        /\ call' = NextExpired(c, u, Expired(u))
        /\ \A d \in Call : call[d].op \in {"mark", "credit"} => call[d].user # u
    BY DEF WithdrawExpiredLocks
  <1>3. /\ Expired(u) \in SUBSET (DOMAIN locks)
        /\ \A i \in Expired(u) : Holds(u, i)
    BY DEF Expired
  <1>4. PICK r \in Calls :
          /\ call' = [call EXCEPT ![c] = r]
          /\ \/ r = NoCall
             \/ /\ r \in Returning /\ r.op = "mark" /\ r.user = u
                /\ r.lock \in Expired(u) /\ r.expired = Expired(u) \ {r.lock}
    BY <1>1, <1>2, <1>3, NextIs
  <1>5. call'[c] = r
    BY <1>1, <1>4 DEF LedgerTyped
  <1>6. CASE r = NoCall
    <2>1. r.op = "idle" /\ r \notin Returning
      BY <1>6, CallKinds DEF NoCall
    <2>2. Follows(c)'
      BY <1>5, <2>1 DEF Follows
    <2>3. QED
      BY <1>2, <1>4, <2>1, <2>2, KeptByPlan
  <1>7. CASE /\ r \in Returning /\ r.op = "mark" /\ r.user = u
             /\ r.lock \in Expired(u) /\ r.expired = Expired(u) \ {r.lock}
    <2>1. Follows(c)'
      BY <1>2, <1>3, <1>5, <1>7 DEF Follows, Holds
    <2>2. \A d \in Call \ {c} : call[d] \in Returning => call[d].user # r.user
      BY <1>2, <1>7 DEF Returning
    <2>3. r.op \notin {"insert", "credit"}
      BY <1>7
    <2>4. QED
      BY <1>2, <1>4, <2>1, <2>2, <2>3, KeptByPlan
  <1>8. QED
    BY <1>4, <1>6, <1>7

LEMMA KeptByCharge ==
  ASSUME LedgerAssumption, LedgerInv, NEW c \in Call, ChargeBalance(c)
  PROVE  LedgerInv'
  <1>1. LedgerTyped /\ call[c] \in Calls
    BY DEF LedgerInv, LedgerTyped
  <1>2. call[c] \in Making /\ call[c] \notin Returning /\ call[c].op = "charge"
    <2>1. call[c].op = "charge"
      BY DEF ChargeBalance
    <2>2. QED
      BY <1>1, <2>1, CallKinds
  <1>3. PICK v \in Holder, a \in Nat : v = call[c].user /\ a = call[c].amount
    BY <1>2 DEF Making, LedgerAssumption
  <1>4. PICK b \in Int : b = account[v].balance
    BY <1>1 DEF LedgerTyped, LedgerAccount
  <1>5. /\ account' = [account EXCEPT ![v].balance = b - a] /\ b - a \in Int
        /\ week' = week /\ locks' = locks /\ call' = [call EXCEPT ![c].op = "insert"]
    BY <1>3, <1>4 DEF ChargeBalance
  <1>6. PICK r \in Calls : /\ call' = [call EXCEPT ![c] = r] /\ r.op = "insert" /\ r.user = v
                           /\ r \in Making /\ r.amount = a
    <2>1. PICK r \in Calls :
            /\ call' = [call EXCEPT ![c] = r] /\ r.op = "insert" /\ r.user = call[c].user
            /\ call[c] \in Making => r \in Making /\ r.amount = call[c].amount
            /\ call[c] \in Returning => r \in Returning /\ r.lock = call[c].lock /\ r.expired = call[c].expired
      <3>1. call \in [Call -> Calls]
        BY <1>1 DEF LedgerTyped
      <3>2. QED
        BY <1>2, <1>5, <3>1, OpMoves
    <2>2. QED
      BY <1>2, <1>3, <2>1
  <1>7. r \notin Returning
    BY <1>6 DEF Returning
  <1>8. /\ \A d \in Call \ {c} : call'[d] = call[d] /\ (Follows(d) => Follows(d)')
        /\ \A u : \A d \in Call \ {c} : InFlight(d, u)' = InFlight(d, u)
        /\ \A u \in Holder : Locked(u)' = Locked(u)
        /\ call'[c] = r /\ call' \in [Call -> Calls]
    BY <1>1, <1>5, <1>6, OthersFly
  <1>9. /\ account' \in [Holder -> LedgerAccount]
        /\ account'[v].balance = b - a /\ account'[v].totalEarned = account[v].totalEarned
        /\ \A u \in Holder \ {v} : account'[u] = account[u]
    BY <1>1, <1>5, AccountMoves DEF LedgerTyped
  <1>10. LedgerTyped'
    BY <1>1, <1>5, <1>8, <1>9 DEF LedgerTyped
  <1>11. \A d \in Call : Follows(d)'
    BY <1>7, <1>8 DEF LedgerInv, Follows
  <1>12. OneReader'
    BY <1>7, <1>8, ReadersApart DEF LedgerInv
  <1>13. ASSUME NEW u \in Holder PROVE Balanced(u)'
    <2>1. InFlight(c, u) = 0
      BY <1>2, HoldsNothing
    <2>2. PICK f \in Nat : f = IF u = v THEN a ELSE 0
      OBVIOUS
    <2>3. InFlight(c, u)' = f
      BY <1>6, <1>7, <1>8, <2>2 DEF InFlight
    <2>4. SumFunction(Flights(u)') = SumFunction(Flights(u)) + (f - 0)
      BY <1>1, <1>8, <2>1, <2>3, Flies DEF LedgerInv
    <2>5. /\ Locked(u) \in Nat /\ account[u].balance \in Int /\ account[u].totalEarned \in Nat
      BY <1>1, BarsTyped DEF LedgerTyped, LedgerAccount
    <2>6. /\ Locked(u)' = Locked(u) + 0 /\ account'[u].balance = account[u].balance + (0 - f)
          /\ account'[u].totalEarned = account[u].totalEarned + 0
      BY <1>4, <1>8, <1>9, <2>2, <2>5
    <2>7. (0 - f) + 0 + (f - 0) <= 0 /\ 0 \in Int /\ 0 - f \in Int /\ f - 0 \in Int
      OBVIOUS
    <2>8. QED
      BY <2>4, <2>6, <2>7, Balances
  <1>14. QED
    BY <1>10, <1>11, <1>12, <1>13 DEF LedgerInv

\* One lock more: the sum of an account's locks grows by it.
LEMMA BarsGrow ==
  ASSUME LedgerAssumption, LedgerTyped, NEW u \in Holder, NEW l \in Lock, ~l.withdrawn,
         locks' = Append(locks, l)
  PROVE  Locked(u)' = Locked(u) + (IF l.user = u THEN l.amount ELSE 0)
  <1>1. PICK n \in Nat : n = Len(locks) /\ DOMAIN locks = 1 .. n
    BY DEF LedgerTyped
  <1>2. /\ DOMAIN locks' = 1 .. (n + 1) /\ locks'[n + 1] = l
        /\ \A i \in 1 .. n : locks'[i] = locks[i]
    BY <1>1 DEF LedgerTyped
  <1>3. PICK a \in Nat : a = IF l.user = u THEN l.amount ELSE 0
    BY DEF Lock, LedgerAssumption
  <1>4. PICK f, g : f = Bars(u) /\ g = Bars(u)'
    OBVIOUS
  <1>5. f \in [1 .. n -> Int] /\ f \in [1 .. n -> Nat]
    BY <1>1, <1>4, BarsTyped
  <1>6. /\ DOMAIN g = 1 .. (n + 1) /\ g = [i \in 1 .. (n + 1) |-> g[i]] /\ g[n + 1] = a
        /\ \A i \in 1 .. n : g[i] = f[i]
    BY <1>1, <1>2, <1>3, <1>4 DEF Bars, Holds
  <1>7. g \in [1 .. (n + 1) -> Int]
    <2>1. \A i \in 1 .. (n + 1) : i \in 1 .. n \/ i = n + 1
      OBVIOUS
    <2>2. ASSUME NEW i \in 1 .. (n + 1) PROVE g[i] \in Int
      <3>1. CASE i \in 1 .. n
        <4>1. f[i] \in Int
          BY <1>5, <3>1
        <4>2. QED
          BY <1>6, <3>1, <4>1
      <3>2. CASE i = n + 1
        BY <1>3, <1>6, <3>2
      <3>3. QED
        BY <2>1, <3>1, <3>2
    <2>3. QED
      BY <1>6, <2>2
  <1>8. SumFunction(g) = SumFunction(f) + g[n + 1]
    BY <1>5, <1>6, <1>7, SumExtends
  <1>9. SumFunction(f) = Locked(u) /\ SumFunction(g) = Locked(u)' /\ Locked(u) \in Nat
    BY <1>4, BarsTyped DEF Locked, Bars
  <1>10. QED
    BY <1>3, <1>6, <1>8, <1>9

LEMMA KeptByInsert ==
  ASSUME LedgerAssumption, LedgerInv, NEW c \in Call, InsertLock(c)
  PROVE  LedgerInv'
  <1>1. LedgerTyped /\ call[c] \in Calls
    BY DEF LedgerInv, LedgerTyped
  <1>2. call[c] \in Making /\ call[c] \notin Returning /\ call[c].op = "insert"
    <2>1. call[c].op = "insert"
      BY DEF InsertLock
    <2>2. QED
      BY <1>1, <2>1, CallKinds
  <1>3. PICK v \in Holder, a \in Stake, w \in 1 .. MAX_LOCK_WEEKS :
          v = call[c].user /\ a = call[c].amount /\ w = call[c].weeks
    BY <1>2 DEF Making
  <1>4. PICK l : l = [user |-> v, amount |-> a, unlockAt |-> week + w, withdrawn |-> FALSE]
    OBVIOUS
  <1>5. l \in Lock /\ ~l.withdrawn /\ l.user = v /\ l.amount = a /\ a \in Nat
    <2>1. week + w \in Nat /\ a \in Nat
      BY <1>1 DEF LedgerTyped, LedgerAssumption
    <2>2. QED
      BY <1>4, <2>1 DEF Lock
  <1>6. /\ locks' = Append(locks, l) /\ call' = [call EXCEPT ![c] = NoCall]
        /\ week' = week /\ account' = account
    BY <1>3, <1>4 DEF InsertLock
  <1>7. NoCall \in Calls /\ NoCall \notin Returning /\ NoCall \notin Making
    BY DEF NoCall, Calls, Making, Returning
  <1>8. /\ \A d \in Call \ {c} : call'[d] = call[d]
        /\ call'[c] = NoCall /\ call' \in [Call -> Calls]
    BY <1>1, <1>6, <1>7 DEF LedgerTyped
  <1>9. locks' \in Seq(Lock) /\ \A i \in DOMAIN locks : i \in DOMAIN locks' /\ locks'[i] = locks[i]
    BY <1>1, <1>5, <1>6 DEF LedgerTyped
  <1>10. LedgerTyped'
    BY <1>1, <1>6, <1>8, <1>9 DEF LedgerTyped
  <1>11. ASSUME NEW d \in Call PROVE Follows(d)'
    <2>1. CASE d = c
      BY <1>7, <1>8, <2>1 DEF Follows
    <2>2. CASE d # c
      BY <1>8, <1>9, <2>2 DEF LedgerInv, Follows, Holds
    <2>3. QED
      BY <2>1, <2>2
  <1>12. OneReader'
    BY <1>7, <1>8, ReadersApart DEF LedgerInv
  <1>13. ASSUME NEW u \in Holder PROVE Balanced(u)'
    <2>1. PICK f \in Nat : f = IF u = v THEN a ELSE 0
      BY <1>5
    <2>2. InFlight(c, u) = f
      BY <1>2, <1>3, <2>1 DEF InFlight
    <2>3. InFlight(c, u)' = 0
      BY <1>7, <1>8 DEF InFlight
    <2>4. \A d \in Call \ {c} : InFlight(d, u)' = InFlight(d, u)
      BY <1>8, <1>9 DEF InFlight, LedgerInv, Follows
    <2>5. SumFunction(Flights(u)') = SumFunction(Flights(u)) + (0 - f)
      BY <1>1, <2>2, <2>3, <2>4, Flies DEF LedgerInv
    <2>6. Locked(u)' = Locked(u) + f
      BY <1>1, <1>5, <1>6, <2>1, BarsGrow
    <2>7. /\ account[u].balance \in Int /\ account[u].totalEarned \in Nat
      BY <1>1 DEF LedgerTyped, LedgerAccount
    <2>8. /\ account'[u].balance = account[u].balance + 0
          /\ account'[u].totalEarned = account[u].totalEarned + 0
      BY <1>6, <2>7
    <2>9. 0 + f + (0 - f) <= 0 /\ 0 \in Int /\ 0 - f \in Int /\ f \in Int
      OBVIOUS
    <2>10. QED
      BY <2>5, <2>6, <2>8, <2>9, Balances
  <1>14. QED
    BY <1>10, <1>11, <1>12, <1>13 DEF LedgerInv

\* A lock is marked: its account's locks are less by it.
LEMMA BarsShrink ==
  ASSUME LedgerAssumption, LedgerTyped, NEW u \in Holder, NEW i \in DOMAIN locks, ~locks[i].withdrawn,
         DOMAIN locks' = DOMAIN locks, locks'[i].withdrawn,
         \A j \in DOMAIN locks \ {i} : locks'[j] = locks[j]
  PROVE  Locked(u)' = Locked(u) + (0 - (IF locks[i].user = u THEN locks[i].amount ELSE 0))
  <1>1. PICK a \in Nat : a = IF locks[i].user = u THEN locks[i].amount ELSE 0
    BY LocksTyped
  <1>2. PICK S, f, g : S = DOMAIN locks /\ f = Bars(u) /\ g = Bars(u)'
    OBVIOUS
  <1>3. f \in [S -> Int] /\ f \in [S -> Nat] /\ IsFiniteSet(S) /\ i \in S
    BY <1>2, BarsTyped
  <1>4. /\ DOMAIN g = S /\ g = [j \in S |-> g[j]] /\ g[i] = 0 /\ f[i] = a
        /\ \A j \in S \ {i} : g[j] = f[j]
    BY <1>1, <1>2 DEF Bars, Holds
  <1>5. g \in [S -> Int]
    <2>1. \A j \in S : g[j] \in Int
      BY <1>3, <1>4
    <2>2. QED
      BY <1>4, <2>1
  <1>6. SumFunction(g) = SumFunction(f) + (g[i] - f[i])
    BY <1>3, <1>4, <1>5, SumChange
  <1>7. SumFunction(f) = Locked(u) /\ SumFunction(g) = Locked(u)' /\ Locked(u) \in Nat
    BY <1>2, BarsTyped DEF Locked, Bars
  <1>8. QED
    BY <1>1, <1>4, <1>6, <1>7

LEMMA KeptByMark ==
  ASSUME LedgerAssumption, LedgerInv, NEW c \in Call, MarkWithdrawn(c)
  PROVE  LedgerInv'
  <1>1. LedgerTyped /\ call[c] \in Calls
    BY DEF LedgerInv, LedgerTyped
  <1>2. call[c] \in Returning /\ call[c] \notin Making /\ call[c].op = "mark"
    <2>1. call[c].op = "mark"
      BY DEF MarkWithdrawn
    <2>2. QED
      BY <1>1, <2>1, CallKinds
  <1>3. PICK v \in Holder, i \in Nat : v = call[c].user /\ i = call[c].lock
    BY <1>2 DEF Returning
  <1>4. /\ i \in DOMAIN locks /\ locks[i].user = v /\ ~locks[i].withdrawn /\ i \notin call[c].expired
        /\ \A j \in call[c].expired : j \in DOMAIN locks /\ Holds(v, j)
    BY <1>2, <1>3 DEF LedgerInv, Follows
  <1>5. locks[i] \in Lock /\ locks[i].amount \in Nat
    BY <1>1, <1>4, LocksTyped
  <1>6. /\ locks' = [locks EXCEPT ![i].withdrawn = TRUE] /\ week' = week /\ account' = account
        /\ call' = [call EXCEPT ![c].op = "credit"]
    BY <1>3 DEF MarkWithdrawn
  <1>7. PICK q \in Lock : q = locks[i]
    BY <1>5
  <1>8. PICK l : l = [q EXCEPT !.withdrawn = TRUE]
    OBVIOUS
  <1>9. l \in Lock /\ l.withdrawn /\ l.user = v /\ l.amount = q.amount
    BY <1>4, <1>7, <1>8 DEF Lock
  <1>10. locks' = [locks EXCEPT ![i] = l]
    BY <1>6, <1>7, <1>8
  <1>11. /\ locks' \in Seq(Lock) /\ DOMAIN locks' = DOMAIN locks /\ locks'[i] = l
         /\ \A j \in DOMAIN locks \ {i} : locks'[j] = locks[j]
    BY <1>1, <1>4, <1>9, <1>10 DEF LedgerTyped
  <1>12. PICK r \in Calls : /\ call' = [call EXCEPT ![c] = r] /\ r.op = "credit" /\ r.user = v
                            /\ r \in Returning /\ r.lock = i /\ r.expired = call[c].expired
    <2>1. PICK r \in Calls :
            /\ call' = [call EXCEPT ![c] = r] /\ r.op = "credit" /\ r.user = call[c].user
            /\ call[c] \in Making => r \in Making /\ r.amount = call[c].amount
            /\ call[c] \in Returning => r \in Returning /\ r.lock = call[c].lock /\ r.expired = call[c].expired
      <3>1. call \in [Call -> Calls]
        BY <1>1 DEF LedgerTyped
      <3>2. QED
        BY <1>2, <1>6, <3>1, OpMoves
    <2>2. QED
      BY <1>2, <1>3, <2>1
  <1>13. r \notin Making
    BY <1>12 DEF Making
  <1>14. /\ \A d \in Call \ {c} : call'[d] = call[d]
         /\ call'[c] = r /\ call' \in [Call -> Calls]
    BY <1>1, <1>12 DEF LedgerTyped
  <1>15. LedgerTyped'
    BY <1>1, <1>6, <1>11, <1>14 DEF LedgerTyped
  <1>16. ASSUME NEW d \in Call \ {c}, call[d] \in Returning
         PROVE  call[d].user # v /\ call[d].lock # i /\ i \notin call[d].expired
    <2>1. call[d].user # v
      BY <1>2, <1>3, <1>16 DEF LedgerInv, OneReader
    <2>2. locks[call[d].lock].user = call[d].user /\ \A j \in call[d].expired : Holds(call[d].user, j)
      BY <1>16 DEF LedgerInv, Follows
    <2>3. QED
      BY <1>4, <2>1, <2>2 DEF Holds
  <1>17. ASSUME NEW d \in Call PROVE Follows(d)'
    <2>1. CASE d = c
      <3>1. \A j \in call[c].expired : j \in DOMAIN locks' /\ Holds(v, j)'
        BY <1>4, <1>11 DEF Holds
      <3>2. QED
        BY <1>4, <1>9, <1>11, <1>12, <1>14, <2>1, <3>1 DEF Follows, Holds
    <2>2. CASE d # c
      <3>1. Follows(d) /\ call'[d] = call[d]
        BY <1>14, <2>2 DEF LedgerInv
      <3>2. CASE call[d] \in Returning
        <4>1. locks'[call[d].lock] = locks[call[d].lock] /\ call[d].lock \in DOMAIN locks'
          BY <1>11, <1>16, <2>2, <3>1, <3>2 DEF Follows
        <4>2. \A j \in call[d].expired : j \in DOMAIN locks' /\ Holds(call[d].user, j)'
          BY <1>11, <1>16, <2>2, <3>1, <3>2 DEF Follows, Holds
        <4>3. QED
          BY <3>1, <3>2, <4>1, <4>2 DEF Follows, Holds
      <3>3. CASE call[d] \notin Returning
        BY <3>1, <3>3 DEF Follows
      <3>4. QED
        BY <3>2, <3>3
    <2>3. QED
      BY <2>1, <2>2
  <1>18. OneReader'
    <2>1. \A d \in Call \ {c} : call[d] \in Returning => call[d].user # call'[c].user
      BY <1>12, <1>14, <1>16
    <2>2. QED
      BY <1>14, <2>1, ReadersApart DEF LedgerInv
  <1>19. ASSUME NEW u \in Holder PROVE Balanced(u)'
    <2>1. PICK f \in Nat : f = IF u = v THEN q.amount ELSE 0
      BY <1>5, <1>7
    <2>2. InFlight(c, u) = 0
      BY <1>2, HoldsNothing
    <2>3. InFlight(c, u)' = f
      BY <1>9, <1>11, <1>12, <1>13, <1>14, <2>1 DEF InFlight
    <2>4. \A d \in Call \ {c} : InFlight(d, u)' = InFlight(d, u)
      BY <1>11, <1>14, <1>16 DEF InFlight, LedgerInv, Follows
    <2>5. SumFunction(Flights(u)') = SumFunction(Flights(u)) + (f - 0)
      BY <1>1, <2>2, <2>3, <2>4, Flies DEF LedgerInv
    <2>6. Locked(u)' = Locked(u) + (0 - f)
      <3>1. Locked(u)' = Locked(u) + (0 - (IF locks[i].user = u THEN locks[i].amount ELSE 0))
        BY <1>1, <1>4, <1>9, <1>11, BarsShrink
      <3>2. QED
        BY <1>4, <1>7, <2>1, <3>1
    <2>7. /\ account[u].balance \in Int /\ account[u].totalEarned \in Nat
      BY <1>1 DEF LedgerTyped, LedgerAccount
    <2>8. /\ account'[u].balance = account[u].balance + 0
          /\ account'[u].totalEarned = account[u].totalEarned + 0
      BY <1>6, <2>7
    <2>9. 0 + (0 - f) + (f - 0) <= 0 /\ 0 \in Int /\ 0 - f \in Int /\ f - 0 \in Int
      OBVIOUS
    <2>10. QED
      BY <2>5, <2>6, <2>8, <2>9, Balances
  <1>20. QED
    BY <1>15, <1>17, <1>18, <1>19 DEF LedgerInv

LEMMA KeptByCredit ==
  ASSUME LedgerAssumption, LedgerInv, NEW c \in Call, CreditPrincipal(c)
  PROVE  LedgerInv'
  <1>1. LedgerTyped /\ call[c] \in Calls
    BY DEF LedgerInv, LedgerTyped
  <1>2. call[c] \in Returning /\ call[c] \notin Making /\ call[c].op = "credit"
    <2>1. call[c].op = "credit"
      BY DEF CreditPrincipal
    <2>2. QED
      BY <1>1, <2>1, CallKinds
  <1>3. PICK v \in Holder, i \in Nat : v = call[c].user /\ i = call[c].lock
    BY <1>2 DEF Returning
  <1>4. /\ i \in DOMAIN locks
        /\ call[c].expired \in SUBSET (DOMAIN locks)
        /\ \A j \in call[c].expired : Holds(v, j)
    BY <1>2, <1>3 DEF LedgerInv, Follows
  <1>5. PICK a, b \in Int : a = locks[i].amount /\ b = account[v].balance /\ a \in Nat
    <2>1. locks[i].amount \in Nat
      BY <1>1, <1>4, LocksTyped
    <2>2. account[v].balance \in Int
      BY <1>1 DEF LedgerTyped, LedgerAccount
    <2>3. QED
      BY <2>1, <2>2
  <1>6. /\ account' = [account EXCEPT ![v].balance = b + a] /\ b + a \in Int
        /\ week' = week /\ locks' = locks /\ call' = NextExpired(c, v, call[c].expired)
    BY <1>3, <1>5 DEF CreditPrincipal
  <1>7. PICK r \in Calls :
          /\ call' = [call EXCEPT ![c] = r]
          /\ \/ r = NoCall
             \/ /\ r \in Returning /\ r.op = "mark" /\ r.user = v
                /\ r.lock \in call[c].expired /\ r.expired = call[c].expired \ {r.lock}
    <2>1. PICK e \in SUBSET (DOMAIN locks) : e = call[c].expired
      BY <1>4
    <2>2. PICK r \in Calls :
            /\ NextExpired(c, v, e) = [call EXCEPT ![c] = r]
            /\ \/ r = NoCall
               \/ /\ r \in Returning /\ r.op = "mark" /\ r.user = v
                  /\ r.lock \in e /\ r.expired = e \ {r.lock}
      BY <1>1, NextIs
    <2>3. QED
      BY <1>6, <2>1, <2>2
  <1>8. r.op \notin {"insert", "credit"} /\ (r = NoCall => r \notin Returning)
    BY <1>7 DEF NoCall, Returning
  <1>9. /\ \A d \in Call \ {c} : call'[d] = call[d] /\ (Follows(d) => Follows(d)')
        /\ \A u : \A d \in Call \ {c} : InFlight(d, u)' = InFlight(d, u)
        /\ \A u \in Holder : Locked(u)' = Locked(u)
        /\ call'[c] = r /\ call' \in [Call -> Calls]
    BY <1>1, <1>6, <1>7, OthersFly
  <1>10. /\ account' \in [Holder -> LedgerAccount]
         /\ account'[v].balance = b + a /\ account'[v].totalEarned = account[v].totalEarned
         /\ \A u \in Holder \ {v} : account'[u] = account[u]
    BY <1>1, <1>6, AccountMoves DEF LedgerTyped
  <1>11. LedgerTyped'
    BY <1>1, <1>6, <1>9, <1>10 DEF LedgerTyped
  <1>12. Follows(c)'
    <2>1. CASE r = NoCall
      BY <1>8, <1>9, <2>1 DEF Follows
    <2>2. CASE r # NoCall
      BY <1>4, <1>6, <1>7, <1>9, <2>2 DEF Follows, Holds
    <2>3. QED
      BY <2>1, <2>2
  <1>13. \A d \in Call : Follows(d)'
    BY <1>9, <1>12 DEF LedgerInv
  <1>14. OneReader'
    <2>1. \A d \in Call \ {c} : call[d] \in Returning => call[d].user # v
      BY <1>2, <1>3 DEF LedgerInv, OneReader
    <2>2. call'[c] \in Returning => call'[c].user = v
      BY <1>7, <1>8, <1>9
    <2>3. QED
      BY <1>9, <2>1, <2>2, ReadersApart DEF LedgerInv
  <1>15. ASSUME NEW u \in Holder PROVE Balanced(u)'
    <2>1. PICK f \in Nat : f = IF u = v THEN a ELSE 0
      BY <1>5
    <2>2. InFlight(c, u) = f
      BY <1>2, <1>3, <1>5, <2>1 DEF InFlight
    <2>3. InFlight(c, u)' = 0
      BY <1>8, <1>9 DEF InFlight
    <2>4. SumFunction(Flights(u)') = SumFunction(Flights(u)) + (0 - f)
      BY <1>1, <1>9, <2>2, <2>3, Flies DEF LedgerInv
    <2>5. /\ Locked(u) \in Nat /\ account[u].balance \in Int /\ account[u].totalEarned \in Nat
      BY <1>1, BarsTyped DEF LedgerTyped, LedgerAccount
    <2>6. /\ Locked(u)' = Locked(u) + 0 /\ account'[u].balance = account[u].balance + f
          /\ account'[u].totalEarned = account[u].totalEarned + 0
      BY <1>5, <1>9, <1>10, <2>1, <2>5
    <2>7. f + 0 + (0 - f) <= 0 /\ 0 \in Int /\ 0 - f \in Int /\ f \in Int
      OBVIOUS
    <2>8. QED
      BY <2>4, <2>6, <2>7, Balances
  <1>16. QED
    BY <1>11, <1>13, <1>14, <1>15 DEF LedgerInv

LEMMA KeptByRest ==
  ASSUME LedgerAssumption, LedgerInv, week' \in Nat, UNCHANGED <<account, locks, call>>
  PROVE  LedgerInv'
  BY DEF LedgerInv, LedgerTyped, Follows, Holds, OneReader, Balanced, Locked, Flights, InFlight

\* $LEDGER and the voting power it buys are earned, never made: for any number of
\* accounts, requests and locks, whatever the requests overlap or die between their
\* statements, as long as no two of them return one account's locks at the same
\* time (lib/governance.ts).
THEOREM LedgerStaysEarned ==
  ASSUME LedgerAssumption, ~ReadersOverlap PROVE LedgerSpec => []LedgerIsEarned
  <1>1. LedgerInit => LedgerInv
    BY LedgerStarts
  <1>2. LedgerInv /\ [LedgerNext]_ledgerVars => LedgerInv'
    <2> SUFFICES ASSUME LedgerInv, [LedgerNext]_ledgerVars PROVE LedgerInv'
      OBVIOUS
    <2>1. CASE UNCHANGED ledgerVars
      BY <2>1, KeptByRest DEF ledgerVars, LedgerInv, LedgerTyped
    <2>2. CASE WeekPasses
      BY <2>2, KeptByRest DEF WeekPasses, LedgerInv, LedgerTyped
    <2>3. ASSUME NEW u \in Holder, NEW amount \in Stake, EarnLedger(u, amount) PROVE LedgerInv'
      BY <2>3, KeptByEarn
    <2>4. ASSUME NEW u \in Holder, NEW amount \in Stake, NEW c \in Call, NEW weeks \in 1 .. MAX_LOCK_WEEKS,
                 CreateLock(c, u, amount, weeks)
          PROVE  LedgerInv'
      BY <2>4, KeptByCreateLock
    <2>5. ASSUME NEW c \in Call, NEW u \in Holder, WithdrawExpiredLocks(c, u) PROVE LedgerInv'
      BY <2>5, KeptByWithdraw
    <2>6. ASSUME NEW c \in Call, ChargeBalance(c) PROVE LedgerInv'
      BY <2>6, KeptByCharge
    <2>7. ASSUME NEW c \in Call, InsertLock(c) PROVE LedgerInv'
      BY <2>7, KeptByInsert
    <2>8. ASSUME NEW c \in Call, MarkWithdrawn(c) PROVE LedgerInv'
      BY <2>8, KeptByMark
    <2>9. ASSUME NEW c \in Call, CreditPrincipal(c) PROVE LedgerInv'
      BY <2>9, KeptByCredit
    <2>10. ASSUME NEW c \in Call, CallDies(c) PROVE LedgerInv'
      BY <2>10, KeptByDeath
    <2>11. QED
      BY <2>1, <2>2, <2>3, <2>4, <2>5, <2>6, <2>7, <2>8, <2>9, <2>10 DEF LedgerNext
  <1>3. LedgerInv => LedgerIsEarned
    BY InvIsEarned
  <1>4. QED
    BY <1>1, <1>2, <1>3, PTL DEF LedgerSpec
-----------------------------------------------------------------------------
\* The types hold whoever returns locks at the same time: a request never points
\* outside the locks there are, which are only ever appended to.
Points(c) ==
  call[c] \in Returning => call[c].lock \in DOMAIN locks /\ call[c].expired \subseteq DOMAIN locks

LedgerShape ==
  /\ LedgerTyped
  /\ week <= MaxWeek
  /\ Len(locks) <= MaxLocks
  /\ \A c \in Call : Points(c)

LEMMA CallGoes ==
  ASSUME LedgerShape, NEW c \in Call, NEW r \in Calls, call' = [call EXCEPT ![c] = r],
         DOMAIN locks \subseteq DOMAIN locks',
         r \in Returning => r.lock \in DOMAIN locks' /\ r.expired \subseteq DOMAIN locks'
  PROVE  call' \in [Call -> Calls] /\ \A d \in Call : Points(d)'
  <1>1. call \in [Call -> Calls]
    BY DEF LedgerShape, LedgerTyped
  <1>2. call' \in [Call -> Calls] /\ call'[c] = r /\ \A d \in Call \ {c} : call'[d] = call[d]
    BY <1>1
  <1>3. Points(c)'
    BY <1>2 DEF Points
  <1>4. ASSUME NEW d \in Call \ {c} PROVE Points(d)'
    <2>1. Points(d)
      BY DEF LedgerShape
    <2>2. QED
      BY <1>2, <2>1 DEF Points
  <1>5. QED
    BY <1>2, <1>3, <1>4

LEMMA RequestShape ==
  ASSUME LedgerAssumption, LedgerShape, NEW c \in Call, week' = week, locks' = locks,
         account' \in [Holder -> LedgerAccount], NEW r \in Calls, call' = [call EXCEPT ![c] = r],
         r \in Returning => r.lock \in DOMAIN locks /\ r.expired \subseteq DOMAIN locks
  PROVE  LedgerShape'
  <1>1. call' \in [Call -> Calls] /\ \A d \in Call : Points(d)'
    BY CallGoes
  <1>2. QED
    BY <1>1 DEF LedgerShape, LedgerTyped

LEMMA ShapeOfEarn ==
  ASSUME LedgerAssumption, LedgerShape, NEW v \in Holder, NEW amount \in Stake, EarnLedger(v, amount)
  PROVE  LedgerShape'
  <1>1. amount \in Nat /\ account \in [Holder -> LedgerAccount]
    BY DEF LedgerAssumption, LedgerShape, LedgerTyped
  <1>2. week' = week /\ locks' = locks /\ call' = call
    BY DEF EarnLedger
  <1>3. PICK q \in LedgerAccount : q = account[v]
    BY <1>1
  <1>4. PICK s : s = [q EXCEPT !.balance = q.balance + amount]
    OBVIOUS
  <1>5. s \in LedgerAccount /\ s.totalEarned = q.totalEarned
    BY <1>1, <1>4 DEF LedgerAccount
  <1>6. PICK t : t = [s EXCEPT !.totalEarned = q.totalEarned + amount]
    OBVIOUS
  <1>7. t \in LedgerAccount
    BY <1>1, <1>5, <1>6 DEF LedgerAccount
  <1>8. account' = [account EXCEPT ![v] = t]
    <2>1. PICK a : a = [account EXCEPT ![v].balance = q.balance + amount]
      OBVIOUS
    <2>2. a = [account EXCEPT ![v] = s] /\ a[v] = s
      BY <1>1, <1>3, <1>4, <2>1
    <2>3. account' = [a EXCEPT ![v].totalEarned = q.totalEarned + amount]
      BY <1>1, <1>3, <2>1 DEF EarnLedger, LedgerAccount
    <2>4. QED
      BY <1>1, <1>6, <2>2, <2>3
  <1>9. account' \in [Holder -> LedgerAccount]
    BY <1>1, <1>7, <1>8
  <1>10. QED
    BY <1>2, <1>9 DEF LedgerShape, LedgerTyped, Points

LEMMA ShapeOfCharge == ASSUME LedgerAssumption, LedgerShape, NEW c \in Call, ChargeBalance(c) PROVE LedgerShape'
  <1>1. LedgerTyped /\ call[c] \in Calls /\ call \in [Call -> Calls]
    BY DEF LedgerShape, LedgerTyped
  <1>2. call[c] \in Making
    <2>1. call[c].op = "charge"
      BY DEF ChargeBalance
    <2>2. QED
      BY <1>1, <2>1, CallKinds
  <1>3. PICK v \in Holder, a \in Nat : v = call[c].user /\ a = call[c].amount
    BY <1>2 DEF Making, LedgerAssumption
  <1>4. PICK b \in Int : b = account[v].balance
    BY <1>1 DEF LedgerTyped, LedgerAccount
  <1>5. /\ account' = [account EXCEPT ![v].balance = b - a] /\ b - a \in Int
        /\ week' = week /\ locks' = locks /\ call' = [call EXCEPT ![c].op = "insert"]
    BY <1>3, <1>4 DEF ChargeBalance
  <1>6. account' \in [Holder -> LedgerAccount]
    BY <1>1, <1>5, AccountMoves DEF LedgerTyped
  <1>7. PICK r \in Calls :
          /\ call' = [call EXCEPT ![c] = r] /\ r.op = "insert" /\ r.user = call[c].user
          /\ call[c] \in Making => r \in Making /\ r.amount = call[c].amount
          /\ call[c] \in Returning => r \in Returning /\ r.lock = call[c].lock /\ r.expired = call[c].expired
    <2>1. call \in [Call -> Calls] /\ call' = [call EXCEPT ![c].op = "insert"]
      BY <1>1, <1>5
    <2>2. QED
      BY <1>2, <2>1, OpMoves
  <1>8. r \notin Returning
    BY <1>2, <1>7 DEF Making, Returning
  <1>9. QED
    BY <1>5, <1>6, <1>7, <1>8, RequestShape

LEMMA ShapeOfInsert == ASSUME LedgerAssumption, LedgerShape, NEW c \in Call, InsertLock(c) PROVE LedgerShape'
  <1>1. LedgerTyped /\ call[c] \in Calls /\ week \in Nat /\ Len(locks) \in Nat
    BY DEF LedgerShape, LedgerTyped
  <1>2. call[c] \in Making
    <2>1. call[c].op = "insert"
      BY DEF InsertLock
    <2>2. QED
      BY <1>1, <2>1, CallKinds
  <1>3. PICK v \in Holder, a \in Stake, w \in Nat :
          v = call[c].user /\ a = call[c].amount /\ w = call[c].weeks
    BY <1>2 DEF Making, LedgerAssumption
  <1>4. PICK l : l = [user |-> v, amount |-> a, unlockAt |-> week + w, withdrawn |-> FALSE]
    OBVIOUS
  <1>5. l \in Lock
    BY <1>1, <1>4 DEF Lock
  <1>6. /\ locks' = Append(locks, l) /\ call' = [call EXCEPT ![c] = NoCall]
        /\ week' = week /\ account' = account /\ Len(locks) < MaxLocks
    BY <1>3, <1>4 DEF InsertLock
  <1>7. /\ locks' \in Seq(Lock) /\ Len(locks') = Len(locks) + 1 /\ DOMAIN locks \subseteq DOMAIN locks'
    BY <1>1, <1>5, <1>6 DEF LedgerTyped
  <1>8. Len(locks') <= MaxLocks
    BY <1>1, <1>6, <1>7 DEF LedgerAssumption
  <1>9. NoCall \in Calls /\ NoCall \notin Returning
    BY DEF NoCall, Calls, Returning
  <1>10. call' \in [Call -> Calls] /\ \A d \in Call : Points(d)'
    BY <1>6, <1>7, <1>9, CallGoes
  <1>11. QED
    BY <1>6, <1>7, <1>8, <1>10 DEF LedgerShape, LedgerTyped

LEMMA ShapeOfMark == ASSUME LedgerAssumption, LedgerShape, NEW c \in Call, MarkWithdrawn(c) PROVE LedgerShape'
  <1>1. LedgerTyped /\ call[c] \in Calls /\ call \in [Call -> Calls] /\ locks \in Seq(Lock)
    BY DEF LedgerShape, LedgerTyped
  <1>2. call[c] \in Returning /\ call[c].op = "mark"
    <2>1. call[c].op = "mark"
      BY DEF MarkWithdrawn
    <2>2. QED
      BY <1>1, <2>1, CallKinds
  <1>3. PICK i : i = call[c].lock
    OBVIOUS
  <1>4. i \in DOMAIN locks /\ call[c].expired \subseteq DOMAIN locks
    BY <1>2, <1>3 DEF LedgerShape, Points
  <1>5. /\ locks' = [locks EXCEPT ![i].withdrawn = TRUE] /\ week' = week /\ account' = account
        /\ call' = [call EXCEPT ![c].op = "credit"]
    BY <1>3 DEF MarkWithdrawn
  <1>6. PICK q \in Lock : q = locks[i]
    BY <1>1, <1>4, LocksTyped
  <1>7. PICK l : l = [q EXCEPT !.withdrawn = TRUE]
    OBVIOUS
  <1>8. l \in Lock /\ locks' = [locks EXCEPT ![i] = l]
    BY <1>5, <1>6, <1>7 DEF Lock
  <1>9. locks' \in Seq(Lock) /\ DOMAIN locks' = DOMAIN locks /\ Len(locks') = Len(locks)
    BY <1>1, <1>4, <1>8
  <1>10. PICK r \in Calls :
           /\ call' = [call EXCEPT ![c] = r] /\ r.op = "credit" /\ r.user = call[c].user
           /\ call[c] \in Making => r \in Making /\ r.amount = call[c].amount
           /\ call[c] \in Returning => r \in Returning /\ r.lock = call[c].lock /\ r.expired = call[c].expired
    <2>1. call \in [Call -> Calls] /\ call' = [call EXCEPT ![c].op = "credit"]
      BY <1>1, <1>5
    <2>2. QED
      BY <1>2, <2>1, OpMoves
  <1>11. call' \in [Call -> Calls] /\ \A d \in Call : Points(d)'
    BY <1>2, <1>3, <1>4, <1>9, <1>10, CallGoes
  <1>12. QED
    BY <1>1, <1>5, <1>9, <1>11 DEF LedgerShape, LedgerTyped

LEMMA ShapeOfCredit == ASSUME LedgerAssumption, LedgerShape, NEW c \in Call, CreditPrincipal(c) PROVE LedgerShape'
  <1>1. LedgerTyped /\ call[c] \in Calls
    BY DEF LedgerShape, LedgerTyped
  <1>2. call[c] \in Returning
    <2>1. call[c].op = "credit"
      BY DEF CreditPrincipal
    <2>2. QED
      BY <1>1, <2>1, CallKinds
  <1>3. PICK v \in Holder, i \in Nat : v = call[c].user /\ i = call[c].lock
    BY <1>2 DEF Returning
  <1>4. i \in DOMAIN locks /\ call[c].expired \subseteq DOMAIN locks
    BY <1>2, <1>3 DEF LedgerShape, Points
  <1>5. PICK b \in Int, a \in Nat : a = locks[i].amount /\ b = account[v].balance
    BY <1>1, <1>4, LocksTyped DEF LedgerTyped, LedgerAccount
  <1>6. /\ account' = [account EXCEPT ![v].balance = b + a] /\ b + a \in Int
        /\ week' = week /\ locks' = locks /\ call' = NextExpired(c, v, call[c].expired)
    BY <1>3, <1>5 DEF CreditPrincipal
  <1>7. account' \in [Holder -> LedgerAccount]
    BY <1>1, <1>6, AccountMoves DEF LedgerTyped
  <1>8. PICK e \in SUBSET (DOMAIN locks) : e = call[c].expired
    BY <1>4
  <1>9. PICK r \in Calls :
          /\ NextExpired(c, v, e) = [call EXCEPT ![c] = r]
          /\ \/ r = NoCall
             \/ /\ r \in Returning /\ r.op = "mark" /\ r.user = v
                /\ r.lock \in e /\ r.expired = e \ {r.lock}
    BY <1>1, NextIs
  <1>10. NoCall \notin Returning
    BY DEF NoCall, Returning
  <1>11. r \in Returning => r.lock \in DOMAIN locks /\ r.expired \subseteq DOMAIN locks
    BY <1>9, <1>10
  <1>12. call' = [call EXCEPT ![c] = r]
    BY <1>6, <1>8, <1>9
  <1>13. QED
    BY <1>6, <1>7, <1>11, <1>12, RequestShape

LEMMA ShapeOfPlans ==
  ASSUME LedgerAssumption, LedgerShape, NEW c \in Call, UNCHANGED <<week, account, locks>>,
         \/ CallDies(c)
         \/ \E u \in Holder : WithdrawExpiredLocks(c, u)
         \/ \E u \in Holder, amount \in Stake, weeks \in 1 .. MAX_LOCK_WEEKS : CreateLock(c, u, amount, weeks)
  PROVE  LedgerShape'
  <1>1. LedgerTyped /\ account' \in [Holder -> LedgerAccount] /\ week' = week /\ locks' = locks
    BY DEF LedgerShape, LedgerTyped
  <1>2. NoCall \in Calls /\ NoCall \notin Returning
    BY DEF NoCall, Calls, Returning
  <1>3. CASE CallDies(c)
    <2>1. call' = [call EXCEPT ![c] = NoCall]
      BY <1>3 DEF CallDies
    <2>2. QED
      BY <1>1, <1>2, <2>1, RequestShape
  <1>4. ASSUME NEW u \in Holder, WithdrawExpiredLocks(c, u) PROVE LedgerShape'
    <2>1. PICK e \in SUBSET (DOMAIN locks) : e = Expired(u)
      BY DEF Expired
    <2>2. PICK r \in Calls :
            /\ NextExpired(c, u, e) = [call EXCEPT ![c] = r]
            /\ \/ r = NoCall
               \/ /\ r \in Returning /\ r.op = "mark" /\ r.user = u
                  /\ r.lock \in e /\ r.expired = e \ {r.lock}
      BY <1>1, NextIs
    <2>3. r \in Returning => r.lock \in DOMAIN locks /\ r.expired \subseteq DOMAIN locks
      BY <1>2, <2>2
    <2>4. call' = [call EXCEPT ![c] = r]
      BY <1>4, <2>1, <2>2 DEF WithdrawExpiredLocks
    <2>5. QED
      BY <1>1, <2>3, <2>4, RequestShape
  <1>5. ASSUME NEW u \in Holder, NEW amount \in Stake, NEW weeks \in 1 .. MAX_LOCK_WEEKS,
               CreateLock(c, u, amount, weeks)
        PROVE  LedgerShape'
    <2>1. PICK r : r = [op |-> "charge", user |-> u, amount |-> amount, weeks |-> weeks]
      OBVIOUS
    <2>2. r \in Making /\ r \notin Returning
      BY <2>1 DEF Making, Returning
    <2>3. call' = [call EXCEPT ![c] = r] /\ r \in Calls
      BY <1>5, <2>1, <2>2 DEF CreateLock, Calls
    <2>4. QED
      BY <1>1, <2>2, <2>3, RequestShape
  <1>6. QED
    BY <1>3, <1>4, <1>5

LEMMA ShapeStep == ASSUME LedgerAssumption, LedgerShape, [LedgerNext]_ledgerVars PROVE LedgerShape'
  <1>1. CASE UNCHANGED ledgerVars
    BY <1>1 DEF ledgerVars, LedgerShape, LedgerTyped, Points
  <1>2. CASE WeekPasses
    <2>1. week \in Nat /\ MaxWeek \in Nat /\ week < MaxWeek /\ week' = week + 1
      BY <1>2 DEF WeekPasses, LedgerShape, LedgerTyped, LedgerAssumption
    <2>2. week' \in Nat /\ week' <= MaxWeek
      BY <2>1
    <2>3. QED
      BY <1>2, <2>2 DEF WeekPasses, LedgerShape, LedgerTyped, Points
  <1>3. ASSUME NEW c \in Call, CallDies(c) PROVE LedgerShape'
    BY <1>3, ShapeOfPlans DEF CallDies
  <1>4. ASSUME NEW c \in Call, NEW u \in Holder, WithdrawExpiredLocks(c, u) PROVE LedgerShape'
    BY <1>4, ShapeOfPlans DEF WithdrawExpiredLocks
  <1>5. ASSUME NEW c \in Call, NEW u \in Holder, NEW amount \in Stake, NEW weeks \in 1 .. MAX_LOCK_WEEKS,
               CreateLock(c, u, amount, weeks)
        PROVE  LedgerShape'
    BY <1>5, ShapeOfPlans DEF CreateLock
  <1>6. QED
    BY <1>1, <1>2, <1>3, <1>4, <1>5, ShapeOfEarn, ShapeOfCharge, ShapeOfInsert, ShapeOfMark, ShapeOfCredit
       DEF LedgerNext

\* The columns of an account, its locks and what a request holds between two of its
\* statements keep their types, and no request works on a lock that is not there,
\* however many requests return one account's locks at the same time (lib/governance.ts).
THEOREM LedgerTypes == ASSUME LedgerAssumption PROVE LedgerSpec => []LedgerTypeOK
  <1>1. LedgerInit => LedgerShape
    <2> SUFFICES ASSUME LedgerInit PROVE LedgerShape
      OBVIOUS
    <2>1. LedgerTyped /\ \A c \in Call : call[c] = NoCall
      BY LedgerStarts DEF LedgerInv, LedgerInit
    <2>2. \A c \in Call : Points(c)
      BY <2>1 DEF Points, NoCall, Returning
    <2>3. week = 0 /\ Len(locks) = 0 /\ {MaxWeek, MaxLocks} \subseteq Nat
      BY DEF LedgerInit, LedgerAssumption
    <2>4. QED
      BY <2>1, <2>2, <2>3 DEF LedgerShape
  <1>2. LedgerShape /\ [LedgerNext]_ledgerVars => LedgerShape'
    BY ShapeStep
  <1>3. LedgerShape => LedgerTypeOK
    <2> SUFFICES ASSUME LedgerShape PROVE LedgerTypeOK
      OBVIOUS
    <2>1. /\ week \in 0 .. MaxWeek /\ locks \in Seq(Lock) /\ account \in [Holder -> LedgerAccount]
          /\ call \in [Call -> Calls] /\ DOMAIN locks \subseteq 1 .. MaxLocks
      BY DEF LedgerShape, LedgerTyped, LedgerAssumption
    <2>2. ASSUME NEW c \in Call, call[c] \in Returning
          PROVE  call[c] \in [op : {"mark", "credit"}, user : Holder,
                              expired : SUBSET (1 .. MaxLocks), lock : 1 .. MaxLocks]
      <3>1. PICK r \in Returning : r = call[c]
        BY <2>2
      <3>2. r.lock \in 1 .. MaxLocks /\ r.expired \in SUBSET (1 .. MaxLocks)
        BY <2>1, <3>1 DEF LedgerShape, Points
      <3>3. QED
        BY <3>1, <3>2 DEF Returning
    <2>3. QED
      BY <2>1, <2>2 DEF LedgerTypeOK, LedgerAccount, Calls, Making
  <1>4. QED
    BY <1>1, <1>2, <1>3, PTL DEF LedgerSpec

-----------------------------------------------------------------------------
(***************************************************************************)
(* The run of the smaller contracts: each part is the specification of its *)
(* component, whatever is done in the others.                              *)
(***************************************************************************)
LEMMA PartsAreComponents == ContractsSpec => Spec /\ VaultSpec /\ LedgerSpec /\ VotingSpec
  <1>1. ContractsInit => Init /\ VaultInit /\ LedgerInit /\ VotingInit
    BY DEF ContractsInit
  <1>2. [ContractsNext]_<<part, vars, vaultVars, ledgerVars, votingVars>>
          => [Next]_vars /\ [VaultNext]_vaultVars /\ [LedgerNext]_ledgerVars /\ [VotingNext]_votingVars
    BY DEF ContractsNext
  <1>3. QED
    BY <1>1, <1>2, PTL DEF ContractsSpec, Spec, VaultSpec, LedgerSpec, VotingSpec

\* The escrow, the vault, the ledger and the votes keep their types side by side.
THEOREM ContractsTypes == ContractsSpec => []PartsTypeOK
  <1>1. VaultAssumption /\ LedgerAssumption /\ PollAssumption /\ VotingAssumption
    BY Assumptions
  <1>2. Spec /\ VaultSpec /\ LedgerSpec /\ VotingSpec
          => [](TypeOK /\ VaultTypeOK /\ LedgerTypeOK /\ VotingTypeOK)
    BY <1>1, EscrowTypeOK, VaultTypes, LedgerTypes, VotingTypes, PTL
  <1>3. ContractsInit => part \in Part
    BY DEF ContractsInit
  <1>4. part \in Part /\ [ContractsNext]_<<part, vars, vaultVars, ledgerVars, votingVars>> => (part \in Part)'
    BY DEF ContractsNext
  <1>5. part \in Part /\ TypeOK /\ VaultTypeOK /\ LedgerTypeOK /\ VotingTypeOK => PartsTypeOK
    BY DEF Part, PartsTypeOK
  <1>6. QED
    BY <1>2, <1>3, <1>4, <1>5, PartsAreComponents, PTL DEF ContractsSpec
==============================================================================

------------------------------ MODULE VeilPoll ------------------------------
(***************************************************************************)
(* contracts/VeilPoll.sol: a poll by commit and reveal.  A commitment is   *)
(* the hash of option, salt and voter; keccak256 is taken as injective, so *)
(* it is the tuple itself.  Anybody may commit any of these tuples, also a *)
(* copy of another voter's, and one that names no option of the poll.      *)
(*                                                                         *)
(* Of the block time only its order with the two deadlines matters.        *)
(***************************************************************************)
EXTENDS Integers, FiniteSets

CONSTANTS
  Voter,
  Option,   \* indices into the options of the poll
  OptionId, \* numbers a caller may hash or reveal
  Salt,
  NoHash    \* bytes32(0)

VARIABLES phase, commitments, revealed, votes, commitCount, revealCount

pollVars == <<phase, commitments, revealed, votes, commitCount, revealCount>>

Hash == [optionId : OptionId, salt : Salt, voter : Voter]

PollAssumption ==
  /\ IsFiniteSet(Voter)
  /\ Option \subseteq OptionId
  /\ NoHash \notin Hash

PollTypeOK ==
  /\ phase \in {"Commit", "Reveal", "Ended"}
  /\ commitments \in [Voter -> Hash \cup {NoHash}]
  /\ revealed \in [Voter -> BOOLEAN]
  /\ votes \in [Option -> Nat]
  /\ commitCount \in Nat
  /\ revealCount \in Nat

PollInit ==
  /\ phase = "Commit"
  /\ commitments = [v \in Voter |-> NoHash]
  /\ revealed = [v \in Voter |-> FALSE]
  /\ votes = [o \in Option |-> 0]
  /\ commitCount = 0
  /\ revealCount = 0

-----------------------------------------------------------------------------
\* Block time passes a deadline.
PassDeadline ==
  /\ \/ phase = "Commit" /\ phase' = "Reveal"
     \/ phase = "Reveal" /\ phase' = "Ended"
  /\ UNCHANGED <<commitments, revealed, votes, commitCount, revealCount>>

CommitVote(v, hash) ==
  /\ phase = "Commit"
  /\ commitments[v] = NoHash
  /\ commitments' = [commitments EXCEPT ![v] = hash]
  /\ commitCount' = commitCount + 1
  /\ UNCHANGED <<phase, revealed, votes, revealCount>>

\* Mutant of RevealVote: the same reveal counts every time it is sent.
RevealVote_Again(v, optionId, salt) ==
  /\ phase = "Reveal"
  /\ optionId \in Option
  /\ commitments[v] = [optionId |-> optionId, salt |-> salt, voter |-> v]
  /\ revealCount < 2 * Cardinality(Voter)
  /\ revealed' = [revealed EXCEPT ![v] = TRUE]
  /\ votes' = [votes EXCEPT ![optionId] = @ + 1]
  /\ revealCount' = revealCount + 1
  /\ UNCHANGED <<phase, commitments, commitCount>>

RevealVote(v, optionId, salt) ==
  /\ phase = "Reveal"
  /\ ~revealed[v]
  /\ optionId \in Option
  /\ commitments[v] = [optionId |-> optionId, salt |-> salt, voter |-> v]
  /\ revealed' = [revealed EXCEPT ![v] = TRUE]
  /\ votes' = [votes EXCEPT ![optionId] = @ + 1]
  /\ revealCount' = revealCount + 1
  /\ UNCHANGED <<phase, commitments, commitCount>>

PollNext ==
  \/ PassDeadline
  \/ \E v \in Voter :
       \/ \E hash \in Hash : CommitVote(v, hash)
       \/ \E optionId \in OptionId, salt \in Salt : RevealVote(v, optionId, salt)

PollSpec == PollInit /\ [][PollNext]_pollVars

-----------------------------------------------------------------------------
\* Those whose own commitment to option o has been opened.
RevealedFor(o) ==
  {v \in Voter : revealed[v] /\ commitments[v] # NoHash
                 /\ commitments[v].optionId = o /\ commitments[v].voter = v}

\* The result counts every voter who opened a commitment of their own, once, for
\* the option it hid while the poll was committing: a copied, replaced or twice
\* revealed commitment adds nothing.
TallyIsCommitted ==
  /\ \A o \in Option : votes[o] = Cardinality(RevealedFor(o))
  /\ revealCount = Cardinality({v \in Voter : revealed[v]})
  /\ revealCount <= commitCount
  /\ commitCount = Cardinality({v \in Voter : commitments[v] # NoHash})
=============================================================================

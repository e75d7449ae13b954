--------------------------- MODULE PlanningRound ---------------------------
(* What a room promises about one round of scrum poker, with the ballots    *)
(* hidden: a round is opened on a story for a fixed set of voters; once     *)
(* every voter has cast, the round is either decided (all cast the same     *)
(* points, which become the result of the story) or disputed between one    *)
(* voter of the lowest and one of the highest points, and then reopened for *)
(* the same story and the same voters.                                      *)
EXTENDS Naturals

CONSTANTS
  Voter,    \* everybody who may ever vote
  Story,    \* the stories that may be estimated
  Points    \* the cards, ordered as numbers

VARIABLES
  round,    \* closed, open or disputed
  results   \* the points agreed on per story, a partial function

vars == <<round, results>>

Closed == [phase |-> "Closed"]
Open(story, voters) == [phase |-> "Open", story |-> story, voters |-> voters]
Disputed(story, voters, low, high) ==
  [phase |-> "Disputed", story |-> story, voters |-> voters,
   low |-> low, high |-> high]

Init ==
  /\ round = Closed
  /\ results = [s \in {} |-> s]

\* A closed room opens a round.
Begin(story, voters) ==
  /\ round.phase = "Closed"
  /\ round' = Open(story, voters)
  /\ UNCHANGED results

\* Everybody cast the same points: they become the result of the story.
Agree(p) ==
  /\ round.phase = "Open"
  /\ round.voters # {}
  /\ round' = Closed
  /\ results' = [s \in DOMAIN results \cup {round.story} |->
                   IF s = round.story THEN p ELSE results[s]]

\* The points differ: somebody with the lowest has to convince somebody with
\* the highest.
Disagree(ballots) ==
  /\ round.phase = "Open"
  /\ \E low, high \in round.voters :
       /\ ballots[low] < ballots[high]
       /\ \A v \in round.voters : /\ ballots[low] <= ballots[v]
                                  /\ ballots[v] <= ballots[high]
       /\ round' = Disputed(round.story, round.voters, low, high)
  /\ UNCHANGED results

\* The dispute ends in a new vote of the same voters on the same story.
Reopen ==
  /\ round.phase = "Disputed"
  /\ round' = Open(round.story, round.voters)
  /\ UNCHANGED results

Next ==
  \/ \E story \in Story, voters \in SUBSET Voter : Begin(story, voters)
  \/ \E p \in Points : Agree(p)
  \/ /\ round.phase = "Open"
     /\ \E ballots \in [round.voters -> Points] : Disagree(ballots)
  \/ Reopen

Spec == Init /\ [][Next]_vars
=============================================================================

----------------------------- MODULE RoomActor -----------------------------
(* The room of winner_actor (winner_actor/src/room.rs): an actix actor that *)
(* handles one message at a time, keeps the members, the vote and the past  *)
(* results, and broadcasts its whole state after every accepted message.    *)
(*                                                                          *)
(* Each handler is an action.  Its outputs are kept in two variables that   *)
(* the next handler overwrites: `result', what it returns to the sender,    *)
(* and `sent', the RoomStateChanged messages it has do_sent.                *)
EXTENDS Naturals, Functions

CONSTANTS
  Winner,    \* names of people
  Session,   \* the recipients of broadcasts, one per connection
  StoryId,
  Title,
  Story,     \* the stories that may be put to the vote
  Points,    \* the cards in play
  NoVote     \* Option::None in a vote

\* The discriminants of the enum StoryPoints, which its derived order follows.
StoryPoints == {1, 2, 3, 5, 8, 13, 20, 100, 101}

\* A story is its id and its title: two titles may share an id.
ASSUME StoryAssumption == Story \subseteq [id: StoryId, title: Title]
ASSUME PointsAssumption == Points \subseteq StoryPoints /\ NoVote \notin Points

VARIABLES
  winners,    \* HashMap<Winner, Recipient>: who is in the room
  voting,     \* voting_state
  pastVotes,  \* HashMap<Story, StoryPoints>
  sent,       \* output: the broadcast of the last handler
  result      \* output: the Ok or Err the last handler returned

roomVars == <<winners, voting, pastVotes>>
vars == <<winners, voting, pastVotes, sent, result>>

\* A HashMap from S to T, its insert and its remove.
Map(S, T) == UNION {[D -> T] : D \in SUBSET S}
EmptyMap == [x \in {} |-> x]
Insert(f, k, v) == [x \in DOMAIN f \cup {k} |-> IF x = k THEN v ELSE f[x]]
Remove(f, k) == Restrict(f, DOMAIN f \ {k})

Idle == [kind |-> "Idle"]
ActiveVote(story, participants) ==
  [kind |-> "Voting", story |-> story, participants |-> participants]
Fight(story, participants, fighters) ==
  [kind |-> "Fighting", story |-> story, participants |-> participants,
   fighters |-> fighters]

VotingState ==
  {Idle}
  \cup [kind: {"Voting"}, story: Story,
        participants: Map(Winner, Points \cup {NoVote})]
  \cup [kind: {"Fighting"}, story: Story,
        participants: Map(Winner, Points), fighters: Winner \X Winner]

\* What a client is told: the members' names, the vote and the past results.
\* (RoomState::leader is None in every state: no handler assigns it.)
RoomState ==
  [winners: SUBSET Winner, voting: VotingState, pastVotes: Map(Story, Points)]
Snapshot ==
  [winners |-> DOMAIN winners, voting |-> voting, pastVotes |-> pastVotes]

Init ==
  /\ winners = EmptyMap
  /\ voting = Idle
  /\ pastVotes = EmptyMap
  /\ sent = {}
  /\ result = "None"

\* Mutant: the broadcast goes to those who were members before the message.
BroadcastToOldMembers ==
  sent' = {[member |-> w, to |-> winners[w], state |-> Snapshot'] :
             w \in DOMAIN winners}

\* broadcast_state: one do_send per member, of the state the handler leaves.
BroadcastState ==
  sent' = {[member |-> w, to |-> winners'[w], state |-> Snapshot'] :
             w \in DOMAIN winners'}

\* The end of every handler that did not bail, and of one that did.
Accept == BroadcastState /\ result' = "Ok"
Bail == UNCHANGED roomVars /\ sent' = {} /\ result' = "Err"

Enter(w, recipient) ==
  \/ w \in DOMAIN winners /\ Bail
  \/ /\ w \notin DOMAIN winners
     /\ winners' = Insert(winners, w, recipient)
     /\ UNCHANGED <<voting, pastVotes>>
     /\ Accept

\* Mutant: nobody may leave while a vote is on.
LeaveWhenIdle(w) ==
  \/ (w \notin DOMAIN winners \/ voting # Idle) /\ Bail
  \/ /\ w \in DOMAIN winners /\ voting = Idle
     /\ winners' = Remove(winners, w)
     /\ UNCHANGED <<voting, pastVotes>>
     /\ Accept

\* A member who leaves stays a participant of the vote under way.
Leave(w) ==
  \/ w \notin DOMAIN winners /\ Bail
  \/ /\ w \in DOMAIN winners
     /\ winners' = Remove(winners, w)
     /\ UNCHANGED <<voting, pastVotes>>
     /\ Accept

\* Mutant: the restarted vote is among those who are members now.
RestartWithMembers ==
  \/ voting.kind # "Fighting" /\ Bail
  \/ /\ voting.kind = "Fighting"
     /\ voting' = ActiveVote(voting.story, [w \in DOMAIN winners |-> NoVote])
     /\ UNCHANGED <<winners, pastVotes>>
     /\ Accept

RestartVote ==
  \/ voting.kind # "Fighting" /\ Bail
  \/ /\ voting.kind = "Fighting"
     /\ voting' = ActiveVote(voting.story,
                             [w \in DOMAIN voting.participants |-> NoVote])
     /\ UNCHANGED <<winners, pastVotes>>
     /\ Accept

\* Mutant: a vote may be started over a vote under way.
StartOverVote(story) ==
  \/ voting.kind = "Fighting" /\ Bail
  \/ /\ voting.kind # "Fighting"
     /\ voting' = ActiveVote(story, [w \in DOMAIN winners |-> NoVote])
     /\ UNCHANGED <<winners, pastVotes>>
     /\ Accept

StartVote(story) ==
  \/ voting # Idle /\ Bail
  \/ /\ voting = Idle
     /\ voting' = ActiveVote(story, [w \in DOMAIN winners |-> NoVote])
     /\ UNCHANGED <<winners, pastVotes>>
     /\ Accept

\* Mutant: a ballot may be recast in a fight.
MayVoteInFight(w, id) ==
  /\ voting # Idle
  /\ voting.story.id = id
  /\ w \in DOMAIN voting.participants

\* The checks of the Vote handler, in its order.
MayVote(w, id) ==
  /\ voting.kind = "Voting"
  /\ voting.story.id = id
  /\ w \in DOMAIN voting.participants

Complete(ballots) == \A w \in DOMAIN ballots : ballots[w] # NoVote
Unanimous(ballots) == \A v, w \in DOMAIN ballots : ballots[v] = ballots[w]

\* Mutant: the maximum is taken for the minimum.
FightersSwapped(ballots) ==
  {f \in (DOMAIN ballots) \X (DOMAIN ballots) :
     \A w \in DOMAIN ballots : /\ ballots[f[2]] <= ballots[w]
                               /\ ballots[w] <= ballots[f[1]]}

\* A pair of participants `choose' may pick: one of those with the fewest
\* points and one of those with the most.
Fighters(ballots) ==
  {f \in (DOMAIN ballots) \X (DOMAIN ballots) :
     \A w \in DOMAIN ballots : /\ ballots[f[1]] <= ballots[w]
                               /\ ballots[w] <= ballots[f[2]]}

\* Mutant: whether the vote is over is read off before the ballot is in.
CloseVoteLate(ballots) ==
  /\ voting' = IF Complete(voting.participants) THEN Idle
               ELSE ActiveVote(voting.story, ballots)
  /\ UNCHANGED pastVotes

\* Mutant: the result is read off the votes before the last ballot is in.
ResultFromOldBallots(ballots) ==
  \/ /\ ~Complete(ballots)
     /\ voting' = ActiveVote(voting.story, ballots)
     /\ UNCHANGED pastVotes
  \/ /\ Complete(ballots) /\ Unanimous(ballots)
     /\ voting' = Idle
     /\ \E p \in Range(voting.participants) :
          pastVotes' = Insert(pastVotes, voting.story, p)
  \/ /\ Complete(ballots) /\ ~Unanimous(ballots)
     /\ \E f \in Fighters(ballots) :
          voting' = Fight(voting.story, ballots, f)
     /\ UNCHANGED pastVotes

\* Mutant: the votes are collected, to be compared, before the last ballot is in.
CollectedEarly(ballots) ==
  LET cast == Range(voting.participants) \ {NoVote}
  IN \/ /\ ~Complete(ballots)
        /\ voting' = ActiveVote(voting.story, ballots)
        /\ UNCHANGED pastVotes
     \/ /\ Complete(ballots) /\ (\A p, q \in cast : p = q)
        /\ voting' = Idle
        /\ \E p \in cast : pastVotes' = Insert(pastVotes, voting.story, p)
     \/ /\ Complete(ballots) /\ (\E p, q \in cast : p # q)
        /\ \E f \in Fighters(ballots) :
             voting' = Fight(voting.story, ballots, f)
        /\ UNCHANGED pastVotes

\* What the Vote handler does once the ballot is in the map.
CloseVote(ballots) ==
  \/ /\ ~Complete(ballots)
     /\ voting' = ActiveVote(voting.story, ballots)
     /\ UNCHANGED pastVotes
  \/ /\ Complete(ballots) /\ Unanimous(ballots)
     /\ voting' = Idle
     /\ \E p \in Range(ballots) :
          pastVotes' = Insert(pastVotes, voting.story, p)
  \/ /\ Complete(ballots) /\ ~Unanimous(ballots)
     /\ \E f \in Fighters(ballots) :
          voting' = Fight(voting.story, ballots, f)
     /\ UNCHANGED pastVotes

Vote(w, id, points) ==
  \/ ~MayVote(w, id) /\ Bail
  \/ /\ MayVote(w, id)
     /\ CloseVote([voting.participants EXCEPT ![w] = points])
     /\ UNCHANGED winners
     /\ Accept

\* Any message may be next in the room's mailbox: no sender is restricted here.
Next ==
  \/ \E w \in Winner, s \in Session : Enter(w, s)
  \/ \E w \in Winner : Leave(w)
  \/ RestartVote
  \/ \E story \in Story : StartVote(story)
  \/ \E w \in Winner, id \in StoryId, p \in Points : Vote(w, id, p)

Spec == Init /\ [][Next]_vars
-----------------------------------------------------------------------------
\* Type invariant.
TypeOK ==
  /\ winners \in Map(Winner, Session)
  /\ voting \in VotingState
  /\ pastVotes \in Map(Story, Points)
  /\ sent \in SUBSET [member: Winner, to: Session, state: RoomState]
  /\ result \in {"None", "Ok", "Err"}

\* A vote that somebody can still cast in is missing a ballot: the room never
\* rests in Voting with every ballot in, whatever was entered, left, recast or
\* restarted in between (the "vote is over" test runs after each ballot).
OpenVoteMissesABallot ==
  voting.kind = "Voting" =>
    \/ DOMAIN voting.participants = {}
    \/ ~Complete(voting.participants)

\* A fight is a real one: its fighters took part in the vote, the first holds
\* the fewest and the second strictly more, the most, points of that vote.
FightIsADisagreement ==
  voting.kind = "Fighting" =>
    LET ballots == voting.participants
        low == voting.fighters[1]
        high == voting.fighters[2]
    IN /\ low \in DOMAIN ballots /\ high \in DOMAIN ballots
       /\ ballots[low] < ballots[high]
       /\ \A w \in DOMAIN ballots : /\ ballots[low] <= ballots[w]
                                    /\ ballots[w] <= ballots[high]

\* The comment of the Vote handler calls a vote over when all votes are in.
\* It is not so for a vote started in an empty room, which nobody can close.
VoteIsOverWhenAllVotesAreIn ==
  voting.kind = "Voting" => ~Complete(voting.participants)

\* From the start of a vote to its result, through any number of fights and
\* restarts, neither the story nor the set of participants changes, although
\* members enter and leave the room meanwhile.
ElectorateFrozen ==
  [][(voting # Idle /\ voting' # Idle) =>
       /\ voting'.story = voting.story
       /\ DOMAIN voting'.participants = DOMAIN voting.participants]_vars

\* A vote ends, and a result is recorded, only with a ballot; and that ballot
\* closes it only if every other participant has cast, before, the very points
\* it casts (in a vote of one, whatever it casts).  These points are recorded
\* for the story being voted on, and no other story's result changes.
ResultIsUnanimous ==
  [][/\ (pastVotes' # pastVotes \/ (voting # Idle /\ voting' = Idle)) =>
          /\ voting.kind = "Voting" /\ voting' = Idle
          /\ \E w \in Winner, id \in StoryId, p \in Points : Vote(w, id, p)
     /\ (voting # Idle /\ voting' = Idle) =>
          \A w \in Winner, id \in StoryId, p \in Points :
            Vote(w, id, p) =>
              /\ w \in DOMAIN voting.participants
              /\ \A v \in DOMAIN voting.participants \ {w} :
                   voting.participants[v] = p
              /\ pastVotes' = Insert(pastVotes, voting.story, p)]_vars

\* A vote nobody takes part in is for ever: neither a ballot nor a new vote
\* nor a restart can end it.
EmptyVoteNeverEnds ==
  [][(voting.kind = "Voting" /\ DOMAIN voting.participants = {}) =>
       UNCHANGED <<voting, pastVotes>>]_vars

\* Refinement: with the ballots hidden, the room is a PlanningRound.
RoundOf ==
  CASE voting.kind = "Idle" -> [phase |-> "Closed"]
    [] voting.kind = "Voting" ->
         [phase |-> "Open", story |-> voting.story,
          voters |-> DOMAIN voting.participants]
    [] voting.kind = "Fighting" ->
         [phase |-> "Disputed", story |-> voting.story,
          voters |-> DOMAIN voting.participants,
          low |-> voting.fighters[1], high |-> voting.fighters[2]]

Round == INSTANCE PlanningRound WITH
           Voter <- Winner, round <- RoundOf, results <- pastVotes

\* The room implements PlanningRound: each ballot but the last is a stutter,
\* the last one decides or disputes, a restart reopens.
ImplementsRound == Round!Spec
=============================================================================

----------------------------- MODULE ServerRoom -----------------------------
(* The room of winner_server (winner_server/src/room.rs): a task that       *)
(* selects between subscriptions and client messages while it is idle and   *)
(* takes client messages only while it votes or a fight is on, broadcasting *)
(* what changes.                                                            *)
(*                                                                          *)
(* An action is what the task does with one message, up to the next point   *)
(* where it waits for one: the end of the voting loop, the count and the    *)
(* start or the end of a fight belong to the message that brings them on.   *)
(* `sent' holds the broadcasts of the last action, in order.  A request     *)
(* comes from a RoomAPI, so its sender has subscribed; a sender that has    *)
(* dropped the receiver of its answer makes the task panic.                 *)
EXTENDS Naturals, FiniteSets, Sequences, Functions

CONSTANTS
  Winner,
  Story,
  Points,   \* the cards in play, by their order
  NoOne     \* Option::None of the leader

ASSUME PointsAssumption == Points \subseteq Nat
ASSUME NoOneAssumption == NoOne \notin Winner

VARIABLES
  participants,
  leader,
  current,   \* current_state, with the locals of voting()
  alive,     \* whether the task has not panicked
  sent,      \* output: the broadcasts of the last action
  knows      \* what each participant makes of all broadcasts since it subscribed

vars == <<participants, leader, current, alive, sent, knows>>

Map(S, T) == UNION {[D -> T] : D \in SUBSET S}

Idle == [kind |-> "Idle"]
CurrentVote(story, votes) == [kind |-> "Voting", story |-> story, votes |-> votes]
Fight(story, votes, high, low) ==
  [kind |-> "Fighting", story |-> story, votes |-> votes, high |-> high, low |-> low]

State ==
  {Idle}
  \cup [kind: {"Voting"}, story: Story, votes: Map(Winner, Points)]
  \cup [kind: {"Fighting"}, story: Story, votes: Map(Winner, Points),
        high: Winner, low: Winner]

\* The ServerMessages the room broadcasts.
Entered(w) == [msg |-> "Enter", winner |-> w]
Left(w) == [msg |-> "Leave", winner |-> w]
Leads(w) == [msg |-> "Leader", winner |-> w]
NowVoting == [msg |-> "Voting"]
NowIdle == [msg |-> "Idle"]
VoteStarted(story) == [msg |-> "StartVote", story |-> story]
VoteCast(w, p) == [msg |-> "VoteCast", winner |-> w, points |-> p]
VotesReceived(votes) == [msg |-> "VotesReceived", votes |-> votes]
FightOver(high, low) == [msg |-> "Fight", high |-> high, low |-> low]
FightEnded == [msg |-> "FightResolved"]

ServerMessages ==
  [msg: {"Enter", "Leave", "Leader"}, winner: Winner]
  \cup {NowVoting, NowIdle, FightEnded}
  \cup {VoteStarted(story) : story \in Story}
  \cup {VoteCast(w, p) : w \in Winner, p \in Points}
  \cup {VotesReceived(v) : v \in Map(Winner, Points)}
  \cup {FightOver(h, l) : h \in Winner, l \in Winner}

\* How a client that is told the initial state keeps up with the broadcasts.
View == [winners: SUBSET Winner, leader: Winner \cup {NoOne}, busy: BOOLEAN]
Learn(view, m) ==
  CASE m.msg = "Enter" -> [view EXCEPT !.winners = @ \cup {m.winner}]
    [] m.msg = "Leave" -> [view EXCEPT !.winners = @ \ {m.winner}]
    [] m.msg = "Leader" -> [view EXCEPT !.leader = m.winner]
    [] m.msg = "Voting" -> [view EXCEPT !.busy = TRUE]
    [] m.msg = "Idle" -> [view EXCEPT !.busy = FALSE]
    [] OTHER -> view
LearnAll(view, msgs) ==
  LET after[n \in 0..Len(msgs)] ==
        IF n = 0 THEN view ELSE Learn(after[n - 1], msgs[n])
  IN after[Len(msgs)]

Init ==
  /\ participants = {}
  /\ leader = NoOne
  /\ current = Idle
  /\ alive = TRUE
  /\ sent = <<>>
  /\ knows = [w \in {} |-> w]

\* send_server_message: what every participant that stays receives.
Broadcast(msgs) ==
  /\ sent' = msgs
  /\ knows' = [w \in participants \cap participants' |-> LearnAll(knows[w], msgs)]
-----------------------------------------------------------------------------
\* Mutant: the first leader is announced but not kept.
SubscribeUnled(w) ==
  /\ alive /\ current = Idle
  /\ w \notin participants
  /\ participants' = participants \cup {w}
  /\ sent' = (IF leader = NoOne THEN <<Leads(w)>> ELSE <<>>) \o <<Entered(w)>>
  /\ knows' = [v \in participants' |->
                 [winners |-> participants', leader |-> w, busy |-> FALSE]]
  /\ UNCHANGED <<leader, current, alive>>

\* The idle room sends a subscriber his answer, whichever it is: expect() panics
\* if he does not wait for it any more.
Answered == alive' \in BOOLEAN

\* A subscriber is told the participants, himself included, and the leader; of
\* the broadcasts of his own entry he only receives the last.
Subscribe(w) ==
  /\ alive /\ current = Idle
  /\ \/ /\ w \in participants      \* WinnerExists
        /\ sent' = <<>>
        /\ UNCHANGED <<participants, leader, knows>>
     \/ /\ w \notin participants
        /\ participants' = participants \cup {w}
        /\ leader' = IF leader = NoOne THEN w ELSE leader
        /\ sent' = (IF leader = NoOne THEN <<Leads(w)>> ELSE <<>>) \o <<Entered(w)>>
        /\ LET told == [winners |-> participants', leader |-> leader', busy |-> FALSE]
           IN knows' = [v \in participants' |->
                          IF v = w THEN Learn(told, Entered(w))
                          ELSE LearnAll(knows[v], sent')]
  /\ Answered
  /\ UNCHANGED current

\* One of the highest and one of the lowest voters, whichever the iteration of
\* the map comes to last or first.
Highest(votes) == {w \in DOMAIN votes : \A v \in DOMAIN votes : votes[v] <= votes[w]}
Lowest(votes) == {w \in DOMAIN votes : \A v \in DOMAIN votes : votes[w] <= votes[v]}

\* Mutant: the fight starts whether its fighters are there or not.
CountAndFight(story, votes, msgs) ==
  LET results == msgs \o <<VotesReceived(votes)>>
  IN \/ /\ Cardinality(participants') > Cardinality(DOMAIN votes)
        /\ current' = CurrentVote(story, votes)
        /\ Broadcast(msgs)
     \/ /\ Cardinality(participants') <= Cardinality(DOMAIN votes)
        /\ Cardinality(Range(votes)) <= 1
        /\ current' = Idle
        /\ Broadcast(results \o <<NowIdle>>)
     \/ /\ Cardinality(participants') <= Cardinality(DOMAIN votes)
        /\ Cardinality(Range(votes)) > 1
        /\ \E high \in Highest(votes), low \in Lowest(votes) :
             /\ current' = Fight(story, votes, high, low)
             /\ Broadcast(results \o <<FightOver(high, low)>>)

\* What follows a message in the voting loop: more waiting, or the results and
\* then a fight, unless the votes agree or a fighter is not there any more.
Count(story, votes, msgs) ==
  LET results == msgs \o <<VotesReceived(votes)>>
  IN \/ /\ Cardinality(participants') > Cardinality(DOMAIN votes)
        /\ current' = CurrentVote(story, votes)
        /\ Broadcast(msgs)
     \/ /\ Cardinality(participants') <= Cardinality(DOMAIN votes)
        /\ Cardinality(Range(votes)) <= 1
        /\ current' = Idle
        /\ Broadcast(results \o <<NowIdle>>)
     \/ /\ Cardinality(participants') <= Cardinality(DOMAIN votes)
        /\ Cardinality(Range(votes)) > 1
        /\ \E high \in Highest(votes), low \in Lowest(votes) :
             IF {high, low} \subseteq participants'
             THEN /\ current' = Fight(story, votes, high, low)
                  /\ Broadcast(results \o <<FightOver(high, low)>>)
             ELSE /\ current' = Idle
                  /\ Broadcast(results \o <<FightOver(high, low), NowIdle>>)

\* The answer of a request cannot be sent: expect() panics and the task ends.
Panic ==
  /\ alive' = FALSE
  /\ sent' = <<>>
  /\ UNCHANGED <<participants, leader, current, knows>>

\* Any participant may start a vote; only an idle room agrees.
StartVote(w, story) ==
  /\ alive /\ w \in participants
  /\ \/ Panic
     \/ /\ current = Idle
        /\ UNCHANGED <<participants, leader, alive>>
        /\ current' = CurrentVote(story, [v \in {} |-> 0])
        /\ Broadcast(<<NowVoting, VoteStarted(story)>>)
     \/ /\ current # Idle          \* Err
        /\ sent' = <<>>
        /\ UNCHANGED <<participants, leader, current, alive, knows>>

\* A ballot for another story is acknowledged and broadcast but not recorded.
\* An idle room ignores a ballot: it drops the channel of the answer.
Vote(w, story, p) ==
  /\ alive /\ w \in participants
  /\ \/ current # Idle /\ Panic
     \/ /\ current.kind = "Voting"
        /\ UNCHANGED <<participants, leader, alive>>
        /\ Count(current.story,
                 IF story = current.story
                 THEN [v \in DOMAIN current.votes \cup {w} |->
                         IF v = w THEN p ELSE current.votes[v]]
                 ELSE current.votes,
                 <<VoteCast(w, p)>>)
     \/ /\ current.kind # "Voting"
        /\ sent' = <<>>
        /\ UNCHANGED <<participants, leader, current, alive, knows>>

\* unsubscribe makes whoever the set iterates first the leader, also when the
\* one who left was not; the last one to leave stays the leader.
\* Mutant: the leader stays, whoever leaves.
SameLeader(w) == {leader}
NextLeaders(w) == IF participants = {w} THEN {leader} ELSE participants \ {w}

\* Mutant: the new leader is not announced.
LeaveOnly(w, next) == <<Left(w)>>
LeaveNotice(w, next) ==
  IF participants = {w} THEN <<Left(w)>> ELSE <<Left(w), Leads(next)>>

\* Mutant: somebody who leaves is not counted out of the vote.
NotRecounted(msgs) == Broadcast(msgs) /\ UNCHANGED current

\* The condition of the loop that waits is read again: the vote may be over, a
\* fight without one of its fighters is.
AfterLeave(msgs) ==
  \/ current = Idle /\ Broadcast(msgs) /\ UNCHANGED current
  \/ current.kind = "Voting" /\ Count(current.story, current.votes, msgs)
  \/ /\ current.kind = "Fighting"
     /\ IF {current.high, current.low} \subseteq participants'
        THEN Broadcast(msgs) /\ UNCHANGED current
        ELSE Broadcast(msgs \o <<NowIdle>>) /\ current' = Idle

\* leave_room drops the receiver of the answer, which the room never sends.
LeaveRoom(w) ==
  /\ alive /\ w \in participants
  /\ participants' = participants \ {w}
  /\ \E next \in NextLeaders(w) : leader' = next /\ AfterLeave(LeaveNotice(w, next))
  /\ UNCHANGED alive

\* The message that settles a fight.  The room takes it from its channel, but
\* RoomAPI has no method that sends it.
FightResolved(w) ==
  /\ alive /\ w \in participants
  /\ \/ current # Idle /\ Panic
     \/ /\ current.kind = "Fighting"
        /\ UNCHANGED <<participants, leader, alive>>
        /\ current' = Idle
        /\ Broadcast(<<FightEnded, NowIdle>>)
     \/ /\ current.kind # "Fighting"
        /\ sent' = <<>>
        /\ UNCHANGED <<participants, leader, current, alive, knows>>

Next ==
  \E w \in Winner :
    \/ Subscribe(w)
    \/ \E story \in Story : StartVote(w, story)
    \/ \E story \in Story, p \in Points : Vote(w, story, p)
    \/ LeaveRoom(w)
    \/ FightResolved(w)

Spec == Init /\ [][Next]_vars
-----------------------------------------------------------------------------
\* Type invariant; only a room nobody has entered has no leader.
TypeOK ==
  /\ participants \subseteq Winner
  /\ leader \in IF participants = {} THEN Winner \cup {NoOne} ELSE Winner
  /\ current \in State
  /\ alive \in BOOLEAN
  /\ sent \in Seq(ServerMessages)
  /\ knows \in [participants -> View]

\* The voting loop never waits with as many ballots as there are participants,
\* whoever has left since he voted.
VotingAwaitsABallot ==
  current.kind = "Voting" =>
    Cardinality(DOMAIN current.votes) < Cardinality(participants)

\* A fight is on only between two present participants, who cast different
\* points, the most and the fewest of the vote.
FightersArePresent ==
  current.kind = "Fighting" =>
    /\ {current.high, current.low} \subseteq participants \cap DOMAIN current.votes
    /\ current.votes[current.low] < current.votes[current.high]
    /\ \A w \in DOMAIN current.votes :
         current.votes[w] \in current.votes[current.low]..current.votes[current.high]

\* A client that applies the broadcasts to the initial state it was told knows
\* who is in the room, who leads it and whether a vote is on.
SubscribersKnowTheRoom ==
  \A w \in participants :
    knows[w] = [winners |-> participants, leader |-> leader, busy |-> current # Idle]

\* A leader who is in the room hands over to somebody who is: until the room is
\* empty it has a leader among its people, whoever leaves and in which phase.
LeadershipIsHandedOver ==
  [][(leader \in participants /\ participants' # {}) => leader' \in participants']_vars

\* The leader is one of the people in the room.
LeaderIsPresent == participants # {} => leader \in participants

\* The results come when everybody who is in the room has voted.
ResultsAreComplete ==
  [][\A i \in DOMAIN sent' :
       sent'[i].msg = "VotesReceived" => participants' \subseteq DOMAIN sent'[i].votes]_vars

\* Who is said to have cast a vote has his vote recorded.
VoteCastIsRecorded ==
  [][\A i \in DOMAIN sent' :
       sent'[i].msg = "VoteCast" =>
         \/ current' # Idle /\ sent'[i].winner \in DOMAIN current'.votes
         \/ \E j \in DOMAIN sent' : /\ sent'[j].msg = "VotesReceived"
                                    /\ sent'[i].winner \in DOMAIN sent'[j].votes]_vars
=============================================================================

------------------------- MODULE ServerAnswersProofs -------------------------
(* Further theorems about ServerConnections: nobody waits for the room in    *)
(* vain, the types, and what is true of the room by itself and so of the     *)
(* room of the server.                                                       *)
EXTENDS ServerConnectionsProofs, FiniteSetTheorems

RoomProofs == INSTANCE ServerRoomProofs

\* Who waits for the room and has no answer has something in its channel.
Pending ==
  alive =>
    \A c \in Conn : answer[c] = "None" =>
      /\ status[c] = "subscribing" =>
           \E i \in 1..Len(subscriptions) : subscriptions[i].from = c
      /\ status[c] = "asking" =>
           \E i \in 1..Len(incoming) : incoming[i].from = c
-----------------------------------------------------------------------------
\* A step of one connection after which it waits for no answer from the room, or
\* has it already, leaves the others' requests where they are.
LEMMA LocalKeepsPending ==
  ASSUME IInv, Pending, NEW c \in Conn, NEW s, NEW a,
         status' = [status EXCEPT ![c] = s],
         answer' = [answer EXCEPT ![c] = a],
         UNCHANGED <<alive, subscriptions, incoming>>,
         s \in {"subscribing", "asking"} => a # "None" \/ ~alive
  PROVE  Pending'
BY DEF IInv, Types, Pending

\* The steps of a connection that the room does not see.
LEMMA AloneKeepsPending ==
  ASSUME IInv, Pending, NEW c \in Conn,
         \/ Accept(c) \/ GiveUp(c) \/ Subscribed(c) \/ WriteInitialState(c)
         \/ Ignore(c) \/ Reply(c) \/ Crash(c) \/ Forward(c) \/ Detach(c) \/ Cut(c)
  PROVE  Pending'
<1>a. answer = [answer EXCEPT ![c] = answer[c]]
  BY DEF IInv, Types
<1>1. CASE UNCHANGED <<status, answer, alive, subscriptions, incoming>>
  BY <1>1 DEF Pending
<1>2. ASSUME End(c), UNCHANGED <<alive, subscriptions, incoming>> PROVE Pending'
  BY <1>2, LocalKeepsPending DEF End, Enters
<1>3. CASE GiveUp(c) \/ Crash(c) \/ Detach(c) \/ Cut(c)
  BY <1>2, <1>3 DEF GiveUp, Crash, Detach, Cut, roomVars
<1>4. CASE Subscribed(c)
  <2>1. CASE End(c)
    BY <1>2, <1>4, <2>1 DEF Subscribed, roomVars
  <2>2. CASE ~End(c)
    <3>1. status' = [status EXCEPT ![c] = "entered"] /\ answer' = [answer EXCEPT ![c] = "None"]
      BY <1>4, <2>2 DEF Subscribed, Enters
    <3>2. QED
      BY <1>4, <3>1, LocalKeepsPending DEF Subscribed, roomVars
  <2>3. QED
    BY <2>1, <2>2
<1>5. CASE Accept(c)
  BY <1>5, <1>a, LocalKeepsPending DEF Accept, Enters, roomVars
<1>6. CASE WriteInitialState(c)
  BY <1>6, <1>a, LocalKeepsPending DEF WriteInitialState, Enters, roomVars
<1>7. CASE Ignore(c)
  BY <1>7, LocalKeepsPending DEF Ignore, Enters, roomVars
<1>8. CASE Reply(c)
  BY <1>8, LocalKeepsPending DEF Reply, Enters, roomVars
<1>9. CASE Forward(c)
  BY <1>9 DEF Forward, Pending, roomVars
<1>10. QED
  BY <1>3, <1>4, <1>5, <1>6, <1>7, <1>8, <1>9

\* A connection that enters waits with its subscription in the channel.
LEMMA EnterKeepsPending ==
  ASSUME IInv, Pending, NEW c \in Conn, NEW w \in Winner, EnterRoom(c, w)
  PROVE  Pending'
<1>1. CASE alive
  <2> DEFINE r == [from |-> c, winner |-> w]
  <2>1. /\ subscriptions' = Append(subscriptions, r)
        /\ status' = [status EXCEPT ![c] = "subscribing"]
        /\ UNCHANGED <<alive, incoming, answer>>
    BY <1>1 DEF EnterRoom, Enters, roomVars
  <2>2. subscriptions \in Seq([from: Conn, winner: Winner]) /\ r \in [from: Conn, winner: Winner]
    BY DEF IInv, Types
  <2>3. r.from = c
    OBVIOUS
  <2> HIDE DEF r
  <2>4. /\ Len(subscriptions') = Len(subscriptions) + 1
        /\ Len(subscriptions) + 1 \in 1..Len(subscriptions')
        /\ subscriptions'[Len(subscriptions) + 1].from = c
        /\ \A i \in 1..Len(subscriptions) :
             i \in 1..Len(subscriptions') /\ subscriptions'[i] = subscriptions[i]
    BY <2>1, <2>2, <2>3
  <2>5. QED
    BY <1>1, <2>1, <2>4 DEF IInv, Types, Pending
<1>2. CASE ~alive
  BY <1>2 DEF EnterRoom, roomVars, Pending
<1>3. QED
  BY <1>1, <1>2

\* A connection that asks waits with its request in the channel, or with the
\* error that there is no room; one that has left does not wait.
LEMMA SendKeepsPending ==
  ASSUME IInv, Pending, NEW c \in Conn, NEW m \in Message, m.from = c,
         alive' = alive, subscriptions' = subscriptions, answer' = answer,
         incoming' = Append(incoming, m),
         NEW s \in {"asking", "left"}, status' = [status EXCEPT ![c] = s]
  PROVE  Pending'
<1>1. incoming \in Seq(Message)
  BY DEF IInv, Types
<1>2. /\ Len(incoming') = Len(incoming) + 1
      /\ Len(incoming) + 1 \in 1..Len(incoming')
      /\ incoming'[Len(incoming) + 1].from = c
      /\ \A i \in 1..Len(incoming) :
           i \in 1..Len(incoming') /\ incoming'[i] = incoming[i]
  BY <1>1
<1>3. QED
  BY <1>2 DEF IInv, Types, Pending

\* Every request, and the end of the stream.
LEMMA RequestKeepsPending ==
  ASSUME IInv, Pending, NEW c \in Conn,
         \/ \E story \in Story : Ask(c, StartMsg(c, story))
         \/ \E story \in Story, p \in Points : Ask(c, VoteMsg(c, story, p))
         \/ Close(c)
  PROVE  Pending'
<1>1. ASSUME ~alive PROVE Pending'
  BY <1>1 DEF Ask, Close, roomVars, Pending
<1>2. status[c] = "serving" /\ who[c] \in Winner
  BY DEF Ask, Reads, Close, IInv, Types, Seats, Stages
<1>3. ASSUME alive, NEW story \in Story, Ask(c, StartMsg(c, story)) PROVE Pending'
  <2>1. StartMsg(c, story) \in Message /\ StartMsg(c, story).from = c
    BY <1>2 DEF StartMsg, Message
  <2>2. QED
    BY <1>3, <2>1, SendKeepsPending DEF Ask, Enters, roomVars
<1>4. ASSUME alive, NEW story \in Story, NEW p \in Points, Ask(c, VoteMsg(c, story, p))
      PROVE  Pending'
  <2>1. VoteMsg(c, story, p) \in Message /\ VoteMsg(c, story, p).from = c
    BY <1>2 DEF VoteMsg, Message
  <2>2. QED
    BY <1>4, <2>1, SendKeepsPending DEF Ask, Enters, roomVars
<1>5. ASSUME alive, Close(c) PROVE Pending'
  <2>1. LeaveMsg(c) \in Message /\ LeaveMsg(c).from = c
    BY <1>2 DEF LeaveMsg, Message
  <2>2. QED
    BY <1>5, <2>1, SendKeepsPending DEF Close, Enters, roomVars
<1>6. QED
  BY <1>1, <1>3, <1>4, <1>5

\* The room answers whom it takes from the channel of subscriptions.
LEMMA SubscribeKeepsPending ==
  ASSUME IInv, Pending, RoomSubscribe
  PROVE  Pending'
<1> DEFINE c == Head(subscriptions).from
<1>a. /\ subscriptions # <<>> /\ subscriptions \in Seq([from: Conn, winner: Winner])
      /\ c \in Conn /\ alive' /\ alive' = alive
  BY SubscriberWaits
<1>1. /\ subscriptions # <<>> /\ subscriptions \in Seq([from: Conn, winner: Winner])
      /\ subscriptions' = Tail(subscriptions) /\ UNCHANGED <<alive, incoming, status>>
  BY <1>a DEF RoomSubscribe
<1>2. c \in Conn /\ \E a \in {"Ok", "WinnerExists"} : answer' = [answer EXCEPT ![c] = a]
  <2>1. \/ answer' = [answer EXCEPT ![c] = "Ok"]
        \/ answer' = [answer EXCEPT ![c] = "WinnerExists"]
    BY <1>a DEF RoomSubscribe
  <2>2. QED
    BY <1>a, <2>1
<1>3. /\ Len(subscriptions') = Len(subscriptions) - 1 /\ Len(subscriptions) \in Nat
      /\ \A i \in 1..Len(subscriptions') : subscriptions'[i] = subscriptions[i + 1]
      /\ Head(subscriptions) = subscriptions[1]
  BY <1>1, QueueFacts
<1>4. \A d \in Conn : answer'[d] = "None" => d # c /\ answer[d] = "None"
  BY <1>2 DEF IInv, Types
<1>5. ASSUME NEW i \in 1..Len(subscriptions), subscriptions[i].from # c
      PROVE  i - 1 \in 1..Len(subscriptions') /\ subscriptions'[i - 1] = subscriptions[i]
  <2>1. i # 1
    BY <1>3, <1>5
  <2>2. i - 1 \in 1..Len(subscriptions')
    BY <1>3, <2>1
  <2>3. subscriptions'[i - 1] = subscriptions[(i - 1) + 1]
    BY <1>3, <2>2
  <2>4. QED
    BY <2>2, <2>3
<1> HIDE DEF c
<1>6. ASSUME NEW d \in Conn, answer'[d] = "None", status[d] = "subscribing", alive
      PROVE  \E i \in 1..Len(subscriptions') : subscriptions'[i].from = d
  <2>1. PICK i \in 1..Len(subscriptions) : subscriptions[i].from = d
    BY <1>4, <1>6 DEF Pending
  <2>2. QED
    BY <1>4, <1>5, <1>6, <2>1
<1>7. QED
  BY <1>1, <1>4, <1>6 DEF Pending

\* The room answers whom it takes from the channel of messages, if he waits.
LEMMA HandleKeepsPending ==
  ASSUME IInv, Pending, RoomHandle
  PROVE  Pending'
<1> SUFFICES ASSUME alive' PROVE Pending'
  BY DEF Pending
<1> DEFINE m == Head(incoming)
           c == m.from
<1>1. /\ incoming # <<>> /\ incoming \in Seq(Message)
      /\ incoming' = Tail(incoming) /\ UNCHANGED <<subscriptions, status>>
      /\ alive
  BY HandleEffect DEF RoomHandle, IInv, Types
<1>2. c \in Conn
  BY <1>1, MessageFields
<1>3. /\ status[c] # "asking" => answer' = answer
      /\ status[c] = "asking" => answer' = [answer EXCEPT ![c] = AnswerTo(m)]
  BY DEF RoomHandle
<1>4. AnswerTo(m) # "None"
  BY DEF AnswerTo
<1>5. /\ Len(incoming') = Len(incoming) - 1 /\ Len(incoming) \in Nat
      /\ \A i \in 1..Len(incoming') : incoming'[i] = incoming[i + 1]
      /\ m = incoming[1] /\ 1 \in 1..Len(incoming)
  BY <1>1, QueueFacts
<1>6. ASSUME NEW i \in 1..Len(incoming), incoming[i].from # c
      PROVE  i - 1 \in 1..Len(incoming') /\ incoming'[i - 1] = incoming[i]
  <2>1. i # 1
    BY <1>5, <1>6
  <2>2. i - 1 \in 1..Len(incoming')
    BY <1>5, <2>1
  <2>3. incoming'[i - 1] = incoming[(i - 1) + 1]
    BY <1>5, <2>2
  <2>4. QED
    BY <2>2, <2>3
<1>7. status[c] # "subscribing"
  BY <1>5 DEF IInv, Requests
<1> HIDE DEF m, c
<1>8. \A d \in Conn : answer'[d] = "None" =>
        answer[d] = "None" /\ (status[d] = "asking" => d # c)
  BY <1>2, <1>3, <1>4 DEF IInv, Types
<1>9. ASSUME NEW d \in Conn, answer'[d] = "None", status[d] = "asking"
      PROVE  \E i \in 1..Len(incoming') : incoming'[i].from = d
  <2>1. PICK i \in 1..Len(incoming) : incoming[i].from = d
    BY <1>1, <1>8, <1>9 DEF Pending
  <2>2. QED
    BY <1>6, <1>8, <1>9, <2>1
<1>10. QED
  BY <1>1, <1>8, <1>9 DEF Pending

\* Nobody waits for the room without anything to wait for.
LEMMA PendingHolds == Spec => []Pending
<1>1. Init => Pending
  BY DEF Init, Pending
<1>2. IInv /\ Pending /\ [Next]_vars => Pending'
  <2> SUFFICES ASSUME IInv, Pending, [Next]_vars PROVE Pending'
    OBVIOUS
  <2>1. CASE RoomSubscribe
    BY <2>1, SubscribeKeepsPending
  <2>2. CASE RoomHandle
    BY <2>2, HandleKeepsPending
  <2>3. ASSUME NEW c \in Conn, NEW w \in Winner, EnterRoom(c, w) PROVE Pending'
    BY <2>3, EnterKeepsPending
  <2>4. ASSUME NEW c \in Conn,
               \/ \E story \in Story : Ask(c, StartMsg(c, story))
               \/ \E story \in Story, p \in Points : Ask(c, VoteMsg(c, story, p))
               \/ Close(c)
        PROVE  Pending'
    BY <2>4, RequestKeepsPending
  <2>5. ASSUME NEW c \in Conn,
               \/ Accept(c) \/ GiveUp(c) \/ Subscribed(c) \/ WriteInitialState(c)
               \/ Ignore(c) \/ Reply(c) \/ Crash(c) \/ Forward(c) \/ Detach(c) \/ Cut(c)
        PROVE  Pending'
    BY <2>5, AloneKeepsPending
  <2>6. CASE UNCHANGED vars
    BY <2>6 DEF vars, roomVars, connVars, Pending
  <2>7. QED
    BY <2>1, <2>2, <2>3, <2>4, <2>5, <2>6 DEF Next
<1>3. QED
  BY <1>1, <1>2, InvariantHolds, PTL DEF Spec

\* A task that waits for the room, alive, waits for exactly one thing, be it its
\* request in the channel or the room's answer: no request is lost, and none is
\* answered and still there to be answered again.
THEOREM NobodyWaitsInVain == Spec => []WaitsForOneAnswer
<1>1. IInv /\ Pending => WaitsForOneAnswer
  <2> SUFFICES ASSUME IInv, Pending, alive, NEW c \in Conn,
                      status[c] \in {"asking", "subscribing"}
               PROVE  LET asked == {i \in DOMAIN incoming :
                                      incoming[i].from = c /\ incoming[i].kind # "LeaveRoom"}
                          applied == {i \in DOMAIN subscriptions : subscriptions[i].from = c}
                      IN Cardinality(asked) + Cardinality(applied)
                           + (IF answer[c] = "None" THEN 0 ELSE 1) = 1
    BY Zenon DEF WaitsForOneAnswer
  <2> DEFINE asked == {i \in DOMAIN incoming :
                         incoming[i].from = c /\ incoming[i].kind # "LeaveRoom"}
             applied == {i \in DOMAIN subscriptions : subscriptions[i].from = c}
  <2>0. /\ DOMAIN incoming = 1..Len(incoming)
        /\ DOMAIN subscriptions = 1..Len(subscriptions)
    BY DEF IInv, Types
  <2> SUFFICES Cardinality(asked) + Cardinality(applied)
                 + (IF answer[c] = "None" THEN 0 ELSE 1) = 1
    OBVIOUS
  <2>1. CASE answer[c] # "None"
    <3>1. asked = {} /\ applied = {}
      BY <2>0, <2>1 DEF IInv, Requests, Applications
    <3>2. Cardinality(applied) = 0 /\ Cardinality(asked) = 0
      BY <3>1, FS_EmptySet
    <3> HIDE DEF asked, applied
    <3>3. QED
      BY <2>1, <3>2
  <2>2. CASE answer[c] = "None" /\ status[c] = "subscribing"
    <3>1. PICK i \in 1..Len(subscriptions) : subscriptions[i].from = c
      BY <2>2 DEF Pending
    <3>2. applied = {i}
      BY <2>0, <3>1 DEF IInv, Applications
    <3>3. asked = {}
      BY <2>0, <2>2 DEF IInv, Requests
    <3>4. Cardinality(applied) = 1 /\ Cardinality(asked) = 0
      BY <3>2, <3>3, FS_EmptySet, FS_Singleton
    <3> HIDE DEF asked, applied
    <3>5. QED
      BY <2>2, <3>4
  <2>3. CASE answer[c] = "None" /\ status[c] = "asking"
    <3>1. PICK i \in 1..Len(incoming) : incoming[i].from = c
      BY <2>3 DEF Pending
    <3>2. incoming[i].kind # "LeaveRoom"
      BY <2>3, <3>1 DEF IInv, Requests
    <3>3. asked = {i}
      BY <2>0, <3>1, <3>2 DEF IInv, Requests
    <3>4. applied = {}
      BY <2>0, <2>3 DEF IInv, Applications
    <3>5. Cardinality(asked) = 1 /\ Cardinality(applied) = 0
      BY <3>3, <3>4, FS_EmptySet, FS_Singleton
    <3> HIDE DEF asked, applied
    <3>6. QED
      BY <2>3, <3>5
  <2>4. QED
    BY <2>1, <2>2, <2>3
<1>2. QED
  BY <1>1, InvariantHolds, PendingHolds, PTL
-----------------------------------------------------------------------------
\* The room of the server is the one ServerRoomProofs is about: what the two
\* instances of ServerRoom are built from is the same ...
LEMMA SameWords ==
  /\ RoomProofs!Idle = Room!Idle /\ RoomProofs!NowIdle = Room!NowIdle
  /\ RoomProofs!NowVoting = Room!NowVoting /\ RoomProofs!FightEnded = Room!FightEnded
  /\ \A w : RoomProofs!Entered(w) = Room!Entered(w)
  /\ \A w : RoomProofs!Left(w) = Room!Left(w)
  /\ \A w : RoomProofs!Leads(w) = Room!Leads(w)
  /\ \A x : RoomProofs!VoteStarted(x) = Room!VoteStarted(x)
  /\ \A w, p : RoomProofs!VoteCast(w, p) = Room!VoteCast(w, p)
  /\ \A x : RoomProofs!VotesReceived(x) = Room!VotesReceived(x)
  /\ \A x, y : RoomProofs!FightOver(x, y) = Room!FightOver(x, y)
  /\ \A x, y : RoomProofs!CurrentVote(x, y) = Room!CurrentVote(x, y)
  /\ \A x, y, high, low : RoomProofs!Fight(x, y, high, low) = Room!Fight(x, y, high, low)
  /\ \A x : RoomProofs!Highest(x) = Room!Highest(x)
  /\ \A x : RoomProofs!Lowest(x) = Room!Lowest(x)
  /\ \A x : RoomProofs!Range(x) = Room!Range(x)
  /\ \A x : RoomProofs!Cardinality(x) = Room!Cardinality(x)
BY DEF RoomProofs!Idle, Room!Idle, RoomProofs!NowIdle, Room!NowIdle,
       RoomProofs!NowVoting, Room!NowVoting, RoomProofs!FightEnded, Room!FightEnded,
       RoomProofs!Entered, Room!Entered, RoomProofs!Left, Room!Left,
       RoomProofs!Leads, Room!Leads, RoomProofs!VoteStarted, Room!VoteStarted,
       RoomProofs!VoteCast, Room!VoteCast, RoomProofs!VotesReceived, Room!VotesReceived,
       RoomProofs!FightOver, Room!FightOver, RoomProofs!CurrentVote, Room!CurrentVote,
       RoomProofs!Fight, Room!Fight, RoomProofs!Highest, Room!Highest,
       RoomProofs!Lowest, Room!Lowest, RoomProofs!Range, Room!Range,
       RoomProofs!Cardinality, Room!Cardinality

\* ... so is what a client learns ...
LEMMA SameBroadcasts ==
  /\ \A msgs : RoomProofs!Broadcast(msgs) <=> Room!Broadcast(msgs)
  /\ \A w : RoomProofs!Subscribe(w) <=> Room!Subscribe(w)
<1>1. \A msgs : RoomProofs!Broadcast(msgs) <=> Room!Broadcast(msgs)
  BY Zenon DEF RoomProofs!Learn, Room!Learn, RoomProofs!LearnAll, Room!LearnAll,
               RoomProofs!Broadcast, Room!Broadcast
<1>2. \A w : RoomProofs!Subscribe(w) <=> Room!Subscribe(w)
  BY Zenon DEF RoomProofs!Subscribe, Room!Subscribe, RoomProofs!Answered, Room!Answered,
               RoomProofs!Learn, Room!Learn, RoomProofs!LearnAll, Room!LearnAll, RoomProofs!Entered, Room!Entered,
               RoomProofs!Leads, Room!Leads, RoomProofs!Idle, Room!Idle
<1>3. QED
  BY <1>1, <1>2

\* ... and every step.
LEMMA SameSteps == RoomProofs!Next <=> Room!Next
<1>1. \A story, votes, msgs :
        RoomProofs!Count(story, votes, msgs) <=> Room!Count(story, votes, msgs)
  BY SameWords, SameBroadcasts DEF RoomProofs!Count, Room!Count
<1>2. \A w, story : RoomProofs!StartVote(w, story) <=> Room!StartVote(w, story)
  BY SameWords, SameBroadcasts
     DEF RoomProofs!StartVote, Room!StartVote, RoomProofs!Panic, Room!Panic
<1>3. \A w, story, p : RoomProofs!Vote(w, story, p) <=> Room!Vote(w, story, p)
  BY <1>1, SameWords, Zenon
     DEF RoomProofs!Vote, Room!Vote, RoomProofs!Panic, Room!Panic
<1>4. \A msgs : RoomProofs!AfterLeave(msgs) <=> Room!AfterLeave(msgs)
  BY <1>1, SameWords, SameBroadcasts, Zenon
     DEF RoomProofs!AfterLeave, Room!AfterLeave
<1>5. \A w : RoomProofs!LeaveRoom(w) <=> Room!LeaveRoom(w)
  BY <1>4, SameWords, Zenon
     DEF RoomProofs!LeaveRoom, Room!LeaveRoom, RoomProofs!NextLeaders, Room!NextLeaders,
         RoomProofs!LeaveNotice, Room!LeaveNotice
<1>6. \A w : RoomProofs!FightResolved(w) <=> Room!FightResolved(w)
  BY SameWords, SameBroadcasts
     DEF RoomProofs!FightResolved, Room!FightResolved, RoomProofs!Panic, Room!Panic
<1>7. QED
  BY <1>2, <1>3, <1>5, <1>6, SameBroadcasts DEF RoomProofs!Next, Room!Next

\* What the room promises is about the same values in both.
LEMMA SamePromises ==
  /\ RoomProofs!Init <=> Room!Init
  /\ [RoomProofs!Next]_(RoomProofs!vars) <=> [Room!Next]_(Room!vars)
  /\ RoomProofs!TypeOK <=> Room!TypeOK
  /\ RoomProofs!VotingAwaitsABallot <=> Room!VotingAwaitsABallot
  /\ RoomProofs!FightersArePresent <=> Room!FightersArePresent
  /\ RoomProofs!SubscribersKnowTheRoom <=> Room!SubscribersKnowTheRoom
<1>1. RoomProofs!Init <=> Room!Init
  BY SameWords DEF RoomProofs!Init, Room!Init
<1>2. [RoomProofs!Next]_(RoomProofs!vars) <=> [Room!Next]_(Room!vars)
  BY SameSteps DEF RoomProofs!vars, Room!vars
<1>3. RoomProofs!TypeOK <=> Room!TypeOK
  <2>1. RoomProofs!ServerMessages = Room!ServerMessages
    BY SameWords
       DEF RoomProofs!ServerMessages, Room!ServerMessages, RoomProofs!Map, Room!Map
  <2>2. RoomProofs!State = Room!State /\ RoomProofs!View = Room!View
    BY SameWords DEF RoomProofs!State, Room!State, RoomProofs!Map, Room!Map,
                     RoomProofs!View, Room!View
  <2>3. QED
    BY <2>1, <2>2 DEF RoomProofs!TypeOK, Room!TypeOK
<1>4. /\ RoomProofs!VotingAwaitsABallot <=> Room!VotingAwaitsABallot
      /\ RoomProofs!FightersArePresent <=> Room!FightersArePresent
      /\ RoomProofs!SubscribersKnowTheRoom <=> Room!SubscribersKnowTheRoom
  BY SameWords
     DEF RoomProofs!VotingAwaitsABallot, Room!VotingAwaitsABallot,
         RoomProofs!FightersArePresent, Room!FightersArePresent,
         RoomProofs!SubscribersKnowTheRoom, Room!SubscribersKnowTheRoom
<1>5. QED
  BY <1>1, <1>2, <1>3, <1>4, Zenon

\* What ServerRoomProofs shows of the room by itself is true of the room that
\* the connections talk to.
THEOREM TheRoomKeepsItsPromises ==
  Spec => [](/\ Room!TypeOK
             /\ Room!VotingAwaitsABallot
             /\ Room!FightersArePresent
             /\ Room!SubscribersKnowTheRoom)
          /\ Room!LeadershipIsHandedOver
<1>1. Points \subseteq Nat /\ NoOne \notin Winner
  BY PointsAssumption, NoOneAssumption
<1>2. RoomProofs!Spec => []RoomProofs!TypeOK
  BY <1>1, RoomProofs!TypeCorrect
<1>3. RoomProofs!Spec => []RoomProofs!VotingAwaitsABallot
  BY <1>1, RoomProofs!VotingWaitsForBallots
<1>4. RoomProofs!Spec => []RoomProofs!FightersArePresent
  BY <1>1, RoomProofs!FightsAreAmongThePresent
<1>5. RoomProofs!Spec => []RoomProofs!SubscribersKnowTheRoom
  BY <1>1, RoomProofs!BroadcastsTellTheRoom
<1>6. RoomProofs!Spec => RoomProofs!LeadershipIsHandedOver
  BY <1>1, RoomProofs!LeadersAreSucceeded
<1>7. UNCHANGED RoomProofs!vars <=> UNCHANGED Room!vars
  BY DEF RoomProofs!vars, Room!vars
<1>8. QED
  BY <1>2, <1>3, <1>4, <1>5, <1>6, <1>7, ServerRunsTheRoom, SamePromises, PTL
     DEF Room!Spec, RoomProofs!Spec, Room!LeadershipIsHandedOver,
         RoomProofs!LeadershipIsHandedOver
-----------------------------------------------------------------------------
\* The part of TypeOK that neither the room nor the seats depend on.
Counters ==
  /\ behind \in [Conn -> 0..(Capacity + 1)]
  /\ reads \in [Conn -> 0..MaxRequests]

\* Every variable always has its type: a connection never has more broadcasts to
\* forward than the channel holds, or is known to have lost some.
THEOREM TypeCorrect == Spec => []TypeOK
<1>a. Capacity \in Nat /\ Capacity >= 1 /\ MaxRequests \in Nat
  BY CapacityAssumption, RequestsAssumption
<1>1. Init => Counters
  BY <1>a DEF Init, Counters
<1>2. IInv /\ Counters /\ Room!TypeOK' /\ [Next]_vars => Counters'
  <2> SUFFICES ASSUME IInv, Counters, Room!TypeOK', [Next]_vars PROVE Counters'
    OBVIOUS
  <2>1. Broadcasts \in [Conn -> 0..(Capacity + 1)]
    <3>1. Len(sent') \in Nat
      BY DEF Room!TypeOK
    <3>2. \A n \in Nat : Lag(n) \in 0..(Capacity + 1)
      BY <1>a DEF Lag
    <3>3. \A c \in Conn : behind[c] + Len(sent') \in Nat
      BY <1>a, <3>1 DEF Counters
    <3>4. QED
      BY <3>2, <3>3 DEF Broadcasts, Counters
  <2>2. CASE RoomSubscribe
    <3> DEFINE c == Head(subscriptions).from
    <3>1. reads' = reads
      BY <2>2 DEF RoomSubscribe
    <3>2. behind' = Broadcasts \/ behind' = [Broadcasts EXCEPT ![c] = 1]
      BY <2>2 DEF RoomSubscribe
    <3>3. QED
      BY <1>a, <2>1, <3>1, <3>2 DEF Counters
  <2>3. CASE RoomHandle
    BY <2>1, <2>3 DEF RoomHandle, Counters
  <2>4. ASSUME NEW c \in Conn,
               \/ Accept(c) \/ \E w \in Winner : EnterRoom(c, w)
               \/ GiveUp(c) \/ Subscribed(c) \/ WriteInitialState(c)
               \/ \E story \in Story : Ask(c, StartMsg(c, story))
               \/ \E story \in Story, p \in Points : Ask(c, VoteMsg(c, story, p))
               \/ Ignore(c) \/ Reply(c) \/ Close(c) \/ Crash(c) \/ Forward(c)
               \/ Detach(c) \/ Cut(c)
        PROVE  Counters'
    <3>1. \/ behind' = behind \/ behind' = [behind EXCEPT ![c] = 0]
          \/ behind[c] \in 1..Capacity /\ behind' = [behind EXCEPT ![c] = @ - 1]
      BY <2>4 DEF Accept, EnterRoom, GiveUp, Subscribed, WriteInitialState, Ask, Ignore,
                  Reply, Close, Crash, Forward, Detach, Cut, End
    <3>2. \/ reads' = reads
          \/ reads[c] < MaxRequests /\ reads' = [reads EXCEPT ![c] = @ + 1]
      BY <2>4 DEF Accept, EnterRoom, GiveUp, Subscribed, WriteInitialState, Ask, Ignore,
                  Reply, Close, Crash, Forward, Detach, Cut, Reads
    <3>3. behind' \in [Conn -> 0..(Capacity + 1)]
      BY <1>a, <3>1 DEF Counters
    <3>4. reads' \in [Conn -> 0..MaxRequests]
      BY <1>a, <3>2 DEF Counters
    <3>5. QED
      BY <3>3, <3>4 DEF Counters
  <2>5. CASE UNCHANGED vars
    BY <2>5 DEF vars, connVars, Counters
  <2>6. QED
    BY <2>2, <2>3, <2>4, <2>5 DEF Next
<1>3. IInv /\ Counters /\ Room!TypeOK => TypeOK
  BY DEF IInv, Types, Counters, TypeOK
<1>4. QED
  BY <1>1, <1>2, <1>3, InvariantHolds, TheRoomKeepsItsPromises, PTL DEF Spec
=============================================================================

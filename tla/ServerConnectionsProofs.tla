----------------------- MODULE ServerConnectionsProofs -----------------------
(* Theorems about ServerConnections for any people, connections, stories    *)
(* and cards, any capacity and any number of requests.                      *)
EXTENDS ServerConnections, TLAPS

\* The part of the types that the seats depend on.
Types ==
  /\ participants \subseteq Winner
  /\ subscriptions \in Seq([from: Conn, winner: Winner])
  /\ incoming \in Seq(Message)
  /\ status \in [Conn -> {"absent", "reading", "subscribing", "entered",
                          "serving", "asking", "left", "ended"}]
  /\ who \in [Conn -> Winner \cup {NoOne}]
  /\ answer \in [Conn -> {"None", "Ok", "Err", "WinnerExists"}]
  /\ seated \in [Conn -> BOOLEAN]

\* The people in the room are those who have a seat, and nobody has two.
Seats ==
  /\ \A c \in Conn : seated[c] => who[c] \in participants
  /\ \A w \in participants : \E c \in Conn : seated[c] /\ who[c] = w
  /\ \A c, d \in Conn : seated[c] /\ seated[d] /\ who[c] = who[d] => c = d

\* How far a connection is tells whether it has a seat, or may still have one,
\* and whether there may be an answer.
Stages ==
  \A c \in Conn :
    /\ status[c] \in {"absent", "reading"} => ~seated[c]
    /\ status[c] = "subscribing" => (seated[c] <=> answer[c] = "Ok")
    /\ status[c] \in {"entered", "serving", "asking"} => seated[c]
    /\ status[c] \notin {"subscribing", "asking"} => answer[c] = "None"

\* A subscription in the channel is the only one of a connection that waits for
\* its answer.
Applications ==
  /\ \A i \in 1..Len(subscriptions) :
       LET r == subscriptions[i]
       IN status[r.from] = "subscribing" /\ answer[r.from] = "None" /\ who[r.from] = r.winner
  /\ \A i, j \in 1..Len(subscriptions) :
       subscriptions[i].from = subscriptions[j].from => i = j

\* A message in the channel is the only one of a connection that has a seat; it
\* waits for the answer, unless it is over or has left.
Requests ==
  /\ \A i \in 1..Len(incoming) :
       LET m == incoming[i]
       IN /\ seated[m.from] /\ who[m.from] = m.winner
          /\ m.kind = "LeaveRoom" => status[m.from] \in {"left", "ended"}
          /\ m.kind # "LeaveRoom" => status[m.from] \in {"asking", "ended"}
          /\ answer[m.from] = "None"
  /\ \A i, j \in 1..Len(incoming) : incoming[i].from = incoming[j].from => i = j

\* A room that has panicked has no channels, and a seat was left behind.
Broken ==
  ~alive => /\ subscriptions = <<>> /\ incoming = <<>>
            /\ \E c \in Conn : status[c] = "ended" /\ seated[c]

IInv == Types /\ Seats /\ Stages /\ Applications /\ Requests /\ Broken
-----------------------------------------------------------------------------
\* The elements of a queue, and what is left of it.
LEMMA QueueFacts ==
  ASSUME NEW S, NEW q \in Seq(S)
  PROVE  /\ Len(q) \in Nat /\ \A i \in 1..Len(q) : q[i] \in S
         /\ q # <<>> => /\ Tail(q) \in Seq(S) /\ Len(Tail(q)) = Len(q) - 1
                        /\ Head(q) = q[1] /\ 1 \in 1..Len(q)
                        /\ \A i \in 1..Len(Tail(q)) :
                             Tail(q)[i] = q[i + 1] /\ i + 1 \in 1..Len(q)
OBVIOUS

\* What every message says.
LEMMA MessageFields ==
  ASSUME NEW m \in Message
  PROVE  m.kind \in {"StartVote", "Vote", "LeaveRoom"} /\ m.from \in Conn /\ m.winner \in Winner
BY DEF Message

\* Who has sent what is in the channels.
LEMMA QueuedFields ==
  ASSUME Types
  PROVE  /\ \A i \in 1..Len(subscriptions) :
              subscriptions[i].from \in Conn /\ subscriptions[i].winner \in Winner
         /\ \A i \in 1..Len(incoming) :
              incoming[i] \in Message /\ incoming[i].from \in Conn
<1>1. ASSUME NEW i \in 1..Len(subscriptions)
      PROVE  subscriptions[i].from \in Conn /\ subscriptions[i].winner \in Winner
  <2>1. subscriptions[i] \in [from: Conn, winner: Winner]
    BY QueueFacts DEF Types
  <2>2. QED
    BY <2>1
<1>2. \A i \in 1..Len(incoming) : incoming[i] \in Message
  BY DEF Types
<1>3. QED
  BY <1>1, <1>2, MessageFields

\* What the room makes of its people and of itself when it takes a message.
LEMMA HandleEffect ==
  ASSUME NEW m, Handle(m)
  PROVE  /\ alive
         /\ m.kind # "LeaveRoom" => participants' = participants
         /\ m.kind = "LeaveRoom" => participants' = participants \ {m.winner} /\ alive'
BY DEF Handle, Room!StartVote, Room!Vote, Room!LeaveRoom, Room!Panic

\* A step of one connection that leaves the room and its channels alone keeps
\* the invariant if it suits its seat and what of its own is in the channels.
LEMMA LocalStep ==
  ASSUME IInv, NEW c \in Conn,
         NEW s \in {"absent", "reading", "subscribing", "entered", "serving",
                    "asking", "left", "ended"},
         NEW a \in {"None", "Ok", "Err", "WinnerExists"},
         status' = [status EXCEPT ![c] = s],
         answer' = [answer EXCEPT ![c] = a],
         UNCHANGED <<participants, alive, subscriptions, incoming, who, seated>>,
         s \in {"absent", "reading"} => ~seated[c],
         s = "subscribing" => (seated[c] <=> a = "Ok"),
         s \in {"entered", "serving", "asking"} => seated[c],
         s \notin {"subscribing", "asking"} => a = "None",
         \A i \in 1..Len(subscriptions) : subscriptions[i].from # c,
         \A i \in 1..Len(incoming) : incoming[i].from = c => s = "ended" /\ a = "None",
         s # "ended" => status[c] # "ended"
  PROVE  IInv'
<1>1. Types'
  BY DEF IInv, Types
<1>2. Seats'
  BY DEF IInv, Seats
<1>3. Stages'
  BY DEF IInv, Types, Stages
<1>4. Applications'
  BY DEF IInv, Types, Applications
<1>5. Requests'
  <2>1. \A i \in 1..Len(incoming) : incoming[i].from \in Conn
    BY QueuedFields DEF IInv
  <2>2. QED
    BY <2>1 DEF IInv, Types, Requests
<1>6. Broken'
  BY DEF IInv, Types, Broken
<1>7. QED
  BY <1>1, <1>2, <1>3, <1>4, <1>5, <1>6 DEF IInv

\* Nothing of a connection is in a channel of the room unless it waits for the
\* answer, has left or has ended.
LEMMA NothingQueued ==
  ASSUME IInv, NEW c \in Conn
  PROVE  /\ (status[c] # "subscribing" \/ answer[c] # "None" \/ ~alive) =>
              \A i \in 1..Len(subscriptions) : subscriptions[i].from # c
         /\ (status[c] \notin {"asking", "left", "ended"} \/ answer[c] # "None" \/ ~alive) =>
              \A i \in 1..Len(incoming) : incoming[i].from # c
         /\ \A i \in 1..Len(incoming) : incoming[i].from = c => answer[c] = "None"
BY DEF IInv, Applications, Requests, Broken

\* The steps of a connection that the room does not see.
LEMMA AloneKeepsIInv ==
  ASSUME IInv, NEW c \in Conn,
         \/ Accept(c) \/ GiveUp(c) \/ Subscribed(c) \/ WriteInitialState(c)
         \/ Ignore(c) \/ Reply(c) \/ Crash(c) \/ Forward(c) \/ Detach(c) \/ Cut(c)
  PROVE  IInv'
<1>a. status \in [Conn -> {"absent", "reading", "subscribing", "entered",
                          "serving", "asking", "left", "ended"}]
      /\ answer \in [Conn -> {"None", "Ok", "Err", "WinnerExists"}]
  BY DEF IInv, Types
<1>b. /\ status[c] \in {"absent", "reading"} => ~seated[c]
      /\ status[c] = "subscribing" => (seated[c] <=> answer[c] = "Ok")
      /\ status[c] \in {"entered", "serving", "asking"} => seated[c]
      /\ status[c] \notin {"subscribing", "asking"} => answer[c] = "None"
  BY DEF IInv, Stages
<1>1. ASSUME End(c), UNCHANGED <<roomVars, subscriptions, incoming, who, seated>>,
             status[c] # "subscribing" \/ answer[c] # "None" \/ ~alive
      PROVE  IInv'
  <2>1. status' = [status EXCEPT ![c] = "ended"] /\ answer' = [answer EXCEPT ![c] = "None"]
    BY <1>1 DEF End, Enters
  <2>2. QED
    BY <1>1, <2>1, NothingQueued, LocalStep DEF roomVars
<1>2. CASE Accept(c)
  <2>1. status' = [status EXCEPT ![c] = "reading"] /\ answer' = [answer EXCEPT ![c] = "None"]
    BY <1>2, <1>a, <1>b DEF Accept, Enters
  <2>2. QED
    BY <1>2, <1>b, <2>1, NothingQueued, LocalStep DEF Accept, roomVars
<1>3. CASE Subscribed(c) /\ answer[c] = "Ok"
  <2>1. status' = [status EXCEPT ![c] = "entered"] /\ answer' = [answer EXCEPT ![c] = "None"]
    BY <1>3, <1>a DEF Subscribed, Enters, End
  <2>2. QED
    BY <1>3, <1>b, <2>1, NothingQueued, LocalStep DEF Subscribed, roomVars
<1>4. CASE Subscribed(c) /\ answer[c] # "Ok"
  BY <1>1, <1>4 DEF Subscribed
<1>5. CASE WriteInitialState(c)
  <2>1. status' = [status EXCEPT ![c] = "serving"] /\ answer' = [answer EXCEPT ![c] = "None"]
    BY <1>5, <1>a, <1>b DEF WriteInitialState, Enters
  <2>2. QED
    BY <1>5, <1>b, <2>1, NothingQueued, LocalStep DEF WriteInitialState, roomVars
<1>6. CASE Ignore(c)
  <2>1. status' = [status EXCEPT ![c] = "asking"] /\ answer' = [answer EXCEPT ![c] = "Ok"]
    BY <1>6 DEF Ignore, Enters
  <2>2. QED
    BY <1>6, <1>b, <2>1, NothingQueued, LocalStep DEF Ignore, Reads, roomVars
<1>7. CASE Reply(c)
  <2>1. status' = [status EXCEPT ![c] = "serving"] /\ answer' = [answer EXCEPT ![c] = "None"]
    BY <1>7 DEF Reply, Enters
  <2>2. QED
    BY <1>7, <1>b, <2>1, NothingQueued, LocalStep DEF Reply, Answered, roomVars
<1>8. CASE Forward(c)
  BY <1>8 DEF Forward, IInv, Types, Seats, Stages, Applications, Requests, Broken, roomVars
<1>9. CASE GiveUp(c) \/ Crash(c) \/ Detach(c) \/ Cut(c)
  BY <1>1, <1>9 DEF GiveUp, Crash, Detach, Cut, Serving, Answered
<1>10. QED
  BY <1>2, <1>3, <1>4, <1>5, <1>6, <1>7, <1>8, <1>9

\* A connection that enters puts its only subscription into the channel.
LEMMA EnterKeepsIInv ==
  ASSUME IInv, NEW c \in Conn, NEW w \in Winner, EnterRoom(c, w)
  PROVE  IInv'
<1>a. ~seated[c] /\ answer[c] = "None" /\ status[c] = "reading"
  BY DEF EnterRoom, IInv, Stages
<1>1. CASE alive
  <2> DEFINE r == [from |-> c, winner |-> w]
  <2>1. /\ subscriptions' = Append(subscriptions, r)
        /\ who' = [who EXCEPT ![c] = w]
        /\ status' = [status EXCEPT ![c] = "subscribing"]
        /\ UNCHANGED <<participants, alive, incoming, answer, seated>>
    BY <1>1 DEF EnterRoom, Enters, roomVars
  <2>2. subscriptions \in Seq([from: Conn, winner: Winner]) /\ r \in [from: Conn, winner: Winner]
    BY DEF IInv, Types
  <2> HIDE DEF r
  <2>3. r.from = c /\ r.winner = w
    BY DEF r
  <2>4. Types'
    BY <2>1, <2>2 DEF IInv, Types
  <2>5. Seats'
    BY <1>a, <2>1 DEF IInv, Types, Seats
  <2>6. Stages'
    BY <1>a, <2>1 DEF IInv, Types, Stages
  <2>7. Applications'
    <3>1. \A i \in 1..Len(subscriptions) : subscriptions[i].from # c
      BY <1>a, NothingQueued
    <3>2. \A i \in 1..Len(subscriptions) : subscriptions'[i] = subscriptions[i]
      BY <2>1, <2>2
    <3>3. /\ Len(subscriptions') = Len(subscriptions) + 1
          /\ subscriptions'[Len(subscriptions) + 1] = r
          /\ Len(subscriptions) \in Nat
      BY <2>1, <2>2
    <3>4. \A i \in 1..Len(subscriptions) : subscriptions[i].from \in Conn
      BY QueuedFields DEF IInv
    <3>5. ASSUME NEW i \in 1..Len(subscriptions')
          PROVE  /\ status'[subscriptions'[i].from] = "subscribing"
                 /\ answer'[subscriptions'[i].from] = "None"
                 /\ who'[subscriptions'[i].from] = subscriptions'[i].winner
      <4>1. CASE i = Len(subscriptions) + 1
        BY <1>a, <2>1, <2>3, <3>3, <4>1 DEF IInv, Types
      <4>2. CASE i \in 1..Len(subscriptions)
        BY <2>1, <3>1, <3>2, <3>4, <4>2 DEF IInv, Types, Applications
      <4>3. QED
        BY <3>3, <4>1, <4>2
    <3>6. ASSUME NEW i \in 1..Len(subscriptions'), NEW j \in 1..Len(subscriptions'),
                 subscriptions'[i].from = subscriptions'[j].from
          PROVE  i = j
      BY <2>3, <3>1, <3>2, <3>3, <3>6 DEF IInv, Applications
    <3>7. QED
      BY <3>5, <3>6 DEF Applications
  <2>8. Requests'
    <3>1. \A i \in 1..Len(incoming) : incoming[i].from # c /\ incoming[i].from \in Conn
      BY <1>a, NothingQueued, QueuedFields DEF IInv
    <3>2. QED
      BY <2>1, <3>1 DEF IInv, Types, Requests
  <2>9. Broken'
    BY <1>1, <2>1 DEF Broken
  <2>10. QED
    BY <2>4, <2>5, <2>6, <2>7, <2>8, <2>9 DEF IInv
<1>2. CASE ~alive
  <2>1. /\ status' = [status EXCEPT ![c] = "ended"]
        /\ answer' = [answer EXCEPT ![c] = "None"]
        /\ UNCHANGED <<participants, alive, subscriptions, incoming, who, seated>>
    BY <1>2 DEF EnterRoom, End, Enters, roomVars
  <2>2. QED
    BY <1>2, <1>a, <2>1, NothingQueued, LocalStep
<1>3. QED
  BY <1>1, <1>2

\* A connection that is served puts its only message into the channel.
LEMMA SendKeepsIInv ==
  ASSUME IInv, NEW c \in Conn, NEW m \in Message, alive, status[c] = "serving",
         incoming' = Append(incoming, m),
         m.from = c, m.winner = who[c],
         status' = [status EXCEPT ![c] = IF m.kind = "LeaveRoom" THEN "left" ELSE "asking"],
         UNCHANGED <<participants, alive, subscriptions, who, answer, seated>>
  PROVE  IInv'
<1>a. seated[c] /\ answer[c] = "None"
  BY DEF IInv, Stages
<1>b. incoming \in Seq(Message)
  BY DEF IInv, Types
<1>1. Types'
  BY <1>b DEF IInv, Types
<1>2. Seats'
  BY DEF IInv, Seats
<1>3. Stages'
  BY <1>a DEF IInv, Types, Stages
<1>4. Applications'
  <2>1. \A i \in 1..Len(subscriptions) : subscriptions[i].from # c /\ subscriptions[i].from \in Conn
    BY NothingQueued, QueuedFields DEF IInv
  <2>2. QED
    BY <2>1 DEF IInv, Types, Applications
<1>5. Requests'
  <2>1. \A i \in 1..Len(incoming) : incoming[i].from # c
    BY NothingQueued
  <2>2. \A i \in 1..Len(incoming) : incoming'[i] = incoming[i] /\ incoming[i] \in Message
    BY <1>b
  <2>3. /\ Len(incoming') = Len(incoming) + 1 /\ Len(incoming) \in Nat
        /\ incoming'[Len(incoming) + 1] = m
    BY <1>b
  <2>4. \A i \in 1..Len(incoming) : incoming[i].from \in Conn
    BY <2>2, MessageFields
  <2>5. ASSUME NEW i \in 1..Len(incoming')
        PROVE  LET n == incoming'[i]
               IN /\ seated'[n.from] /\ who'[n.from] = n.winner
                  /\ n.kind = "LeaveRoom" => status'[n.from] \in {"left", "ended"}
                  /\ n.kind # "LeaveRoom" => status'[n.from] \in {"asking", "ended"}
                  /\ answer'[n.from] = "None"
    <3>1. CASE i = Len(incoming) + 1
      BY <1>a, <2>3, <3>1 DEF IInv, Types
    <3>2. CASE i \in 1..Len(incoming)
      BY <2>1, <2>2, <2>4, <3>2 DEF IInv, Types, Requests
    <3>3. QED
      BY <2>3, <3>1, <3>2
  <2>6. ASSUME NEW i \in 1..Len(incoming'), NEW j \in 1..Len(incoming'),
               incoming'[i].from = incoming'[j].from
        PROVE  i = j
    BY <2>1, <2>2, <2>3, <2>6 DEF IInv, Requests
  <2>7. QED
    BY <2>5, <2>6 DEF Requests
<1>6. Broken'
  BY DEF Broken
<1>7. QED
  BY <1>1, <1>2, <1>3, <1>4, <1>5, <1>6 DEF IInv

\* A request of a client, put to a room that is there or gone.
LEMMA AskKeepsIInv ==
  ASSUME IInv, NEW c \in Conn, NEW m \in Message,
         m.from = c, m.winner = who[c], m.kind # "LeaveRoom", Ask(c, m)
  PROVE  IInv'
<1>1. CASE alive /\ incoming' = Append(incoming, m) /\ UNCHANGED answer
  BY <1>1, SendKeepsIInv DEF Ask, Reads, Enters, roomVars
<1>2. CASE ~alive /\ answer' = [answer EXCEPT ![c] = "Err"] /\ UNCHANGED incoming
  <2>1. status[c] = "serving" /\ seated[c]
    BY DEF Ask, Reads, IInv, Stages
  <2>2. /\ status' = [status EXCEPT ![c] = "asking"]
        /\ UNCHANGED <<participants, alive, subscriptions, who, seated>>
    BY DEF Ask, Enters, roomVars
  <2>3. /\ \A i \in 1..Len(subscriptions) : subscriptions[i].from # c
        /\ \A i \in 1..Len(incoming) : incoming[i].from # c
    BY <1>2, NothingQueued
  <2>4. QED
    BY <1>2, <2>1, <2>2, <2>3, LocalStep
<1>3. QED
  BY <1>1, <1>2 DEF Ask

\* The end of a stream: the room is sent the LeaveRoom, or is gone.
LEMMA CloseKeepsIInv ==
  ASSUME IInv, NEW c \in Conn, Close(c)
  PROVE  IInv'
<1>1. status[c] = "serving" /\ seated[c] /\ answer[c] = "None"
  BY DEF Close, IInv, Stages
<1>2. CASE alive
  <2>1. who[c] \in Winner
    BY <1>1 DEF IInv, Types, Seats
  <2>2. LeaveMsg(c) \in Message /\ LeaveMsg(c).kind = "LeaveRoom"
        /\ LeaveMsg(c).from = c /\ LeaveMsg(c).winner = who[c]
    BY <2>1 DEF LeaveMsg, Message
  <2>3. QED
    BY <1>1, <1>2, <2>2, SendKeepsIInv DEF Close, Enters, roomVars
<1>3. CASE ~alive
  <2>1. /\ status' = [status EXCEPT ![c] = "ended"]
        /\ answer' = [answer EXCEPT ![c] = "None"]
        /\ UNCHANGED <<participants, alive, subscriptions, incoming, who, seated>>
    BY <1>3 DEF Close, End, Enters, roomVars
  <2>2. QED
    BY <1>1, <1>3, <2>1, NothingQueued, LocalStep
<1>4. QED
  BY <1>2, <1>3

\* Whoever subscribes waits for the answer, so that the room's expect() holds.
LEMMA SubscriberWaits ==
  ASSUME IInv, RoomSubscribe
  PROVE  LET r == Head(subscriptions)
             c == r.from
         IN /\ subscriptions # <<>> /\ subscriptions \in Seq([from: Conn, winner: Winner])
            /\ 1 \in 1..Len(subscriptions) /\ r = subscriptions[1]
            /\ c \in Conn /\ r.winner \in Winner
            /\ status[c] = "subscribing" /\ answer[c] = "None"
            /\ who[c] = r.winner /\ ~seated[c]
            /\ alive /\ alive' /\ alive' = alive
<1> DEFINE r == Head(subscriptions)
           c == r.from
<1>1. /\ subscriptions # <<>> /\ subscriptions \in Seq([from: Conn, winner: Winner])
      /\ 1 \in 1..Len(subscriptions) /\ r = subscriptions[1]
  BY DEF RoomSubscribe, IInv, Types
<1>2. c \in Conn /\ r.winner \in Winner
  BY <1>1, QueuedFields DEF IInv
<1>3. status[c] = "subscribing" /\ answer[c] = "None" /\ who[c] = r.winner /\ ~seated[c]
  BY <1>1, <1>2 DEF IInv, Applications, Stages
<1>4. alive /\ alive' = (status[c] = "subscribing")
  BY DEF RoomSubscribe, Room!Subscribe
<1>5. alive' /\ alive' = alive
  BY <1>3, <1>4 DEF IInv, Types
<1>6. QED
  BY <1>1, <1>2, <1>3, <1>4, <1>5

\* The room answers a subscription.
LEMMA SubscribeKeepsIInv ==
  ASSUME IInv, RoomSubscribe
  PROVE  IInv'
<1> DEFINE r == Head(subscriptions)
           c == r.from
           w == r.winner
<1>a. /\ subscriptions # <<>> /\ subscriptions \in Seq([from: Conn, winner: Winner])
      /\ 1 \in 1..Len(subscriptions) /\ r = subscriptions[1]
  BY SubscriberWaits
<1>b. c \in Conn /\ w \in Winner
  BY SubscriberWaits
<1>c. status[c] = "subscribing" /\ answer[c] = "None" /\ who[c] = w /\ ~seated[c]
  BY SubscriberWaits
<1>d. alive /\ alive' /\ alive' = alive
  BY SubscriberWaits
<1>e. UNCHANGED <<incoming, status, who>> /\ subscriptions' = Tail(subscriptions)
  BY <1>d DEF RoomSubscribe
<1>f. \/ /\ w \in participants /\ participants' = participants
         /\ answer' = [answer EXCEPT ![c] = "WinnerExists"] /\ seated' = seated
      \/ /\ w \notin participants /\ participants' = participants \cup {w}
         /\ answer' = [answer EXCEPT ![c] = "Ok"]
         /\ seated' = [seated EXCEPT ![c] = TRUE]
  BY <1>d DEF RoomSubscribe, Room!Subscribe
<1>g. /\ Len(subscriptions') = Len(subscriptions) - 1 /\ Len(subscriptions) \in Nat
      /\ \A i \in 1..Len(subscriptions') :
           subscriptions'[i] = subscriptions[i + 1] /\ i + 1 \in 1..Len(subscriptions)
  BY <1>a, <1>e, QueueFacts
<1> HIDE DEF r
<1>1. Types'
  <2>1. subscriptions' \in Seq([from: Conn, winner: Winner])
    BY <1>a, <1>e, QueueFacts
  <2>2. QED
    BY <2>1, <1>b, <1>e, <1>f DEF IInv, Types
<1>2. Seats'
  BY <1>b, <1>c, <1>e, <1>f DEF IInv, Types, Seats
<1>3. Stages'
  BY <1>b, <1>c, <1>e, <1>f DEF IInv, Types, Stages
<1>4. Applications'
  <2>1. \A i \in 1..Len(subscriptions') :
          subscriptions'[i].from # c /\ subscriptions'[i].from \in Conn
    BY <1>a, <1>g, QueuedFields DEF IInv, Applications
  <2>2. ASSUME NEW i \in 1..Len(subscriptions')
        PROVE  /\ status'[subscriptions'[i].from] = "subscribing"
               /\ answer'[subscriptions'[i].from] = "None"
               /\ who'[subscriptions'[i].from] = subscriptions'[i].winner
    BY <1>e, <1>f, <1>g, <2>1 DEF IInv, Types, Applications
  <2>3. ASSUME NEW i \in 1..Len(subscriptions'), NEW j \in 1..Len(subscriptions'),
               subscriptions'[i].from = subscriptions'[j].from
        PROVE  i = j
    BY <1>g, <2>3 DEF IInv, Applications
  <2>4. QED
    BY <2>2, <2>3 DEF Applications
<1>5. Requests'
  <2>1. \A i \in 1..Len(incoming) : incoming[i].from # c /\ incoming[i].from \in Conn
    BY <1>b, <1>c, NothingQueued, QueuedFields DEF IInv
  <2>2. QED
    BY <1>e, <1>f, <2>1 DEF IInv, Types, Requests
<1>6. Broken'
  BY <1>d DEF Broken
<1>7. QED
  BY <1>1, <1>2, <1>3, <1>4, <1>5, <1>6 DEF IInv

\* The room takes a message: who leaves loses the seat, who waits is answered,
\* and the room panics only over a connection that has ended.
LEMMA HandleKeepsIInv ==
  ASSUME IInv, RoomHandle
  PROVE  IInv'
<1> DEFINE m == Head(incoming)
           c == m.from
<1>a. /\ incoming # <<>> /\ incoming \in Seq(Message)
      /\ 1 \in 1..Len(incoming) /\ m = incoming[1] /\ m \in Message
  BY DEF RoomHandle, IInv, Types
<1>b. c \in Conn /\ m.winner \in Winner /\ m.kind \in {"StartVote", "Vote", "LeaveRoom"}
  BY <1>a, MessageFields
<1>c. /\ seated[c] /\ who[c] = m.winner /\ answer[c] = "None"
      /\ m.kind = "LeaveRoom" => status[c] \in {"left", "ended"}
      /\ m.kind # "LeaveRoom" => status[c] \in {"asking", "ended"}
  BY <1>a DEF IInv, Requests
<1>d. /\ m.kind # "LeaveRoom" => participants' = participants
      /\ m.kind = "LeaveRoom" => participants' = participants \ {m.winner}
  BY HandleEffect DEF RoomHandle
<1>e. UNCHANGED <<status, who>>
  BY DEF RoomHandle
<1>f. /\ alive' = ~(AnswerDue(m) /\ status[c] # "asking")
      /\ \/ status[c] = "asking" /\ answer' = [answer EXCEPT ![c] = AnswerTo(m)]
         \/ status[c] # "asking" /\ answer' = answer
      /\ seated' = [seated EXCEPT ![c] = @ /\ m.kind # "LeaveRoom"]
      /\ alive' => incoming' = Tail(incoming) /\ subscriptions' = subscriptions
      /\ ~alive' => incoming' = <<>> /\ subscriptions' = <<>>
  BY DEF RoomHandle
<1>g. AnswerTo(m) \in {"Ok", "Err"}
  BY DEF AnswerTo
<1> HIDE DEF m
<1>1. Types'
  <2>1. incoming' \in Seq(Message) /\ subscriptions' \in Seq([from: Conn, winner: Winner])
    <3>1. Tail(incoming) \in Seq(Message)
      BY <1>a, QueueFacts
    <3>2. CASE alive'
      BY <1>f, <3>1, <3>2 DEF IInv, Types
    <3>3. CASE ~alive'
      BY <1>f, <3>3
    <3>4. QED
      BY <3>2, <3>3
  <2>2. QED
    BY <2>1, <1>b, <1>d, <1>e, <1>f, <1>g DEF IInv, Types
<1>2. Seats'
  BY <1>b, <1>c, <1>d, <1>e, <1>f DEF IInv, Types, Seats
<1>3. Stages'
  BY <1>b, <1>c, <1>e, <1>f, <1>g DEF IInv, Types, Stages
<1>4. Applications'
  <2>1. \A i \in 1..Len(subscriptions) : subscriptions[i].from \in Conn
    BY QueuedFields DEF IInv
  <2>2. CASE alive'
    BY <1>b, <1>e, <1>f, <2>1, <2>2 DEF IInv, Types, Applications
  <2>3. CASE ~alive'
    BY <1>f, <2>3 DEF Applications
  <2>4. QED
    BY <2>2, <2>3
<1>5. Requests'
  <2>1. CASE alive'
    <3>1. /\ Len(incoming') = Len(incoming) - 1 /\ Len(incoming) \in Nat
          /\ \A i \in 1..Len(incoming') :
               incoming'[i] = incoming[i + 1] /\ i + 1 \in 1..Len(incoming)
      BY <1>a, <1>f, <2>1, QueueFacts
    <3>2. \A i \in 1..Len(incoming') : incoming'[i].from # c /\ incoming'[i].from \in Conn
      BY <1>a, <3>1, QueuedFields DEF IInv, Requests
    <3>3. ASSUME NEW i \in 1..Len(incoming')
          PROVE  LET n == incoming'[i]
                 IN /\ seated'[n.from] /\ who'[n.from] = n.winner
                    /\ n.kind = "LeaveRoom" => status'[n.from] \in {"left", "ended"}
                    /\ n.kind # "LeaveRoom" => status'[n.from] \in {"asking", "ended"}
                    /\ answer'[n.from] = "None"
      <4> DEFINE n == incoming'[i]
      <4>1. n = incoming[i + 1] /\ i + 1 \in 1..Len(incoming)
        BY <3>1
      <4>2. /\ seated[n.from] /\ who[n.from] = n.winner
            /\ n.kind = "LeaveRoom" => status[n.from] \in {"left", "ended"}
            /\ n.kind # "LeaveRoom" => status[n.from] \in {"asking", "ended"}
            /\ answer[n.from] = "None"
        BY <4>1 DEF IInv, Requests
      <4>3. n.from # c /\ n.from \in Conn
        BY <3>2
      <4> HIDE DEF n, c
      <4>4. seated'[n.from] = seated[n.from] /\ answer'[n.from] = answer[n.from]
        BY <1>f, <4>3 DEF IInv, Types
      <4>5. QED
        BY <1>e, <4>2, <4>4 DEF n
    <3>4. ASSUME NEW i \in 1..Len(incoming'), NEW j \in 1..Len(incoming'),
                 incoming'[i].from = incoming'[j].from
          PROVE  i = j
      BY <3>1, <3>4 DEF IInv, Requests
    <3>5. QED
      BY <3>3, <3>4 DEF Requests
  <2>2. CASE ~alive'
    BY <1>f, <2>2 DEF Requests
  <2>3. QED
    BY <2>1, <2>2
<1>6. Broken'
  <2>1. ASSUME ~alive' PROVE status'[c] = "ended" /\ seated'[c]
    BY <1>b, <1>c, <1>e, <1>f, <2>1 DEF AnswerDue, IInv, Types
  <2>2. QED
    BY <1>b, <1>f, <2>1 DEF Broken
<1>7. QED
  BY <1>1, <1>2, <1>3, <1>4, <1>5, <1>6 DEF IInv

\* The invariant is inductive.
LEMMA InvariantHolds == Spec => []IInv
<1>1. Init => IInv
  BY DEF Init, Room!Init, IInv, Types, Seats, Stages, Applications, Requests, Broken
<1>2. IInv /\ [Next]_vars => IInv'
  <2> SUFFICES ASSUME IInv, [Next]_vars PROVE IInv'
    OBVIOUS
  <2>1. CASE RoomSubscribe
    BY <2>1, SubscribeKeepsIInv
  <2>2. CASE RoomHandle
    BY <2>2, HandleKeepsIInv
  <2>3. ASSUME NEW c \in Conn, NEW w \in Winner, EnterRoom(c, w) PROVE IInv'
    BY <2>3, EnterKeepsIInv
  <2>4. ASSUME NEW c \in Conn, NEW story \in Story, Ask(c, StartMsg(c, story)) PROVE IInv'
    <3>1. who[c] \in Winner
      BY <2>4 DEF Ask, Reads, IInv, Types, Seats, Stages
    <3>2. /\ StartMsg(c, story) \in Message /\ StartMsg(c, story).kind # "LeaveRoom"
          /\ StartMsg(c, story).from = c /\ StartMsg(c, story).winner = who[c]
      BY <3>1 DEF StartMsg, Message
    <3>3. QED
      BY <2>4, <3>2, AskKeepsIInv
  <2>5. ASSUME NEW c \in Conn, NEW story \in Story, NEW p \in Points,
               Ask(c, VoteMsg(c, story, p))
        PROVE  IInv'
    <3>1. who[c] \in Winner
      BY <2>5 DEF Ask, Reads, IInv, Types, Seats, Stages
    <3>2. /\ VoteMsg(c, story, p) \in Message /\ VoteMsg(c, story, p).kind # "LeaveRoom"
          /\ VoteMsg(c, story, p).from = c /\ VoteMsg(c, story, p).winner = who[c]
      BY <3>1 DEF VoteMsg, Message
    <3>3. QED
      BY <2>5, <3>2, AskKeepsIInv
  <2>6. ASSUME NEW c \in Conn, Close(c) PROVE IInv'
    BY <2>6, CloseKeepsIInv
  <2>7. ASSUME NEW c \in Conn,
               \/ Accept(c) \/ GiveUp(c) \/ Subscribed(c) \/ WriteInitialState(c)
               \/ Ignore(c) \/ Reply(c) \/ Crash(c) \/ Forward(c) \/ Detach(c) \/ Cut(c)
        PROVE  IInv'
    BY <2>7, AloneKeepsIInv
  <2>8. CASE UNCHANGED vars
    BY <2>8 DEF vars, roomVars, connVars, IInv, Types, Seats, Stages, Applications,
                Requests, Broken
  <2>9. QED
    BY <2>1, <2>2, <2>3, <2>4, <2>5, <2>6, <2>7, <2>8 DEF Next
<1>3. QED
  BY <1>1, <1>2, PTL DEF Spec
-----------------------------------------------------------------------------
\* The people in the room and the connections with a seat are one to one, and
\* who is served has one: whatever messages cross, whoever breaks off.
THEOREM SeatsMatchConnections == Spec => []OneSeatEach
<1>1. IInv => OneSeatEach
  <2> SUFFICES ASSUME IInv PROVE OneSeatEach
    OBVIOUS
  <2>1. participants = {who[c] : c \in {d \in Conn : seated[d]}}
    BY DEF IInv, Types, Seats
  <2>2. QED
    BY <2>1 DEF IInv, Seats, Stages, OneSeatEach
<1>2. QED
  BY <1>1, InvariantHolds, PTL

\* No request of a connection outlives the connection's seat in the room.
THEOREM NoRequestOutlivesItsSeat == Spec => []RequestsComeFromSeats
<1>1. IInv => RequestsComeFromSeats
  <2> SUFFICES ASSUME IInv, NEW i \in DOMAIN incoming
               PROVE  /\ seated[incoming[i].from]
                      /\ incoming[i].winner = who[incoming[i].from]
                      /\ incoming[i].winner \in participants
    BY DEF RequestsComeFromSeats
  <2>1. i \in 1..Len(incoming) /\ incoming[i].from \in Conn
    BY QueuedFields DEF IInv, Types
  <2>2. QED
    BY <2>1 DEF IInv, Requests, Seats
<1>2. QED
  BY <1>1, InvariantHolds, PTL

\* The room panics only over a seat that was left behind.
THEOREM RoomOutlivesItsClients == Spec => []OnlyTheLostBreakTheRoom
<1>1. IInv => OnlyTheLostBreakTheRoom
  BY DEF IInv, Broken, OnlyTheLostBreakTheRoom
<1>2. QED
  BY <1>1, InvariantHolds, PTL

\* What the room does with a message of a connection is a step of the room.
LEMMA HandleIsRoomStep ==
  ASSUME NEW m \in Message, Handle(m)
  PROVE  Room!Next
<1>1. CASE m.kind = "StartVote"
  <2>1. m.winner \in Winner /\ m.story \in Story
    BY <1>1 DEF Message
  <2>2. QED
    BY <1>1, <2>1 DEF Handle, Room!Next
<1>2. CASE m.kind = "Vote"
  <2>1. m.winner \in Winner /\ m.story \in Story /\ m.points \in Points
    BY <1>2 DEF Message
  <2>2. QED
    BY <1>2, <2>1 DEF Handle, Room!Next
<1>3. CASE m.kind = "LeaveRoom"
  BY <1>3, MessageFields DEF Handle, Room!Next
<1>4. QED
  BY <1>1, <1>2, <1>3, MessageFields

\* The server runs the room as ServerRoom describes it: what is true of the room
\* by itself is true of it in the server, and the room is only ever asked and
\* left by its participants.
THEOREM ServerRunsTheRoom == Spec => Room!Spec
<1>1. Init => Room!Init
  BY DEF Init
<1>2. IInv /\ [Next]_vars => [Room!Next]_(Room!vars)
  <2> SUFFICES ASSUME IInv, [Next]_vars PROVE [Room!Next]_(Room!vars)
    OBVIOUS
  <2>1. CASE RoomSubscribe
    <3>1. subscriptions # <<>> /\ 1 \in 1..Len(subscriptions)
          /\ Head(subscriptions) = subscriptions[1]
      BY <2>1, QueueFacts DEF RoomSubscribe, IInv, Types
    <3>2. Head(subscriptions).winner \in Winner
      BY <3>1, QueuedFields DEF IInv
    <3>3. Room!Subscribe(Head(subscriptions).winner)
      BY <2>1 DEF RoomSubscribe
    <3>4. QED
      BY <3>2, <3>3 DEF Room!Next
  <2>2. CASE RoomHandle
    <3>1. Head(incoming) \in Message /\ Handle(Head(incoming))
      BY <2>2 DEF RoomHandle, IInv, Types
    <3>2. QED
      BY <3>1, HandleIsRoomStep
  <2>3. CASE UNCHANGED roomVars
    BY <2>3 DEF roomVars, Room!vars
  <2>4. ASSUME NEW c \in Conn,
               \/ Accept(c) \/ \E w \in Winner : EnterRoom(c, w)
               \/ GiveUp(c) \/ Subscribed(c) \/ WriteInitialState(c)
               \/ \E story \in Story : Ask(c, StartMsg(c, story))
               \/ \E story \in Story, p \in Points : Ask(c, VoteMsg(c, story, p))
               \/ Ignore(c) \/ Reply(c) \/ Close(c) \/ Crash(c) \/ Forward(c)
               \/ Detach(c) \/ Cut(c)
        PROVE  UNCHANGED roomVars
    BY <2>4 DEF Accept, EnterRoom, GiveUp, Subscribed, WriteInitialState, Ask, Ignore,
                Reply, Close, Crash, Forward, Detach, Cut
  <2>5. CASE UNCHANGED vars
    BY <2>3, <2>5 DEF vars
  <2>6. QED
    BY <2>1, <2>2, <2>3, <2>4, <2>5 DEF Next
<1>3. QED
  BY <1>1, <1>2, InvariantHolds, PTL DEF Spec, Room!Spec
-----------------------------------------------------------------------------
\* The ballots announced in a sequence of broadcasts are all in one name.
By(w, x) == x.msg = "VoteCast" => x.winner = w
AllBy(w, msgs) == \A i \in 1..Len(msgs) : By(w, msgs[i])

\* Sequences put together of messages by the same person.
LEMMA AllBySequences ==
  ASSUME NEW S, NEW w
  PROVE  /\ \A x \in S : By(w, x) => <<x>> \in Seq(S) /\ AllBy(w, <<x>>)
         /\ \A x, y \in S : By(w, x) /\ By(w, y) =>
                              <<x, y>> \in Seq(S) /\ AllBy(w, <<x, y>>)
         /\ \A q, r \in Seq(S) : AllBy(w, q) /\ AllBy(w, r) =>
                                   q \o r \in Seq(S) /\ AllBy(w, q \o r)
<1>1. ASSUME NEW x \in S, By(w, x)
      PROVE  <<x>> \in Seq(S) /\ AllBy(w, <<x>>)
  BY <1>1 DEF AllBy
<1>2. ASSUME NEW x \in S, NEW y \in S, By(w, x), By(w, y)
      PROVE  <<x, y>> \in Seq(S) /\ AllBy(w, <<x, y>>)
  BY <1>2 DEF AllBy
<1>3. ASSUME NEW q \in Seq(S), NEW r \in Seq(S), AllBy(w, q), AllBy(w, r)
      PROVE  q \o r \in Seq(S) /\ AllBy(w, q \o r)
  <2>1. ASSUME NEW i \in 1..Len(q \o r)
        PROVE  By(w, (q \o r)[i])
    <3>1. CASE i \in 1..Len(q)
      BY <1>3, <3>1 DEF AllBy
    <3>2. CASE i \notin 1..Len(q)
      <4>1. (q \o r)[i] = r[i - Len(q)] /\ i - Len(q) \in 1..Len(r)
        BY <3>2
      <4>2. QED
        BY <1>3, <4>1 DEF AllBy
    <3>3. QED
      BY <3>1, <3>2
  <2>2. QED
    BY <2>1 DEF AllBy
<1>4. QED
  BY <1>1, <1>2, <1>3

\* Counting announces no further ballot.
LEMMA CountAnnounces ==
  ASSUME NEW w, NEW story, NEW votes, NEW msgs, NEW T, msgs \in Seq(T), AllBy(w, msgs),
         Room!Count(story, votes, msgs)
  PROVE  AllBy(w, sent')
<1> DEFINE results == <<Room!VotesReceived(votes)>>
<1>1. PICK high, low :
        sent' \in {msgs, (msgs \o results) \o <<Room!NowIdle>>,
                   (msgs \o results) \o <<Room!FightOver(high, low)>>,
                   (msgs \o results) \o <<Room!FightOver(high, low), Room!NowIdle>>}
  BY DEF Room!Count, Room!Broadcast
<1> DEFINE f == Room!FightOver(high, low)
           S == T \cup {Room!VotesReceived(votes), f, Room!NowIdle}
<1>2. msgs \in Seq(S)
  OBVIOUS
<1>3. By(w, Room!VotesReceived(votes)) /\ By(w, f) /\ By(w, Room!NowIdle)
  BY DEF By, Room!VotesReceived, Room!FightOver, Room!NowIdle
<1>4. Room!VotesReceived(votes) \in S /\ f \in S /\ Room!NowIdle \in S
  OBVIOUS
<1> HIDE DEF S, f
<1>5. \A x \in {Room!VotesReceived(votes), f, Room!NowIdle} :
        <<x>> \in Seq(S) /\ AllBy(w, <<x>>)
  BY <1>3, <1>4, AllBySequences
<1>6. <<f, Room!NowIdle>> \in Seq(S) /\ AllBy(w, <<f, Room!NowIdle>>)
  BY <1>3, <1>4, AllBySequences
<1>7. msgs \o results \in Seq(S) /\ AllBy(w, msgs \o results)
  BY <1>2, <1>5, AllBySequences
<1> HIDE DEF results
<1>8. \A q \in {<<Room!NowIdle>>, <<f>>, <<f, Room!NowIdle>>} :
        AllBy(w, (msgs \o results) \o q)
  BY <1>5, <1>6, <1>7, AllBySequences
<1>9. QED
  BY <1>1, <1>8 DEF f

\* Whatever the room makes of a message, it announces ballots only in the name
\* of who has sent it.
LEMMA HandleAnnounces ==
  ASSUME NEW m, Handle(m)
  PROVE  AllBy(m.winner, sent')
<1> DEFINE w == m.winner
<1>a. AllBy(w, <<>>)
  BY DEF AllBy
<1>1. CASE m.kind = "StartVote"
  <2>1. sent' \in {<<>>, <<Room!NowVoting, Room!VoteStarted(m.story)>>}
    BY <1>1 DEF Handle, Room!StartVote, Room!Panic, Room!Broadcast
  <2> DEFINE v == Room!VoteStarted(m.story)
  <2>2. By(w, Room!NowVoting) /\ By(w, v)
    BY DEF By, Room!NowVoting, Room!VoteStarted
  <2> DEFINE S == {Room!NowVoting, v}
  <2> Room!NowVoting \in S /\ v \in S
    OBVIOUS
  <2> HIDE DEF v, S
  <2>3. AllBy(w, <<Room!NowVoting, v>>)
    BY <2>2, AllBySequences
  <2>4. QED
    BY <1>a, <2>1, <2>3 DEF v
<1>2. CASE m.kind = "Vote"
  <2> DEFINE b == Room!VoteCast(w, m.points)
  <2>1. By(w, b)
    BY DEF By, Room!VoteCast
  <2>2. \/ sent' = <<>>
        \/ \E story, votes : Room!Count(story, votes, <<b>>)
    BY <1>2 DEF Handle, Room!Vote, Room!Panic
  <2> HIDE DEF b
  <2>3. <<b>> \in Seq({b}) /\ AllBy(w, <<b>>)
    BY <2>1, AllBySequences
  <2>4. QED
    BY <1>a, <2>2, <2>3, CountAnnounces
<1>3. CASE m.kind = "LeaveRoom"
  <2>1. PICK next : Room!AfterLeave(Room!LeaveNotice(w, next))
    BY <1>3 DEF Handle, Room!LeaveRoom
  <2> DEFINE l == Room!Left(w)
             n == Room!Leads(next)
             msgs == Room!LeaveNotice(w, next)
             S == {l, n, Room!NowIdle}
  <2>2. By(w, l) /\ By(w, n) /\ By(w, Room!NowIdle)
    BY DEF By, Room!Left, Room!Leads, Room!NowIdle
  <2>3. msgs \in {<<l>>, <<l, n>>}
    BY DEF Room!LeaveNotice
  <2>4. /\ sent' \in {msgs, msgs \o <<Room!NowIdle>>}
        \/ \E story, votes : Room!Count(story, votes, msgs)
    BY <2>1 DEF Room!AfterLeave, Room!Broadcast
  <2> l \in S /\ n \in S /\ Room!NowIdle \in S
    OBVIOUS
  <2> HIDE DEF l, n, msgs, S
  <2>5. /\ <<l>> \in Seq(S) /\ AllBy(w, <<l>>)
        /\ <<l, n>> \in Seq(S) /\ AllBy(w, <<l, n>>)
        /\ <<Room!NowIdle>> \in Seq(S) /\ AllBy(w, <<Room!NowIdle>>)
    BY <2>2, AllBySequences
  <2>6. msgs \in Seq(S) /\ AllBy(w, msgs)
    BY <2>3, <2>5
  <2>7. AllBy(w, msgs \o <<Room!NowIdle>>)
    BY <2>5, <2>6, AllBySequences
  <2>8. QED
    BY <2>4, <2>6, <2>7, CountAnnounces
<1>4. QED
  BY <1>1, <1>2, <1>3 DEF Handle

\* Every announced ballot is in the name of the connection that sent it.
THEOREM BallotsAreTheSendersOwn == Spec => BallotsAreOwn
<1>1. IInv /\ [Next]_vars =>
        ((incoming # <<>> /\ incoming' = Tail(incoming)) =>
           \A i \in DOMAIN sent' :
             sent'[i].msg = "VoteCast" =>
               LET c == Head(incoming).from
               IN seated[c] /\ sent'[i].winner = who[c])
  <2> SUFFICES ASSUME IInv, [Next]_vars, incoming # <<>>, incoming' = Tail(incoming),
                      NEW i \in DOMAIN sent', sent'[i].msg = "VoteCast"
               PROVE  LET c == Head(incoming).from
                      IN seated[c] /\ sent'[i].winner = who[c]
    OBVIOUS
  <2>1. /\ incoming \in Seq(Message) /\ Len(incoming') = Len(incoming) - 1
        /\ Len(incoming) \in Nat /\ 1 \in 1..Len(incoming)
        /\ Head(incoming) = incoming[1]
    BY QueueFacts DEF IInv, Types
  <2>2. incoming' # incoming /\ \A m : incoming' # Append(incoming, m)
    <3>1. ASSUME NEW m PROVE Len(Append(incoming, m)) = Len(incoming) + 1
      <4>1. incoming \in Seq(Message \cup {m})
        BY <2>1
      <4>2. QED
        BY <4>1
    <3>2. ASSUME NEW m, incoming' = Append(incoming, m) PROVE FALSE
      <4>1. Len(incoming') = Len(incoming) + 1
        BY <3>1, <3>2, Zenon
      <4>2. QED
        BY <2>1, <4>1
    <3>3. ASSUME incoming' = incoming PROVE FALSE
      <4>1. Len(incoming') = Len(incoming)
        BY <3>3, Zenon
      <4>2. QED
        BY <2>1, <4>1
    <3>4. QED
      BY <3>2, <3>3, Zenon
  <2>3. ASSUME ~RoomHandle PROVE FALSE
    <3>1. RoomSubscribe => incoming' = incoming
      BY SubscriberWaits DEF RoomSubscribe
    <3>2. QED
      BY <2>2, <2>3, <3>1
         DEF Next, vars, Accept, EnterRoom, GiveUp, Subscribed,
             WriteInitialState, Ask, Ignore, Reply, Close, Crash, Forward, Detach, Cut
  <2>4. AllBy(Head(incoming).winner, sent')
    BY <2>3, HandleAnnounces DEF RoomHandle
  <2>5. seated[Head(incoming).from] /\ who[Head(incoming).from] = Head(incoming).winner
    BY <2>1 DEF IInv, Requests
  <2>6. i \in 1..Len(sent')
    OBVIOUS
  <2>7. QED
    BY <2>4, <2>5, <2>6 DEF AllBy, By
<1>2. QED
  BY <1>1, InvariantHolds, PTL DEF Spec, BallotsAreOwn
=============================================================================

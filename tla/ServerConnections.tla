-------------------------- MODULE ServerConnections --------------------------
(* The server of winner_server: the room (ServerRoom), the channels to it   *)
(* (winner_server/src/room_communication.rs) and one task per connection    *)
(* (client_handler.rs, tcp_room.rs).                                        *)
(*                                                                          *)
(* A task first waits for its client to enter and for the room to let it    *)
(* in; from then on it runs two futures side by side, message_handler and   *)
(* room_updates, of which the first to fail ends both.  Only a client whose *)
(* stream ends well is taken out of the room: any other end of the task     *)
(* leaves its seat behind.                                                  *)
(*                                                                          *)
(* The request channels are not bounded here: a task has one request under  *)
(* way, so that CHANNEL_SIZE connections are needed to fill one, and who    *)
(* waits to send into a full one has not sent yet.  Of the broadcasts a     *)
(* connection has still to forward only the number is kept; what they say   *)
(* is ServerRoom's `knows'.                                                 *)
EXTENDS Naturals, Sequences, FiniteSets

CONSTANTS
  Winner, Story, Points, NoOne,  \* as in ServerRoom
  Conn,         \* the connections
  Steady,       \* those whose client sends what can be handled, keeps reading
                \* and does not break the connection: it may only close it
  Capacity,     \* of the broadcast channel
  MaxRequests   \* bound: how many messages of a client are read once it is in

ASSUME SteadyAssumption == Steady \subseteq Conn
ASSUME CapacityAssumption == Capacity \in Nat \ {0}
ASSUME RequestsAssumption == MaxRequests \in Nat

VARIABLES
  participants, leader, current, alive, sent, knows,  \* the room
  subscriptions,  \* the channel of SubscriptionRequests
  incoming,       \* the channel of ClientMessageRequests
  status,         \* how far the task of a connection is
  who,            \* RoomAPI::winner of a connection, NoOne before it enters
  answer,         \* what the room has put in the task's one-shot channel
  behind,         \* broadcasts to forward, Capacity + 1 when some are lost
  reads,          \* how many messages were read since the client is in
  seated          \* history: the room has let the connection in, not yet out

ASSUME PointsAssumption == Points \subseteq Nat
ASSUME NoOneAssumption == NoOne \notin Winner

Room == INSTANCE ServerRoom

roomVars == <<participants, leader, current, alive, sent, knows>>
connVars == <<status, who, answer, behind, reads>>
vars == <<roomVars, subscriptions, incoming, connVars, seated>>

StartMsg(c, story) ==
  [kind |-> "StartVote", from |-> c, winner |-> who[c], story |-> story]
\* Mutant: the name in the client's message is taken for his own.
VoteMsgAsSent(c, story, p) ==
  [kind |-> "Vote", from |-> c, winner |-> CHOOSE w \in Winner : w # who[c],
   story |-> story, points |-> p]
VoteMsg(c, story, p) ==
  [kind |-> "Vote", from |-> c, winner |-> who[c], story |-> story, points |-> p]
LeaveMsg(c) == [kind |-> "LeaveRoom", from |-> c, winner |-> who[c]]

Message ==
  [kind: {"StartVote"}, from: Conn, winner: Winner, story: Story]
  \cup [kind: {"Vote"}, from: Conn, winner: Winner, story: Story, points: Points]
  \cup [kind: {"LeaveRoom"}, from: Conn, winner: Winner]

\* Both futures of the task run, or the forwarding one alone.
Serving(c) == status[c] \in {"serving", "asking", "left"}
\* The task owns a receiver of broadcasts.
Listening(c) ==
  \/ Serving(c) \/ status[c] = "entered"
  \/ status[c] = "subscribing" /\ answer[c] = "Ok"

Init ==
  /\ Room!Init
  /\ subscriptions = <<>>
  /\ incoming = <<>>
  /\ status = [c \in Conn |-> "absent"]
  /\ who = [c \in Conn |-> NoOne]
  /\ answer = [c \in Conn |-> "None"]
  /\ behind = [c \in Conn |-> 0]
  /\ reads = [c \in Conn |-> 0]
  /\ seated = [c \in Conn |-> FALSE]

Enters(c, next) == status' = [status EXCEPT ![c] = next]
\* The end of the task: its channels are dropped, whatever is in them.
End(c) ==
  /\ Enters(c, "ended")
  /\ answer' = [answer EXCEPT ![c] = "None"]
  /\ behind' = [behind EXCEPT ![c] = 0]
-----------------------------------------------------------------------------
\* tcp_room accepts a connection and spawns its task.
Accept(c) ==
  /\ status[c] = "absent"
  /\ Enters(c, "reading")
  /\ UNCHANGED <<roomVars, subscriptions, incoming, who, answer, behind, reads, seated>>

\* The first EnterRoom of the client (what comes before it is skipped) becomes
\* a subscription request; the expect() panics when the room is not there.
EnterRoom(c, w) ==
  /\ status[c] = "reading"
  /\ \/ /\ alive
        /\ subscriptions' = Append(subscriptions, [from |-> c, winner |-> w])
        /\ who' = [who EXCEPT ![c] = w]
        /\ Enters(c, "subscribing")
        /\ UNCHANGED <<answer, behind>>
     \/ /\ ~alive
        /\ End(c)
        /\ UNCHANGED <<subscriptions, who>>
  /\ UNCHANGED <<roomVars, incoming, reads, seated>>

\* The stream ends, or breaks, before the client has entered.
GiveUp(c) ==
  /\ status[c] = "reading"
  /\ End(c)
  /\ UNCHANGED <<roomVars, subscriptions, incoming, who, reads, seated>>

\* The task receives the answer to its subscription, or learns that there will
\* be none.
Subscribed(c) ==
  /\ status[c] = "subscribing"
  /\ \/ /\ answer[c] = "Ok"
        /\ Enters(c, "entered")
        /\ answer' = [answer EXCEPT ![c] = "None"]
        /\ UNCHANGED behind
     \/ /\ answer[c] = "WinnerExists" \/ (answer[c] = "None" /\ ~alive)
        /\ End(c)
  /\ UNCHANGED <<roomVars, subscriptions, incoming, who, reads, seated>>

\* write_initial_state.
WriteInitialState(c) ==
  /\ status[c] = "entered"
  /\ Enters(c, "serving")
  /\ UNCHANGED <<roomVars, subscriptions, incoming, who, answer, behind, reads, seated>>

Reads(c) ==
  /\ status[c] = "serving"
  /\ reads[c] < MaxRequests
  /\ reads' = [reads EXCEPT ![c] = @ + 1]

\* send_client_request: the task waits for the room, unless it is not there.
Ask(c, m) ==
  /\ Reads(c)
  /\ Enters(c, "asking")
  /\ \/ alive /\ incoming' = Append(incoming, m) /\ UNCHANGED answer
     \/ ~alive /\ answer' = [answer EXCEPT ![c] = "Err"] /\ UNCHANGED incoming
  /\ UNCHANGED <<roomVars, subscriptions, who, behind, seated>>

\* Mutant: a LeaveRoom of the client is passed on, and the task goes on.
PassLeaveOn(c) ==
  /\ Reads(c)
  /\ Enters(c, "asking")
  /\ incoming' = IF alive THEN Append(incoming, LeaveMsg(c)) ELSE incoming
  /\ answer' = [answer EXCEPT ![c] = "Ok"]
  /\ UNCHANGED <<roomVars, subscriptions, who, behind, seated>>

\* An EnterRoom or a LeaveRoom of the client is ignored, and gets an Ok.
Ignore(c) ==
  /\ Reads(c)
  /\ Enters(c, "asking")
  /\ answer' = [answer EXCEPT ![c] = "Ok"]
  /\ UNCHANGED <<roomVars, subscriptions, incoming, who, behind, seated>>

\* A request that the room drops without an answer, or that it takes with it when
\* it panics, is answered with an error.
Answered(c) == status[c] = "asking" /\ (answer[c] # "None" \/ ~alive)

\* Mutant: the answer stays where the next one is looked for.
ReplyAgain(c) ==
  /\ Answered(c)
  /\ Enters(c, "serving")
  /\ UNCHANGED <<roomVars, subscriptions, incoming, who, answer, behind, reads, seated>>

\* The answer is written to the client.
Reply(c) ==
  /\ Answered(c)
  /\ Enters(c, "serving")
  /\ answer' = [answer EXCEPT ![c] = "None"]
  /\ UNCHANGED <<roomVars, subscriptions, incoming, who, behind, reads, seated>>

\* Mutants: the end of the stream is noticed while the task waits for the room;
\* it is noticed and the room is not told.
CloseWhileAsking(c) ==
  /\ status[c] \in {"serving", "asking"}
  /\ alive
  /\ incoming' = Append(incoming, LeaveMsg(c))
  /\ Enters(c, "left")
  /\ UNCHANGED <<roomVars, subscriptions, who, answer, behind, reads, seated>>
CloseSilently(c) ==
  /\ status[c] = "serving"
  /\ Enters(c, "left")
  /\ UNCHANGED <<roomVars, subscriptions, incoming, who, answer, behind, reads, seated>>

\* The stream ends well: leave_room, which waits for no answer.  room_updates
\* goes on.
Close(c) ==
  /\ status[c] = "serving"
  /\ \/ /\ alive
        /\ incoming' = Append(incoming, LeaveMsg(c))
        /\ Enters(c, "left")
        /\ UNCHANGED <<answer, behind>>
     \/ /\ ~alive
        /\ End(c)
        /\ UNCHANGED incoming
  /\ UNCHANGED <<roomVars, subscriptions, who, reads, seated>>

\* The client sends what cannot be decoded or what is unimplemented!()
\* (AcknowledgeLeader, FightResolved), or the stream breaks.
Crash(c) ==
  /\ c \notin Steady
  /\ status[c] = "serving"
  /\ End(c)
  /\ UNCHANGED <<roomVars, subscriptions, incoming, who, reads, seated>>

\* room_updates forwards a broadcast.
Forward(c) ==
  /\ Serving(c)
  /\ behind[c] \in 1..Capacity
  /\ behind' = [behind EXCEPT ![c] = @ - 1]
  /\ UNCHANGED <<roomVars, subscriptions, incoming, status, who, answer, reads, seated>>

\* Mutant: a channel that is closed is waited on.
DetachLagged(c) ==
  /\ Serving(c)
  /\ behind[c] > Capacity
  /\ End(c)
  /\ UNCHANGED <<roomVars, subscriptions, incoming, who, reads, seated>>

\* room_updates fails, and with it the task: the receiver is Lagged, or has
\* received all there was and is Closed.
Detach(c) ==
  /\ Serving(c)
  /\ behind[c] > Capacity \/ (~alive /\ behind[c] = 0)
  /\ End(c)
  /\ UNCHANGED <<roomVars, subscriptions, incoming, who, reads, seated>>

\* Something there is to write cannot be written.
Cut(c) ==
  /\ c \notin Steady \/ status[c] = "left"
  /\ \/ status[c] = "entered"
     \/ Answered(c)
     \/ Serving(c) /\ behind[c] \in 1..Capacity
  /\ End(c)
  /\ UNCHANGED <<roomVars, subscriptions, incoming, who, reads, seated>>
-----------------------------------------------------------------------------
\* Mutant: nothing is lost.
KeepAll(n) == n

\* The receivers get what the room has broadcast; the oldest are lost to one
\* that has more than Capacity to receive.
Lag(n) == IF n > Capacity THEN Capacity + 1 ELSE n
Broadcasts == [c \in Conn |-> IF Listening(c) THEN Lag(behind[c] + Len(sent')) ELSE behind[c]]

\* Mutant: who is refused is not told.
RoomSubscribeQuietly ==
  /\ subscriptions # <<>>
  /\ LET r == Head(subscriptions)
     IN /\ Room!Subscribe(r.winner)
        /\ IF r.winner \in participants
           THEN UNCHANGED <<answer, behind, seated>>
           ELSE /\ answer' = [answer EXCEPT ![r.from] = "Ok"]
                /\ behind' = [Broadcasts EXCEPT ![r.from] = 1]
                /\ seated' = [seated EXCEPT ![r.from] = TRUE]
  /\ subscriptions' = Tail(subscriptions)
  /\ UNCHANGED <<alive, incoming, status, who, reads>>

\* The room's answer to a subscription; the receiver that goes with it has the
\* Enter to receive.  expect() panics when nobody waits for it.
RoomSubscribe ==
  /\ subscriptions # <<>>
  /\ LET r == Head(subscriptions)
     IN /\ Room!Subscribe(r.winner)
        /\ alive' = (status[r.from] = "subscribing")
        /\ \/ /\ r.winner \in participants
              /\ answer' = IF alive' THEN [answer EXCEPT ![r.from] = "WinnerExists"]
                           ELSE answer
              /\ behind' = Broadcasts
              /\ UNCHANGED seated
           \/ /\ r.winner \notin participants
              /\ answer' = IF alive' THEN [answer EXCEPT ![r.from] = "Ok"] ELSE answer
              /\ behind' = IF alive' THEN [Broadcasts EXCEPT ![r.from] = 1]
                           ELSE Broadcasts
              /\ seated' = [seated EXCEPT ![r.from] = TRUE]
  /\ subscriptions' = IF alive' THEN Tail(subscriptions) ELSE <<>>
  /\ incoming' = IF alive' THEN incoming ELSE <<>>
  /\ UNCHANGED <<status, who, reads>>

Handle(m) ==
  \/ m.kind = "StartVote" /\ Room!StartVote(m.winner, m.story)
  \/ m.kind = "Vote" /\ Room!Vote(m.winner, m.story, m.points)
  \/ m.kind = "LeaveRoom" /\ Room!LeaveRoom(m.winner)

\* An idle room drops a ballot with the channel of its answer, and every
\* LeaveRoom's: a task that waits is told that the channel is closed.
AnswerDue(m) == m.kind = "StartVote" \/ (m.kind = "Vote" /\ current.kind # "Idle")

\* Mutant: who asks at the wrong time is not answered.
AnswerIfOk(m) ==
  IF \/ m.kind = "StartVote" /\ current.kind = "Idle"
     \/ m.kind = "Vote" /\ current.kind = "Voting"
  THEN "Ok" ELSE "None"

\* A vote may be started when there is none, and cast when there is one.
AnswerTo(m) ==
  IF \/ m.kind = "StartVote" /\ current.kind = "Idle"
     \/ m.kind = "Vote" /\ current.kind = "Voting"
  THEN "Ok" ELSE "Err"

\* The room takes a message.  When its answer is due and the task that waited
\* for it is gone the expect() panics, and all the room's channels close.
RoomHandle ==
  /\ incoming # <<>>
  /\ LET m == Head(incoming)
     IN /\ Handle(m)
        /\ alive' = ~(AnswerDue(m) /\ status[m.from] # "asking")
        /\ answer' = IF status[m.from] = "asking"
                     THEN [answer EXCEPT ![m.from] = AnswerTo(m)] ELSE answer
        /\ seated' = [seated EXCEPT ![m.from] = @ /\ m.kind # "LeaveRoom"]
  /\ incoming' = IF alive' THEN Tail(incoming) ELSE <<>>
  /\ subscriptions' = IF alive' THEN subscriptions ELSE <<>>
  /\ behind' = Broadcasts
  /\ UNCHANGED <<status, who, reads>>
-----------------------------------------------------------------------------
Next ==
  \/ RoomSubscribe
  \/ RoomHandle
  \/ \E c \in Conn :
       \/ Accept(c)
       \/ \E w \in Winner : EnterRoom(c, w)
       \/ GiveUp(c)
       \/ Subscribed(c)
       \/ WriteInitialState(c)
       \/ \E story \in Story : Ask(c, StartMsg(c, story))
       \/ \E story \in Story, p \in Points : Ask(c, VoteMsg(c, story, p))
       \/ Ignore(c)
       \/ Reply(c)
       \/ Close(c)
       \/ Crash(c)
       \/ Forward(c)
       \/ Detach(c)
       \/ Cut(c)

\* The runtime polls a task that was woken: the room takes what is in its
\* channels, a connection takes its answers and broadcasts, and writes to a
\* client that reads.  Nothing makes a client connect, ask or close.
Fairness ==
  /\ WF_vars(RoomSubscribe) /\ WF_vars(RoomHandle)
  /\ \A c \in Conn : WF_vars(Subscribed(c))
  /\ \A c \in Steady :
       /\ WF_vars(WriteInitialState(c) \/ Reply(c))
       /\ WF_vars(Forward(c) \/ Detach(c))

Spec == Init /\ [][Next]_vars /\ Fairness
-----------------------------------------------------------------------------
\* Type invariant.
TypeOK ==
  /\ Room!TypeOK
  /\ subscriptions \in Seq([from: Conn, winner: Winner])
  /\ incoming \in Seq(Message)
  /\ status \in [Conn -> {"absent", "reading", "subscribing", "entered",
                          "serving", "asking", "left", "ended"}]
  /\ who \in [Conn -> Winner \cup {NoOne}]
  /\ answer \in [Conn -> {"None", "Ok", "Err", "WinnerExists"}]
  /\ behind \in [Conn -> 0..(Capacity + 1)]
  /\ reads \in [Conn -> 0..MaxRequests]
  /\ seated \in [Conn -> BOOLEAN]

\* The people in the room are those whom it has let in and not yet out, one
\* connection for each name, and every connection that is served is one of them.
OneSeatEach ==
  /\ participants = {who[c] : c \in {d \in Conn : seated[d]}}
  /\ \A c, d \in Conn : seated[c] /\ seated[d] /\ who[c] = who[d] => c = d
  /\ \A c \in Conn : status[c] \in {"entered", "serving", "asking"} => seated[c]

\* A task that waits for the room, alive, has exactly one thing to wait for, its
\* request in the channel or the room's answer; none waits with both or neither.
WaitsForOneAnswer ==
  alive =>
    \A c \in Conn :
      LET asked == {i \in DOMAIN incoming :
                      incoming[i].from = c /\ incoming[i].kind # "LeaveRoom"}
          applied == {i \in DOMAIN subscriptions : subscriptions[i].from = c}
          waits == status[c] \in {"asking", "subscribing"}
      IN waits => Cardinality(asked) + Cardinality(applied)
                    + (IF answer[c] = "None" THEN 0 ELSE 1) = 1

\* The room only ever panics over a task that ended without leaving: as long as
\* no seat is left behind the room is there, whoever comes, asks and closes.
OnlyTheLostBreakTheRoom ==
  ~alive => \E c \in Conn : status[c] = "ended" /\ seated[c]

\* A ballot is announced only in the name of the connection that cast it,
\* whatever name the client put into its message.
BallotsAreOwn ==
  [][(incoming # <<>> /\ incoming' = Tail(incoming)) =>
       \A i \in DOMAIN sent' :
         sent'[i].msg = "VoteCast" =>
           LET c == Head(incoming).from
           IN seated[c] /\ sent'[i].winner = who[c]]_vars

\* The room is asked and left only by connections that have a seat in it: a
\* request may reach the room after its connection has ended, and a name may be
\* taken again after it was left, but no request outlives its seat.
RequestsComeFromSeats ==
  \A i \in DOMAIN incoming :
    LET m == incoming[i]
    IN seated[m.from] /\ m.winner = who[m.from] /\ m.winner \in participants

\* A client that keeps reading is told the answer to what it asks, be it the
\* error that the room is not there, or its connection ends.
RequestsAreAnswered ==
  \A c \in Steady : status[c] = "asking" ~> status[c] # "asking"

\* A connection whose stream has ended well gives up its seat, also during a
\* vote or a fight.
LeaversGiveUpTheirSeat ==
  \A c \in Conn : status[c] = "left" ~> (~seated[c] \/ ~alive)

\* A room that has panicked does not leave a client waiting that still reads.
BrokenRoomsAreNoticed ==
  \A c \in Steady : ~alive ~> status[c] \in {"absent", "reading", "ended"}

\* Who has asked to enter waits for ever only while a vote or a fight lasts for
\* ever.
EntrantsWaitForVotesOnly ==
  \A c \in Conn :
    []<>(current.kind = "Idle") => []<>(status[c] # "subscribing")
=============================================================================

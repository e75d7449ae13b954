------------------------- MODULE ActorServerProofs -------------------------
(* Theorems about ActorServer for any clients, people, stories and cards.   *)
(* What RoomActorProofs proves about the room is true of the room here      *)
(* (ServerRunsTheRoom); the rest is about the sessions and their mailboxes. *)
EXTENDS ActorServer, FiniteSetTheorems, SequenceTheorems, TLAPS

RoomProofs == INSTANCE RoomActorProofs

\* The room's mailbox holds messages, and a session has a name it can leave by.
BoxOK == roomBox \in Seq(Message) /\ name \in [Session -> Winner]

\* The requests a client may send are messages; so is a Leave.
LEMMA RequestsAreMessages ==
  /\ \A s \in Session : Request(s) \subseteq Message
  /\ \A w \in Winner : LeaveMsg(w) \in Message
BY DEF Message

\* BoxOK always holds, with any clients.
LEMMA BoxInvariant == Spec => []BoxOK
<1>1. Init => BoxOK
  BY NamesAssumption DEF Init, BoxOK
<1>2. BoxOK /\ [Next]_vars => BoxOK'
  <2> SUFFICES ASSUME BoxOK, [Next]_vars PROVE BoxOK'
    OBVIOUS
  <2>1. CASE RoomHandle
    BY <2>1 DEF RoomHandle, BoxOK
  <2>2. ASSUME NEW s \in Session, NEW request \in Request(s), Send(s, request)
        PROVE  BoxOK'
    <3>1. request \in Message
      BY RequestsAreMessages
    <3>2. request.kind = "Enter" => request.winner \in Winner
      BY DEF Request, EnterMsg, StartMsg, RestartMsg, VoteMsg
    <3>3. QED
      BY <2>2, <3>1, <3>2 DEF Send, BoxOK
  <2>3. ASSUME NEW s \in Session, Stop(s), UNCHANGED name PROVE BoxOK'
    <3>1. LeaveMsg(name[s]) \in Message
      BY RequestsAreMessages DEF BoxOK
    <3>2. QED
      BY <2>3, <3>1 DEF Stop, BoxOK
  <2>4. ASSUME NEW s \in Session,
               Accept(s) \/ RefuseLeave(s) \/ StreamEnd(s) \/ Resume(s) \/ Deliver(s)
        PROVE  BoxOK'
    <3>1. CASE StreamEnd(s)
      BY <2>3, <3>1 DEF StreamEnd
    <3>2. CASE Resume(s)
      BY <2>3, <3>2 DEF Resume, BoxOK
    <3>3. CASE Deliver(s)
      BY <2>3, <3>3 DEF Deliver, BoxOK
    <3>4. CASE Accept(s) \/ RefuseLeave(s)
      BY <3>4 DEF Accept, RefuseLeave, BoxOK
    <3>5. QED
      BY <2>4, <3>1, <3>2, <3>3, <3>4
  <2>5. CASE UNCHANGED vars
    BY <2>5 DEF vars, sessionVars, BoxOK
  <2>6. QED
    BY <2>1, <2>2, <2>4, <2>5 DEF Next
<1>3. QED
  BY <1>1, <1>2, PTL DEF Spec

\* A message in the mailbox is handled as the room handles one of its own.
LEMMA HandleIsRoomStep ==
  ASSUME NEW m \in Message, Handle(m)
  PROVE  Room!Next
<1>1. CASE m.kind = "Enter"
  <2>1. m.winner \in Winner /\ m.from \in Session
    BY <1>1 DEF Message, Request, EnterMsg, LeaveMsg, StartMsg, RestartMsg, VoteMsg
  <2>2. QED
    BY <1>1, <2>1 DEF Handle, Room!Next
<1>2. CASE m.kind = "Leave"
  <2>1. m.winner \in Winner
    BY <1>2 DEF Message, Request, EnterMsg, LeaveMsg, StartMsg, RestartMsg, VoteMsg
  <2>2. QED
    BY <1>2, <2>1 DEF Handle, Room!Next
<1>3. CASE m.kind = "StartVote"
  <2>1. m.story \in Story
    BY <1>3 DEF Message, Request, EnterMsg, LeaveMsg, StartMsg, RestartMsg, VoteMsg
  <2>2. QED
    BY <1>3, <2>1 DEF Handle, Room!Next
<1>4. CASE m.kind = "Vote"
  <2>1. m.winner \in Winner /\ m.id \in StoryId /\ m.points \in Points
    BY <1>4 DEF Message, Request, EnterMsg, LeaveMsg, StartMsg, RestartMsg, VoteMsg
  <2>2. QED
    BY <1>4, <2>1 DEF Handle, Room!Next
<1>5. CASE m.kind = "RestartVote"
  BY <1>5 DEF Handle, Room!Next
<1>6. QED
  BY <1>1, <1>2, <1>3, <1>4, <1>5 DEF Handle

\* The room's actor is all that touches the room, message by message, so that
\* theorems about RoomActor can be used here.
LEMMA ServerRunsTheRoom == Spec => Room!Spec
<1>1. Init => Room!Init
  BY DEF Init
<1>2. BoxOK /\ [Next]_vars => [Room!Next]_(Room!vars)
  <2> SUFFICES ASSUME BoxOK, [Next]_vars PROVE [Room!Next]_(Room!vars)
    OBVIOUS
  <2>1. CASE RoomHandle
    <3>1. Head(roomBox) \in Message
      BY <2>1 DEF RoomHandle, BoxOK
    <3>2. Handle(Head(roomBox))
      BY <2>1 DEF RoomHandle
    <3>3. QED
      BY <3>1, <3>2, HandleIsRoomStep
  <2>2. CASE UNCHANGED roomVars
    BY <2>2 DEF roomVars, Room!vars
  <2>3. ASSUME NEW s \in Session,
               \/ Accept(s) \/ RefuseLeave(s) \/ StreamEnd(s) \/ Resume(s) \/ Deliver(s)
               \/ \E request \in Request(s) : Send(s, request)
        PROVE  UNCHANGED roomVars
    BY <2>3 DEF Accept, RefuseLeave, StreamEnd, Resume, Deliver, Send
  <2>4. CASE UNCHANGED vars
    BY <2>2, <2>4 DEF vars
  <2>5. QED
    BY <2>1, <2>2, <2>3, <2>4 DEF Next
<1>3. QED
  BY <1>1, <1>2, BoxInvariant, PTL DEF Spec, Room!Spec
-----------------------------------------------------------------------------
\* The room as it is seen by the theorems about it.
LEMMA SameRoom ==
  /\ RoomProofs!Init <=> Room!Init
  /\ [RoomProofs!Next]_(RoomProofs!vars) <=> [Room!Next]_(Room!vars)
  /\ RoomProofs!TypeOK <=> Room!TypeOK
<1>1. RoomProofs!Init <=> Room!Init
  BY DEF RoomProofs!Init, Room!Init, RoomProofs!EmptyMap, Room!EmptyMap,
         RoomProofs!Idle, Room!Idle
<1>2. RoomProofs!TypeOK <=> Room!TypeOK
  BY DEF RoomProofs!TypeOK, Room!TypeOK, RoomProofs!Map, Room!Map,
         RoomProofs!VotingState, Room!VotingState, RoomProofs!RoomState, Room!RoomState,
         RoomProofs!Idle, Room!Idle
<1>3. RoomProofs!Next <=> Room!Next
  BY DEF RoomProofs!Next, Room!Next, RoomProofs!Enter, Room!Enter, RoomProofs!Leave, Room!Leave,
         RoomProofs!RestartVote, Room!RestartVote, RoomProofs!StartVote, Room!StartVote,
         RoomProofs!Vote, Room!Vote, RoomProofs!MayVote, Room!MayVote,
         RoomProofs!CloseVote, Room!CloseVote, RoomProofs!Accept, Room!Accept,
         RoomProofs!Bail, Room!Bail, RoomProofs!BroadcastState, Room!BroadcastState,
         RoomProofs!Snapshot, Room!Snapshot, RoomProofs!roomVars, Room!roomVars,
         RoomProofs!Insert, Room!Insert, RoomProofs!Remove, Room!Remove,
         RoomProofs!Idle, Room!Idle, RoomProofs!ActiveVote, Room!ActiveVote,
         RoomProofs!Fight, Room!Fight, RoomProofs!Complete, Room!Complete,
         RoomProofs!Unanimous, Room!Unanimous, RoomProofs!Fighters, Room!Fighters,
         RoomProofs!Restrict, Room!Restrict, RoomProofs!Range, Room!Range
<1>4. UNCHANGED RoomProofs!vars <=> UNCHANGED Room!vars
  BY DEF RoomProofs!vars, Room!vars
<1>5. QED
  BY <1>1, <1>2, <1>3, <1>4

\* Its handling of a ballot, as well.
LEMMA SameVote ==
  ASSUME NEW w, NEW id, NEW p
  PROVE  RoomProofs!Vote(w, id, p) <=> Room!Vote(w, id, p)
BY DEF RoomProofs!Vote, Room!Vote, RoomProofs!MayVote, Room!MayVote,
       RoomProofs!CloseVote, Room!CloseVote, RoomProofs!Accept, Room!Accept,
       RoomProofs!Bail, Room!Bail, RoomProofs!BroadcastState, Room!BroadcastState,
       RoomProofs!Snapshot, Room!Snapshot, RoomProofs!roomVars, Room!roomVars,
       RoomProofs!Insert, Room!Insert, RoomProofs!Idle, Room!Idle,
       RoomProofs!ActiveVote, Room!ActiveVote, RoomProofs!Fight, Room!Fight,
       RoomProofs!Complete, Room!Complete, RoomProofs!Unanimous, Room!Unanimous,
       RoomProofs!Fighters, Room!Fighters, RoomProofs!Range, Room!Range

\* The room's part of the state always has its types.
LEMMA RoomTypeCorrect == Spec => []Room!TypeOK
<1>1. Spec => Room!Spec
  BY ServerRunsTheRoom
<1>2. RoomProofs!Spec => []RoomProofs!TypeOK
  <2>1. Story \subseteq [id: StoryId, title: Title]
    BY StoryAssumption
  <2>2. Points \subseteq RoomProofs!StoryPoints /\ NoVote \notin Points
    BY PointsAssumption DEF RoomProofs!StoryPoints, Room!StoryPoints
  <2>3. QED
    BY <2>1, <2>2, RoomProofs!TypeCorrect
<1>3. QED
  BY <1>1, <1>2, SameRoom, PTL DEF Room!Spec, RoomProofs!Spec
-----------------------------------------------------------------------------
\* The part of TypeOK that is not the room's.
SessionTypes ==
  /\ roomBox \in Seq(Message)
  /\ status \in [Session -> {"absent", "ready", "waiting", "stopped"}]
  /\ name \in [Session -> Winner]
  /\ reply \in [Session -> {NoReply} \cup
       [to: {"Enter", "StartVote", "RestartVote", "Vote"}, result: {"Ok", "Err"}]]
  /\ mail \in [Session -> Seq(Room!RoomState)]
  /\ view \in [Session -> {NoState} \cup Room!RoomState]
  /\ admitted \in [Session -> BOOLEAN]
  /\ reads \in [Session -> 0..MaxRequests]

\* Members are sessions; and as Cardinality counts only what is finite, there are
\* finitely many of them.
Members ==
  /\ IsFiniteSet(DOMAIN winners)
  /\ \A w \in DOMAIN winners : winners[w] \in Session

\* Only a session that waits has a request in the room's mailbox or an answer,
\* and it has one of them.
InFlight ==
  /\ \A i \in 1..Len(roomBox) :
       roomBox[i].kind # "Leave" =>
         status[roomBox[i].from] = "waiting" /\ reply[roomBox[i].from] = NoReply
  /\ \A i, j \in 1..Len(roomBox) :
       roomBox[i].kind # "Leave" /\ roomBox[j].kind # "Leave"
         /\ roomBox[i].from = roomBox[j].from => i = j
  /\ \A s \in Session : status[s] = "waiting" =>
       \/ reply[s] # NoReply
       \/ \E i \in 1..Len(roomBox) : roomBox[i].kind # "Leave" /\ roomBox[i].from = s
  /\ \A s \in Session : reply[s] # NoReply => status[s] = "waiting"

\* Who is known to the room, or has mail from it, has been let in.
OnlyTheAdmitted ==
  \A s \in Session :
    mail[s] # <<>> \/ (\E w \in DOMAIN winners : winners[w] = s) =>
      admitted[s] \/ reply[s] = [to |-> "Enter", result |-> "Ok"]

\* The inductive invariant.
IInv ==
  /\ SessionTypes /\ Members /\ InFlight /\ OnlyTheAdmitted
  /\ LatestStateIsCurrent /\ StateOnlyAfterOk /\ OkBeforeItsState
-----------------------------------------------------------------------------
\* The elements of a queue, and what is left of it.
LEMMA QueueFacts ==
  ASSUME NEW S, NEW q \in Seq(S)
  PROVE  /\ Len(q) \in Nat /\ \A i \in 1..Len(q) : q[i] \in S
         /\ q # <<>> => /\ Tail(q) \in Seq(S) /\ Len(Tail(q)) = Len(q) - 1
                        /\ Head(q) = q[1] /\ 1 \in 1..Len(q) /\ Head(q) \in S
                        /\ \A i \in 1..Len(Tail(q)) :
                             Tail(q)[i] = q[i + 1] /\ i + 1 \in 1..Len(q)
OBVIOUS

\* A message that is sent is the last of its mailbox; the others stay as they are.
LEMMA AppendFacts ==
  ASSUME NEW S, NEW q \in Seq(S), NEW x \in S
  PROVE  /\ Append(q, x) \in Seq(S) /\ Append(q, x) # <<>>
         /\ Len(q) \in Nat /\ Len(Append(q, x)) = Len(q) + 1
         /\ Append(q, x)[Len(q) + 1] = x
         /\ \A i \in 1..Len(q) : Append(q, x)[i] = q[i]
OBVIOUS

\* The last element of a queue, and of what is left of it.
LEMMA LastFacts ==
  ASSUME NEW S, NEW q \in Seq(S), q # <<>>
  PROVE  q[Len(q)] = IF Tail(q) = <<>> THEN Head(q) ELSE Tail(q)[Len(Tail(q))]
<1>1. Len(q) \in Nat /\ Tail(q) \in Seq(S) /\ Len(Tail(q)) = Len(q) - 1 /\ Head(q) = q[1]
  OBVIOUS
<1>2. \A i \in 1..Len(Tail(q)) : Tail(q)[i] = q[i + 1]
  OBVIOUS
<1>3. Tail(q) = <<>> <=> Len(Tail(q)) = 0
  BY <1>1, EmptySeq
<1>4. Tail(q) # <<>> => Tail(q)[Len(Tail(q))] = q[Len(q)]
  BY <1>1, <1>2, <1>3
<1>5. Tail(q) = <<>> => Head(q) = q[Len(q)]
  BY <1>1, <1>3
<1>6. QED
  BY <1>4, <1>5

\* The last element of a queue that copies of x have been put into.
LEMMA CopiesFacts ==
  ASSUME NEW S, NEW q \in Seq(S), NEW x, NEW c \in Seq(S), \A i \in 1..Len(c) : c[i] = x
  PROVE  /\ q \o c \in Seq(S)
         /\ Len(c) = 0 => q \o c = q
         /\ Len(c) # 0 => q \o c # <<>> /\ (q \o c)[Len(q \o c)] = x
         /\ q # <<>> => q \o c # <<>>
<1>1. q \o c \in Seq(S) /\ Len(q \o c) = Len(q) + Len(c)
  OBVIOUS
<1>2. Len(c) # 0 => (q \o c)[Len(q \o c)] = c[Len(c)]
  OBVIOUS
<1>3. Len(c) # 0 => Len(c) \in 1..Len(c)
  OBVIOUS
<1>4. Len(c) = 0 => q \o c = q
  OBVIOUS
<1>5. Len(q) \in Nat /\ (q # <<>> => Len(q) # 0)
  OBVIOUS
<1>6. Len(q \o c) # 0 => q \o c # <<>>
  OBVIOUS
<1>7. QED
  BY <1>1, <1>2, <1>3, <1>4, <1>5, <1>6

\* What a message says.
LEMMA MessageFields ==
  ASSUME NEW m \in Message
  PROVE  /\ m.kind \in {"Enter", "Leave", "StartVote", "RestartVote", "Vote"}
         /\ m.kind # "Leave" => m.from \in Session
         /\ m.kind \in {"Enter", "Leave"} => m.winner \in Winner
BY DEF Message, Request, EnterMsg, LeaveMsg, StartMsg, RestartMsg, VoteMsg

\* A request is a message of its own session, and never a Leave.
LEMMA RequestFields ==
  ASSUME NEW s \in Session, NEW request \in Request(s)
  PROVE  /\ request \in Message /\ request.kind # "Leave" /\ request.from = s
         /\ request.kind = "Enter" => request.winner \in Winner
BY DEF Message, Request, EnterMsg, LeaveMsg, StartMsg, RestartMsg, VoteMsg

\* What the room makes of a message: it bails, or it changes at most who is in
\* the room by the one who enters or leaves, and tells every member.
LEMMA HandleEffect ==
  ASSUME NEW m, Handle(m)
  PROVE  \/ /\ UNCHANGED <<winners, voting, pastVotes>>
            /\ sent' = {} /\ result' = "Err"
         \/ /\ Room!BroadcastState /\ result' = "Ok"
            /\ \/ m.kind # "Enter" /\ m.kind # "Leave" /\ winners' = winners
               \/ /\ m.kind = "Enter"
                  /\ winners' = Room!Insert(winners, m.winner, m.from)
               \/ /\ m.kind = "Leave"
                  /\ winners' = Room!Remove(winners, m.winner)
BY DEF Handle, Room!Enter, Room!Leave, Room!RestartVote, Room!StartVote, Room!Vote,
       Room!Accept, Room!Bail, Room!roomVars

\* The members after a message.
LEMMA MembersEffect ==
  ASSUME NEW m \in Message, Handle(m), Members
  PROVE  /\ Members'
         /\ \A w \in DOMAIN winners' :
              \/ w \in DOMAIN winners /\ winners'[w] = winners[w]
              \/ m.kind = "Enter" /\ winners'[w] = m.from /\ result' = "Ok"
<1>1. CASE winners' = winners
  BY <1>1 DEF Members
<1>2. CASE /\ m.kind = "Enter" /\ result' = "Ok"
           /\ winners' = Room!Insert(winners, m.winner, m.from)
  <2>1. /\ DOMAIN winners' = DOMAIN winners \cup {m.winner}
        /\ \A w \in DOMAIN winners' :
             \/ w \in DOMAIN winners /\ winners'[w] = winners[w]
             \/ winners'[w] = m.from
    BY <1>2 DEF Room!Insert
  <2>2. IsFiniteSet(DOMAIN winners')
    BY <2>1, FS_AddElement DEF Members
  <2>3. m.from \in Session
    BY <1>2, MessageFields
  <2>4. QED
    BY <1>2, <2>1, <2>2, <2>3 DEF Members
<1>3. CASE m.kind = "Leave" /\ winners' = Room!Remove(winners, m.winner)
  <2>1. /\ DOMAIN winners' = DOMAIN winners \ {m.winner}
        /\ \A w \in DOMAIN winners' : winners'[w] = winners[w]
    BY <1>3 DEF Room!Remove, Room!Restrict
  <2>2. IsFiniteSet(DOMAIN winners')
    BY <2>1, FS_RemoveElement DEF Members
  <2>3. QED
    BY <2>1, <2>2 DEF Members
<1>4. QED
  BY <1>1, <1>2, <1>3, HandleEffect

\* A session is sent copies of the new state if the room has accepted the
\* message, knows the session and the session has not stopped; else nothing.
Told(s) ==
  /\ result' = "Ok" /\ status[s] # "stopped"
  /\ \E w \in DOMAIN winners' : winners'[w] = s

\* What a session is sent by one message to the room is copies of the room's new
\* state, and some if and only if the session is told.
LEMMA CopiesSent ==
  ASSUME NEW m \in Message, Handle(m), Members, NEW s \in Session
  PROVE  \E n \in Nat : Copies(s) = [i \in 1..n |-> Room!Snapshot'] /\ (n # 0 <=> Told(s))
<1> DEFINE to == {n \in sent' : n.to = s}
           n == IF status[s] = "stopped" THEN 0 ELSE Cardinality(to)
<1>1. Copies(s) = [i \in 1..n |-> Room!Snapshot']
  BY DEF Copies
<1>2. IsFiniteSet(DOMAIN winners')
  BY MembersEffect DEF Members
<1>3. IsFiniteSet(sent')
  <2>1. CASE sent' = {}
    BY <2>1, FS_EmptySet
  <2>2. CASE Room!BroadcastState
    <3> DEFINE f == [w \in DOMAIN winners' |->
                       [member |-> w, to |-> winners'[w], state |-> Room!Snapshot']]
    <3>1. f \in Surjection(DOMAIN winners', sent')
      BY <2>2 DEF Room!BroadcastState, Surjection
    <3>2. QED
      BY <1>2, <3>1, FS_Surjection
  <2>3. QED
    BY <2>1, <2>2, HandleEffect
<1>4. IsFiniteSet(to)
  BY <1>3, FS_Subset
<1>5. Cardinality(to) \in Nat /\ (Cardinality(to) = 0 <=> to = {})
  BY <1>4, FS_CardinalityType, FS_EmptySet
<1>6. to # {} <=> result' = "Ok" /\ \E w \in DOMAIN winners' : winners'[w] = s
  <2>1. CASE sent' = {} /\ result' = "Err"
    BY <2>1
  <2>2. CASE Room!BroadcastState /\ result' = "Ok"
    <3>1. ASSUME NEW k \in to PROVE \E w \in DOMAIN winners' : winners'[w] = s
      BY <2>2, <3>1 DEF Room!BroadcastState
    <3>2. ASSUME NEW w \in DOMAIN winners', winners'[w] = s PROVE to # {}
      <4>1. [member |-> w, to |-> winners'[w], state |-> Room!Snapshot'] \in sent'
        BY <2>2 DEF Room!BroadcastState
      <4>2. QED
        BY <3>2, <4>1
    <3>3. QED
      BY <2>2, <3>1, <3>2
  <2>3. QED
    BY <2>1, <2>2, HandleEffect
<1>7. n \in Nat /\ (n # 0 <=> Told(s))
  BY <1>5, <1>6 DEF Told
<1> HIDE DEF n
<1>8. QED
  BY <1>1, <1>7
-----------------------------------------------------------------------------
EnterOk == [to |-> "Enter", result |-> "Ok"]

\* A session that stops, with nothing in the room's mailbox but, now, its Leave.
LEMMA StopKeepsIInv ==
  ASSUME IInv, NEW s \in Session, Stop(s), reply' = [reply EXCEPT ![s] = NoReply],
         UNCHANGED <<roomVars, name, view, admitted, reads>>,
         status[s] = "ready" \/ reply[s] # NoReply, reply[s] # EnterOk
  PROVE  IInv'
<1> USE DEF IInv
<1> DEFINE leave == LeaveMsg(name[s])
<1>1. /\ roomBox' = Append(roomBox, leave)
      /\ status' = [status EXCEPT ![s] = "stopped"]
      /\ mail' = [mail EXCEPT ![s] = <<>>]
  BY DEF Stop
<1>2. leave \in Message /\ leave.kind = "Leave"
  BY DEF SessionTypes, Message, LeaveMsg
<1> HIDE DEF leave
<1>3. roomBox \in Seq(Message)
  BY DEF SessionTypes
<1>4. SessionTypes'
  BY <1>1, <1>2, <1>3, AppendFacts DEF SessionTypes
<1>5. Members'
  BY DEF Members, roomVars
<1>6. InFlight'
  <2>1. \A i \in 1..Len(roomBox) :
          /\ roomBox'[i] = roomBox[i]
          /\ roomBox[i].kind # "Leave" => roomBox[i].from # s /\ roomBox[i].from \in Session
    BY <1>1, <1>2, <1>3, AppendFacts, MessageFields DEF InFlight
  <2>2. /\ Len(roomBox') = Len(roomBox) + 1 /\ Len(roomBox) \in Nat
        /\ roomBox'[Len(roomBox) + 1].kind = "Leave"
    BY <1>1, <1>2, <1>3, AppendFacts
  <2>3. \A i \in 1..Len(roomBox') : roomBox'[i].kind # "Leave" => i \in 1..Len(roomBox)
    BY <2>2
  <2>4. 1..Len(roomBox) \subseteq 1..Len(roomBox')
    BY <2>2
  <2>5. \A t \in Session : /\ status'[t] = IF t = s THEN "stopped" ELSE status[t]
                           /\ reply'[t] = IF t = s THEN NoReply ELSE reply[t]
    BY <1>1 DEF SessionTypes
  <2>6. QED
    BY <2>1, <2>3, <2>4, <2>5 DEF InFlight
<1>7. OnlyTheAdmitted'
  BY <1>1 DEF SessionTypes, OnlyTheAdmitted, roomVars, EnterOk
<1>8. LatestStateIsCurrent'
  BY <1>1 DEF SessionTypes, Members, LatestStateIsCurrent, roomVars, Room!Snapshot
<1>9. StateOnlyAfterOk'
  BY DEF StateOnlyAfterOk
<1>10. OkBeforeItsState'
  BY <1>1 DEF SessionTypes, Members, OkBeforeItsState, roomVars, NoReply
<1>11. QED
  BY <1>4, <1>5, <1>6, <1>7, <1>8, <1>9, <1>10

\* A connection is accepted, or its Leave is refused: nothing is under way.
LEMMA LocalKeepsIInv ==
  ASSUME IInv, NEW s \in Session, Accept(s) \/ RefuseLeave(s)
  PROVE  IInv'
<1> USE DEF IInv
<1>1. /\ status' \in [Session -> {"absent", "ready", "waiting", "stopped"}]
      /\ \A t \in Session : status'[t] = status[t] \/ (status[t] = "absent" /\ status'[t] = "ready")
      /\ reads' \in [Session -> 0..MaxRequests]
      /\ UNCHANGED <<roomVars, roomBox, name, reply, mail, view, admitted>>
  <2>1. CASE Accept(s)
    BY <2>1 DEF Accept, SessionTypes
  <2>2. CASE RefuseLeave(s)
    <3>1. reads[s] \in 0..MaxRequests /\ reads[s] < MaxRequests
      BY <2>2 DEF RefuseLeave, Reads, SessionTypes
    <3>2. reads[s] + 1 \in 0..MaxRequests
      BY <3>1, RequestsAssumption
    <3>3. QED
      BY <2>2, <3>2 DEF RefuseLeave, Reads, SessionTypes
  <2>3. QED
    BY <2>1, <2>2
<1>2. SessionTypes'
  BY <1>1 DEF SessionTypes
<1>3. InFlight'
  <2>1. \A i \in 1..Len(roomBox) : roomBox[i].kind # "Leave" => roomBox[i].from \in Session
    BY QueueFacts, MessageFields DEF SessionTypes
  <2>2. QED
    BY <1>1, <2>1 DEF InFlight
<1>4. Members' /\ OnlyTheAdmitted' /\ LatestStateIsCurrent'
  BY <1>1 DEF SessionTypes, Members, OnlyTheAdmitted, LatestStateIsCurrent, roomVars, Room!Snapshot
<1>5. StateOnlyAfterOk' /\ OkBeforeItsState'
  BY <1>1 DEF StateOnlyAfterOk, OkBeforeItsState, roomVars
<1>6. QED
  BY <1>2, <1>3, <1>4, <1>5

\* A session puts its only request into the room's mailbox.
LEMMA SendKeepsIInv ==
  ASSUME IInv, NEW s \in Session, NEW request \in Request(s), Send(s, request)
  PROVE  IInv'
<1> USE DEF IInv
<1>1. /\ request \in Message /\ request.kind # "Leave" /\ request.from = s
      /\ request.kind = "Enter" => request.winner \in Winner
  BY RequestFields
<1>2. /\ roomBox' = Append(roomBox, request)
      /\ status' = [status EXCEPT ![s] = "waiting"] /\ status[s] = "ready"
      /\ UNCHANGED <<roomVars, reply, mail, view, admitted>>
  BY DEF Send, Reads
<1>3. reply[s] = NoReply /\ roomBox \in Seq(Message)
  BY <1>2 DEF InFlight, SessionTypes
<1>4. SessionTypes'
  BY <1>1, <1>2, <1>3, AppendFacts, RequestsAssumption DEF SessionTypes, Send, Reads
<1>5. InFlight'
  <2>1. \A i \in 1..Len(roomBox) :
          /\ roomBox'[i] = roomBox[i]
          /\ roomBox[i].kind # "Leave" => roomBox[i].from # s /\ roomBox[i].from \in Session
    BY <1>1, <1>2, <1>3, AppendFacts, MessageFields DEF InFlight
  <2>2. /\ Len(roomBox') = Len(roomBox) + 1 /\ Len(roomBox) \in Nat
        /\ roomBox'[Len(roomBox) + 1] = request
    BY <1>1, <1>2, <1>3, AppendFacts
  <2>3. \A i \in 1..Len(roomBox') : i \in 1..Len(roomBox) \/ i = Len(roomBox) + 1
    BY <2>2
  <2>4. 1..Len(roomBox) \subseteq 1..Len(roomBox') /\ Len(roomBox) + 1 \in 1..Len(roomBox')
    BY <2>2
  <2>5. \A t \in Session : status'[t] = IF t = s THEN "waiting" ELSE status[t]
    BY <1>2 DEF SessionTypes
  <2>6. ASSUME NEW i \in 1..Len(roomBox'), roomBox'[i].kind # "Leave"
        PROVE  status'[roomBox'[i].from] = "waiting" /\ reply'[roomBox'[i].from] = NoReply
    BY <1>1, <1>2, <1>3, <2>1, <2>2, <2>3, <2>5, <2>6 DEF InFlight
  <2>7. ASSUME NEW i \in 1..Len(roomBox'), NEW j \in 1..Len(roomBox'),
               roomBox'[i].kind # "Leave", roomBox'[j].kind # "Leave",
               roomBox'[i].from = roomBox'[j].from
        PROVE  i = j
    BY <1>1, <2>1, <2>2, <2>3, <2>7 DEF InFlight
  <2>8. ASSUME NEW t \in Session, status'[t] = "waiting"
        PROVE  \/ reply'[t] # NoReply
               \/ \E i \in 1..Len(roomBox') : roomBox'[i].kind # "Leave" /\ roomBox'[i].from = t
    <3>1. CASE t = s
      BY <1>1, <2>2, <2>4, <3>1
    <3>2. CASE t # s
      BY <1>2, <2>1, <2>4, <2>5, <2>8, <3>2 DEF InFlight
    <3>3. QED
      BY <3>1, <3>2
  <2>9. \A t \in Session : reply'[t] # NoReply => status'[t] = "waiting"
    BY <1>2, <2>5 DEF InFlight
  <2>10. QED
    BY <2>6, <2>7, <2>8, <2>9 DEF InFlight
<1>6. Members' /\ OnlyTheAdmitted' /\ LatestStateIsCurrent'
  BY <1>2 DEF SessionTypes, Members, OnlyTheAdmitted, LatestStateIsCurrent, roomVars, Room!Snapshot
<1>7. StateOnlyAfterOk' /\ OkBeforeItsState'
  BY <1>2 DEF StateOnlyAfterOk, OkBeforeItsState, roomVars
<1>8. QED
  BY <1>4, <1>5, <1>6, <1>7

\* A session takes the room's answer.
LEMMA ResumeKeepsIInv ==
  ASSUME IInv, NEW s \in Session, Resume(s)
  PROVE  IInv'
<1> USE DEF IInv
<1>1. CASE Refused(s) /\ Stop(s) /\ UNCHANGED admitted
  <2>1. reply[s] # EnterOk /\ reply[s] # NoReply
    BY <1>1 DEF Resume, Refused, EnterOk
  <2>2. QED
    BY <1>1, <2>1, StopKeepsIInv DEF Resume
<1>2. CASE ~Refused(s)
  <2>1. /\ status' = [status EXCEPT ![s] = "ready"]
        /\ reply' = [reply EXCEPT ![s] = NoReply]
        /\ admitted' = [admitted EXCEPT ![s] = @ \/ reply[s].to = "Enter"]
        /\ reply[s] # NoReply
        /\ UNCHANGED <<roomVars, roomBox, mail, name, view, reads>>
    BY <1>2 DEF Resume
  <2>2. SessionTypes'
    BY <2>1 DEF SessionTypes
  <2>3. InFlight'
    <3>1. \A i \in 1..Len(roomBox) :
            roomBox[i].kind # "Leave" => roomBox[i].from \in Session /\ roomBox[i].from # s
      BY <2>1, QueueFacts, MessageFields DEF SessionTypes, InFlight
    <3>2. QED
      BY <2>1, <3>1 DEF SessionTypes, InFlight
  <2>4. OnlyTheAdmitted'
    <3>1. reply[s] = EnterOk => admitted'[s]
      <4>1. admitted'[s] = (admitted[s] \/ reply[s].to = "Enter")
        BY <2>1 DEF SessionTypes
      <4>2. reply[s] = EnterOk => reply[s].to = "Enter"
        BY DEF EnterOk
      <4>3. QED
        BY <4>1, <4>2, Zenon
    <3>2. admitted[s] => admitted'[s]
      BY <2>1 DEF SessionTypes
    <3>3. QED
      BY <2>1, <3>1, <3>2 DEF SessionTypes, OnlyTheAdmitted, EnterOk, roomVars
  <2>5. Members' /\ LatestStateIsCurrent'
    BY <2>1 DEF SessionTypes, InFlight, Members, LatestStateIsCurrent, roomVars, Room!Snapshot
  <2>6. StateOnlyAfterOk'
    BY <2>1 DEF SessionTypes, StateOnlyAfterOk
  <2>7. OkBeforeItsState'
    BY <2>1 DEF SessionTypes, Members, OkBeforeItsState, roomVars, NoReply
  <2>8. QED
    BY <2>2, <2>3, <2>4, <2>5, <2>6, <2>7
<1>3. QED
  BY <1>1, <1>2 DEF Resume

\* A session writes the oldest state in its mailbox, or stops over it.
LEMMA DeliverKeepsIInv ==
  ASSUME IInv, NEW s \in Session, Deliver(s)
  PROVE  IInv'
<1> USE DEF IInv
<1>1. status[s] = "ready" /\ mail[s] # <<>> /\ reply[s] = NoReply
  BY DEF Deliver, InFlight
<1>2. CASE Stop(s) /\ UNCHANGED view
  <2>1. reply' = [reply EXCEPT ![s] = NoReply]
    BY <1>1 DEF Deliver, SessionTypes
  <2>2. reply[s] # EnterOk
    BY <1>1 DEF EnterOk, NoReply
  <2>3. UNCHANGED <<roomVars, name, view, admitted, reads>>
    BY <1>2 DEF Deliver
  <2>4. QED
    BY <1>1, <1>2, <2>1, <2>2, <2>3, StopKeepsIInv
<1>3. CASE Encodable(Head(mail[s]))
  <2>1. /\ view' = [view EXCEPT ![s] = Head(mail[s])]
        /\ mail' = [mail EXCEPT ![s] = Tail(@)]
        /\ UNCHANGED <<roomVars, roomBox, status, name, reply, admitted, reads>>
    BY <1>3 DEF Deliver
  <2>2. mail[s] \in Seq(Room!RoomState)
    BY DEF SessionTypes
  <2>3. /\ Head(mail[s]) \in Room!RoomState /\ Tail(mail[s]) \in Seq(Room!RoomState)
        /\ mail'[s] = Tail(mail[s]) /\ view'[s] = Head(mail[s])
    BY <1>1, <2>1, <2>2, QueueFacts DEF SessionTypes
  <2>4. SessionTypes'
    BY <2>1, <2>3 DEF SessionTypes
  <2>5. Members' /\ InFlight'
    BY <2>1 DEF Members, InFlight, roomVars
  <2>6. admitted[s]
    BY <1>1 DEF OnlyTheAdmitted, NoReply
  <2>7. OnlyTheAdmitted'
    BY <2>1, <2>6 DEF SessionTypes, OnlyTheAdmitted, roomVars
  <2>8. StateOnlyAfterOk'
    BY <2>1, <2>6 DEF SessionTypes, StateOnlyAfterOk
  <2>9. LatestStateIsCurrent'
    <3>1. mail[s][Len(mail[s])] =
            IF Tail(mail[s]) = <<>> THEN Head(mail[s]) ELSE Tail(mail[s])[Len(Tail(mail[s]))]
      BY <1>1, <2>2, LastFacts
    <3>2. mail'[s] = <<>> <=> Tail(mail[s]) = <<>>
      BY <2>3
    <3>3. \A t \in Session : t # s => mail'[t] = mail[t] /\ view'[t] = view[t]
      BY <2>1 DEF SessionTypes
    <3>4. Room!Snapshot' = Room!Snapshot
      BY <2>1 DEF roomVars, Room!Snapshot
    <3>5. SUFFICES ASSUME NEW w \in DOMAIN winners, status[winners[w]] # "stopped"
                   PROVE  LET t == winners[w]
                          IN Room!Snapshot = IF mail'[t] = <<>> THEN view'[t]
                                             ELSE mail'[t][Len(mail'[t])]
      BY <2>1, <3>4 DEF LatestStateIsCurrent, roomVars
    <3>6. Room!Snapshot = IF mail[winners[w]] = <<>> THEN view[winners[w]]
                          ELSE mail[winners[w]][Len(mail[winners[w]])]
      BY <3>5 DEF LatestStateIsCurrent
    <3>7. CASE winners[w] = s
      BY <1>1, <2>3, <3>1, <3>2, <3>6, <3>7
    <3>8. CASE winners[w] # s
      BY <3>3, <3>5, <3>6, <3>8 DEF Members
    <3>9. QED
      BY <3>7, <3>8
  <2>10. OkBeforeItsState'
    BY <1>1, <2>1 DEF SessionTypes, Members, OkBeforeItsState, roomVars, NoReply
  <2>11. QED
    BY <2>4, <2>5, <2>7, <2>8, <2>9, <2>10
<1>4. QED
  BY <1>2, <1>3 DEF Deliver

\* The room takes a message out of its mailbox, answers it and tells the members.
LEMMA RoomHandleKeepsIInv ==
  ASSUME IInv, Room!TypeOK', RoomHandle
  PROVE  IInv'
<1> USE DEF IInv
<1> DEFINE m == Head(roomBox)
<1>1. /\ roomBox # <<>> /\ Handle(m) /\ roomBox' = Tail(roomBox)
      /\ mail' = [s \in Session |-> mail[s] \o Copies(s)]
      /\ reply' = IF m.kind = "Leave" THEN reply
                  ELSE [reply EXCEPT ![m.from] = [to |-> m.kind, result |-> result']]
      /\ UNCHANGED <<status, name, view, admitted, reads>>
  BY DEF RoomHandle
<1>2. /\ m \in Message /\ m = roomBox[1] /\ 1 \in 1..Len(roomBox)
      /\ roomBox' \in Seq(Message) /\ Len(roomBox') = Len(roomBox) - 1
      /\ Len(roomBox) \in Nat
      /\ \A i \in 1..Len(roomBox') : roomBox'[i] = roomBox[i + 1] /\ i + 1 \in 1..Len(roomBox)
      /\ \A i \in 1..Len(roomBox) : roomBox[i] \in Message
  BY <1>1, QueueFacts DEF SessionTypes
<1> HIDE DEF m
<1>3. /\ m.kind \in {"Enter", "Leave", "StartVote", "RestartVote", "Vote"}
      /\ m.kind # "Leave" =>
           m.from \in Session /\ status[m.from] = "waiting" /\ reply[m.from] = NoReply
  BY <1>2, MessageFields DEF InFlight
<1>4. result' \in {"Ok", "Err"} /\ Room!Snapshot' \in Room!RoomState
  <2>1. result' \in {"Ok", "Err"}
    BY <1>1, HandleEffect
  <2>2. DOMAIN winners' \in SUBSET Winner
    BY DEF Room!TypeOK, Room!Map
  <2>3. QED
    BY <2>1, <2>2 DEF Room!TypeOK, Room!Snapshot, Room!RoomState
<1>5. \A s \in Session :
        reply'[s] = IF m.kind # "Leave" /\ s = m.from
                    THEN [to |-> m.kind, result |-> result'] ELSE reply[s]
  BY <1>1, <1>3 DEF SessionTypes
<1>6. ASSUME NEW s \in Session
      PROVE  /\ mail'[s] \in Seq(Room!RoomState)
             /\ Told(s) => mail'[s] # <<>> /\ mail'[s][Len(mail'[s])] = Room!Snapshot'
             /\ ~Told(s) => mail'[s] = mail[s]
             /\ mail[s] # <<>> => mail'[s] # <<>>
  <2>1. PICK n \in Nat : Copies(s) = [i \in 1..n |-> Room!Snapshot'] /\ (n # 0 <=> Told(s))
    BY <1>1, <1>2, CopiesSent
  <2>2. mail[s] \in Seq(Room!RoomState)
    BY DEF SessionTypes
  <2>3. Copies(s) \in Seq(Room!RoomState) /\ Len(Copies(s)) = n
    BY <1>4, <2>1
  <2>4. \A i \in 1..Len(Copies(s)) : Copies(s)[i] = Room!Snapshot'
    BY <2>1, <2>3
  <2>5. mail'[s] = mail[s] \o Copies(s)
    BY <1>1
  <2>6. /\ mail'[s] \in Seq(Room!RoomState)
        /\ n = 0 => mail'[s] = mail[s]
        /\ n # 0 => mail'[s] # <<>> /\ mail'[s][Len(mail'[s])] = Room!Snapshot'
        /\ mail[s] # <<>> => mail'[s] # <<>>
    BY <2>2, <2>3, <2>4, <2>5, CopiesFacts
  <2>7. QED
    BY <2>1, <2>6
<1>7. SessionTypes'
  <2>1. mail' \in [Session -> Seq(Room!RoomState)]
    BY <1>1, <1>6
  <2>2. reply' \in [Session -> {NoReply} \cup
          [to: {"Enter", "StartVote", "RestartVote", "Vote"}, result: {"Ok", "Err"}]]
    BY <1>1, <1>3, <1>4 DEF SessionTypes
  <2>3. QED
    BY <1>1, <1>2, <2>1, <2>2 DEF SessionTypes
<1>8. Members' /\ \A w \in DOMAIN winners' :
        \/ w \in DOMAIN winners /\ winners'[w] = winners[w]
        \/ m.kind = "Enter" /\ winners'[w] = m.from /\ result' = "Ok"
  BY <1>1, <1>2, MembersEffect
<1>9. InFlight'
  <2>1. ASSUME NEW i \in 1..Len(roomBox'), roomBox'[i].kind # "Leave"
        PROVE  status'[roomBox'[i].from] = "waiting" /\ reply'[roomBox'[i].from] = NoReply
    <3>1. roomBox'[i] = roomBox[i + 1] /\ i + 1 \in 1..Len(roomBox) /\ i + 1 # 1
      BY <1>2
    <3>2. roomBox[i + 1].from \in Session
      BY <1>2, <2>1, <3>1, MessageFields
    <3>3. m.kind # "Leave" => m.from # roomBox[i + 1].from
      BY <1>2, <2>1, <3>1 DEF InFlight
    <3>4. status[roomBox[i + 1].from] = "waiting" /\ reply[roomBox[i + 1].from] = NoReply
      BY <2>1, <3>1 DEF InFlight
    <3>5. QED
      BY <1>1, <1>5, <3>1, <3>2, <3>3, <3>4
  <2>2. ASSUME NEW i \in 1..Len(roomBox'), NEW j \in 1..Len(roomBox'),
               roomBox'[i].kind # "Leave", roomBox'[j].kind # "Leave",
               roomBox'[i].from = roomBox'[j].from
        PROVE  i = j
    <3>1. i + 1 = j + 1
      BY <1>2, <2>2 DEF InFlight
    <3>2. QED
      BY <3>1
  <2>3. ASSUME NEW s \in Session, status'[s] = "waiting", reply'[s] = NoReply
        PROVE  \E i \in 1..Len(roomBox') : roomBox'[i].kind # "Leave" /\ roomBox'[i].from = s
    <3>1. reply[s] = NoReply /\ ~(m.kind # "Leave" /\ m.from = s)
      BY <1>3, <1>5, <2>3 DEF NoReply
    <3>2. PICK i \in 1..Len(roomBox) : roomBox[i].kind # "Leave" /\ roomBox[i].from = s
      BY <1>1, <2>3, <3>1 DEF InFlight
    <3>3. i # 1
      BY <1>2, <3>1, <3>2
    <3>4. i - 1 \in 1..Len(roomBox') /\ roomBox'[i - 1] = roomBox[i]
      BY <1>2, <3>3
    <3>5. QED
      BY <3>2, <3>4
  <2>4. ASSUME NEW s \in Session, reply'[s] # NoReply
        PROVE  status'[s] = "waiting"
    BY <1>1, <1>3, <1>5, <2>4 DEF InFlight
  <2>5. QED
    BY <2>1, <2>2, <2>3, <2>4 DEF InFlight
<1>10. OnlyTheAdmitted'
  <2> SUFFICES ASSUME NEW s \in Session,
                      mail'[s] # <<>> \/ (\E w \in DOMAIN winners' : winners'[w] = s)
               PROVE  admitted'[s] \/ reply'[s] = EnterOk
    BY DEF OnlyTheAdmitted, EnterOk
  <2>1. mail[s] # <<>> \/ \E w \in DOMAIN winners' : winners'[w] = s
    BY <1>6 DEF Told
  <2>2. CASE m.kind = "Enter" /\ s = m.from /\ result' = "Ok"
    BY <1>5, <2>2 DEF EnterOk
  <2>3. CASE ~(m.kind = "Enter" /\ s = m.from /\ result' = "Ok")
    <3>1. mail[s] # <<>> \/ \E w \in DOMAIN winners : winners[w] = s
      BY <1>8, <2>1, <2>3
    <3>2. admitted[s] \/ reply[s] = EnterOk
      BY <3>1 DEF OnlyTheAdmitted, EnterOk
    <3>3. reply[s] = EnterOk => reply'[s] = EnterOk
      BY <1>3, <1>5 DEF EnterOk, NoReply
    <3>4. QED
      BY <1>1, <3>2, <3>3
  <2>4. QED
    BY <2>2, <2>3
<1>11. LatestStateIsCurrent'
  <2> SUFFICES ASSUME NEW w \in DOMAIN winners', status'[winners'[w]] # "stopped"
               PROVE  Room!Snapshot' = IF mail'[winners'[w]] = <<>> THEN view'[winners'[w]]
                        ELSE mail'[winners'[w]][Len(mail'[winners'[w]])]
    BY DEF LatestStateIsCurrent
  <2>1. winners'[w] \in Session /\ view'[winners'[w]] = view[winners'[w]]
    BY <1>1, <1>8 DEF Members
  <2>2. CASE result' = "Ok"
    <3>1. Told(winners'[w])
      BY <1>1, <2>2 DEF Told
    <3>2. QED
      BY <1>6, <2>1, <3>1
  <2>3. CASE UNCHANGED <<winners, voting, pastVotes>> /\ result' = "Err"
    <3>1. ~Told(winners'[w])
      BY <2>3 DEF Told
    <3>2. mail'[winners'[w]] = mail[winners'[w]]
      BY <1>6, <2>1, <3>1
    <3>3. Room!Snapshot' = Room!Snapshot
      BY <2>3 DEF Room!Snapshot
    <3>4. QED
      BY <1>1, <2>1, <2>3, <3>2, <3>3 DEF LatestStateIsCurrent
  <2>4. QED
    BY <1>1, <2>2, <2>3, HandleEffect
<1>12. StateOnlyAfterOk'
  BY <1>1 DEF StateOnlyAfterOk
<1>13. OkBeforeItsState'
  <2> SUFFICES ASSUME NEW w \in DOMAIN winners', reply'[winners'[w]].result = "Ok"
               PROVE  mail'[winners'[w]] # <<>>
    BY DEF OkBeforeItsState
  <2> DEFINE s == winners'[w]
  <2>1. s \in Session
    BY <1>8 DEF Members
  <2>2. CASE m.kind # "Leave" /\ s = m.from
    <3>1. result' = "Ok" /\ status[s] # "stopped"
      BY <1>3, <1>5, <2>1, <2>2
    <3>2. Told(s)
      BY <3>1 DEF Told
    <3>3. QED
      BY <1>6, <2>1, <3>2
  <2>3. CASE ~(m.kind # "Leave" /\ s = m.from)
    <3>1. reply[s].result = "Ok"
      BY <1>5, <2>1, <2>3
    <3>2. w \in DOMAIN winners /\ winners[w] = s
      BY <1>3, <1>8, <2>3
    <3>3. mail[s] # <<>>
      BY <3>1, <3>2 DEF OkBeforeItsState
    <3>4. QED
      BY <1>6, <2>1, <3>3
  <2>4. QED
    BY <2>2, <2>3
<1>14. QED
  BY <1>7, <1>8, <1>9, <1>10, <1>11, <1>12, <1>13
-----------------------------------------------------------------------------
\* Nothing has happened yet.
LEMMA InitIInv == Init => IInv
<1> SUFFICES ASSUME Init PROVE IInv
  OBVIOUS
<1>1. DOMAIN winners = {}
  BY DEF Init, Room!Init, Room!EmptyMap
<1>2. SessionTypes
  BY NamesAssumption, RequestsAssumption DEF Init, SessionTypes
<1>3. Members
  BY <1>1, FS_EmptySet DEF Members
<1>4. InFlight /\ OnlyTheAdmitted
  BY <1>1 DEF Init, InFlight, OnlyTheAdmitted
<1>5. LatestStateIsCurrent /\ StateOnlyAfterOk /\ OkBeforeItsState
  BY <1>1 DEF Init, LatestStateIsCurrent, StateOnlyAfterOk, OkBeforeItsState
<1>6. QED
  BY <1>2, <1>3, <1>4, <1>5 DEF IInv

\* IInv is inductive, given the types of the room's variables.
LEMMA NextKeepsIInv == IInv /\ Room!TypeOK' /\ [Next]_vars => IInv'
<1> SUFFICES ASSUME IInv, Room!TypeOK', [Next]_vars PROVE IInv'
  OBVIOUS
<1>1. CASE RoomHandle
  BY <1>1, RoomHandleKeepsIInv
<1>2. ASSUME NEW s \in Session,
             \/ Accept(s) \/ RefuseLeave(s) \/ StreamEnd(s) \/ Resume(s) \/ Deliver(s)
             \/ \E request \in Request(s) : Send(s, request)
      PROVE  IInv'
  <2>1. CASE StreamEnd(s)
    <3>1. status[s] = "ready" /\ Stop(s) /\ UNCHANGED <<roomVars, name, reply, view, admitted, reads>>
      BY <2>1 DEF StreamEnd
    <3>2. reply[s] = NoReply
      BY <3>1 DEF IInv, InFlight
    <3>3. reply' = [reply EXCEPT ![s] = NoReply] /\ reply[s] # EnterOk
      BY <3>1, <3>2 DEF IInv, SessionTypes, NoReply, EnterOk
    <3>4. QED
      BY <3>1, <3>3, StopKeepsIInv
  <2>2. QED
    BY <1>2, <2>1, LocalKeepsIInv, SendKeepsIInv, ResumeKeepsIInv, DeliverKeepsIInv
<1>3. CASE UNCHANGED vars
  <2>1. UNCHANGED <<roomBox, status, name, reply, mail, view, admitted, reads>>
        /\ UNCHANGED <<winners, voting, pastVotes>>
    BY <1>3 DEF vars, roomVars, sessionVars
  <2>2. SessionTypes' /\ Members' /\ InFlight' /\ OnlyTheAdmitted'
    BY <2>1 DEF IInv, SessionTypes, Members, InFlight, OnlyTheAdmitted
  <2>3. LatestStateIsCurrent' /\ StateOnlyAfterOk' /\ OkBeforeItsState'
    BY <2>1 DEF IInv, LatestStateIsCurrent, StateOnlyAfterOk, OkBeforeItsState, Room!Snapshot
  <2>4. QED
    BY <2>2, <2>3 DEF IInv
<1>4. QED
  BY <1>1, <1>2, <1>3 DEF Next

\* The strengthening: what a session waits for is under way once, and the states
\* a member has been sent end with the one the room is in.
THEOREM InvariantHolds == Spec => []IInv
BY InitIInv, NextKeepsIInv, RoomTypeCorrect, PTL DEF Spec

\* Every variable of the server keeps its type.
THEOREM TypeCorrect == Spec => []TypeOK
<1>1. IInv /\ Room!TypeOK => TypeOK
  BY DEF IInv, SessionTypes, TypeOK
<1>2. QED
  BY <1>1, InvariantHolds, RoomTypeCorrect, PTL

\* A session waits for exactly one thing: the code pairs an answer with the
\* request before it because `.wait(ctx)' keeps the next one unread.
THEOREM AnswersPairUp == Spec => []OneRequestInFlight
<1>1. IInv => OneRequestInFlight
  <2> SUFFICES ASSUME IInv, NEW s \in Session
               PROVE  LET asked == {i \in DOMAIN roomBox :
                                      roomBox[i].kind # "Leave" /\ roomBox[i].from = s}
                      IN Cardinality(asked) + (IF reply[s] = NoReply THEN 0 ELSE 1)
                           = IF status[s] = "waiting" THEN 1 ELSE 0
    BY DEF OneRequestInFlight
  <2> DEFINE asked == {i \in DOMAIN roomBox :
                         roomBox[i].kind # "Leave" /\ roomBox[i].from = s}
  <2>1. DOMAIN roomBox = 1..Len(roomBox)
    BY DEF IInv, SessionTypes
  <2>2. CASE asked = {}
    <3>1. Cardinality(asked) = 0
      BY <2>2, FS_EmptySet
    <3>2. status[s] = "waiting" <=> reply[s] # NoReply
      BY <2>1, <2>2 DEF IInv, InFlight
    <3>3. QED
      BY <3>1, <3>2
  <2>3. CASE asked # {}
    <3>1. PICK i \in asked : TRUE
      BY <2>3
    <3>2. asked = {i}
      BY <2>1, <3>1 DEF IInv, InFlight
    <3>3. Cardinality(asked) = 1
      BY <3>2, FS_Singleton
    <3>4. status[s] = "waiting" /\ reply[s] = NoReply
      BY <2>1, <3>1 DEF IInv, InFlight
    <3>5. QED
      BY <3>3, <3>4
  <2>4. QED
    BY <2>2, <2>3
<1>2. QED
  BY <1>1, InvariantHolds, PTL

\* No member misses the room's latest state, however requests, evictions and
\* renamings interleave.
THEOREM NoStateIsLost == Spec => []LatestStateIsCurrent
<1>1. IInv => LatestStateIsCurrent
  BY DEF IInv
<1>2. QED
  BY <1>1, InvariantHolds, PTL

\* No state is written to a client before the Ok to its Enter.
THEOREM AdmittedFirst == Spec => []StateOnlyAfterOk
<1>1. IInv => StateOnlyAfterOk
  BY DEF IInv
<1>2. QED
  BY <1>1, InvariantHolds, PTL

\* The Ok to a member's request is read before the state it led to.
THEOREM OkComesFirst == Spec => []OkBeforeItsState
<1>1. IInv => OkBeforeItsState
  BY DEF IInv
<1>2. QED
  BY <1>1, InvariantHolds, PTL
-----------------------------------------------------------------------------
\* A session that stops gives up the name it has.
LEMMA StopGivesUpName ==
  ASSUME IInv, OnlyFormerNamesStay, NEW s \in Session, Stop(s), UNCHANGED <<roomVars, name>>
  PROVE  OnlyFormerNamesStay'
<1> SUFFICES ASSUME NEW w \in DOMAIN winners,
                    status'[winners[w]] = "stopped", name[winners[w]] = w
             PROVE  \E i \in DOMAIN roomBox' : roomBox'[i] = LeaveMsg(w)
  BY DEF OnlyFormerNamesStay, roomVars
<1>1. LeaveMsg(name[s]) \in Message
  BY RequestsAreMessages DEF IInv, SessionTypes
<1>2. /\ roomBox' = Append(roomBox, LeaveMsg(name[s]))
      /\ roomBox \in Seq(Message) /\ roomBox' \in Seq(Message)
      /\ DOMAIN roomBox = 1..Len(roomBox) /\ DOMAIN roomBox' = 1..Len(roomBox')
  BY <1>1 DEF Stop, IInv, SessionTypes
<1>3. /\ Len(roomBox') = Len(roomBox) + 1 /\ Len(roomBox) \in Nat
      /\ roomBox'[Len(roomBox) + 1] = LeaveMsg(name[s])
      /\ \A i \in 1..Len(roomBox) : roomBox'[i] = roomBox[i]
  BY <1>1, <1>2, AppendFacts
<1>4. CASE winners[w] = s
  BY <1>2, <1>3, <1>4
<1>5. CASE winners[w] # s
  <2>1. status[winners[w]] = "stopped"
    BY <1>5 DEF Stop, IInv, SessionTypes, Members
  <2>2. PICK i \in 1..Len(roomBox) : roomBox[i] = LeaveMsg(w)
    BY <1>2, <2>1 DEF OnlyFormerNamesStay
  <2>3. QED
    BY <1>2, <1>3, <2>2
<1>6. QED
  BY <1>4, <1>5

\* The room takes a seat away when it handles the Leave that was on its way, and
\* gives none to a session that has stopped.
LEMMA HandlingKeepsNames ==
  ASSUME IInv, OnlyFormerNamesStay, RoomHandle
  PROVE  OnlyFormerNamesStay'
<1> DEFINE m == Head(roomBox)
<1>1. Handle(m) /\ roomBox' = Tail(roomBox) /\ UNCHANGED <<status, name>>
  BY DEF RoomHandle
<1>2. /\ m \in Message /\ m = roomBox[1] /\ 1 \in 1..Len(roomBox)
      /\ Len(roomBox') = Len(roomBox) - 1 /\ Len(roomBox) \in Nat
      /\ DOMAIN roomBox = 1..Len(roomBox) /\ DOMAIN roomBox' = 1..Len(roomBox')
      /\ \A i \in 1..Len(roomBox') : roomBox'[i] = roomBox[i + 1]
  BY QueueFacts DEF RoomHandle, IInv, SessionTypes
<1> HIDE DEF m
<1> SUFFICES ASSUME NEW w \in DOMAIN winners',
                    status[winners'[w]] = "stopped", name[winners'[w]] = w
             PROVE  \E i \in DOMAIN roomBox' : roomBox'[i] = LeaveMsg(w)
  BY <1>1 DEF OnlyFormerNamesStay
<1>3. m.kind = "Enter" => status[m.from] = "waiting"
  BY <1>2 DEF IInv, InFlight
<1>4. /\ w \in DOMAIN winners /\ winners'[w] = winners[w]
      /\ ~(m.kind = "Leave" /\ m.winner = w)
  BY <1>1, <1>3 DEF Handle, Room!Enter, Room!Leave, Room!RestartVote, Room!StartVote,
       Room!Vote, Room!Accept, Room!Bail, Room!roomVars, Room!Insert, Room!Remove, Room!Restrict
<1>5. PICK i \in 1..Len(roomBox) : roomBox[i] = LeaveMsg(w)
  BY <1>2, <1>4 DEF OnlyFormerNamesStay
<1>6. i # 1
  BY <1>2, <1>4, <1>5 DEF LeaveMsg
<1>7. i - 1 \in 1..Len(roomBox') /\ roomBox'[i - 1] = roomBox[i]
  BY <1>2, <1>6
<1>8. QED
  BY <1>2, <1>5, <1>7

\* Whatever a client has sent, the name its session had last is given up when
\* the connection ends: only a seat under a name it had before is left behind.
THEOREM LastNameIsGivenUp == Spec => []OnlyFormerNamesStay
<1>1. Init => OnlyFormerNamesStay
  BY DEF Init, Room!Init, Room!EmptyMap, OnlyFormerNamesStay
<1>2. IInv /\ OnlyFormerNamesStay /\ [Next]_vars => OnlyFormerNamesStay'
  <2> SUFFICES ASSUME IInv, OnlyFormerNamesStay, [Next]_vars PROVE OnlyFormerNamesStay'
    OBVIOUS
  <2>1. CASE RoomHandle
    BY <2>1, HandlingKeepsNames
  <2>2. ASSUME NEW s \in Session, NEW request \in Request(s), Send(s, request)
        PROVE  OnlyFormerNamesStay'
    <3>1. request \in Message
      BY RequestFields
    <3>2. /\ winners' = winners /\ status[s] = "ready"
          /\ status' = [status EXCEPT ![s] = "waiting"]
          /\ name' = name \/ \E w : name' = [name EXCEPT ![s] = w]
          /\ roomBox' = Append(roomBox, request)
      BY <2>2 DEF Send, Reads, roomVars
    <3>3. \A w \in DOMAIN winners : status'[winners[w]] = "stopped" =>
            /\ winners[w] # s /\ status[winners[w]] = "stopped"
            /\ name'[winners[w]] = name[winners[w]]
      BY <3>2 DEF IInv, SessionTypes, Members
    <3>4. \A i \in DOMAIN roomBox : i \in DOMAIN roomBox' /\ roomBox'[i] = roomBox[i]
      BY <3>1, <3>2, AppendFacts DEF IInv, SessionTypes
    <3>5. QED
      BY <3>2, <3>3, <3>4 DEF OnlyFormerNamesStay
  <2>3. ASSUME UNCHANGED <<winners, roomBox, name>>,
               \A w \in DOMAIN winners :
                 status'[winners[w]] = "stopped" => status[winners[w]] = "stopped"
        PROVE  OnlyFormerNamesStay'
    BY <2>3 DEF OnlyFormerNamesStay
  <2>4. ASSUME NEW s \in Session,
               Accept(s) \/ RefuseLeave(s) \/ StreamEnd(s) \/ Resume(s) \/ Deliver(s)
        PROVE  OnlyFormerNamesStay'
    <3>1. CASE Stop(s) /\ UNCHANGED <<roomVars, name>>
      BY <3>1, StopGivesUpName
    <3>2. CASE /\ UNCHANGED <<winners, roomBox, name>>
               /\ \/ UNCHANGED status
                  \/ status' = [status EXCEPT ![s] = "ready"]
      <4>1. \A w \in DOMAIN winners :
              status'[winners[w]] = "stopped" => status[winners[w]] = "stopped"
        BY <3>2 DEF IInv, SessionTypes, Members
      <4>2. QED
        BY <2>3, <3>2, <4>1
    <3>3. QED
      BY <2>4, <3>1, <3>2
      DEF Accept, RefuseLeave, StreamEnd, Resume, Deliver, Reads, roomVars
  <2>5. CASE UNCHANGED vars
    BY <2>3, <2>5 DEF vars, roomVars, sessionVars
  <2>6. QED
    BY <2>1, <2>2, <2>4, <2>5 DEF Next
<1>3. QED
  BY <1>1, <1>2, InvariantHolds, PTL DEF Spec
-----------------------------------------------------------------------------
\* What RoomActorProofs shows of the room by itself is true of the room that the
\* sessions talk to: a vote rests only while a ballot is missing, a fight is a
\* disagreement, neither the story nor the participants of a vote change, a
\* result is what everybody cast, and a vote without participants never ends.
THEOREM TheRoomKeepsItsPromises ==
  Spec => /\ [](Room!OpenVoteMissesABallot /\ Room!FightIsADisagreement)
          /\ Room!ElectorateFrozen /\ Room!ResultIsUnanimous /\ Room!EmptyVoteNeverEnds
<1>1. /\ Story \subseteq [id: StoryId, title: Title]
      /\ Points \subseteq RoomProofs!StoryPoints /\ NoVote \notin Points
  BY StoryAssumption, PointsAssumption DEF RoomProofs!StoryPoints, Room!StoryPoints
<1>2. /\ RoomProofs!Spec => []RoomProofs!OpenVoteMissesABallot
      /\ RoomProofs!Spec => []RoomProofs!FightIsADisagreement
  BY <1>1, RoomProofs!OpenVotesMissABallot, RoomProofs!FightsAreDisagreements
<1>3. /\ RoomProofs!Spec => RoomProofs!ElectorateFrozen
      /\ RoomProofs!Spec => RoomProofs!ResultIsUnanimous
      /\ RoomProofs!Spec => RoomProofs!EmptyVoteNeverEnds
  BY <1>1, RoomProofs!ElectorateIsFrozen, RoomProofs!ResultsAreUnanimous,
     RoomProofs!EmptyVoteIsForEver
<1>4. /\ RoomProofs!OpenVoteMissesABallot <=> Room!OpenVoteMissesABallot
      /\ RoomProofs!FightIsADisagreement <=> Room!FightIsADisagreement
  BY DEF RoomProofs!OpenVoteMissesABallot, Room!OpenVoteMissesABallot,
         RoomProofs!FightIsADisagreement, Room!FightIsADisagreement,
         RoomProofs!Complete, Room!Complete
<1>5. UNCHANGED RoomProofs!vars <=> UNCHANGED Room!vars
  BY DEF RoomProofs!vars, Room!vars
<1>6. Spec => Room!Spec
  BY ServerRunsTheRoom
<1>7. Spec => RoomProofs!Spec
  BY <1>6, SameRoom, PTL DEF Room!Spec, RoomProofs!Spec
<1>8. RoomProofs!Idle = Room!Idle
  BY DEF RoomProofs!Idle, Room!Idle
<1>9. RoomProofs!ElectorateFrozen => Room!ElectorateFrozen
  <2>1. (voting # RoomProofs!Idle /\ voting' # RoomProofs!Idle) <=>
        (voting # Room!Idle /\ voting' # Room!Idle)
    BY <1>8
  <2>2. QED
    BY <1>5, <2>1, PTL DEF RoomProofs!ElectorateFrozen, Room!ElectorateFrozen
<1>10. RoomProofs!ResultIsUnanimous => Room!ResultIsUnanimous
  <2>1. /\ voting' = RoomProofs!Idle <=> voting' = Room!Idle
        /\ voting # RoomProofs!Idle <=> voting # Room!Idle
    BY <1>8
  <2>2. \A w \in Winner, id \in StoryId, p \in Points :
          RoomProofs!Vote(w, id, p) <=> Room!Vote(w, id, p)
    BY SameVote
  <2>3. \A s, p : RoomProofs!Insert(pastVotes, s, p) = Room!Insert(pastVotes, s, p)
    BY DEF RoomProofs!Insert, Room!Insert
  <2>4. (\E w \in Winner, id \in StoryId, p \in Points : RoomProofs!Vote(w, id, p)) <=>
        (\E w \in Winner, id \in StoryId, p \in Points : Room!Vote(w, id, p))
    BY <2>2
  <2>5. (\A w \in Winner, id \in StoryId, p \in Points :
           RoomProofs!Vote(w, id, p) =>
             /\ w \in DOMAIN voting.participants
             /\ \A v \in DOMAIN voting.participants \ {w} : voting.participants[v] = p
             /\ pastVotes' = RoomProofs!Insert(pastVotes, voting.story, p)) <=>
        (\A w \in Winner, id \in StoryId, p \in Points :
           Room!Vote(w, id, p) =>
             /\ w \in DOMAIN voting.participants
             /\ \A v \in DOMAIN voting.participants \ {w} : voting.participants[v] = p
             /\ pastVotes' = Room!Insert(pastVotes, voting.story, p))
    BY <2>2, <2>3
  <2>6. QED
    BY <1>5, <2>1, <2>4, <2>5, PTL DEF RoomProofs!ResultIsUnanimous, Room!ResultIsUnanimous
<1>11. RoomProofs!EmptyVoteNeverEnds => Room!EmptyVoteNeverEnds
  BY <1>5, PTL DEF RoomProofs!EmptyVoteNeverEnds, Room!EmptyVoteNeverEnds
<1>12. QED
  BY <1>2, <1>3, <1>4, <1>7, <1>9, <1>10, <1>11, PTL
-----------------------------------------------------------------------------
\* A connection that has ended and has no seat.
Gone(s) == status[s] = "stopped" /\ \A w \in DOMAIN winners : winners[w] # s

\* The safety half of SeatsAreGivenUp, for any clients: whose connection has ended
\* and whose seat is given up never sits in the room again, as no Enter of an
\* ended connection is left in the room's mailbox.
THEOREM TheGoneStayOut == Spec => \A s \in Session : [][Gone(s) => Gone(s)']_vars
<1>1. ASSUME NEW s \in Session, IInv, [Next]_vars, Gone(s) PROVE Gone(s)'
  <2>1. CASE RoomHandle
    <3> DEFINE m == Head(roomBox)
    <3>1. roomBox # <<>> /\ Handle(m) /\ status' = status
      BY <2>1 DEF RoomHandle
    <3>2. m \in Message /\ m = roomBox[1] /\ 1 \in 1..Len(roomBox)
      BY <1>1, <3>1, QueueFacts DEF IInv, SessionTypes
    <3>3. m.kind = "Enter" => m.from # s
      BY <1>1, <3>2 DEF IInv, InFlight, Gone
    <3> HIDE DEF m
    <3>4. \A w \in DOMAIN winners' : winners'[w] # s
      BY <1>1, <3>1, <3>2, <3>3, MembersEffect DEF IInv, Gone
    <3>5. QED
      BY <1>1, <3>1, <3>4 DEF Gone
  <2>2. ASSUME NEW t \in Session,
               \/ Accept(t) \/ RefuseLeave(t) \/ StreamEnd(t) \/ Resume(t) \/ Deliver(t)
               \/ \E request \in Request(t) : Send(t, request)
        PROVE  Gone(s)'
    <3>1. winners' = winners
      BY <2>2 DEF Accept, RefuseLeave, StreamEnd, Resume, Deliver, Send, roomVars
    <3>2. \/ status' = status
          \/ /\ status[t] # "stopped"
             /\ \E new : status' = [status EXCEPT ![t] = new]
      BY <2>2 DEF Accept, RefuseLeave, StreamEnd, Resume, Deliver, Send, Reads, Stop
    <3>3. status \in [Session -> {"absent", "ready", "waiting", "stopped"}]
      BY <1>1 DEF IInv, SessionTypes
    <3>4. status'[s] = "stopped"
      BY <1>1, <3>2, <3>3 DEF Gone
    <3>5. QED
      BY <1>1, <3>1, <3>4 DEF Gone
  <2>3. CASE UNCHANGED vars
    BY <1>1, <2>3 DEF vars, roomVars, sessionVars, Gone
  <2>4. QED
    BY <1>1, <2>1, <2>2, <2>3 DEF Next
<1>2. ASSUME NEW s \in Session PROVE Spec => [][Gone(s) => Gone(s)']_vars
  <2>1. IInv /\ [Next]_vars => [Gone(s) => Gone(s)']_vars
    BY <1>1
  <2>2. QED
    BY <2>1, InvariantHolds, PTL DEF Spec
<1>3. QED
  BY <1>2
=============================================================================

------------------------ MODULE ActorServerCliProofs ------------------------
(* Theorems about the server of ActorServer with clients as winner_cli: who *)
(* sits in the room and who is taken out of it.  That a client enters once, *)
(* first, and under the name it was started with makes a member's name its  *)
(* session's own; that the names differ makes it no other's.                *)
EXTENDS ActorServerProofs

\* A session is named after its first request, and with it its request to enter
\* and its seat.
NamesAreOwn ==
  /\ \A s \in Session : name[s] = IF reads[s] = 0 THEN Invalid ELSE NameOf[s]
  /\ \A i \in 1..Len(roomBox) : roomBox[i].kind = "Enter" =>
       roomBox[i].winner = NameOf[roomBox[i].from] /\ reads[roomBox[i].from] # 0
  /\ \A w \in DOMAIN winners : w = NameOf[winners[w]] /\ reads[winners[w]] # 0

\* Who is said to leave had no name yet, or his connection has ended.
LeavesAreOwn ==
  \A i \in 1..Len(roomBox) : roomBox[i].kind = "Leave" =>
    \/ roomBox[i].winner = Invalid
    \/ \E s \in Session : status[s] = "stopped" /\ roomBox[i].winner = NameOf[s]

\* The seat of a session that has stopped is about to be given up.
SeatInv ==
  \A w \in DOMAIN winners : status[winners[w]] = "stopped" =>
    \E i \in 1..Len(roomBox) : roomBox[i] = LeaveMsg(w)

\* The inductive invariant, which is so together with IInv.
CliInv == NamesAreOwn /\ LeavesAreOwn /\ SeatInv

\* What winner_cli asks is within what a client may ask, so that whatever holds
\* with any clients holds with these.
LEMMA CliRequestsAreRequests ==
  ASSUME NEW s \in Session
  PROVE  CliRequest(s) \subseteq Request(s)
<1>1. NameOf[s] \in Winner
  BY NamesAssumption
<1>2. QED
  BY <1>1 DEF CliRequest, Request

\* Clients as winner_cli are clients: what holds with any holds with these.
LEMMA CliRefinesAny == CliSpec => Spec
<1>1. [CliNext]_vars => [Next]_vars
  <2>1. CliNext => Next
    BY CliRequestsAreRequests DEF CliNext, Next
  <2>2. QED
    BY <2>1
<1>2. QED
  BY <1>1, PTL DEF CliSpec, Spec

\* In particular the invariant of ActorServerProofs, and the room's types.
LEMMA CliInvariants == CliSpec => [](IInv /\ Room!TypeOK)
BY CliRefinesAny, InvariantHolds, RoomTypeCorrect, PTL
-----------------------------------------------------------------------------
\* A request of winner_cli is to enter under its own name, or not to enter.
LEMMA CliRequestFields ==
  ASSUME NEW s \in Session, NEW request \in CliRequest(s)
  PROVE  /\ request \in Message /\ request.kind # "Leave" /\ request.from = s
         /\ request.kind = "Enter" <=> reads[s] = 0
         /\ request.kind = "Enter" => request.winner = NameOf[s]
<1>1. request \in Request(s)
  BY CliRequestsAreRequests
<1>2. /\ request.kind = "Enter" <=> reads[s] = 0
      /\ request.kind = "Enter" => request.winner = NameOf[s]
  BY DEF CliRequest, EnterMsg, StartMsg, VoteMsg
<1>3. QED
  BY <1>1, <1>2, RequestFields

\* Steps that do not touch names, seats or the room's mailbox.
LEMMA QuietKeepsCliInv ==
  ASSUME IInv, CliInv, UNCHANGED <<roomVars, roomBox, name, reads>>,
         \A t \in Session : status'[t] = "stopped" <=> status[t] = "stopped"
  PROVE  CliInv'
<1>1. NamesAreOwn'
  BY DEF CliInv, NamesAreOwn, roomVars
<1>2. LeavesAreOwn'
  BY DEF CliInv, LeavesAreOwn
<1>3. SeatInv'
  BY DEF CliInv, SeatInv, roomVars, IInv, Members
<1>4. QED
  BY <1>1, <1>2, <1>3 DEF CliInv

\* A session that stops tells the room that its own name leaves.
LEMMA StopKeepsCliInv ==
  ASSUME IInv, CliInv, NEW s \in Session, Stop(s), UNCHANGED <<roomVars, name, reads>>
  PROVE  CliInv'
<1> DEFINE leave == LeaveMsg(name[s])
<1>1. roomBox' = Append(roomBox, leave)
  BY DEF Stop
<1>2. leave \in Message /\ leave.kind = "Leave" /\ leave.winner = name[s]
  BY DEF IInv, SessionTypes, Message, LeaveMsg
<1>3. name[s] = IF reads[s] = 0 THEN Invalid ELSE NameOf[s]
  BY DEF CliInv, NamesAreOwn
<1>4. ASSUME NEW w \in DOMAIN winners, winners[w] = s PROVE leave = LeaveMsg(w)
  BY <1>3, <1>4 DEF CliInv, NamesAreOwn
<1> HIDE DEF leave
<1>5. /\ Len(roomBox') = Len(roomBox) + 1 /\ Len(roomBox) \in Nat
      /\ roomBox'[Len(roomBox) + 1] = leave
      /\ \A i \in 1..Len(roomBox) : roomBox'[i] = roomBox[i] /\ roomBox[i] \in Message
  BY <1>1, <1>2, AppendFacts DEF IInv, SessionTypes
<1>6. /\ \A i \in 1..Len(roomBox') : i \in 1..Len(roomBox) \/ i = Len(roomBox) + 1
      /\ 1..Len(roomBox) \subseteq 1..Len(roomBox') /\ Len(roomBox) + 1 \in 1..Len(roomBox')
  BY <1>5
<1>7. \A t \in Session : status'[t] = IF t = s THEN "stopped" ELSE status[t]
  BY DEF Stop, IInv, SessionTypes
<1>8. NamesAreOwn'
  <2>1. \A i \in 1..Len(roomBox') : roomBox'[i].kind = "Enter" => i \in 1..Len(roomBox)
    BY <1>2, <1>5, <1>6
  <2>2. QED
    BY <1>5, <2>1 DEF CliInv, NamesAreOwn, roomVars
<1>9. LeavesAreOwn'
  <2> SUFFICES ASSUME NEW i \in 1..Len(roomBox'), roomBox'[i].kind = "Leave"
               PROVE  \/ roomBox'[i].winner = Invalid
                      \/ \E t \in Session : status'[t] = "stopped" /\ roomBox'[i].winner = NameOf[t]
    BY DEF LeavesAreOwn
  <2>1. CASE i \in 1..Len(roomBox)
    BY <1>5, <1>7, <2>1 DEF CliInv, LeavesAreOwn
  <2>2. CASE i = Len(roomBox) + 1
    BY <1>2, <1>3, <1>5, <1>7, <2>2
  <2>3. QED
    BY <1>6, <2>1, <2>2
<1>10. SeatInv'
  <2> SUFFICES ASSUME NEW w \in DOMAIN winners, status'[winners[w]] = "stopped"
               PROVE  \E i \in 1..Len(roomBox') : roomBox'[i] = LeaveMsg(w)
    BY DEF SeatInv, roomVars
  <2>1. CASE winners[w] = s
    BY <1>4, <1>5, <1>6, <2>1
  <2>2. CASE winners[w] # s
    <3>1. winners[w] \in Session
      BY DEF IInv, Members
    <3>2. PICK i \in 1..Len(roomBox) : roomBox[i] = LeaveMsg(w)
      BY <1>7, <2>2, <3>1 DEF CliInv, SeatInv
    <3>3. QED
      BY <1>5, <1>6, <3>2
  <2>3. QED
    BY <2>1, <2>2
<1>11. QED
  BY <1>8, <1>9, <1>10 DEF CliInv

\* The first request of a session names it.
LEMMA SendKeepsCliInv ==
  ASSUME IInv, CliInv, NEW s \in Session, NEW request \in CliRequest(s), Send(s, request)
  PROVE  CliInv'
<1>1. /\ request \in Message /\ request.kind # "Leave" /\ request.from = s
      /\ request.kind = "Enter" <=> reads[s] = 0
      /\ request.kind = "Enter" => request.winner = NameOf[s]
  BY CliRequestFields
<1>2. /\ roomBox' = Append(roomBox, request) /\ status[s] = "ready"
      /\ status' = [status EXCEPT ![s] = "waiting"]
      /\ reads' = [reads EXCEPT ![s] = @ + 1] /\ UNCHANGED roomVars
      /\ name' = IF request.kind = "Enter" THEN [name EXCEPT ![s] = request.winner] ELSE name
  BY DEF Send, Reads
<1>3. /\ Len(roomBox') = Len(roomBox) + 1 /\ Len(roomBox) \in Nat
      /\ roomBox'[Len(roomBox) + 1] = request
      /\ \A i \in 1..Len(roomBox) : roomBox'[i] = roomBox[i] /\ roomBox[i] \in Message
  BY <1>1, <1>2, AppendFacts DEF IInv, SessionTypes
<1>4. /\ \A i \in 1..Len(roomBox') : i \in 1..Len(roomBox) \/ i = Len(roomBox) + 1
      /\ 1..Len(roomBox) \subseteq 1..Len(roomBox')
  BY <1>3
<1>5. \A t \in Session : status'[t] = IF t = s THEN "waiting" ELSE status[t]
  BY <1>2 DEF IInv, SessionTypes
<1>6. \A t \in Session : reads[t] \in Nat /\ reads'[t] = IF t = s THEN reads[s] + 1 ELSE reads[t]
  BY <1>2, RequestsAssumption DEF IInv, SessionTypes
<1>7. \A t \in Session : name'[t] = IF t = s /\ reads[s] = 0 THEN NameOf[s] ELSE name[t]
  BY <1>1, <1>2 DEF IInv, SessionTypes
<1>8. NamesAreOwn'
  <2>1. \A t \in Session : name'[t] = IF reads'[t] = 0 THEN Invalid ELSE NameOf[t]
    BY <1>6, <1>7 DEF CliInv, NamesAreOwn
  <2>2. ASSUME NEW i \in 1..Len(roomBox'), roomBox'[i].kind = "Enter"
        PROVE  roomBox'[i].winner = NameOf[roomBox'[i].from] /\ reads'[roomBox'[i].from] # 0
    <3>1. CASE i \in 1..Len(roomBox)
      <4>1. roomBox[i].from \in Session
        BY <1>3, <2>2, <3>1, MessageFields
      <4>2. roomBox[i].winner = NameOf[roomBox[i].from] /\ reads[roomBox[i].from] # 0
        BY <1>3, <2>2, <3>1 DEF CliInv, NamesAreOwn
      <4>3. QED
        BY <1>3, <1>6, <3>1, <4>1, <4>2
    <3>2. CASE i = Len(roomBox) + 1
      BY <1>1, <1>3, <1>6, <2>2, <3>2
    <3>3. QED
      BY <1>4, <3>1, <3>2
  <2>3. \A w \in DOMAIN winners' : w = NameOf[winners'[w]] /\ reads'[winners'[w]] # 0
    BY <1>2, <1>6 DEF CliInv, NamesAreOwn, IInv, Members, roomVars
  <2>4. QED
    BY <2>1, <2>2, <2>3 DEF NamesAreOwn
<1>9. LeavesAreOwn'
  BY <1>1, <1>2, <1>3, <1>4, <1>5 DEF CliInv, LeavesAreOwn
<1>10. SeatInv'
  <2> SUFFICES ASSUME NEW w \in DOMAIN winners, status'[winners[w]] = "stopped"
               PROVE  \E i \in 1..Len(roomBox') : roomBox'[i] = LeaveMsg(w)
    BY <1>2 DEF SeatInv, roomVars
  <2>1. winners[w] \in Session
    BY DEF IInv, Members
  <2>2. PICK i \in 1..Len(roomBox) : roomBox[i] = LeaveMsg(w)
    BY <1>5, <2>1 DEF CliInv, SeatInv
  <2>3. QED
    BY <1>3, <1>4, <2>2
<1>11. QED
  BY <1>8, <1>9, <1>10 DEF CliInv

\* A Leave that is handled takes the name out; one who enters is connected.
LEMMA RoomHandleKeepsCliInv ==
  ASSUME IInv, CliInv, RoomHandle
  PROVE  CliInv'
<1> DEFINE m == Head(roomBox)
<1>1. Handle(m) /\ roomBox' = Tail(roomBox) /\ UNCHANGED <<status, name, reads>>
  BY DEF RoomHandle
<1>2. /\ m \in Message /\ m = roomBox[1] /\ 1 \in 1..Len(roomBox)
      /\ Len(roomBox') = Len(roomBox) - 1 /\ Len(roomBox) \in Nat
      /\ \A i \in 1..Len(roomBox') : roomBox'[i] = roomBox[i + 1] /\ i + 1 \in 1..Len(roomBox)
  BY QueueFacts DEF RoomHandle, IInv, SessionTypes
<1> HIDE DEF m
<1>3. ASSUME NEW w \in DOMAIN winners'
      PROVE  \/ w \in DOMAIN winners /\ winners'[w] = winners[w]
                /\ ~(m.kind = "Leave" /\ m.winner = w)
             \/ m.kind = "Enter" /\ w = m.winner /\ winners'[w] = m.from
  BY <1>1, <1>3 DEF Handle, Room!Enter, Room!Leave, Room!RestartVote, Room!StartVote,
       Room!Vote, Room!Accept, Room!Bail, Room!roomVars, Room!Insert, Room!Remove, Room!Restrict
<1>4. m.kind = "Enter" =>
        m.winner = NameOf[m.from] /\ reads[m.from] # 0 /\ status[m.from] = "waiting"
  BY <1>2 DEF CliInv, NamesAreOwn, IInv, InFlight
<1>5. NamesAreOwn'
  BY <1>1, <1>2, <1>3, <1>4 DEF CliInv, NamesAreOwn
<1>6. LeavesAreOwn'
  BY <1>1, <1>2 DEF CliInv, LeavesAreOwn
<1>7. SeatInv'
  <2> SUFFICES ASSUME NEW w \in DOMAIN winners', status'[winners'[w]] = "stopped"
               PROVE  \E i \in 1..Len(roomBox') : roomBox'[i] = LeaveMsg(w)
    BY DEF SeatInv
  <2>1. /\ w \in DOMAIN winners /\ winners'[w] = winners[w]
        /\ ~(m.kind = "Leave" /\ m.winner = w)
    BY <1>1, <1>3, <1>4
  <2>2. PICK i \in 1..Len(roomBox) : roomBox[i] = LeaveMsg(w)
    BY <1>1, <2>1 DEF CliInv, SeatInv
  <2>3. i # 1
    BY <1>2, <2>1, <2>2 DEF LeaveMsg
  <2>4. i - 1 \in 1..Len(roomBox') /\ roomBox'[i - 1] = roomBox[i]
    BY <1>2, <2>3
  <2>5. QED
    BY <2>2, <2>4
<1>8. QED
  BY <1>5, <1>6, <1>7 DEF CliInv
-----------------------------------------------------------------------------
\* The invariant of seats and names always holds with clients as winner_cli.
LEMMA CliInvHolds == CliSpec => []CliInv
<1>1. Init => CliInv
  BY DEF Init, Room!Init, Room!EmptyMap, CliInv, NamesAreOwn, LeavesAreOwn, SeatInv
<1>2. IInv /\ CliInv /\ [CliNext]_vars => CliInv'
  <2> SUFFICES ASSUME IInv, CliInv, [CliNext]_vars PROVE CliInv'
    OBVIOUS
  <2>1. CASE RoomHandle
    BY <2>1, RoomHandleKeepsCliInv
  <2>2. ASSUME NEW s \in Session, NEW request \in CliRequest(s), Send(s, request)
        PROVE  CliInv'
    BY <2>2, SendKeepsCliInv
  <2>3. ASSUME NEW s \in Session, Accept(s) \/ StreamEnd(s) \/ Resume(s) \/ Deliver(s)
        PROVE  CliInv'
    <3>1. CASE Stop(s) /\ UNCHANGED <<roomVars, name, reads>>
      BY <3>1, StopKeepsCliInv
    <3>2. CASE /\ UNCHANGED <<roomVars, roomBox, name, reads>>
               /\ status[s] # "stopped"
               /\ \/ UNCHANGED status
                  \/ status' = [status EXCEPT ![s] = "ready"]
      <4>1. \A t \in Session : status'[t] = "stopped" <=> status[t] = "stopped"
        BY <3>2 DEF IInv, SessionTypes
      <4>2. QED
        BY <3>2, <4>1, QuietKeepsCliInv
    <3>3. QED
      BY <2>3, <3>1, <3>2 DEF Accept, StreamEnd, Resume, Deliver
  <2>4. CASE UNCHANGED vars
    BY <2>4, QuietKeepsCliInv DEF vars, sessionVars
  <2>5. QED
    BY <2>1, <2>2, <2>3, <2>4 DEF CliNext
<1>3. QED
  BY <1>1, <1>2, CliInvariants, PTL DEF CliSpec

\* Nobody sits in the room without a connection unless his Leave is on its way:
\* stopping() sends it under the name the seat was taken in.
THEOREM SeatsHaveConnections == CliSpec => []SeatsAreConnected
<1>1. IInv /\ CliInv => SeatsAreConnected
  <2>1. IInv => DOMAIN roomBox = 1..Len(roomBox)
    BY DEF IInv, SessionTypes
  <2>2. QED
    BY <2>1 DEF CliInv, SeatInv, SeatsAreConnected
<1>2. QED
  BY <1>1, CliInvariants, CliInvHolds, PTL

\* If no two users took the same name, and none the name of a session that has
\* not entered, a member is taken out only once his own connection has ended.
\* (Without the hypothesis the run actor_server_same_name refutes it.)
THEOREM OnlyTheGoneAreTakenOut ==
  ASSUME \A s, t \in Session : NameOf[s] = NameOf[t] => s = t,
         \A s \in Session : NameOf[s] # Invalid
  PROVE  CliSpec => OnlyOwnersLeave
<1>1. IInv /\ CliInv /\ [CliNext]_vars =>
        [\A w \in DOMAIN winners :
           w \notin DOMAIN winners' => status[winners[w]] = "stopped"]_vars
  <2> SUFFICES ASSUME IInv, CliInv, CliNext, NEW w \in DOMAIN winners,
                      w \notin DOMAIN winners'
               PROVE  status[winners[w]] = "stopped"
    OBVIOUS
  <2>1. RoomHandle
    BY DEF CliNext, Accept, Send, StreamEnd, Resume, Deliver, roomVars
  <2> DEFINE m == Head(roomBox)
  <2>2. m = roomBox[1] /\ 1 \in 1..Len(roomBox) /\ Handle(m)
    BY <2>1, QueueFacts DEF RoomHandle, IInv, SessionTypes
  <2> HIDE DEF m
  <2>3. m.kind = "Leave" /\ m.winner = w
    BY <2>2 DEF Handle, Room!Enter, Room!Leave, Room!RestartVote, Room!StartVote,
         Room!Vote, Room!Accept, Room!Bail, Room!roomVars, Room!Insert, Room!Remove, Room!Restrict
  <2>4. w = NameOf[winners[w]] /\ winners[w] \in Session
    BY DEF CliInv, NamesAreOwn, IInv, Members
  <2>5. PICK s \in Session : status[s] = "stopped" /\ w = NameOf[s]
    BY <2>2, <2>3, <2>4 DEF CliInv, LeavesAreOwn
  <2>6. QED
    BY <2>4, <2>5
<1>2. QED
  BY <1>1, CliInvariants, CliInvHolds, PTL DEF CliSpec, OnlyOwnersLeave
=============================================================================

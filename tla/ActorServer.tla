---------------------------- MODULE ActorServer ----------------------------
(* The server of winner_actor: the room (RoomActor) and one RoomSession per *)
(* TCP connection (winner_actor/src/tcp_actor.rs), each with its mailbox.   *)
(*                                                                          *)
(* What actix provides is modelled from how the code uses it: a mailbox is  *)
(* first-in first-out; `.wait(ctx)' keeps a session from its mailbox and    *)
(* from its stream until the room has answered; a session that stops runs   *)
(* stopping() and loses its mail; a do_send to it is lost without a trace.  *)
(* A send() that finds the room's mailbox full is parked until there is     *)
(* space, which is a request the session has not read yet.  A handler that  *)
(* panics ends its task; the context is stopped as it is dropped, so that   *)
(* stopping() runs then, too.                                               *)
EXTENDS Naturals, Sequences, FiniteSets

CONSTANTS
  Winner, Session, StoryId, Title, Story, Points, NoVote,  \* as in RoomActor
  Invalid,      \* the name a session has before its client enters
  NameOf,       \* the name the user of a connection gives winner_cli
  Leavers,      \* the connections whose clients may hang up
  MaxRequests   \* bound: how many requests a client sends

ASSUME NamesAssumption == Invalid \in Winner /\ NameOf \in [Session -> Winner]
ASSUME LeaversAssumption == Leavers \subseteq Session
ASSUME RequestsAssumption == MaxRequests \in Nat

VARIABLES
  winners, voting, pastVotes, sent, result,  \* the room, as in RoomActor
  roomBox,   \* the room's mailbox
  status,    \* of each session: absent, ready, waiting (for the room), stopped
  name,      \* RoomSession::winner
  reply,     \* the room's answer to the request a session waits on
  mail,      \* the session's mailbox: the states the room has sent it
  view,      \* the last state written to the client, NoState before the first
  admitted,  \* whether an Ok to an Enter was written to the client
  reads      \* how many requests the session has read from its client

Room == INSTANCE RoomActor

ASSUME StoryAssumption == Story \subseteq [id: StoryId, title: Title]
ASSUME PointsAssumption == Points \subseteq Room!StoryPoints /\ NoVote \notin Points

roomVars == <<winners, voting, pastVotes, sent, result>>
sessionVars == <<status, name, reply, mail, view, admitted, reads>>
vars == <<roomVars, roomBox, sessionVars>>

NoState == [phase |-> "none"]
NoReply == [to |-> "None", result |-> "None"]

EnterMsg(w, s) == [kind |-> "Enter", winner |-> w, from |-> s]
LeaveMsg(w) == [kind |-> "Leave", winner |-> w]
StartMsg(s, story) == [kind |-> "StartVote", from |-> s, story |-> story]
RestartMsg(s) == [kind |-> "RestartVote", from |-> s]
VoteMsg(s, w, id, p) ==
  [kind |-> "Vote", from |-> s, winner |-> w, id |-> id, points |-> p]

Request(s) ==
  {EnterMsg(w, s) : w \in Winner}
  \cup {StartMsg(s, story) : story \in Story}
  \cup {RestartMsg(s)}
  \cup {VoteMsg(s, w, id, p) : w \in Winner, id \in StoryId, p \in Points}
Message == (UNION {Request(s) : s \in Session}) \cup {LeaveMsg(w) : w \in Winner}

Init ==
  /\ Room!Init
  /\ roomBox = <<>>
  /\ status = [s \in Session |-> "absent"]
  /\ name = [s \in Session |-> Invalid]
  /\ reply = [s \in Session |-> NoReply]
  /\ mail = [s \in Session |-> <<>>]
  /\ view = [s \in Session |-> NoState]
  /\ admitted = [s \in Session |-> FALSE]
  /\ reads = [s \in Session |-> 0]
-----------------------------------------------------------------------------
\* tcp_server accepts a connection and creates its session.
Accept(s) ==
  /\ status[s] = "absent"
  /\ status' = [status EXCEPT ![s] = "ready"]
  /\ UNCHANGED <<roomVars, roomBox, name, reply, mail, view, admitted, reads>>

Reads(s) ==
  /\ status[s] = "ready"
  /\ reads[s] < MaxRequests
  /\ reads' = [reads EXCEPT ![s] = @ + 1]

\* Mutant: the session sends without `.wait(ctx)'.
SendWithoutWaiting(s, request) ==
  /\ Reads(s)
  /\ roomBox' = Append(roomBox, request)
  /\ name' = IF request.kind = "Enter"
             THEN [name EXCEPT ![s] = request.winner] ELSE name
  /\ UNCHANGED <<roomVars, status, reply, mail, view, admitted>>

\* The session passes a request on to the room and waits; an Enter renames the
\* session before the room has agreed to it.
Send(s, request) ==
  /\ Reads(s)
  /\ roomBox' = Append(roomBox, request)
  /\ status' = [status EXCEPT ![s] = "waiting"]
  /\ name' = IF request.kind = "Enter"
             THEN [name EXCEPT ![s] = request.winner] ELSE name
  /\ UNCHANGED <<roomVars, reply, mail, view, admitted>>

\* A client's Leave gets an Err and nothing else.
RefuseLeave(s) ==
  /\ Reads(s)
  /\ UNCHANGED <<roomVars, roomBox, status, name, reply, mail, view, admitted>>

\* Mutant: no Leave in stopping().
StopSilently(s) ==
  /\ status' = [status EXCEPT ![s] = "stopped"]
  /\ mail' = [mail EXCEPT ![s] = <<>>]
  /\ UNCHANGED roomBox

\* Context::stop, stopping() and the end of the session: the room is told that
\* the current name leaves, and the mail is lost.
Stop(s) ==
  /\ status' = [status EXCEPT ![s] = "stopped"]
  /\ roomBox' = Append(roomBox, LeaveMsg(name[s]))
  /\ mail' = [mail EXCEPT ![s] = <<>>]

\* The client hangs up, sends what cannot be decoded or cannot be written to.
StreamEnd(s) ==
  /\ s \in Leavers
  /\ status[s] = "ready"
  /\ Stop(s)
  /\ UNCHANGED <<roomVars, name, reply, view, admitted, reads>>

\* The room's answer reaches the session: it is written to the client, except
\* that a refused Enter stops the session without a word.
Refused(s) == reply[s] = [to |-> "Enter", result |-> "Err"]

\* Mutant: after any Err the name is given up, but the session goes on.
ResumeWithoutSeat(s) ==
  /\ status[s] = "waiting" /\ reply[s] # NoReply
  /\ reply' = [reply EXCEPT ![s] = NoReply]
  /\ status' = [status EXCEPT ![s] = "ready"]
  /\ admitted' = [admitted EXCEPT ![s] = @ \/ reply[s].to = "Enter"]
  /\ roomBox' = IF reply[s].result = "Err"
                THEN Append(roomBox, LeaveMsg(name[s])) ELSE roomBox
  /\ UNCHANGED <<roomVars, name, mail, view, reads>>

\* Mutant: a session whose Enter is refused is taken to have no seat, and stops
\* without a Leave.
RefusedSilently(s) ==
  /\ status[s] = "waiting" /\ reply[s] # NoReply
  /\ reply' = [reply EXCEPT ![s] = NoReply]
  /\ \/ Refused(s) /\ StopSilently(s) /\ UNCHANGED admitted
     \/ /\ ~Refused(s)
        /\ status' = [status EXCEPT ![s] = "ready"]
        /\ admitted' = [admitted EXCEPT ![s] = @ \/ reply[s].to = "Enter"]
        /\ UNCHANGED <<roomBox, mail>>
  /\ UNCHANGED <<roomVars, name, view, reads>>

Resume(s) ==
  /\ status[s] = "waiting" /\ reply[s] # NoReply
  /\ reply' = [reply EXCEPT ![s] = NoReply]
  /\ \/ /\ Refused(s)
        /\ Stop(s)
        /\ UNCHANGED admitted
     \/ /\ ~Refused(s)
        /\ status' = [status EXCEPT ![s] = "ready"]
        /\ admitted' = [admitted EXCEPT ![s] = @ \/ reply[s].to = "Enter"]
        /\ UNCHANGED <<roomBox, mail>>
  /\ UNCHANGED <<roomVars, name, view, reads>>

\* Past results are a map by story, and a story is no string: serde_json has no
\* JSON object for it, except when the map is empty.
Encodable(state) == state.pastVotes = Room!EmptyMap

\* Mutant: mail is taken also while the session waits for the room.
DeliverWhileWaiting(s) ==
  /\ status[s] \in {"ready", "waiting"}
  /\ mail[s] # <<>>
  /\ view' = [view EXCEPT ![s] = Head(mail[s])]
  /\ mail' = [mail EXCEPT ![s] = Tail(@)]
  /\ UNCHANGED <<roomVars, roomBox, status, name, reply, admitted, reads>>

\* The RoomStateChanged handler writes the state to the client, or panics in
\* the unwrap() of the encoder.
Deliver(s) ==
  /\ status[s] = "ready"
  /\ mail[s] # <<>>
  /\ \/ /\ Encodable(Head(mail[s]))
        /\ view' = [view EXCEPT ![s] = Head(mail[s])]
        /\ mail' = [mail EXCEPT ![s] = Tail(@)]
        /\ UNCHANGED <<roomBox, status>>
     \/ /\ ~Encodable(Head(mail[s]))
        /\ Stop(s)
        /\ UNCHANGED view
  /\ UNCHANGED <<roomVars, name, reply, admitted, reads>>

\* The room's actor takes a message and dispatches it to its handler.
Handle(m) ==
  \/ m.kind = "Enter" /\ Room!Enter(m.winner, m.from)
  \/ m.kind = "Leave" /\ Room!Leave(m.winner)
  \/ m.kind = "RestartVote" /\ Room!RestartVote
  \/ m.kind = "StartVote" /\ Room!StartVote(m.story)
  \/ m.kind = "Vote" /\ Room!Vote(m.winner, m.id, m.points)

\* Mutants: a session that is not ready is passed over; the one who asked is
\* passed over.
CopiesIfReady(s) ==
  LET n == IF status[s] # "ready" THEN 0
           ELSE Cardinality({m \in sent' : m.to = s})
  IN [i \in 1..n |-> Room!Snapshot']
CopiesToOthers(s) ==
  LET n == IF status[s] = "stopped" \/ reply'[s] # reply[s] THEN 0
           ELSE Cardinality({m \in sent' : m.to = s})
  IN [i \in 1..n |-> Room!Snapshot']

\* The copies of the new state that reach a session: one for each name the
\* room knows it by, none once it has stopped.
Copies(s) ==
  LET n == IF status[s] = "stopped" THEN 0
           ELSE Cardinality({m \in sent' : m.to = s})
  IN [i \in 1..n |-> Room!Snapshot']

\* Mutant: a handler that bails does not answer.
RoomHandleQuietly ==
  /\ roomBox # <<>>
  /\ LET m == Head(roomBox)
     IN /\ Handle(m)
        /\ reply' = IF m.kind = "Leave" \/ result' = "Err" THEN reply
                    ELSE [reply EXCEPT ![m.from] =
                            [to |-> m.kind, result |-> result']]
  /\ roomBox' = Tail(roomBox)
  /\ mail' = [s \in Session |-> mail[s] \o Copies(s)]
  /\ UNCHANGED <<status, name, view, admitted, reads>>

RoomHandle ==
  /\ roomBox # <<>>
  /\ LET m == Head(roomBox)
     IN /\ Handle(m)
        /\ reply' = IF m.kind = "Leave" THEN reply   \* sent with do_send
                    ELSE [reply EXCEPT ![m.from] =
                            [to |-> m.kind, result |-> result']]
  /\ roomBox' = Tail(roomBox)
  /\ mail' = [s \in Session |-> mail[s] \o Copies(s)]
  /\ UNCHANGED <<status, name, view, admitted, reads>>
-----------------------------------------------------------------------------
\* Any client, of the protocol but not necessarily of winner_cli.
Next ==
  \/ RoomHandle
  \/ \E s \in Session :
       \/ Accept(s)
       \/ \E request \in Request(s) : Send(s, request)
       \/ RefuseLeave(s)
       \/ StreamEnd(s)
       \/ Resume(s)
       \/ Deliver(s)

Spec == Init /\ [][Next]_vars

\* winner_cli enters once, before anything else, under the name it was started
\* with, then starts votes and casts ballots in that name.
CliRequest(s) ==
  IF reads[s] = 0
  THEN {EnterMsg(NameOf[s], s)}
  ELSE {StartMsg(s, story) : story \in Story}
       \cup {VoteMsg(s, NameOf[s], id, p) : id \in StoryId, p \in Points}

CliNext ==
  \/ RoomHandle
  \/ \E s \in Session :
       \/ Accept(s)
       \/ \E request \in CliRequest(s) : Send(s, request)
       \/ StreamEnd(s)
       \/ Resume(s)
       \/ Deliver(s)

\* The arbiter keeps polling an actor that has been woken: the room handles
\* what is in its mailbox, a session takes its reply and its mail.  Nothing
\* makes a client connect, ask or hang up.
Fairness ==
  /\ WF_vars(RoomHandle)
  /\ \A s \in Session : WF_vars(Resume(s)) /\ WF_vars(Deliver(s))

CliSpec == Init /\ [][CliNext]_vars /\ Fairness
-----------------------------------------------------------------------------
\* Type invariant.
TypeOK ==
  /\ Room!TypeOK
  /\ roomBox \in Seq(Message)
  /\ status \in [Session -> {"absent", "ready", "waiting", "stopped"}]
  /\ name \in [Session -> Winner]
  /\ reply \in [Session -> {NoReply} \cup
       [to: {"Enter", "StartVote", "RestartVote", "Vote"}, result: {"Ok", "Err"}]]
  /\ mail \in [Session -> Seq(Room!RoomState)]
  /\ view \in [Session -> {NoState} \cup Room!RoomState]
  /\ admitted \in [Session -> BOOLEAN]
  /\ reads \in [Session -> 0..MaxRequests]

\* A session that waits has exactly one thing to wait for, its request in the
\* room's mailbox or the room's reply, and no other session has either: the
\* answers a client reads pair up with its requests in order.
OneRequestInFlight ==
  \A s \in Session :
    LET asked == {i \in DOMAIN roomBox :
                    roomBox[i].kind # "Leave" /\ roomBox[i].from = s}
    IN Cardinality(asked) + (IF reply[s] = NoReply THEN 0 ELSE 1)
         = IF status[s] = "waiting" THEN 1 ELSE 0

\* A client that does not hang up stays connected, and so receives the updates
\* that are broadcast to all subscribed winners.
StayersStay == \A s \in Session \ Leavers : status[s] # "stopped"

\* What a member has been told last, or is still to be told, is the state the
\* room is in: no change is lost and none overtakes another, through requests
\* in flight, evictions and renamings.
LatestStateIsCurrent ==
  \A w \in DOMAIN winners :
    LET s == winners[w]
    IN status[s] # "stopped" =>
         Room!Snapshot = IF mail[s] = <<>> THEN view[s] ELSE mail[s][Len(mail[s])]

\* A client is told a state only after the Ok to its Enter (the order the tests
\* of tcp_actor.rs read them in), although the room has sent the state before
\* it answers.
StateOnlyAfterOk == \A s \in Session : view[s] # NoState => admitted[s]

\* The Ok to a request of a member comes before the state the request led to:
\* while the Ok is on its way the session has not emptied its mailbox.
OkBeforeItsState ==
  \A w \in DOMAIN winners :
    LET s == winners[w] IN reply[s].result = "Ok" => mail[s] # <<>>

\* Nobody sits in the room without a connection, unless the message that takes
\* him out is on its way.
SeatsAreConnected ==
  \A w \in DOMAIN winners :
    status[winners[w]] = "stopped" =>
      \E i \in DOMAIN roomBox : roomBox[i] = LeaveMsg(w)

\* The same of clients that enter again and again, under one name or several: a
\* connection that has ended leaves a seat behind only under a name it has since
\* exchanged for another.  The name it had last is given up, or the message that
\* does so is on its way, also when that name was refused: it may be the name the
\* session had entered under before.
OnlyFormerNamesStay ==
  \A w \in DOMAIN winners :
    LET s == winners[w]
    IN status[s] = "stopped" /\ name[s] = w =>
         \E i \in DOMAIN roomBox : roomBox[i] = LeaveMsg(w)

\* A member is taken out of the room only when his own connection has ended.
OnlyOwnersLeave ==
  [][\A w \in DOMAIN winners :
       w \notin DOMAIN winners' => status[winners[w]] = "stopped"]_vars

\* A client that asks is answered, or its connection ends.
RequestsAreAnswered ==
  \A s \in Session : status[s] = "waiting" ~> status[s] # "waiting"

\* Once a connection has ended its seat is given up, and for good.
SeatsAreGivenUp ==
  \A s \in Session :
    status[s] = "stopped" ~> [](\A w \in DOMAIN winners : winners[w] # s)

\* When the clients have stopped asking, every member that is still connected
\* has been told the state the room is in.
MembersCatchUp ==
  <>[](\A w \in DOMAIN winners :
         status[winners[w]] # "stopped" => view[winners[w]] = Room!Snapshot)
=============================================================================

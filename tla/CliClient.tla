------------------------------ MODULE CliClient ------------------------------
(* winner_cli: the client library (winner_cli/src/lib.rs), the decoder of    *)
(* its connection (winner_actor/src/codec.rs) and the program on top of it   *)
(* (winner_cli/src/main.rs).                                                 *)
(*                                                                           *)
(* The multiplexer's task sorts what the server writes into a channel of     *)
(* responses and one of states.  The program enters, shows each state and,   *)
(* whenever the vote has changed, spawns one more task that asks for lines   *)
(* of the console and sends requests.  None of these input loops is ever     *)
(* told to stop, so they share the console and the client by two mutexes,    *)
(* which are first-in first-out and held while their holder waits.           *)
(*                                                                           *)
(* The server is what ActorServer says of it: it answers one request after   *)
(* the other, sends states once it has said Ok to the Enter, and may close   *)
(* the connection.  A task that waits for space in a channel holds what it   *)
(* has not put there: that is the same as not having read it.                *)
EXTENDS Naturals, Sequences, FiniteSets

CONSTANTS
  Story,
  Ballots,      \* what a voting state says of the ballots: it is a part of it
  Line,         \* what read_line may return: with its newline, or cut by an
                \* end of file, which on a terminal need not be the last line
  Length,       \* of a state as JSON
  ChannelSize,  \* of every channel
  MaxStates,    \* bound: how many states the server sends
  MaxLines      \* bound: how many lines are typed

ASSUME LineAssumption == Line \subseteq STRING
ASSUME LengthAssumption == Length \subseteq Nat
ASSUME BoundAssumption ==
  ChannelSize \in Nat \ {0} /\ MaxStates \in Nat /\ MaxLines \in Nat

VARIABLES
  asked,      \* the requests the server has not answered
  wire,       \* what it has written and the multiplexer has not read
  closed,     \* whether the server has closed the connection
  sent,       \* how many states it has written
  mux,        \* whether the multiplexer is running
  responses, states,  \* its channels
  main,       \* the main task: entering, receiving or exited
  shown,      \* how many states were printed
  last,       \* the voting_state of the last of them
  typed,      \* how many lines were typed
  tty,        \* whether the thread of the console is running
  console,    \* the channel of lines
  loops,      \* the input loops, in the order they were spawned
  listeners,  \* the mutex of the console: its holder and who waits for it
  callers     \* the mutex of the client, likewise

serverVars == <<asked, wire, closed, sent>>
muxVars == <<mux, responses, states>>
mainVars == <<main, shown, last>>
inputVars == <<typed, tty, console, loops, listeners, callers>>
vars == <<serverVars, muxVars, mainVars, inputVars>>

Main == 0   \* who sent the Enter; an input loop is known by its number
VotingState ==
  {[kind |-> "Idle"]}
  \cup [kind: {"Voting", "Fighting"}, story: Story, ballots: Ballots]
NotShown == [kind |-> "None"]

EnterMsg == [kind |-> "Enter", by |-> Main]
StartMsg(i) == [kind |-> "StartVote", by |-> i]
VoteMsg(i, story, points) ==
  [kind |-> "Vote", by |-> i, story |-> story, points |-> points]
NoRequest == [kind |-> "None"]

State(n, voting, length) ==
  [kind |-> "State", n |-> n, voting |-> voting, length |-> length]

\* StoryPoints::from_str: the seven words it knows, and what it takes them for.
Parse ==
  [s \in {"1", "2", "3", "4", "8", "13", "20"} |->
     CASE s = "1" -> 1 [] s = "2" -> 2 [] s = "3" -> 3 [] s = "4" -> 5
       [] s = "8" -> 8 [] s = "13" -> 13 [] s = "20" -> 13]

\* Create a client and send the Enter, which main does before anything else.
Init ==
  /\ asked = <<EnterMsg>> /\ wire = <<>> /\ closed = FALSE /\ sent = 0
  /\ mux = "running" /\ responses = <<>> /\ states = <<>>
  /\ main = "entering" /\ shown = 0 /\ last = NotShown
  /\ typed = 0 /\ tty = TRUE /\ console = <<>> /\ loops = <<>> /\ listeners = <<>> /\ callers = <<>>
-----------------------------------------------------------------------------
\* The server answers the request it has; to an Enter it says Ok or closes.
ServerAnswer ==
  /\ ~closed /\ asked # <<>>
  /\ \E result \in {"Ok", "Err"} :
       /\ Head(asked) = EnterMsg => result = "Ok"
       /\ wire' = Append(wire, [kind |-> result, to |-> Head(asked).by])
  /\ asked' = Tail(asked)
  /\ UNCHANGED <<closed, sent, muxVars, mainVars, inputVars>>

ServerState(voting, length) ==
  /\ ~closed /\ sent < MaxStates
  /\ EnterMsg \notin {asked[i] : i \in DOMAIN asked}
  /\ sent' = sent + 1
  /\ wire' = Append(wire, State(sent + 1, voting, length))
  /\ UNCHANGED <<asked, closed, muxVars, mainVars, inputVars>>

ServerClose ==
  /\ ~closed
  /\ closed' = TRUE
  /\ UNCHANGED <<asked, wire, sent, muxVars, mainVars, inputVars>>
-----------------------------------------------------------------------------
\* The length of a frame is a u16: a longer text is cut short, and a JSON text
\* cut short is none.  (Ok and Err are short.)
Decodes(item) == item.kind = "State" => item.length % 65536 = item.length

\* Mutants: the channels have no bound; what cannot be decoded is passed over.
MultiplexUnbounded ==
  /\ mux = "running" /\ wire # <<>> /\ Decodes(Head(wire))
  /\ IF Head(wire).kind = "State"
     THEN states' = Append(states, Head(wire)) /\ UNCHANGED responses
     ELSE responses' = Append(responses, Head(wire)) /\ UNCHANGED states
  /\ wire' = Tail(wire)
  /\ UNCHANGED <<asked, closed, sent, mux, mainVars, inputVars>>
MultiplexPastErrors ==
  /\ mux = "running" /\ wire # <<>>
  /\ \/ Head(wire).kind = "State" /\ Len(states) < ChannelSize /\ UNCHANGED responses
     \/ /\ Head(wire).kind # "State" /\ Len(responses) < ChannelSize
        /\ responses' = Append(responses, Head(wire))
  /\ states' = IF Head(wire).kind = "State" /\ Decodes(Head(wire))
               THEN Append(states, Head(wire)) ELSE states
  /\ wire' = Tail(wire)
  /\ UNCHANGED <<asked, closed, sent, mux, mainVars, inputVars>>

\* The multiplexer reads an item and puts it into its channel.
Multiplex ==
  /\ mux = "running" /\ wire # <<>> /\ Decodes(Head(wire))
  /\ \/ /\ Head(wire).kind = "State" /\ Len(states) < ChannelSize
        /\ states' = Append(states, Head(wire))
        /\ UNCHANGED responses
     \/ /\ Head(wire).kind # "State" /\ Len(responses) < ChannelSize
        /\ responses' = Append(responses, Head(wire))
        /\ UNCHANGED states
  /\ wire' = Tail(wire)
  /\ UNCHANGED <<asked, closed, sent, mux, mainVars, inputVars>>

\* It ends, and its channels are closed, when there is nothing more to read or
\* what there is cannot be decoded.
MultiplexEnd ==
  /\ mux = "running"
  /\ IF wire = <<>> THEN closed ELSE ~Decodes(Head(wire))
  /\ mux' = "ended"
  /\ UNCHANGED <<serverVars, responses, states, mainVars, inputVars>>

\* enter_room().await.expect().
Entered ==
  /\ main = "entering"
  /\ \/ /\ responses # <<>>
        /\ main' = IF Head(responses).kind = "Ok" THEN "receiving" ELSE "exited"
        /\ responses' = Tail(responses)
     \/ /\ responses = <<>> /\ mux = "ended"
        /\ main' = "exited"
        /\ UNCHANGED responses
  /\ UNCHANGED <<serverVars, mux, states, shown, last, inputVars>>

Loop(voting) ==
  [voting |-> voting, pc |-> IF voting.kind = "Idle" THEN "option" ELSE "points",
   request |-> NoRequest]

\* Mutant: votes that differ in their story or their ballots only are the same.
ChangedKind(voting) == last.kind # voting.kind

\* Another ballot is a change as well, so that every ballot spawns a loop.
Changed(voting) == last # voting

\* Mutant: the main task runs the input loop itself before it goes on.
ShowAfterInput ==
  /\ main = "receiving" /\ states # <<>>
  /\ \A i \in DOMAIN loops : loops[i].pc \in {"done", "dead"}
  /\ states' = Tail(states)
  /\ shown' = Head(states).n
  /\ last' = Head(states).voting
  /\ loops' = IF Changed(Head(states).voting)
              THEN Append(loops, Loop(Head(states).voting)) ELSE loops
  /\ UNCHANGED <<serverVars, mux, responses, main, typed, tty, console, listeners, callers>>

\* The main task prints a state, and spawns an input loop if the vote is not
\* the one it has printed before.
Show ==
  /\ main = "receiving" /\ states # <<>>
  /\ states' = Tail(states)
  /\ shown' = Head(states).n
  /\ last' = Head(states).voting
  /\ loops' = IF Changed(Head(states).voting)
              THEN Append(loops, Loop(Head(states).voting)) ELSE loops
  /\ UNCHANGED <<serverVars, mux, responses, main, typed, tty, console, listeners, callers>>

\* The program ends, and with it all its tasks.
Exit ==
  /\ main = "receiving" /\ states = <<>> /\ mux = "ended"
  /\ main' = "exited"
  /\ UNCHANGED <<serverVars, muxVars, shown, last, inputVars>>
-----------------------------------------------------------------------------
\* The thread of the console passes on a line, when there is space.
Type(line) ==
  /\ main = "receiving" /\ tty /\ typed < MaxLines
  /\ Len(console) < ChannelSize
  /\ typed' = typed + 1
  /\ console' = Append(console, line)
  /\ UNCHANGED <<serverVars, muxVars, mainVars, tty, loops, listeners, callers>>

\* It returns when a line cannot be read (when it is not UTF-8).
TypeError ==
  /\ main = "receiving" /\ tty /\ typed < MaxLines
  /\ tty' = FALSE
  /\ UNCHANGED <<serverVars, muxVars, mainVars, typed, console, loops, listeners, callers>>

At(i, pc) == main = "receiving" /\ loops[i].pc = pc
Asks(i) == main = "receiving" /\ loops[i].pc \in {"option", "name", "points"}
Goes(i, pc) == loops' = [loops EXCEPT ![i].pc = pc]
Queued(queue, i) == \E k \in DOMAIN queue : queue[k] = i

\* An input loop waits for the console.
Listen(i) ==
  /\ Asks(i) /\ ~Queued(listeners, i)
  /\ listeners' = Append(listeners, i)
  /\ UNCHANGED <<serverVars, muxVars, mainVars, typed, tty, console, loops, callers>>

\* What it makes of a line: an option that is not 1 is asked for again, a line
\* that is no points panics.
Take(i, line) ==
  \/ loops[i].pc = "option" /\ Goes(i, IF line = "1" THEN "name" ELSE "option")
  \/ /\ loops[i].pc = "name"
     /\ loops' = [loops EXCEPT ![i].pc = "calling", ![i].request = StartMsg(i)]
  \/ /\ loops[i].pc = "points" /\ line \in DOMAIN Parse
     /\ loops' = [loops EXCEPT ![i].pc = "calling",
                    ![i].request = VoteMsg(i, loops[i].voting.story, Parse[line])]
  \/ /\ loops[i].pc = "points" /\ line \notin DOMAIN Parse
     /\ Goes(i, "dead")

\* Mutant: that the console has failed is noticed before the lines it has left.
TakeLineLate(i) ==
  /\ Asks(i) /\ listeners # <<>> /\ Head(listeners) = i
  /\ \/ /\ console # <<>> /\ tty
        /\ Take(i, Head(console))
        /\ console' = Tail(console)
     \/ /\ ~tty
        /\ Goes(i, "dead")
        /\ UNCHANGED console
  /\ listeners' = Tail(listeners)
  /\ UNCHANGED <<serverVars, muxVars, mainVars, typed, tty, callers>>

\* The loop that holds the console receives a line, or panics when there will be
\* none, and lets go of it.
TakeLine(i) ==
  /\ Asks(i) /\ listeners # <<>> /\ Head(listeners) = i
  /\ \/ /\ console # <<>>
        /\ Take(i, Head(console))
        /\ console' = Tail(console)
     \/ /\ console = <<>> /\ ~tty
        /\ Goes(i, "dead")
        /\ UNCHANGED console
  /\ listeners' = Tail(listeners)
  /\ UNCHANGED <<serverVars, muxVars, mainVars, typed, tty, callers>>

\* A loop that has a request waits for the client ...
Call(i) ==
  /\ At(i, "calling") /\ ~Queued(callers, i)
  /\ callers' = Append(callers, i)
  /\ UNCHANGED <<serverVars, muxVars, mainVars, typed, tty, console, loops, listeners>>

\* Mutant: a loop that ends keeps the client.
ResumesHolding(i) ==
  /\ Goes(i, CASE loops[i].voting.kind = "Idle" -> "option"
               [] loops[i].voting.kind = "Voting" -> "points"
               [] loops[i].voting.kind = "Fighting" -> "done")
  /\ callers' = IF loops[i].voting.kind = "Fighting" THEN callers ELSE Tail(callers)

\* The loop lets go of the client and asks again, except in a fight.
Resumes(i) ==
  /\ Goes(i, CASE loops[i].voting.kind = "Idle" -> "option"
               [] loops[i].voting.kind = "Voting" -> "points"
               [] loops[i].voting.kind = "Fighting" -> "done")
  /\ callers' = Tail(callers)

\* Mutant: a loop need not hold the client, only have asked for it.
SendUnheld(i) ==
  /\ At(i, "calling") /\ Queued(callers, i)
  /\ Goes(i, "waiting")
  /\ asked' = IF closed THEN asked ELSE Append(asked, loops[i].request)
  /\ UNCHANGED callers
  /\ UNCHANGED <<wire, closed, sent, muxVars, mainVars, typed, tty, console, listeners>>

\* ... sends the request, which is lost or fails if the server has closed ...
Send(i) ==
  /\ At(i, "calling") /\ callers # <<>> /\ Head(callers) = i
  /\ \/ /\ Goes(i, "waiting")
        /\ asked' = IF closed THEN asked ELSE Append(asked, loops[i].request)
        /\ UNCHANGED callers
     \/ closed /\ Resumes(i) /\ UNCHANGED asked
  /\ UNCHANGED <<wire, closed, sent, muxVars, mainVars, typed, tty, console, listeners>>

\* ... and receives the response, or learns that there will be none.
Receive(i) ==
  /\ At(i, "waiting")
  /\ \/ responses # <<>> /\ responses' = Tail(responses)
     \/ responses = <<>> /\ mux = "ended" /\ UNCHANGED responses
  /\ Resumes(i)
  /\ UNCHANGED <<serverVars, mux, states, mainVars, typed, tty, console, listeners>>
-----------------------------------------------------------------------------
InputStep(i) == Listen(i) \/ TakeLine(i) \/ Call(i) \/ Send(i) \/ Receive(i)

Next ==
  \/ ServerAnswer
  \/ \E voting \in VotingState, length \in Length : ServerState(voting, length)
  \/ ServerClose
  \/ Multiplex
  \/ MultiplexEnd
  \/ Entered
  \/ Show
  \/ Exit
  \/ \E line \in Line : Type(line)
  \/ TypeError
  \/ \E i \in DOMAIN loops : InputStep(i)

\* The runtime polls every task that can go on, and the server answers
\* (ActorServer!RequestsAreAnswered).  Nobody has to type.
Fairness ==
  /\ WF_vars(ServerAnswer)
  /\ WF_vars(Multiplex \/ MultiplexEnd)
  /\ WF_vars(Entered \/ Show \/ Exit)
  /\ \A i \in 1..MaxStates : WF_vars(i \in DOMAIN loops /\ InputStep(i))

Spec == Init /\ [][Next]_vars /\ Fairness
-----------------------------------------------------------------------------
Request ==
  {EnterMsg}
  \cup [kind: {"StartVote"}, by: 1..MaxStates]
  \cup [kind: {"Vote"}, by: 1..MaxStates, story: Story, points: Nat]
Response == [kind: {"Ok", "Err"}, to: 0..MaxStates]
RoomState == [kind: {"State"}, n: 1..MaxStates, voting: VotingState, length: Length]

\* Type invariant.
TypeOK ==
  /\ asked \in Seq(Request) /\ wire \in Seq(Response \cup RoomState)
  /\ closed \in BOOLEAN /\ sent \in 0..MaxStates
  /\ mux \in {"running", "ended"}
  /\ responses \in Seq(Response) /\ Len(responses) <= ChannelSize
  /\ states \in Seq(RoomState) /\ Len(states) <= ChannelSize
  /\ main \in {"entering", "receiving", "exited"}
  /\ shown \in 0..MaxStates /\ last \in VotingState \cup {NotShown}
  /\ typed \in 0..MaxLines /\ tty \in BOOLEAN
  /\ console \in Seq(Line) /\ Len(console) <= ChannelSize
  /\ loops \in Seq([voting: VotingState, request: Request \cup {NoRequest},
                    pc: {"option", "name", "points", "calling", "waiting", "done", "dead"}])
  /\ listeners \in Seq(1..MaxStates) /\ callers \in Seq(1..MaxStates)

Responses(queue) == {k \in DOMAIN queue : queue[k].kind # "State"}
Waiting ==
  {i \in DOMAIN loops : loops[i].pc = "waiting"} \cup IF main = "entering" THEN {Main} ELSE {}

\* The response a task takes out of the channel is the one to its request: there
\* is never more than one on its way, and it is that of the one task that waits.
AnswersPairUp ==
  mux = "running" =>
    /\ Cardinality(Waiting) <= 1
    /\ Len(asked) + Cardinality(Responses(wire)) + Len(responses) <= Cardinality(Waiting)
    /\ \A k \in DOMAIN asked : asked[k].by \in Waiting
    /\ \A k \in Responses(wire) : wire[k].to \in Waiting
    /\ \A k \in DOMAIN responses : responses[k].to \in Waiting

\* No state is skipped, printed twice or overtaken by another, although states
\* and responses part ways on the client's side.
StatesInOrder ==
  LET written == {k \in DOMAIN wire : wire[k].kind = "State"}
  IN /\ \A k \in DOMAIN states : states[k].n = shown + k
     /\ {wire[k].n : k \in written} = (shown + Len(states) + 1)..sent
     /\ \A j, k \in written : j < k => wire[j].n < wire[k].n

\* The newest input loop is one for the vote that was printed last.
NewestLoopIsCurrent ==
  main = "receiving" /\ shown > 0 => loops[Len(loops)].voting = last

\* Every state the server sends is printed, unless the program ends: whatever
\* the input loops wait for, they do not keep the multiplexer from it.
StatesAreShown ==
  \A n \in 1..MaxStates : sent >= n ~> (shown >= n \/ main = "exited")

\* A line that has been typed is taken while any loop asks for one, however many
\* wait for the console and die of what they are given; also when the console
\* has failed in the meantime, as its channel is emptied before it is closed.
LinesAreTaken ==
  \A n \in 0..(MaxLines - 1) :
    (typed - Len(console) = n /\ console # <<>> /\ \E i \in DOMAIN loops : Asks(i))
      ~> (typed - Len(console) > n \/ main = "exited")

HasRequest(i) == \E k \in DOMAIN loops : k = i /\ loops[k].pc \in {"calling", "waiting"}

\* A loop that has a request gets to send it and gets its answer, however many
\* loops share the client.
CallersAreServed ==
  \A i \in 1..MaxStates : HasRequest(i) ~> (main = "exited" \/ ~HasRequest(i))
=============================================================================

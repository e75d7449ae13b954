# winner: TLA+ models, checks and proofs

winner is a scrum poker program ("winner" is a person who estimates stories).
The repository holds two servers and a client:

- `winner_actor`: a TCP server written with actix actors, one actor for the room
  and one per connection;
- `winner_server`: a library with the same idea written with tokio tasks and
  channels, and a server on top of it;
- `winner_cli`: a client library and a command line client. It speaks to
  `winner_actor`.

This directory specifies both servers' core in TLA+, model-checks it with TLC on
small instances and proves the main results for every instance with TLAPS.

## 1. Inventory

### winner_actor

**Room** (`src/winner_actor/src/room.rs`). State: the members with the recipient
of each one's broadcasts, the voting state (idle, voting with one optional
ballot per participant, fighting) and the past results by story. Operations: the
handlers of `Enter`, `Leave`, `StartVote`, `RestartVote` and `Vote`. Each either
bails without a change or changes the state, sends the whole state to every
member (`broadcast_state`) and returns Ok. Nothing else changes the state.
Hard: long sequences of legal messages (a vote outlives its members, ballots are
recast, fights restart), and edges (no participants, one participant, ties).
Correct means: a vote is over exactly when all its participants have cast; its
story and participants do not change under it; a result is what everybody cast; a
fight is between a lowest and a highest voter who differ.

**Sessions and server** (`src/winner_actor/src/tcp_actor.rs`). State of a
session: the name it last asked for (`winner`, at first `invalid`) and whether it
waits for the room. Operations: reading a request off the stream and sending it
to the room with `.wait(ctx)`, answering, writing a broadcast state to the
client, and `stopping()`, which tells the room that the current name leaves.
Sessions and the room interact by messages only. Hard: sessions interleave; the
room sends the new state before it answers; a refused `Enter` stops the session; a
connection ends while messages are under way. Correct means: answers pair up
with requests, states arrive in order and after the Ok, none is lost, a seat is
given up when and only when its connection ends.

**Codecs** (`src/winner_actor/src/codec.rs`). A length prefix of 16 bits and JSON.
No state but the buffer. Hard: lengths above 65535, partial reads, values that
JSON cannot hold. Correct means: what is written is read, once and in order, or
the connection ends; nothing is read that was not written.

### winner_server

**Room** (`src/winner_server/src/room.rs`). A single task. State: participants,
leader, `current_state` (idle, voting with the ballots so far, fighting).
Operations: subscribing (while idle only) and the client messages `StartVote`,
`Vote`, `LeaveRoom`, `FightResolved`, each with its broadcasts. Hard: who leaves
during which phase; the count of ballots against the count of participants; the
answer goes through a one-shot channel whose other end may be gone. Correct
means: the room waits only for ballots that can come, fights are between people
who are there, the leader is one of the people, a subscriber can follow what
happens from the broadcasts alone.

**RoomSubscriber, RoomAPI, RoomStateUpdater**
(`src/winner_server/src/room_communication.rs`). The channels to the room: a
subscription channel, an mpsc channel of requests with a one-shot answer each, and
a broadcast channel of capacity 100. Hard: lagging receivers, requests cancelled
between sending and receiving, subscriptions that wait for the end of a vote,
requests still in the channel when their connection is over. Correct means: a
task waits for exactly one answer, and gets it or learns that the room is gone;
whoever asks has a seat.

**ClientHandler and tcp_room** (`src/winner_server/src/client_handler.rs`,
`tcp_room.rs`). Two loops per connection, one that reads the client's requests and one
that forwards broadcasts; either failing ends the other. Hard: which of the two
ends first, whether `leave_room` is then called, and what is left in the
channels. Correct means: the people in the room are those who are connected, or
were lost without a word; only such a loss can hurt the room, and it hurts nobody
silently; a ballot is announced in the name of the one who cast it.

**Types** (`types.rs`, `messages.rs`). `StoryPoints`, `Story`, `Winner` and their
parsing and printing; `Room` and `Vote` in `types.rs` are used nowhere.

### winner_cli

**Client library** (`src/winner_cli/src/lib.rs`). Sends requests and splits what
comes back into responses and states, over two channels. Responses do not say
whose they are. Hard: one channel full blocks the other; two callers at once
would take each other's answers. Correct means: who asks gets its own answer, and
states are delivered in order.

**Command line client** (`src/winner_cli/src/main.rs`). Enters, then prints every
state; whenever the voting state is not the one printed before (a ballot is a
part of it, so every ballot is such a change) it spawns a task that asks for lines
of the console. No such input loop is ever told to stop. Hard: loops compete for the
console and the client through two mutexes; the console's thread, the
multiplexer and the main task wait for each other's channels. Correct means: no
pile-up of loops keeps a state from being printed or a request from being
answered.

**Entry points** set up logging, the room and a listener and keep no state.

Every hazard found, at its line, is listed in `PROJECT.json` under `hazards` with the
properties that guard against it.

## 2. Modules

| Module | Models | Status |
| --- | --- | --- |
| `PlanningRound` | abstract: a round of scrum poker with hidden ballots | done |
| `RoomActor` | the room of winner_actor | done |
| `RoomActorProofs` | theorems about `RoomActor` | done |
| `ActorServer` | room, sessions and mailboxes of winner_actor | done |
| `ActorServerProofs` | theorems about `ActorServer` with any clients | done |
| `ActorServerCliProofs` | theorems about `ActorServer` with clients as winner_cli | done |
| `ServerRoom` | the room of winner_server | done |
| `ServerRoomProofs` | theorems about `ServerRoom` | done |
| `ServerConnections` | `ServerRoom` with its channels and the tasks of the connections | done |
| `ServerConnectionsProofs` | theorems about `ServerConnections` | done |
| `ServerAnswersProofs` | further theorems about `ServerConnections`, which rest on those of `ServerRoomProofs` | done |
| `CliClient` | the client library and the command line client of winner_cli | done |
| `CliClientProofs` | theorems about `CliClient` | done |
| `MC*` | the instances TLC checks | with each module |

### RoomActor

One action per handler. The variables `winners`, `voting` and `pastVotes` are the
fields of the actor. What a handler puts out is in two variables that the next
handler overwrites: `result` (the Ok or Err it returns) and `sent` (the
`RoomStateChanged` messages `broadcast_state` has sent, each with its member,
recipient and state). Each handler ends in `Accept` (broadcast and Ok) or `Bail`
(nothing changes, Err). `CloseVote` is the end of the `Vote` handler, with its
three outcomes. Where several participants hold the minimum or the maximum, the code picks one
at random, or one by the order of the map, and the model any of them.

Left out: the words of the errors, how the state is printed, and `RoomState::leader`, which no
handler assigns. `Next` allows any message at any time: the room has no say in who
sends what.

`Story` is a set of records of id and title, since `Vote` compares ids and
`pastVotes` is keyed by the whole story.

### PlanningRound

What the room promises, ballots hidden: a round is opened for a fixed set of
voters, decided or disputed once, and reopened for the same story and voters.
`RoomActor!ImplementsRound` is the refinement: `RoundOf` maps the voting state, a
ballot that is not the last is a stutter, the last one is `Agree` or `Disagree`,
`RestartVote` is `Reopen`.

### ActorServer

`Room == INSTANCE RoomActor` over the same variables, plus per session: `status`,
`name` (`RoomSession::winner`), `reply` (the answer of the room not yet taken),
`mail` (its mailbox), `view` (the last state written to the client), `admitted`
(an Ok to an `Enter` was written) and the counter `reads`. `roomBox` is the room's
mailbox.

| Action | Code |
| --- | --- |
| `Accept` | `tcp_server`: a connection is accepted, `RoomSession` created |
| `Send` | `StreamHandler::handle`, the arms that send to the room and `.wait(ctx)` |
| `RefuseLeave` | the arm of `Leave`: an Err and nothing else |
| `RoomHandle` | the room takes a message, its handler runs, the answer is sent |
| `Resume` | the continuation after the answer; a refused `Enter` calls `ctx.stop()` |
| `Deliver` | `Handler<RoomStateChanged>`: written, or the encoder panics |
| `StreamEnd` | end of stream, or an error of the codec, with `ctx.stop()` |
| `Stop` (part of three of these) | `stopping()`: `Leave` of the current name |

What actix does is taken from how the code uses it, and is external to the model's map:

- a mailbox is first-in first-out, and `do_send` ignores its capacity and fails
  silently when the receiver is gone;
- `send` to a full mailbox is parked until there is room. The session waits then
  as it does for the answer, so a parked request is the same as one not read yet;
- `.wait(ctx)` keeps the actor from its stream and from its mailbox until the
  future is done;
- `ctx.stop()` leads to `stopping()` in the same poll, after which no mail is
  handled;
- a panic in a handler drops the context, and dropping it runs `stopping()` too.

### ServerRoom

One action per message the task takes, up to where it waits for the next one. The
voting and the fighting loop are not actions of their own: the counting of ballots
(`Count`) and the end of a fight belong to the message that brings them about.
`current` is `current_state` with the locals of the loops, `sent` the broadcasts
of the last action in order, and `knows` what a client that starts with the initial
state of its subscription and applies each broadcast would believe. `knows` is an
observer, not state of the program: it is what `RoomStateUpdater` is for.

Requests come from participants, as a `RoomAPI` exists for a subscribed winner
only. When the asker has dropped the receiver of its answer the room's `expect`
panics; `Panic` is that outcome, possible whenever an answer is due. The answer to a
subscription is sent after everything else, so there the room has changed when
`expect` panics (`Answered`).
`FightResolved` is accepted by the room, but `RoomAPI` has no method for it;
the model keeps the room's side, which has one. Capacities and lag of the
channels belong to `ServerConnections`, below.

### ServerConnections

`Room == INSTANCE ServerRoom` over the same variables, plus the two channels to
the room (`subscriptions`, `incoming`) and per connection: `status` (where its
task is), `who` (`RoomAPI::winner`), `answer` (what is in its one-shot channel),
`behind` (the broadcasts it has still to forward), the counter `reads` and the
history `seated`, whether the room has let it in and not yet out.

| Action | Code |
| --- | --- |
| `Accept` | `tcp_room`: a connection is accepted and its task spawned |
| `EnterRoom`, `GiveUp` | `wait_on_subscription`: the first `EnterRoom`, or an end before it |
| `Subscribed` | `RoomSubscriber::subscribe`: the answer, or a closed channel |
| `WriteInitialState` | `write_initial_state` |
| `Ask` | `message_handler`, the arms of `StartVote` and `Vote`, with `send_client_request` |
| `Ignore` | its arms of `EnterRoom` and `LeaveRoom`: an Ok and nothing else |
| `Reply` | the answer is written |
| `Close` | the loop ends with the stream, and `leave_room` is called |
| `Crash` | an error of the stream or the decoder, or `unimplemented!` |
| `Forward`, `Detach` | `room_updates`: a broadcast is written; the receiver is lagged or closed |
| `Cut` | a write fails |
| `RoomSubscribe`, `RoomHandle` | the room takes a subscription or a message, and answers |

`Close` is an action of a task that is not waiting for an answer: the loop reads
its stream only between two requests. `room_updates` goes on after it, until the
room drops its sender or a write fails, so the task of a client that has left is not over
(`left`). What ends a task otherwise drops everything it holds, and leaves its
request in the room's channel; `End` is that end.

`AnswerDue` says for which messages the room expects a receiver of its answer:
`StartVote` always, `Vote` unless idle, and every subscription is answered. If the
receiver is gone, `expect` panics, the task of the room is over and its channels are
closed (`alive` is FALSE). For a subscription this does not happen: nothing ends a
task while it waits to be let in, which the proofs use as `SubscriberWaits`.

Abstractions. The request channels have no bound: a task has one request under
way, so it takes `CHANNEL_SIZE` connections to fill one, and who waits to send has
not sent yet. Of the broadcasts only the number is kept: what they say is `sent` and
`knows` of `ServerRoom`. A client in `Steady` sends what the server can handle,
reads what it is sent and closes, if it does, in an orderly way; any other may break
off or stop reading at any point.

### CliClient

`asked`, `wire`, `closed` and `sent` are the connection and the server behind it,
modelled by what `ActorServer` promises: one answer to each request in order,
states after the Ok to `Enter`, or a close. `mux`, `responses`, `states` are the
multiplexer and its channels, `main`, `shown`, `last` the main task, `tty` and
`console` the thread that reads lines, `loops` the input loops, and `listeners`
and `callers` the two mutexes, each as the queue of its holder and those who wait:
tokio's `Mutex` is fair.

| Action | Code |
| --- | --- |
| `Multiplex`, `MultiplexEnd` | the task of `multiplex`: an item goes to its channel; the stream or the decoder ends it |
| `Entered` | `enter_room().await.expect()` |
| `Show`, `Exit` | the loop of `main`: print, compare with the last, spawn `handle_input`; leave |
| `Type`, `TypeError` | the thread of the console: a line, or a line it cannot read |
| `Listen`, `TakeLine` | an input loop asks for the console, gets a line, lets go |
| `Call`, `Send`, `Receive` | it asks for the client, sends the request, takes the response, lets go |
| `ServerAnswer`, `ServerState`, `ServerClose` | the server, as `ActorServer` |

`Parse` is `FromStr` of `StoryPoints` as a table. `Decodes` is the framing: a JSON text whose length is taken modulo 2^16 is cut short
when it is longer, a JSON text cut short is none, and the decoder's error ends the
multiplexer. A frame that arrives in parts takes nothing out of the buffer before
it is complete, so a partial read is a step that changes nothing.

Waiting for space in a channel while holding an item is modelled as not having
taken it. `VotingState` has the kind, the story and a token for the ballots, since the
comparison in `main.rs:91` is of all three.

Left out: the words that are printed, the random id of a new story
(`ServerRoom!StartVote` and `RoomActor!StartVote` take any story), and
`restart_vote`, which nothing calls.

## 3. What the runs check

| Run | Shows |
| --- | --- |
| `room_actor` | types; an open vote misses a ballot, through recasts, leavers and restarts; fights are disagreements between extremes; the electorate is frozen; a result takes a closing ballot with which all others agree, and has its points; a vote without participants never ends; the refinement of `PlanningRound` |
| `room_actor_empty` | finding: a vote in an empty room has all its votes in and is not over |
| `actor_server` | for any clients: one request in flight per waiting session, the last state sent is the current one, a state only after the Ok to `Enter`, the Ok before the state it led to; a session that is over leaves a seat only under a name it had exchanged for another |
| `actor_server_cli` | for clients as winner_cli under different names: no seat without a connection, nobody taken out of the room by others, every request answered, every ended connection's seat given up, every member told the final state |
| `actor_server_same_name` | finding: a client refused under a name in use evicts its owner |
| `actor_server_result` | finding: the first agreed vote ends the sessions of those told of it |
| `server_room` | types; voting waits only while ballots are missing; fighters are present and differ; broadcasts suffice to know the room; leadership is handed over |
| `server_room_leader` | finding: an emptied room keeps a leader who has left |
| `server_room_results` | finding: a leaver's ballot stands in for that of somebody present |
| `server_room_cast` | finding: a ballot for another story is announced and dropped |
| `server_connections` | types; people and seats are one to one; each task waits for exactly one answer; requests come from seats; only a lost connection breaks the room; ballots are in their sender's name; every request is answered, every orderly leaver gives up the seat, a broken room is noticed, entrants wait for votes only |
| `cli_client` | types and full channels; responses reach who asked; states come in order; the newest input loop is about the current vote; every state is printed, every line taken and every request answered, however many loops pile up |

`PROJECT.json` names, for every property of a passing run, a mutant: a plausible
bug of the code, defined next to the definition it replaces, under which the run
fails.

### Bounds, and why they are enough

- `room_actor`: three people, so that a vote can have a lowest, a highest and
  one between or tied, and one can be outside; three cards, for distinct minimum,
  middle and maximum; two stories that share an id and a further id nobody votes on;
  one session, since the room never looks at recipients. The state space is
  finite and explored completely, no counter is bounded.
- `actor_server`: two connections, which suffice for one to disturb another;
  names `ann` and `invalid`, the second being the name of a session that has not entered,
  which a client may choose as well. Three requests per client
  (`MaxRequests`): enough to enter, start a vote, cast, and for a client to enter
  twice. One story, two cards.
- `actor_server_cli`: two connections, three names, three requests: enter,
  start, vote reaches results and the panic of the encoder.
- `server_room`: four people so that a vote can have a highest, a lowest, one
  between and one who has not voted or has left; two stories for ballots on another one; three
  cards. Complete, no counter.

- `server_connections`: two connections suffice for one to disturb another, be it by its
  seat, its name, its requests or its loss. One is steady, the other may break
  off. Two names, which both may use. Two messages each (`MaxRequests`): one
  to start a vote and one to vote in it, or after it. `Capacity` 3 stands for the
  100 of the broadcast channel: one message to the room may lead to several broadcasts,
  so a connection may keep up, fall behind by several, or be lagged, by one
  message or by more.
- `cli_client`: channels of one place (for `CHANNEL_SIZE`, 100) make every one of them
  full; two states (`MaxStates`) with or without a ballot give up to two
  input loops, which is what it takes to compete; three lines (`MaxLines`) take a loop
  through an option, a name and points. Lines are `1` (an option, a name or points),
  `4` (points that print as they are typed but mean five) and `4` with its newline. Lengths
  are 65535, the last that fits, and 65536.

`CHECK_DEADLOCK FALSE` is set where the system really may stop: in
`ActorServer` when all clients have sent `MaxRequests` and no message is left, in
`ServerRoom` after a panic, in `ServerConnections` when every task has ended or its
client is silent, in `CliClient` when the program has ended or nobody types.

### Fairness

`CliSpec` assumes weak fairness of `RoomHandle`, and of `Resume` and `Deliver` for each
session: the arbiter polls every actor that has been woken until it has nothing
to do. Nothing is assumed of clients: they may never connect, ask or hang up.
Weak fairness is enough because each of these actions, once enabled, stays so
until it happens, except `Deliver`, which a session's next request or its end may
disable; a client's requests are finitely many under `MaxRequests`.
A client that sends requests without end could only postpone its own mail.

`ServerConnections!Spec` assumes that the runtime polls a task that was woken: weak
fairness of `RoomSubscribe` and `RoomHandle`, of `Subscribed` for every connection, and of
writing (`WriteInitialState`, `Reply`, `Forward`, `Detach`) for the steady
ones only, as a write may block for ever on a client that does not read. Nobody
has to connect, enter, ask, close or fail. An idle
room waits for both of its channels in one `select!`, which picks at random when both have
something, so neither is passed over for ever. Weak fairness says as much here, as
requests are finitely many under `MaxRequests`. During a vote or a fight `RoomSubscribe` is disabled,
which is why `EntrantsWaitForVotesOnly` assumes a room that is idle again and again.

`CliClient!Spec` assumes the same of the client's tasks: of the multiplexer, the main
task and every input loop. Of the server it assumes that it answers what it has been asked
unless it closes, which is `ActorServer!RequestsAreAnswered`. Nobody has to type, and
the server need neither send states nor close.

## 4. What is proved

Every invariant and every action property of the passing runs, and the refinement of
`PlanningRound`, is stated by a theorem, which holds for all values of the constants that meet these
assumptions:

- `NamesAssumption`: the name of a session that has not entered is a possible name, and
  every session of winner_cli has one. `NameOf` is a function, so two sessions may share one.
- `StoryAssumption`, `PointsAssumption` (`RoomActor`, `ActorServer`): a story is its id
  and title; cards are discriminants of `StoryPoints`, and `None` is not a card. In
  `ServerRoom` and `ServerConnections` cards need only be numbers.
- `NoOneAssumption`: the leader of a room nobody has entered is nobody's name.
- `CapacityAssumption`, `BoundAssumption`, `RequestsAssumption`, `LineAssumption`,
  `LengthAssumption`: channels have places, bounds and lengths are numbers, lines are text.

Sets of people, sessions and connections may be infinite, and the bounds are any number. One
theorem, `OnlyTheGoneAreTakenOut`, assumes more (below). The modules:

| Module | Theorems (property) |
| --- | --- |
| `RoomActorProofs` | `TypeCorrect` (`TypeOK`), `OpenVotesMissABallot` (`OpenVoteMissesABallot`), `FightsAreDisagreements` (`FightIsADisagreement`), `ElectorateIsFrozen` (`ElectorateFrozen`), `ResultsAreUnanimous` (`ResultIsUnanimous`), `EmptyVoteIsForEver` (`EmptyVoteNeverEnds`), `RoomImplementsRound` (`ImplementsRound`) |
| `ActorServerProofs` | `TheRoomKeepsItsPromises`, `TypeCorrect` (`TypeOK`), `AnswersPairUp` (`OneRequestInFlight`), `NoStateIsLost` (`LatestStateIsCurrent`), `AdmittedFirst` (`StateOnlyAfterOk`), `OkComesFirst` (`OkBeforeItsState`), `LastNameIsGivenUp` (`OnlyFormerNamesStay`), `TheGoneStayOut` |
| `ActorServerCliProofs` | `SeatsHaveConnections` (`SeatsAreConnected`), `OnlyTheGoneAreTakenOut` (`OnlyOwnersLeave`) |
| `ServerRoomProofs` | `TypeCorrect` (`TypeOK`), `VotingWaitsForBallots` (`VotingAwaitsABallot`), `FightsAreAmongThePresent` (`FightersArePresent`), `BroadcastsTellTheRoom` (`SubscribersKnowTheRoom`), `LeadersAreSucceeded` (`LeadershipIsHandedOver`) |
| `ServerConnectionsProofs` | `SeatsMatchConnections` (`OneSeatEach`), `NoRequestOutlivesItsSeat` (`RequestsComeFromSeats`), `RoomOutlivesItsClients` (`OnlyTheLostBreakTheRoom`), `ServerRunsTheRoom`, `BallotsAreTheSendersOwn` (`BallotsAreOwn`) |
| `ServerAnswersProofs` | `TypeCorrect` (`TypeOK`), `NobodyWaitsInVain` (`WaitsForOneAnswer`), `TheRoomKeepsItsPromises` |
| `CliClientProofs` | `TypeCorrect` (`TypeOK`), `NoStateIsSkipped` (`StatesInOrder`), `NewestLoopFollows` (`NewestLoopIsCurrent`), `ResponsesPairUp` (`AnswersPairUp`) |

### The room of winner_actor

The inductive invariant is the conjunction of `TypeOK`, `OpenVoteMissesABallot` and
`FightIsADisagreement`. `TypeOK` is inductive by itself. The other two are so only
together with it: a fight compares ballots, which must be numbers, so its ballots
must be complete and of the types the vote keeps. The action properties and the
refinement follow from `TypeOK` alone: the lemma `StepEffect` says what a step may
do to `voting` and `pastVotes` (nothing, restart a fight, start a vote, take a ballot),
`VoteOutcome` the three ends of a ballot, and each property is proved from these
two, not from the actions one by one. For `ResultIsUnanimous`, which is about the ballot
that closes the vote, `ClosingBallot` goes back from the result to that message: the step
that records one takes the ballot of a participant, after which every participant has cast
the same points. That a fight is between people who differ
rests on `FightersDiffer`: the lowest and the highest of ballots that are not all equal
are distinct.

### The server of winner_actor

The lemma `ServerRunsTheRoom` holds by construction: only `RoomHandle` touches the
room, by the actions of `RoomActor`. It serves `TheRoomKeepsItsPromises`: the theorems of
`RoomActorProofs` hold in the server, with any clients.

None of the properties about sessions is inductive. `IInv` adds to them and to the types

- `Members`: members are sessions, and finitely many. A room nobody has entered is
  empty, and `Cardinality`, by which the model counts the copies of a state that go to one session,
  means something only of a finite set;
- `InFlight`: a session waits if and only if a request of its own is in `roomBox` or its
  answer is ready, never both, and never two requests. `OneRequestInFlight` says
  the same with numbers, which is no hypothesis to reason from;
- `OnlyTheAdmitted`: who is a member or has mail has the Ok to an `Enter` written or ready. This is
  what makes `StateOnlyAfterOk` inductive: mail that is read was sent to a
  member, which may be none any more.

`LatestStateIsCurrent` and `OkBeforeItsState` rest on one lemma, `CopiesSent`: a
message the room accepts sends every session that is told copies of the new state, and
no other session anything.

`LastNameIsGivenUp` says that a connection which has ended holds a seat under the name it
asked for last only while its `Leave` is in the mailbox, for clients that enter as often and
under as many names as they like. `StopGivesUpName` puts the `Leave` there, and
`HandlingKeepsNames` says that the room takes it out only with the seat. A session that has
stopped has no `Enter` under way (`InFlight`), so the seat does not come back.

`TheGoneStayOut` is the safety half of `SeatsAreGivenUp`, and for any clients: by `InFlight`
no `Enter` of an ended connection is left in the mailbox, so that whose seat is given up
never has one again. That the seat is given up at all is liveness, and true of winner_cli's clients only.

`ActorServerCliProofs` is about clients as winner_cli. `CliInv` adds that a session's name,
its `Enter` and its seat are under `NameOf` (`NamesAreOwn`), that a `Leave` in the
mailbox is of the placeholder or of a session that has stopped (`LeavesAreOwn`), and
`SeatsAreConnected`. `OnlyTheGoneAreTakenOut` has two hypotheses, names that differ and
are not the placeholder. Without the first it is false: that is the finding of
`actor_server_same_name`.

### The room of winner_server

`IInv` is the types, the finiteness of the participants and the ballots, and the three
invariants, of which `SubscribersKnowTheRoom` is strengthened to `Informed`: `knows` is a
function of exactly the participants. `VotingAwaitsABallot` needs the finiteness, as it
compares cardinalities: after `Count` there are fewer ballots than participants or the vote
is over. `FightersArePresent` needs the types, since ballots must be numbers for
`Cardinality(Range(votes)) > 1` to mean that the highest is above the lowest
(`FightersDisagree`).

What a client believes is a fold of `Learn` over the broadcasts. That a fold over any
sequence behaves needs induction over data. No action broadcasts more than five messages, so
`LearnAllSteps` unrolls it as far, `LearnOne` and `LearnTwo` begin it, `LearnOneMore` and
`LearnTwoMore` append to it, and
`CountTells` says once what all broadcasts at the end of a vote amount to.

### The connections of winner_server

None of the first three theorems of `ServerConnectionsProofs` is inductive. The invariant
`IInv` adds the types (`Types`), how
far a task is against whether it has a seat and an answer (`Stages`), and what may be
in the channels: at most one subscription of a connection, while it waits for the
answer (`Applications`), and at most one message of a connection, which has a
seat and, unless it is a `LeaveRoom`, waits for the answer or has ended (`Requests`).
That there is at most one is what makes the rest work: taking a `LeaveRoom`
out of the channel takes the seat away, and no second message of that connection is then left
in it; and the names of seats being distinct (`Seats`) means that nobody else's seat goes with
it. `LocalStep` and `SendKeepsIInv` say once what the many steps of a task have in
common. `ServerRunsTheRoom` rests on `Requests`: `ServerRoom!Next` allows messages of
participants only. `BallotsAreOwn` needs, beyond it, what the room broadcasts
(`CountAnnounces`, `HandleAnnounces`): the results of a vote, a fight or a leave announce no
ballot besides the one just cast.

`ServerAnswersProofs` adds `Pending`: who waits and has no answer has something in the
channel the room reads. With `Applications` and `Requests`, which say that it is not
more than one and not beside an answer, that is `WaitsForOneAnswer`.
`TheRoomKeepsItsPromises` combines `ServerRunsTheRoom` with `ServerRoomProofs`. `TypeOK`
follows from the room's types, `Types` and the ranges of the counters: the proof that `behind` never
passes `Capacity + 1` is that of `Lag`, the point where a receiver is told that it has lost
broadcasts.

### The client

`IInv` is `TypeOK` and `Order`, `Newest`, `Asking`, `Holder`, `Pairing`. `AnswersPairUp`
needs three of them. A loop that waits holds the client (`Holder`), so at most one
waits; while the multiplexer runs there is at most one request that has not been asked, answered
and received in turn (`Pairing`); and who may send is at the head of `callers` with a
request of its own (`Asking`). `Order` says which numbers are printed, in the channel and on the
wire. `StatesInOrder` says the same with sets, and not only while the multiplexer
runs. `Newest` bounds the loops by the states printed.

### What stays with TLC

Properties under fairness: `RequestsAreAnswered`, `SeatsAreGivenUp` and `MembersCatchUp` of
`ActorServer`, the four of `ServerConnections` and the three of `CliClient`. The
prover has neither `ENABLED` nor fairness. The six runs that expect a violation are
TLC's alone as well.

## 5. Findings

Six, each with the run that shows it; `PROJECT.json` quotes the comment or test that each
contradicts.

1. `room_actor_empty`: a vote started in an empty room can never end
   (`winner_actor/src/room.rs:172`).
2. `actor_server_same_name`: a refused `Enter` evicts the owner of the name
   (`winner_actor/src/tcp_actor.rs:30`).
3. `actor_server_result`: past results have no JSON encoding, since a struct is
   no key of a JSON object; the encoder's `unwrap` panics and the session ends
   (`winner_actor/src/codec.rs:40`).
4. `server_room_leader`: the last leader of an emptied room stays
   (`winner_server/src/room.rs:155`).
5. `server_room_results`: ballots of leavers count (`winner_server/src/room.rs:251`).
6. `server_room_cast`: a ballot on another story is announced
   (`winner_server/src/room.rs:261`).

Met while modelling, in line with no text that says otherwise, and therefore without a
run of their own:

- A connection to `winner_server` that breaks off with a request under way brings
  down the room, and with it everybody: the room expects the receiver of its answer
  (`room.rs:272`). `OnlyTheLostBreakTheRoom` says that nothing else does.
- A connection that breaks off otherwise keeps its seat for ever: its name cannot enter
  again and votes wait for its ballot. `LeaversGiveUpTheirSeat` is for orderly ends only.
- A client of `winner_server` cannot end a fight: the handler of `FightResolved` is
  `unimplemented!` (`client_handler.rs:34`), and asking for it is a loss as above.
- In winner_cli typed lines keep their newline, so an option or points parse
  only when a line is cut by an end of file; of the points the prompt offers
  (`main.rs:144,174`), `5` does not parse, which ends the input loop, and `20` is cast as
  thirteen (`types.rs:67-70`); `RestartVote` is never sent, and the ballot sent in a fight
  is refused; an input loop for an earlier vote may take the line meant for the current
  one, and one that waits for points panics over what is none.

Two further properties that do not hold of every client are checked only for those
for which they do: `SeatsAreConnected` and `OnlyOwnersLeave` fail for a client that
enters twice, which winner_cli does not. Such a client keeps the first of its seats when
it stops; `OnlyFormerNamesStay` says of any client that this is all it keeps.

## 6. Plan

Every component that keeps state has its module, and every safety property its
theorem. What is left:

1. `ActorServer` as an implementation of an abstract exchange of requests, answers and
   states, the one `CliClient` assumes of its server.
2. `ServerConnections` as an implementation of an abstract room of seats.

Not modelled: entry points and logging (no state); the skip methods of
`RoomStateUpdater`, which only tests call; `restart_vote` of the client library, which nothing
calls, and `Room` and `Vote` of `types.rs`, which nothing uses; the wording of what is
printed; JSON beyond what it cannot hold and what a cut leaves of it.

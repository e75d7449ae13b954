--------------------------- MODULE CliClientProofs ---------------------------
(* Theorems about CliClient for any stories, ballots, lines and lengths, any *)
(* channels and any number of states and lines.                              *)
EXTENDS CliClient, FiniteSetTheorems, TLAPS

\* There are at most as many loops as states were printed, and the newest is for
\* the vote that was printed last.
Newest ==
  /\ Len(loops) <= shown
  /\ shown = 0 => last = NotShown
  /\ shown > 0 => last # NotShown
  /\ last # NotShown => loops # <<>> /\ loops[Len(loops)].voting = last

\* A loop asks for points only if there is a vote, and has a request of its own
\* when it wants to send one or has sent it; the client waits for its Enter
\* before there are loops.
Asking ==
  /\ main = "entering" => loops = <<>>
  /\ \A i \in 1..Len(loops) :
       /\ loops[i].pc = "points" => loops[i].voting.kind # "Idle"
       /\ loops[i].pc = "calling" =>
            loops[i].request # NoRequest /\ loops[i].request.by = i

\* The loop that waits for a response holds the client.
Holder ==
  \A i \in 1..Len(loops) : loops[i].pc = "waiting" => callers # <<>> /\ callers[1] = i

\* While the multiplexer runs there is at most one request that is not answered,
\* or answered and the answer not received, and it is that of who waits.
Pairing ==
  mux = "running" =>
    /\ Len(asked) <= 1
    /\ Len(responses) <= 1
    /\ \A k \in 1..Len(asked) : asked[k].by \in Waiting
    /\ \A k \in 1..Len(responses) : responses[k].to \in Waiting /\ asked = <<>>
    /\ \A k \in 1..Len(wire) : wire[k].kind # "State" =>
         wire[k].to \in Waiting /\ asked = <<>> /\ responses = <<>>
    /\ \A j, k \in 1..Len(wire) :
         wire[j].kind # "State" /\ wire[k].kind # "State" => j = k

\* The states that were not printed are those in the channel and then those on
\* the wire, in the order they were sent.
Order ==
  /\ shown + Len(states) <= sent
  /\ \A k \in 1..Len(states) : states[k].n = shown + k
  /\ \A k \in 1..Len(wire) :
       wire[k].kind = "State" => wire[k].n \in (shown + Len(states) + 1)..sent
  /\ \A n \in (shown + Len(states) + 1)..sent :
       \E k \in 1..Len(wire) : wire[k].kind = "State" /\ wire[k].n = n
  /\ \A j, k \in 1..Len(wire) :
       wire[j].kind = "State" /\ wire[k].kind = "State" /\ j < k => wire[j].n < wire[k].n

\* The inductive invariant.
IInv == TypeOK /\ Order /\ Newest /\ Asking /\ Holder /\ Pairing
-----------------------------------------------------------------------------
\* An input loop.
LoopRecord ==
  [voting: VotingState, request: Request \cup {NoRequest},
   pc: {"option", "name", "points", "calling", "waiting", "done", "dead"}]

\* A queue that gets one element more.
LEMMA AppendFacts ==
  ASSUME NEW S, NEW q \in Seq(S), NEW x \in S
  PROVE  /\ Append(q, x) \in Seq(S) /\ Len(q) \in Nat /\ Len(Append(q, x)) = Len(q) + 1
         /\ \A k \in 1..Len(q) : k \in 1..Len(Append(q, x)) /\ Append(q, x)[k] = q[k] /\ q[k] \in S
         /\ Append(q, x)[Len(q) + 1] = x
OBVIOUS

\* The elements of a queue, and what is left of it.
LEMMA QueueFacts ==
  ASSUME NEW S, NEW q \in Seq(S)
  PROVE  /\ Len(q) \in Nat /\ (q = <<>> <=> Len(q) = 0)
         /\ \A k \in 1..Len(q) : q[k] \in S
         /\ q # <<>> => /\ Tail(q) \in Seq(S) /\ Len(Tail(q)) = Len(q) - 1
                        /\ Head(q) = q[1] /\ 1 \in 1..Len(q)
                        /\ \A k \in 1..Len(Tail(q)) :
                             Tail(q)[k] = q[k + 1] /\ k + 1 \in 1..Len(q)
OBVIOUS

\* The kinds of items the server writes, and of states of a vote.
LEMMA ItemFields ==
  /\ \A x \in Response : x.kind # "State" /\ x.to \in 0..MaxStates
  /\ \A x \in RoomState : x.kind = "State" /\ x.n \in 1..MaxStates /\ x.voting \in VotingState
  /\ \A v \in VotingState : /\ v.kind \in {"Idle", "Voting", "Fighting"} /\ v # NotShown
                            /\ v.kind # "Idle" => v.story \in Story
BY DEF Response, RoomState, VotingState, NotShown

\* Every request says who makes it.
LEMMA RequestFields ==
  /\ \A x \in Request : x.by \in 0..MaxStates /\ x.kind # "None"
  /\ EnterMsg \in Request /\ EnterMsg.by = Main /\ NoRequest \notin Request
  /\ \A i \in 1..MaxStates :
       /\ StartMsg(i) \in Request /\ StartMsg(i).by = i /\ StartMsg(i).kind = "StartVote"
       /\ \A story \in Story, points \in Nat :
            /\ VoteMsg(i, story, points) \in Request /\ VoteMsg(i, story, points).by = i
            /\ VoteMsg(i, story, points).kind = "Vote"
            /\ VoteMsg(i, story, points).points = points
BY BoundAssumption DEF Request, EnterMsg, Main, NoRequest, StartMsg, VoteMsg

\* What a word of points means.
LEMMA Words == \A line \in DOMAIN Parse : Parse[line] \in {1, 2, 3, 5, 8, 13}
BY DEF Parse

\* Who waits for a response.
LEMMA WhoWaits ==
  ASSUME TypeOK
  PROVE  \A x : x \in Waiting <=>
                 \/ (x \in 1..Len(loops) /\ loops[x].pc = "waiting")
                 \/ (main = "entering" /\ x = Main)
<1>1. DOMAIN loops = 1..Len(loops)
  <2>1. loops \in Seq(LoopRecord)
    BY DEF TypeOK, LoopRecord
  <2>2. QED
    BY <2>1
<1>2. QED
  BY <1>1 DEF Waiting

\* A loop is known by a number that is at most the number of states.
LEMMA LoopFacts ==
  ASSUME TypeOK, Newest
  PROVE  /\ DOMAIN loops = 1..Len(loops) /\ Len(loops) \in Nat
         /\ \A i \in 1..Len(loops) : loops[i] \in LoopRecord /\ i \in 1..MaxStates
<1>1. /\ DOMAIN loops = 1..Len(loops) /\ Len(loops) \in Nat
      /\ \A i \in 1..Len(loops) : loops[i] \in LoopRecord
  <2>1. loops \in Seq(LoopRecord)
    BY DEF TypeOK, LoopRecord
  <2>2. QED
    BY <2>1
<1>2. Len(loops) <= MaxStates
  BY <1>1, BoundAssumption DEF TypeOK, Newest
<1>3. QED
  BY <1>1, <1>2, BoundAssumption

\* A step of one loop, which does not change what it was spawned for.
LEMMA LoopStep ==
  ASSUME IInv, NEW i \in 1..Len(loops), NEW l \in LoopRecord,
         loops' = [loops EXCEPT ![i] = l], l.voting = loops[i].voting,
         l.pc = "points" => l.voting.kind # "Idle",
         l.pc = "calling" => l.request # NoRequest /\ l.request.by = i,
         UNCHANGED mainVars
  PROVE  /\ loops' \in Seq(LoopRecord) /\ Len(loops') = Len(loops)
         /\ loops'[i] = l
         /\ \A k \in 1..Len(loops) : k # i => loops'[k] = loops[k]
         /\ Newest' /\ Asking'
<1>1. loops \in Seq(LoopRecord)
  BY DEF IInv, TypeOK, LoopRecord
<1>2. /\ loops' \in Seq(LoopRecord) /\ Len(loops') = Len(loops)
      /\ loops'[i] = l
      /\ \A k \in 1..Len(loops) : k # i => loops'[k] = loops[k]
  BY <1>1
<1>3. Newest'
  <2>1. \A k \in 1..Len(loops) : loops'[k].voting = loops[k].voting
    BY <1>2
  <2>2. Len(loops) \in Nat /\ (loops # <<>> <=> Len(loops) > 0) /\ loops' # <<>>
    BY <1>1, <1>2
  <2>3. loops' # <<>> => loops'[Len(loops)].voting = loops[Len(loops)].voting
    BY <2>1, <2>2
  <2>4. QED
    BY <1>2, <2>2, <2>3 DEF IInv, Newest, mainVars
<1>4. Asking'
  <2>1. main # "entering"
    BY <1>1 DEF IInv, Asking
  <2>2. QED
    BY <1>2, <2>1 DEF IInv, Asking, mainVars
<1>5. QED
  BY <1>2, <1>3, <1>4
Item == Response \cup RoomState

\* What the types say of the queues.
LEMMA QueueTypes ==
  ASSUME TypeOK
  PROVE  /\ asked \in Seq(Request) /\ wire \in Seq(Item)
         /\ responses \in Seq(Response) /\ states \in Seq(RoomState)
         /\ console \in Seq(Line) /\ loops \in Seq(LoopRecord)
         /\ listeners \in Seq(1..MaxStates) /\ callers \in Seq(1..MaxStates)
BY DEF TypeOK, LoopRecord, Item

\* What waits on the wire.
LEMMA WireFacts ==
  ASSUME TypeOK
  PROVE  /\ Len(wire) \in Nat
         /\ \A k \in 1..Len(wire) : wire[k] \in Item
         /\ \A k \in 1..Len(wire) : wire[k].kind = "State" => wire[k] \in RoomState
         /\ \A k \in 1..Len(wire) : wire[k].kind # "State" => wire[k] \in Response
<1>1. Len(wire) \in Nat /\ \A k \in 1..Len(wire) : wire[k] \in Item
  BY QueueTypes, QueueFacts
<1>2. QED
  BY <1>1, ItemFields DEF Item

\* The server answers the only request there is.
LEMMA AnswerKeepsIInv ==
  ASSUME IInv, ServerAnswer
  PROVE  IInv'
<1>a. TypeOK /\ Order /\ Newest /\ Asking /\ Holder /\ Pairing
  BY DEF IInv
<1>1. /\ asked # <<>> /\ asked' = Tail(asked)
      /\ UNCHANGED <<closed, sent, muxVars, mainVars, inputVars>>
  BY DEF ServerAnswer
<1>2. PICK r : /\ wire' = Append(wire, r)
               /\ \E result \in {"Ok", "Err"} : r = [kind |-> result, to |-> Head(asked).by]
  BY DEF ServerAnswer
<1>3. /\ asked' \in Seq(Request) /\ Head(asked) = asked[1] /\ asked[1] \in Request
      /\ Len(asked') = Len(asked) - 1 /\ Len(asked) \in Nat /\ 1 \in 1..Len(asked)
  BY <1>a, <1>1, QueueTypes, QueueFacts
<1>4. asked[1].by \in 0..MaxStates
  BY <1>3, RequestFields
<1>5. r \in Response /\ r.kind # "State" /\ r.to = asked[1].by
  BY <1>2, <1>3, <1>4, ItemFields DEF Response
<1>6. /\ wire' \in Seq(Item) /\ Len(wire') = Len(wire) + 1 /\ Len(wire) \in Nat
      /\ \A k \in 1..Len(wire) : k \in 1..Len(wire') /\ wire'[k] = wire[k]
      /\ wire'[Len(wire) + 1] = r
  <2>1. r \in Item
    BY <1>5 DEF Item
  <2>2. QED
    BY <1>a, <1>2, <2>1, QueueTypes, AppendFacts
<1>7. TypeOK'
  BY <1>a, <1>1, <1>3, <1>6 DEF TypeOK, muxVars, mainVars, inputVars, Item
<1>8. Order'
  <2>1. UNCHANGED <<states, shown, sent>>
    BY <1>1 DEF muxVars, mainVars
  <2>2. \A k \in 1..Len(wire') :
          wire'[k].kind = "State" => k \in 1..Len(wire) /\ wire'[k] = wire[k]
    BY <1>5, <1>6
  <2>3. \A n \in (shown + Len(states) + 1)..sent :
          \E k \in 1..Len(wire') : wire'[k].kind = "State" /\ wire'[k].n = n
    BY <1>a, <1>6 DEF Order
  <2>4. QED
    BY <1>a, <2>1, <2>2, <2>3 DEF Order
<1>9. Newest' /\ Asking' /\ Holder'
  BY <1>a, <1>1 DEF Newest, Asking, Holder, mainVars, inputVars
<1>10. Pairing'
  <2>1. Waiting' = Waiting
    BY <1>1 DEF Waiting, mainVars, inputVars
  <2>2. SUFFICES ASSUME mux = "running" PROVE Pairing'
    BY <1>1 DEF Pairing, muxVars
  <2>3. asked[1].by \in Waiting /\ Len(asked) = 1 /\ responses = <<>>
    <3>1. asked[1].by \in Waiting /\ Len(asked) = 1
      BY <1>a, <1>3, <2>2 DEF Pairing
    <3>2. Len(responses) \in Nat /\ (responses = <<>> <=> Len(responses) = 0)
      BY <1>a, QueueTypes, QueueFacts
    <3>3. QED
      BY <1>a, <1>1, <2>2, <3>1, <3>2 DEF Pairing
  <2>4. \A k \in 1..Len(wire) : wire[k].kind = "State"
    BY <1>a, <1>1, <2>2 DEF Pairing
  <2>5. Len(asked') = 0 /\ asked' = <<>>
    BY <1>3, <2>3, QueueFacts
  <2>6. responses' = responses
    BY <1>1 DEF muxVars
  <2>7. QED
    BY <1>5, <1>6, <2>1, <2>3, <2>4, <2>5, <2>6 DEF Pairing
<1>11. QED
  BY <1>7, <1>8, <1>9, <1>10 DEF IInv

\* The server writes the next state.
LEMMA StateKeepsIInv ==
  ASSUME IInv, NEW voting \in VotingState, NEW length \in Length,
         ServerState(voting, length)
  PROVE  IInv'
<1>a. TypeOK /\ Order /\ Newest /\ Asking /\ Holder /\ Pairing
  BY DEF IInv
<1> DEFINE x == State(sent + 1, voting, length)
<1>1. /\ sent < MaxStates /\ sent' = sent + 1 /\ wire' = Append(wire, x)
      /\ UNCHANGED <<asked, closed, muxVars, mainVars, inputVars>>
  BY DEF ServerState
<1>2. sent \in 0..MaxStates /\ sent' \in 1..MaxStates /\ shown \in 0..MaxStates
      /\ MaxStates \in Nat
  BY <1>a, <1>1, BoundAssumption DEF TypeOK
<1>3. x \in RoomState /\ x.kind = "State" /\ x.n = sent + 1 /\ x \in Item
  BY <1>1, <1>2 DEF State, RoomState, Item
<1> HIDE DEF x
<1>4. /\ wire' \in Seq(Item) /\ Len(wire') = Len(wire) + 1 /\ Len(wire) \in Nat
      /\ \A k \in 1..Len(wire) : k \in 1..Len(wire') /\ wire'[k] = wire[k]
      /\ wire'[Len(wire) + 1] = x
  BY <1>a, <1>1, <1>3, QueueTypes, AppendFacts
<1>5. TypeOK'
  BY <1>a, <1>1, <1>2, <1>4 DEF TypeOK, muxVars, mainVars, inputVars, Item
<1>6. Order'
  <2>1. states' = states /\ shown' = shown /\ Len(states) \in Nat
    BY <1>a, <1>1, QueueTypes, QueueFacts DEF muxVars, mainVars
  <2>2. shown + Len(states) <= sent /\ shown' + Len(states') = shown + Len(states)
    BY <1>a, <2>1 DEF Order
  <2> DEFINE first == shown + Len(states) + 1
  <2>3. first \in Nat /\ first <= sent + 1 /\ first..sent' = (first..sent) \cup {sent + 1}
    BY <1>1, <1>2, <2>1, <2>2
  <2>4. /\ \A k \in 1..Len(wire) : wire[k].kind = "State" => wire[k].n \in first..sent
        /\ \A n \in first..sent : \E k \in 1..Len(wire) : wire[k].kind = "State" /\ wire[k].n = n
        /\ \A j, k \in 1..Len(wire) :
             wire[j].kind = "State" /\ wire[k].kind = "State" /\ j < k => wire[j].n < wire[k].n
    BY <1>a DEF Order
  <2>5. shown' + Len(states') + 1 = first
    BY <2>2
  <2> HIDE DEF first
  <2>6. \A k \in 1..Len(wire') : k \in 1..Len(wire) \/ k = Len(wire) + 1
    BY <1>4
  <2>7. \A k \in 1..Len(wire') : wire'[k].kind = "State" => wire'[k].n \in first..sent'
    BY <1>2, <1>3, <1>4, <2>3, <2>4, <2>6
  <2>8. \A n \in first..sent' : \E k \in 1..Len(wire') : wire'[k].kind = "State" /\ wire'[k].n = n
    <3>1. ASSUME NEW n \in first..sent
          PROVE  \E k \in 1..Len(wire') : wire'[k].kind = "State" /\ wire'[k].n = n
      BY <1>4, <2>4
    <3>2. Len(wire) + 1 \in 1..Len(wire')
      BY <1>4
    <3>3. QED
      BY <1>3, <1>4, <2>3, <3>1, <3>2
  <2>9. ASSUME NEW j \in 1..Len(wire'), NEW k \in 1..Len(wire'),
               wire'[j].kind = "State", wire'[k].kind = "State", j < k
        PROVE  wire'[j].n < wire'[k].n
    <3>1. j \in 1..Len(wire)
      BY <1>4, <2>9
    <3>2. CASE k \in 1..Len(wire)
      BY <1>4, <2>4, <2>9, <3>1, <3>2
    <3>3. CASE k = Len(wire) + 1
      <4>1. wire[j].n \in first..sent
        BY <1>4, <2>4, <2>9, <3>1
      <4>2. QED
        BY <1>2, <1>3, <1>4, <2>3, <3>1, <3>3, <4>1
    <3>4. QED
      BY <2>6, <3>2, <3>3
  <2>10. shown' + Len(states') <= sent'
    BY <1>1, <1>2, <2>1, <2>2
  <2>11. \A k \in 1..Len(states') : states'[k].n = shown' + k
    BY <1>a, <2>1 DEF Order
  <2>12. QED
    BY <2>5, <2>7, <2>8, <2>9, <2>10, <2>11 DEF Order
<1>7. Newest' /\ Asking' /\ Holder'
  BY <1>a, <1>1 DEF Newest, Asking, Holder, mainVars, inputVars
<1>8. Pairing'
  <2>1. Waiting' = Waiting
    BY <1>1 DEF Waiting, mainVars, inputVars
  <2>2. QED
    BY <1>a, <1>1, <1>3, <1>4, <2>1 DEF Pairing, muxVars
<1>9. QED
  BY <1>5, <1>6, <1>7, <1>8 DEF IInv

\* A state moves from the wire to the channel of states.
LEMMA TakeStateKeepsOrder ==
  ASSUME TypeOK, Order, wire # <<>>, wire[1].kind = "State",
         states' = Append(states, wire[1]), wire' = Tail(wire), UNCHANGED <<shown, sent>>
  PROVE  Order'
<1> DEFINE first == shown + Len(states) + 1
<1>1. /\ shown \in Nat /\ sent \in Nat /\ Len(states) \in Nat /\ first \in Nat
      /\ states \in Seq(RoomState)
  BY QueueTypes, QueueFacts, BoundAssumption DEF TypeOK
<1>2. /\ 1 \in 1..Len(wire) /\ Len(wire') = Len(wire) - 1 /\ Len(wire) \in Nat
      /\ \A k \in 1..Len(wire') : wire'[k] = wire[k + 1] /\ k + 1 \in 1..Len(wire)
  BY QueueTypes, QueueFacts
<1>3. wire[1] \in RoomState
  BY <1>2, WireFacts
<1>4. /\ Len(states') = Len(states) + 1
      /\ \A k \in 1..Len(states) : states'[k] = states[k]
      /\ states'[Len(states) + 1] = wire[1]
  BY <1>1, <1>3, AppendFacts
<1>5. /\ \A k \in 1..Len(wire) : wire[k].kind = "State" => wire[k].n \in first..sent
      /\ \A n \in first..sent : \E k \in 1..Len(wire) : wire[k].kind = "State" /\ wire[k].n = n
      /\ \A j, k \in 1..Len(wire) :
           wire[j].kind = "State" /\ wire[k].kind = "State" /\ j < k => wire[j].n < wire[k].n
  BY DEF Order
<1>6. shown' + Len(states') + 1 = first + 1
  BY <1>1, <1>4
<1>a. \A k \in 1..Len(states) : states[k].n = shown + k
  BY DEF Order
<1>b. shown + (Len(states) + 1) = first
  BY <1>1
<1> HIDE DEF first
<1>7. wire[1].n = first
  <2>1. wire[1].n \in first..sent
    BY <1>2, <1>5
  <2>2. first \in first..sent
    BY <1>1, <2>1
  <2>3. PICK k \in 1..Len(wire) : wire[k].kind = "State" /\ wire[k].n = first
    BY <1>5, <2>2
  <2>4. k # 1 => wire[1].n < first
    BY <1>2, <1>5, <2>3
  <2>5. QED
    BY <1>1, <2>1, <2>3, <2>4
<1>8. first <= sent
  BY <1>1, <1>2, <1>5, <1>7
<1>9. \A k \in 1..Len(states') : states'[k].n = shown' + k
  <2>1. \A k \in 1..Len(states') : k \in 1..Len(states) \/ k = Len(states) + 1
    BY <1>1, <1>4
  <2>2. QED
    BY <1>a, <1>b, <1>4, <1>7, <2>1
<1>10. \A k \in 1..Len(wire') : wire'[k].kind = "State" => wire'[k].n \in (first + 1)..sent
  <2> SUFFICES ASSUME NEW k \in 1..Len(wire'), wire'[k].kind = "State"
               PROVE  wire'[k].n \in (first + 1)..sent
    OBVIOUS
  <2>1. wire'[k] = wire[k + 1] /\ k + 1 \in 1..Len(wire) /\ 1 < k + 1
    BY <1>2
  <2>2. wire[k + 1].n \in first..sent /\ wire[1].n < wire[k + 1].n
    BY <1>2, <1>5, <2>1
  <2>3. QED
    BY <1>1, <1>7, <2>1, <2>2
<1>11. \A n \in (first + 1)..sent :
         \E k \in 1..Len(wire') : wire'[k].kind = "State" /\ wire'[k].n = n
  <2> SUFFICES ASSUME NEW n \in (first + 1)..sent
               PROVE  \E k \in 1..Len(wire') : wire'[k].kind = "State" /\ wire'[k].n = n
    OBVIOUS
  <2>1. n \in first..sent /\ n # first
    BY <1>1
  <2>2. PICK k \in 1..Len(wire) : wire[k].kind = "State" /\ wire[k].n = n
    BY <1>5, <2>1
  <2>3. k # 1
    BY <1>7, <2>1, <2>2
  <2>4. k - 1 \in 1..Len(wire')
    BY <1>2, <2>3
  <2>5. wire'[k - 1] = wire[(k - 1) + 1]
    BY <1>2, <2>4
  <2>6. (k - 1) + 1 = k
    BY <1>2
  <2>7. QED
    BY <2>2, <2>4, <2>5, <2>6
<1>12. \A j, k \in 1..Len(wire') :
         wire'[j].kind = "State" /\ wire'[k].kind = "State" /\ j < k => wire'[j].n < wire'[k].n
  BY <1>2, <1>5
<1>13. shown' + Len(states') <= sent'
  BY <1>1, <1>4, <1>b, <1>8
<1>14. QED
  BY <1>6, <1>9, <1>10, <1>11, <1>12, <1>13 DEF Order

\* A response is taken from the wire.
LEMMA TakeResponseKeepsOrder ==
  ASSUME TypeOK, Order, wire # <<>>, wire[1].kind # "State",
         wire' = Tail(wire), UNCHANGED <<states, shown, sent>>
  PROVE  Order'
<1>1. /\ 1 \in 1..Len(wire) /\ Len(wire') = Len(wire) - 1 /\ Len(wire) \in Nat
      /\ \A k \in 1..Len(wire') : wire'[k] = wire[k + 1] /\ k + 1 \in 1..Len(wire)
  BY QueueTypes, QueueFacts
<1>2. \A n \in (shown + Len(states) + 1)..sent :
        \E k \in 1..Len(wire') : wire'[k].kind = "State" /\ wire'[k].n = n
  <2> SUFFICES ASSUME NEW n \in (shown + Len(states) + 1)..sent
               PROVE  \E k \in 1..Len(wire') : wire'[k].kind = "State" /\ wire'[k].n = n
    OBVIOUS
  <2>1. PICK k \in 1..Len(wire) : wire[k].kind = "State" /\ wire[k].n = n
    BY DEF Order
  <2>2. k - 1 \in 1..Len(wire')
    BY <1>1, <2>1
  <2>3. wire'[k - 1] = wire[(k - 1) + 1]
    BY <1>1, <2>2
  <2>4. (k - 1) + 1 = k
    BY <1>1
  <2>5. QED
    BY <2>1, <2>2, <2>3, <2>4
<1>3. \A k \in 1..Len(wire') :
        wire'[k].kind = "State" => wire'[k].n \in (shown + Len(states) + 1)..sent
  BY <1>1 DEF Order
<1>4. \A j, k \in 1..Len(wire') :
        wire'[j].kind = "State" /\ wire'[k].kind = "State" /\ j < k => wire'[j].n < wire'[k].n
  BY <1>1 DEF Order
<1>5. QED
  BY <1>2, <1>3, <1>4 DEF Order

\* The multiplexer sorts what it reads.
LEMMA MultiplexKeepsIInv ==
  ASSUME IInv, Multiplex
  PROVE  IInv'
<1>a. TypeOK /\ Order /\ Newest /\ Asking /\ Holder /\ Pairing
  BY DEF IInv
<1>1. /\ mux = "running" /\ wire # <<>> /\ wire' = Tail(wire)
      /\ UNCHANGED <<asked, closed, sent, mux, mainVars, inputVars>>
  BY DEF Multiplex
<1>2. /\ 1 \in 1..Len(wire) /\ Len(wire') = Len(wire) - 1 /\ Len(wire) \in Nat
      /\ \A k \in 1..Len(wire') : wire'[k] = wire[k + 1] /\ k + 1 \in 1..Len(wire)
      /\ wire' \in Seq(Item) /\ Head(wire) = wire[1]
  BY <1>a, <1>1, QueueTypes, QueueFacts
<1>3. /\ Newest' /\ Asking' /\ Holder' /\ Waiting' = Waiting
  BY <1>a, <1>1 DEF Newest, Asking, Holder, Waiting, mainVars, inputVars
<1>4. CASE /\ wire[1].kind = "State" /\ Len(states) < ChannelSize
           /\ states' = Append(states, wire[1]) /\ responses' = responses
  <2>1. wire[1] \in RoomState
    BY <1>a, <1>2, <1>4, WireFacts
  <2>2. states' \in Seq(RoomState) /\ Len(states') = Len(states) + 1 /\ Len(states) \in Nat
    BY <1>a, <1>4, <2>1, QueueTypes, AppendFacts
  <2>3. TypeOK'
    BY <1>a, <1>1, <1>2, <1>4, <2>2, BoundAssumption DEF TypeOK, mainVars, inputVars, Item
  <2>4. Order'
    BY <1>a, <1>1, <1>4, TakeStateKeepsOrder DEF mainVars
  <2>5. Pairing'
    <3>1. \A k \in 1..Len(wire') :
            wire'[k].kind # "State" =>
              wire'[k].to \in Waiting /\ asked = <<>> /\ responses = <<>>
      BY <1>a, <1>1, <1>2 DEF Pairing
    <3>2. \A j, k \in 1..Len(wire') :
            wire'[j].kind # "State" /\ wire'[k].kind # "State" => j = k
      BY <1>a, <1>1, <1>2 DEF Pairing
    <3>3. QED
      BY <1>a, <1>1, <1>3, <1>4, <3>1, <3>2 DEF Pairing
  <2>6. QED
    BY <1>3, <2>3, <2>4, <2>5 DEF IInv
<1>5. CASE /\ wire[1].kind # "State" /\ Len(responses) < ChannelSize
           /\ responses' = Append(responses, wire[1]) /\ states' = states
  <2>1. wire[1] \in Response
    BY <1>a, <1>2, <1>5, WireFacts
  <2>2. /\ responses' \in Seq(Response) /\ Len(responses') = Len(responses) + 1
        /\ Len(responses) \in Nat /\ responses'[Len(responses) + 1] = wire[1]
    BY <1>a, <1>5, <2>1, QueueTypes, AppendFacts
  <2>3. TypeOK'
    BY <1>a, <1>1, <1>2, <1>5, <2>2, BoundAssumption DEF TypeOK, mainVars, inputVars, Item
  <2>4. Order'
    BY <1>a, <1>1, <1>5, TakeResponseKeepsOrder DEF mainVars
  <2>5. Pairing'
    <3>1. /\ wire[1].to \in Waiting /\ asked = <<>> /\ responses = <<>>
          /\ \A k \in 1..Len(wire) : k # 1 => wire[k].kind = "State"
      BY <1>a, <1>1, <1>2, <1>5 DEF Pairing
    <3>2. Len(responses') = 1 /\ responses'[1] = wire[1]
      BY <2>2, <3>1
    <3>3. \A k \in 1..Len(wire') : wire'[k].kind = "State"
      BY <1>2, <3>1
    <3>4. Len(asked') <= 1 /\ \A k \in 1..Len(asked') : asked'[k].by \in Waiting
      BY <1>1, <3>1
    <3>5. QED
      BY <1>1, <1>3, <3>1, <3>2, <3>3, <3>4 DEF Pairing
  <2>6. QED
    BY <1>3, <2>3, <2>4, <2>5 DEF IInv
<1>6. QED
  BY <1>2, <1>4, <1>5 DEF Multiplex

\* The steps of the server's socket, of the multiplexer's end and of the console
\* that no invariant but the types depends on.
LEMMA AsideKeepsIInv ==
  ASSUME IInv,
         \/ ServerClose \/ MultiplexEnd \/ TypeError
         \/ \E line \in Line : Type(line)
  PROVE  IInv'
<1>a. TypeOK /\ Order /\ Newest /\ Asking /\ Holder /\ Pairing
  BY DEF IInv
<1>1. /\ UNCHANGED <<asked, wire, sent, responses, states, mainVars, loops, listeners, callers>>
      /\ mux' = mux \/ mux' = "ended"
  BY DEF ServerClose, MultiplexEnd, TypeError, Type, serverVars, muxVars, inputVars
<1>2. Order' /\ Newest' /\ Asking' /\ Holder' /\ Waiting' = Waiting
  BY <1>a, <1>1 DEF Order, Newest, Asking, Holder, Waiting, mainVars
<1>3. Pairing'
  BY <1>a, <1>1, <1>2 DEF Pairing
<1>4. /\ closed' \in BOOLEAN /\ mux' \in {"running", "ended"} /\ tty' \in BOOLEAN
      /\ typed' \in 0..MaxLines /\ console' \in Seq(Line) /\ Len(console') <= ChannelSize
  <2>1. CASE ServerClose \/ MultiplexEnd \/ TypeError
    BY <1>a, <2>1 DEF TypeOK, ServerClose, MultiplexEnd, TypeError, serverVars, muxVars, inputVars
  <2>2. ASSUME NEW line \in Line, Type(line)
        PROVE  /\ closed' \in BOOLEAN /\ mux' \in {"running", "ended"} /\ tty' \in BOOLEAN
               /\ typed' \in 0..MaxLines /\ console' \in Seq(Line) /\ Len(console') <= ChannelSize
    <3>1. console' = Append(console, line) /\ Len(console) < ChannelSize
      BY <2>2 DEF Type
    <3>2. console' \in Seq(Line) /\ Len(console') = Len(console) + 1 /\ Len(console) \in Nat
      BY <1>a, <3>1, QueueTypes, AppendFacts
    <3>3. QED
      BY <1>a, <2>2, <3>1, <3>2, BoundAssumption DEF TypeOK, Type, serverVars, muxVars
  <2>3. QED
    BY <2>1, <2>2
<1>5. TypeOK'
  BY <1>a, <1>1, <1>4 DEF TypeOK, mainVars
<1>6. QED
  BY <1>2, <1>3, <1>5 DEF IInv

\* The Enter is answered, or will not be.
LEMMA EnteredKeepsIInv ==
  ASSUME IInv, Entered
  PROVE  IInv'
<1>a. TypeOK /\ Order /\ Newest /\ Asking /\ Holder /\ Pairing
  BY DEF IInv
<1>1. /\ main = "entering" /\ main' \in {"receiving", "exited"}
      /\ UNCHANGED <<serverVars, mux, states, shown, last, inputVars>>
  BY DEF Entered
<1>2. responses' \in Seq(Response) /\ Len(responses') <= Len(responses)
      /\ Len(responses) \in Nat /\ Len(responses') \in Nat
  <2>1. responses \in Seq(Response)
    BY <1>a, QueueTypes
  <2>2. responses' = responses \/ (responses # <<>> /\ responses' = Tail(responses))
    BY DEF Entered
  <2>3. QED
    BY <2>1, <2>2, QueueFacts
<1>3. TypeOK'
  BY <1>a, <1>1, <1>2, BoundAssumption DEF TypeOK, serverVars, inputVars
<1>4. Order' /\ Newest' /\ Asking' /\ Holder'
  BY <1>a, <1>1 DEF Order, Newest, Asking, Holder, serverVars, inputVars
<1>5. Pairing'
  <2> SUFFICES ASSUME mux = "running" PROVE Pairing'
    BY <1>1 DEF Pairing
  <2>1. responses # <<>> /\ responses' = Tail(responses)
    BY DEF Entered
  <2>2. /\ responses \in Seq(Response) /\ Len(responses') = Len(responses) - 1
        /\ 1 \in 1..Len(responses)
    BY <1>a, <2>1, QueueTypes, QueueFacts
  <2>3. Len(responses') = 0 /\ asked = <<>>
    BY <1>a, <1>2, <2>2 DEF Pairing
  <2>4. \A k \in 1..Len(wire) : wire[k].kind = "State"
    BY <1>a, <2>1 DEF Pairing
  <2>5. asked' = asked /\ wire' = wire
    BY <1>1 DEF serverVars
  <2>6. QED
    BY <2>3, <2>4, <2>5 DEF Pairing
<1>6. QED
  BY <1>3, <1>4, <1>5 DEF IInv

\* A loop that is spawned asks for points only if there is a vote.
LEMMA NewLoop ==
  ASSUME NEW voting \in VotingState
  PROVE  /\ Loop(voting) \in LoopRecord /\ Loop(voting).voting = voting
         /\ Loop(voting).pc \in {"option", "points"}
         /\ Loop(voting).pc = "points" => voting.kind # "Idle"
         /\ Loop(voting).request.kind = "None"
BY DEF Loop, LoopRecord, NoRequest

\* The next state is printed.
LEMMA ShowKeepsIInv ==
  ASSUME IInv, Show
  PROVE  IInv'
<1>a. TypeOK /\ Order /\ Newest /\ Asking /\ Holder /\ Pairing
  BY DEF IInv
<1> DEFINE v == Head(states).voting
<1>1. /\ main = "receiving" /\ states # <<>> /\ states' = Tail(states)
      /\ shown' = Head(states).n /\ last' = v
      /\ loops' = IF Changed(v) THEN Append(loops, Loop(v)) ELSE loops
      /\ UNCHANGED <<serverVars, mux, responses, main, typed, tty, console, listeners, callers>>
  BY DEF Show
<1>2. /\ states \in Seq(RoomState) /\ states' \in Seq(RoomState) /\ Head(states) = states[1]
      /\ Len(states') = Len(states) - 1 /\ Len(states) \in Nat /\ 1 \in 1..Len(states)
      /\ \A k \in 1..Len(states') : states'[k] = states[k + 1] /\ k + 1 \in 1..Len(states)
      /\ states[1] \in RoomState
  BY <1>a, <1>1, QueueTypes, QueueFacts
<1>3. v \in VotingState /\ v # NotShown
  BY <1>2, ItemFields
<1>4. shown \in Nat /\ shown' = shown + 1 /\ shown' \in 1..MaxStates
  <2>1. shown \in Nat /\ states[1].n = shown + 1
    BY <1>a, <1>2, BoundAssumption DEF TypeOK, Order
  <2>2. states[1].n \in 1..MaxStates
    BY <1>2, ItemFields
  <2>3. QED
    BY <1>1, <1>2, <2>1, <2>2
<1>5. /\ loops \in Seq(LoopRecord) /\ Len(loops) \in Nat
      /\ (loops = <<>> <=> Len(loops) = 0)
  BY <1>a, QueueTypes, QueueFacts
<1> HIDE DEF v
<1>6. \/ last = v /\ loops' = loops
      \/ /\ loops' = Append(loops, Loop(v))
         /\ loops' \in Seq(LoopRecord) /\ Len(loops') = Len(loops) + 1
         /\ \A k \in 1..Len(loops) : k \in 1..Len(loops') /\ loops'[k] = loops[k]
         /\ loops'[Len(loops) + 1] = Loop(v)
  <2>1. Loop(v) \in LoopRecord
    BY <1>3, NewLoop
  <2>2. CASE Changed(v)
    BY <1>1, <1>5, <2>1, <2>2, AppendFacts
  <2>3. CASE ~Changed(v)
    BY <1>1, <2>3 DEF Changed
  <2>4. QED
    BY <2>2, <2>3
<1>7. TypeOK'
  <2>1. loops' \in Seq(LoopRecord)
    BY <1>5, <1>6
  <2>2. Len(states') <= ChannelSize
    BY <1>a, <1>2, BoundAssumption DEF TypeOK
  <2>3. shown' \in 0..MaxStates
    BY <1>4, BoundAssumption
  <2>4. QED
    BY <1>a, <1>1, <1>2, <1>3, <2>1, <2>2, <2>3 DEF TypeOK, serverVars, LoopRecord
<1>8. Order'
  <2>1. wire' = wire /\ sent' = sent
    BY <1>1 DEF serverVars
  <2>2. shown' + Len(states') = shown + Len(states)
    BY <1>2, <1>4
  <2>3. \A k \in 1..Len(states') : states'[k].n = shown' + k
    <3> SUFFICES ASSUME NEW k \in 1..Len(states') PROVE states'[k].n = shown' + k
      OBVIOUS
    <3>1. states[k + 1].n = shown + (k + 1)
      BY <1>a, <1>2 DEF Order
    <3>2. QED
      BY <1>2, <1>4, <3>1
  <2>4. QED
    BY <1>a, <2>1, <2>2, <2>3 DEF Order
<1>9. Newest'
  <2>1. CASE last = v /\ loops' = loops
    BY <1>a, <1>1, <1>3, <1>4, <1>5, <2>1 DEF Newest
  <2>2. CASE loops' = Append(loops, Loop(v))
    <3>1. /\ Len(loops') = Len(loops) + 1 /\ loops'[Len(loops')].voting = v
          /\ loops' # <<>> /\ Len(loops) <= shown
      <4>1. Append(loops, Loop(v)) # loops
        <5>1. Len(Append(loops, Loop(v))) = Len(loops) + 1
          BY <1>3, <1>5, NewLoop, AppendFacts
        <5>2. QED
          BY <1>5, <5>1
      <4>2. QED
        BY <1>a, <1>3, <1>5, <1>6, <2>2, <4>1, NewLoop DEF Newest
    <3>2. QED
      BY <1>1, <1>3, <1>4, <1>5, <3>1 DEF Newest
  <2>3. QED
    BY <1>6, <2>1, <2>2
<1>b. \A k \in 1..Len(loops') :
        \/ k \in 1..Len(loops) /\ loops'[k] = loops[k]
        \/ loops'[k] = Loop(v)
  BY <1>5, <1>6
<1>10. Asking' /\ Holder'
  <2>1. main' # "entering" /\ callers' = callers
    BY <1>1
  <2>2. QED
    BY <1>a, <1>3, <1>b, <2>1, NewLoop DEF Asking, Holder
<1>11. Waiting' = Waiting
  <2>1. \A x : x \in Waiting' <=> (x \in 1..Len(loops') /\ loops'[x].pc = "waiting")
    <3>1. DOMAIN loops' = 1..Len(loops')
      BY <1>5, <1>6
    <3>2. QED
      BY <1>1, <3>1 DEF Waiting
  <2>2. \A x : x \in Waiting <=> (x \in 1..Len(loops) /\ loops[x].pc = "waiting")
    BY <1>a, <1>1, WhoWaits
  <2>3. \A x \in 1..Len(loops) : x \in 1..Len(loops') /\ loops'[x] = loops[x]
    BY <1>6
  <2>4. \A x \in 1..Len(loops') : loops'[x].pc = "waiting" => x \in 1..Len(loops)
    BY <1>3, <1>b, NewLoop
  <2>5. \A x : x \in Waiting' <=> x \in Waiting
    BY <2>1, <2>2, <2>3, <2>4
  <2>6. QED
    BY <2>5
<1>12. Pairing'
  BY <1>a, <1>1, <1>11 DEF Pairing, serverVars
<1>13. QED
  BY <1>7, <1>8, <1>9, <1>10, <1>12 DEF IInv

\* The program ends after its multiplexer.
LEMMA ExitKeepsIInv ==
  ASSUME IInv, Exit
  PROVE  IInv'
BY DEF Exit, IInv, TypeOK, Order, Newest, Asking, Holder, Pairing, serverVars, muxVars, inputVars

\* A loop gets in line, for the console or for the client.
LEMMA QueueingKeepsIInv ==
  ASSUME IInv, NEW i \in 1..Len(loops), Listen(i) \/ Call(i)
  PROVE  IInv'
<1>a. TypeOK /\ Order /\ Newest /\ Asking /\ Holder /\ Pairing
  BY DEF IInv
<1>1. UNCHANGED <<serverVars, muxVars, mainVars, typed, tty, console, loops>>
  BY DEF Listen, Call
<1>2. i \in 1..MaxStates
  BY <1>a, LoopFacts
<1>3. /\ listeners \in Seq(1..MaxStates) /\ callers \in Seq(1..MaxStates)
      /\ listeners' = listeners \/ listeners' = Append(listeners, i)
      /\ callers' = callers \/ callers' = Append(callers, i)
  BY <1>a, QueueTypes DEF Listen, Call
<1>4. listeners' \in Seq(1..MaxStates) /\ callers' \in Seq(1..MaxStates)
  <2> DEFINE S == 1..MaxStates
  <2>1. /\ i \in S /\ listeners \in Seq(S) /\ callers \in Seq(S)
    BY <1>2, <1>3
  <2> HIDE DEF S
  <2>2. Append(listeners, i) \in Seq(S) /\ Append(callers, i) \in Seq(S)
    BY <2>1, AppendFacts
  <2>3. listeners' \in Seq(S) /\ callers' \in Seq(S)
    BY <1>3, <2>1, <2>2, Zenon
  <2>4. QED
    BY <2>3 DEF S
<1>5. callers # <<>> => callers' # <<>> /\ callers'[1] = callers[1]
  <2>1. CASE callers' = Append(callers, i)
    BY <1>2, <1>3, <2>1
  <2>2. CASE callers' = callers
    BY <2>2
  <2>3. QED
    BY <1>3, <2>1, <2>2
<1>6. TypeOK'
  BY <1>a, <1>1, <1>4 DEF TypeOK, serverVars, muxVars, mainVars
<1>7. Order' /\ Newest' /\ Asking' /\ Pairing'
  <2>1. Waiting' = Waiting
    BY <1>1 DEF Waiting, mainVars
  <2>2. QED
    BY <1>a, <1>1, <2>1 DEF Order, Newest, Asking, Pairing, serverVars, muxVars, mainVars
<1>8. Holder'
  BY <1>a, <1>1, <1>5 DEF Holder
<1>9. QED
  BY <1>6, <1>7, <1>8 DEF IInv

\* What a loop makes of a line: it asks again, it has a request, or it is dead.
LEMMA TakeFacts ==
  ASSUME IInv, NEW i \in 1..Len(loops), NEW line, Asks(i), Take(i, line)
  PROVE  \E l \in LoopRecord :
           /\ loops' = [loops EXCEPT ![i] = l] /\ l.voting = loops[i].voting
           /\ l.pc \in {"option", "name", "calling", "dead"}
           /\ l.pc = "calling" => l.request # NoRequest /\ l.request.by = i
<1>a. /\ loops[i] \in LoopRecord /\ i \in 1..MaxStates
      /\ loops[i].pc = "points" => loops[i].voting.kind # "Idle"
  BY LoopFacts DEF IInv, Asking
<1> DEFINE l(pc, r) == [voting |-> loops[i].voting, request |-> r, pc |-> pc]
<1>b. \A pc : [loops[i] EXCEPT !.pc = pc] = l(pc, loops[i].request)
  BY <1>a DEF LoopRecord
<1>c. ASSUME NEW r PROVE [loops EXCEPT ![i].pc = "calling", ![i].request = r]
                           = [loops EXCEPT ![i] = l("calling", r)]
  <2>1. loops \in Seq(LoopRecord)
    BY QueueTypes DEF IInv
  <2> DEFINE f == [loops EXCEPT ![i].pc = "calling"]
             g == [f EXCEPT ![i].request = r]
  <2>2. f = [loops EXCEPT ![i] = l("calling", loops[i].request)]
    BY <1>b
  <2>3. f[i] = l("calling", loops[i].request)
    BY <2>1, <2>2
  <2>4. [f[i] EXCEPT !.request = r] = l("calling", r)
    BY <2>3
  <2>5. g = [f EXCEPT ![i] = l("calling", r)]
    BY <2>4
  <2> HIDE DEF l
  <2>6. g = [loops EXCEPT ![i] = l("calling", r)]
    BY <2>1, <2>2, <2>5
  <2>7. QED
    BY <2>6
<1>d. \A pc \in {"option", "name", "points", "calling", "waiting", "done", "dead"},
         r \in Request \cup {NoRequest} : l(pc, r) \in LoopRecord
  BY <1>a DEF LoopRecord
<1>e. loops[i].request \in Request \cup {NoRequest} /\ loops[i].voting \in VotingState
  BY <1>a DEF LoopRecord
<1>1. CASE \E pc \in {"option", "name", "dead"} : Goes(i, pc)
  <2>1. PICK pc \in {"option", "name", "dead"} : Goes(i, pc)
    BY <1>1
  <2>2. loops' = [loops EXCEPT ![i] = l(pc, loops[i].request)]
    BY <1>b, <2>1 DEF Goes
  <2>3. l(pc, loops[i].request) \in LoopRecord
    BY <1>d, <1>e
  <2>4. QED
    BY <1>a, <2>2, <2>3
<1>2. CASE loops' = [loops EXCEPT ![i].pc = "calling", ![i].request = StartMsg(i)]
  <2>1. /\ StartMsg(i) \in Request /\ StartMsg(i).by = i /\ StartMsg(i).kind = "StartVote"
        /\ NoRequest \notin Request
    BY <1>a, RequestFields
  <2>2. loops' = [loops EXCEPT ![i] = l("calling", StartMsg(i))]
    BY <1>2, <1>c
  <2>3. l("calling", StartMsg(i)) \in LoopRecord
    BY <1>d, <2>1
  <2>4. QED
    BY <2>1, <2>2, <2>3
<1>3. CASE /\ loops[i].pc = "points" /\ line \in DOMAIN Parse
           /\ loops' = [loops EXCEPT ![i].pc = "calling",
                          ![i].request = VoteMsg(i, loops[i].voting.story, Parse[line])]
  <2> DEFINE r == VoteMsg(i, loops[i].voting.story, Parse[line])
  <2>1. loops[i].voting.story \in Story
    BY <1>a, <1>e, <1>3, ItemFields
  <2>2. Parse[line] \in Nat
    BY <1>3, Words
  <2>3. /\ r \in Request /\ r.by = i /\ r.points = Parse[line] /\ NoRequest \notin Request
    BY <1>a, <2>1, <2>2, RequestFields
  <2>4. loops' = [loops EXCEPT ![i] = l("calling", r)]
    BY <1>3, <1>c
  <2>5. l("calling", r) \in LoopRecord
    BY <1>d, <2>3
  <2>6. QED
    BY <1>3, <2>3, <2>4, <2>5
<1>4. QED
  BY <1>1, <1>2, <1>3 DEF Take

\* A loop takes a line, or panics.
LEMMA TakeLineKeepsIInv ==
  ASSUME IInv, NEW i \in 1..Len(loops), TakeLine(i)
  PROVE  IInv'
<1>a. TypeOK /\ Order /\ Newest /\ Asking /\ Holder /\ Pairing
  BY DEF IInv
<1>1. /\ Asks(i) /\ listeners # <<>> /\ listeners' = Tail(listeners)
      /\ UNCHANGED <<serverVars, muxVars, mainVars, typed, tty, callers>>
  BY DEF TakeLine
<1>2. \E l \in LoopRecord :
        /\ loops' = [loops EXCEPT ![i] = l] /\ l.voting = loops[i].voting
        /\ l.pc \in {"option", "name", "calling", "dead"}
        /\ l.pc = "calling" => l.request # NoRequest /\ l.request.by = i
  <2>1. CASE Take(i, Head(console))
    BY <1>1, <2>1, TakeFacts
  <2>2. CASE Goes(i, "dead")
    <3> DEFINE l == [loops[i] EXCEPT !.pc = "dead"]
    <3>1. loops[i] \in LoopRecord
      BY <1>a, LoopFacts
    <3>2. /\ l \in LoopRecord /\ l.voting = loops[i].voting /\ l.pc = "dead"
          /\ l.request = loops[i].request
      BY <3>1 DEF LoopRecord
    <3>3. loops' = [loops EXCEPT ![i] = l]
      BY <2>2 DEF Goes
    <3> HIDE DEF l
    <3>4. QED
      BY <1>a, <3>2, <3>3 DEF Asking
  <2>3. QED
    BY <2>1, <2>2 DEF TakeLine
<1>3. PICK l \in LoopRecord :
        /\ loops' = [loops EXCEPT ![i] = l] /\ l.voting = loops[i].voting
        /\ l.pc \in {"option", "name", "calling", "dead"}
        /\ l.pc = "calling" => l.request # NoRequest /\ l.request.by = i
  BY <1>2
<1>4. /\ loops' \in Seq(LoopRecord) /\ Len(loops') = Len(loops)
      /\ loops'[i] = l
      /\ \A k \in 1..Len(loops) : k # i => loops'[k] = loops[k]
      /\ Newest' /\ Asking'
  BY <1>1, <1>3, LoopStep
<1>5. /\ listeners' \in Seq(1..MaxStates)
      /\ console' \in Seq(Line) /\ Len(console') <= ChannelSize
  <2>1. listeners' \in Seq(1..MaxStates)
    BY <1>a, <1>1, QueueTypes, QueueFacts
  <2>2. console \in Seq(Line) /\ Len(console) <= ChannelSize
    BY <1>a DEF TypeOK
  <2>3. console' = console \/ (console # <<>> /\ console' = Tail(console))
    BY DEF TakeLine
  <2>4. console # <<>> => Tail(console) \in Seq(Line) /\ Len(Tail(console)) <= Len(console)
    BY <2>2
  <2>5. console' \in Seq(Line)
    BY <2>2, <2>3, <2>4
  <2>6. Len(console') <= Len(console) /\ Len(console) \in Nat /\ Len(console') \in Nat
    BY <2>2, <2>3, <2>4, <2>5
  <2>7. QED
    BY <2>1, <2>2, <2>5, <2>6, BoundAssumption
<1>6. TypeOK'
  BY <1>a, <1>1, <1>4, <1>5 DEF TypeOK, serverVars, muxVars, mainVars, LoopRecord
<1>7. loops[i].pc # "waiting" /\ loops'[i].pc # "waiting" /\ main = "receiving"
  BY <1>1, <1>3, <1>4 DEF Asks
<1>8. Holder'
  BY <1>a, <1>1, <1>4, <1>7 DEF Holder
<1>9. Waiting' = Waiting
  <2>1. \A x : x \in Waiting' <=> (x \in 1..Len(loops) /\ loops'[x].pc = "waiting")
    <3>1. DOMAIN loops' = 1..Len(loops)
      BY <1>4
    <3>2. QED
      BY <1>1, <1>7, <3>1 DEF Waiting, mainVars
  <2>2. \A x : x \in Waiting <=> (x \in 1..Len(loops) /\ loops[x].pc = "waiting")
    BY <1>a, <1>7, WhoWaits
  <2>3. \A x : x \in Waiting' <=> x \in Waiting
    BY <1>4, <1>7, <2>1, <2>2
  <2>4. QED
    BY <2>3
<1>10. Order' /\ Pairing'
  BY <1>a, <1>1, <1>9 DEF Order, Pairing, serverVars, muxVars, mainVars
<1>11. QED
  BY <1>4, <1>6, <1>8, <1>10 DEF IInv

\* A loop that goes on after a request, or after failing to send it.
LEMMA GoFacts ==
  ASSUME IInv, NEW i \in 1..Len(loops)
  PROVE  /\ Goes(i, "waiting") =>
              \E l \in LoopRecord :
                /\ loops' = [loops EXCEPT ![i] = l] /\ l.voting = loops[i].voting
                /\ l.request = loops[i].request /\ l.pc = "waiting"
         /\ Resumes(i) =>
              \E l \in LoopRecord :
                /\ loops' = [loops EXCEPT ![i] = l] /\ l.voting = loops[i].voting
                /\ l.request = loops[i].request /\ l.pc \in {"option", "points", "done"}
                /\ l.pc = "points" => l.voting.kind # "Idle"
<1> DEFINE l(pc) == [loops[i] EXCEPT !.pc = pc]
<1>1. loops[i] \in LoopRecord
  BY LoopFacts DEF IInv
<1>2. \A pc \in {"option", "name", "points", "calling", "waiting", "done", "dead"} :
        /\ l(pc) \in LoopRecord /\ l(pc).voting = loops[i].voting
        /\ l(pc).request = loops[i].request /\ l(pc).pc = pc
  BY <1>1 DEF LoopRecord
<1>3. \A pc : Goes(i, pc) => loops' = [loops EXCEPT ![i] = l(pc)]
  BY DEF Goes
<1>4. loops[i].voting.kind \in {"Idle", "Voting", "Fighting"}
  BY <1>1, ItemFields DEF LoopRecord
<1>5. Resumes(i) => \/ Goes(i, "option")
                    \/ Goes(i, "points") /\ loops[i].voting.kind # "Idle"
                    \/ Goes(i, "done")
  BY <1>4 DEF Resumes
<1> HIDE DEF l
<1>6. QED
  BY <1>2, <1>3, <1>5

\* Only the loop that holds the client waits for a response.
LEMMA OnlyHolderWaits ==
  ASSUME IInv, main = "receiving", NEW i, callers[1] = i
  PROVE  \A x \in Waiting : x = i /\ x \in 1..Len(loops) /\ loops[x].pc = "waiting"
BY WhoWaits DEF IInv, Holder

\* When nobody waits for a response there is nothing to receive one for.
LEMMA NothingUnderWay ==
  ASSUME IInv, mux = "running", Waiting = {}
  PROVE  /\ asked = <<>> /\ responses = <<>>
         /\ \A k \in 1..Len(wire) : wire[k].kind = "State"
<1>1. /\ asked \in Seq(Request) /\ responses \in Seq(Response)
  BY QueueTypes DEF IInv
<1>2. /\ \A k \in 1..Len(asked) : FALSE
      /\ \A k \in 1..Len(responses) : FALSE
      /\ \A k \in 1..Len(wire) : wire[k].kind = "State"
  BY DEF IInv, Pairing
<1>3. QED
  BY <1>1, <1>2

\* A loop sends its request, or cannot.
LEMMA SendKeepsIInv ==
  ASSUME IInv, NEW i \in 1..Len(loops), Send(i)
  PROVE  IInv'
<1>a. TypeOK /\ Order /\ Newest /\ Asking /\ Holder /\ Pairing
  BY DEF IInv
<1>1. /\ main = "receiving" /\ loops[i].pc = "calling" /\ callers # <<>> /\ Head(callers) = i
      /\ UNCHANGED <<wire, closed, sent, muxVars, mainVars, typed, tty, console, listeners>>
  BY DEF Send, At
<1>2. /\ callers[1] = i /\ callers \in Seq(1..MaxStates)
      /\ Tail(callers) \in Seq(1..MaxStates)
  BY <1>a, <1>1, QueueTypes, QueueFacts
<1>3. Waiting = {}
  BY <1>1, <1>2, OnlyHolderWaits
<1>4. loops[i].request \in Request /\ loops[i].request.by = i
  <2>1. loops[i] \in LoopRecord
    BY <1>a, LoopFacts
  <2>2. loops[i].request \in Request \cup {NoRequest}
    BY <2>1 DEF LoopRecord
  <2>3. QED
    BY <1>a, <1>1, <2>2 DEF Asking
<1>5. \/ /\ Goes(i, "waiting") /\ callers' = callers
         /\ asked' = IF closed THEN asked ELSE Append(asked, loops[i].request)
      \/ Resumes(i) /\ callers' = Tail(callers) /\ asked' = asked
  BY DEF Send, Resumes
<1>6. \E l \in LoopRecord :
        /\ loops' = [loops EXCEPT ![i] = l] /\ l.voting = loops[i].voting
        /\ l.request = loops[i].request /\ l.pc \in {"option", "points", "waiting", "done"}
        /\ l.pc = "points" => l.voting.kind # "Idle"
        /\ l.pc = "waiting" => callers' = callers
        /\ l.pc # "waiting" => asked' = asked
  <2>1. CASE Goes(i, "waiting") /\ callers' = callers
    BY <2>1, GoFacts
  <2>2. CASE Resumes(i) /\ asked' = asked
    BY <2>2, GoFacts
  <2>3. QED
    BY <1>5, <2>1, <2>2
<1>7. PICK l \in LoopRecord :
        /\ loops' = [loops EXCEPT ![i] = l] /\ l.voting = loops[i].voting
        /\ l.request = loops[i].request /\ l.pc \in {"option", "points", "waiting", "done"}
        /\ l.pc = "points" => l.voting.kind # "Idle"
        /\ l.pc = "waiting" => callers' = callers
        /\ l.pc # "waiting" => asked' = asked
  BY <1>6
<1>8. /\ loops' \in Seq(LoopRecord) /\ Len(loops') = Len(loops)
      /\ loops'[i] = l
      /\ \A k \in 1..Len(loops) : k # i => loops'[k] = loops[k]
      /\ Newest' /\ Asking'
  <2>1. l.pc # "calling"
    BY <1>7
  <2>2. UNCHANGED mainVars
    BY <1>1
  <2>3. QED
    BY <1>7, <2>1, <2>2, LoopStep
<1>9. asked \in Seq(Request) /\ asked' \in Seq(Request)
      /\ (asked' = asked \/ asked' = Append(asked, loops[i].request))
  <2>1. asked \in Seq(Request) /\ Append(asked, loops[i].request) \in Seq(Request)
    BY <1>a, <1>4, QueueTypes, AppendFacts
  <2>2. asked' = asked \/ asked' = Append(asked, loops[i].request)
    BY <1>5
  <2>3. QED
    BY <2>1, <2>2
<1>10. TypeOK'
  <2>1. callers' \in Seq(1..MaxStates)
    BY <1>2, <1>5
  <2>2. QED
    BY <1>a, <1>1, <1>8, <1>9, <2>1 DEF TypeOK, muxVars, mainVars, LoopRecord
<1>11. Order'
  BY <1>a, <1>1 DEF Order, muxVars, mainVars
<1>12. \A k \in 1..Len(loops) : loops'[k].pc = "waiting" => k = i /\ l.pc = "waiting"
  <2>1. \A k \in 1..Len(loops) : loops[k].pc # "waiting"
    BY <1>a, <1>1, <1>2 DEF Holder
  <2>2. QED
    BY <1>8, <2>1
<1>13. Holder'
  BY <1>1, <1>2, <1>7, <1>8, <1>12 DEF Holder
<1>14. Pairing'
  <2> SUFFICES ASSUME mux = "running" PROVE Pairing'
    BY <1>1 DEF Pairing, muxVars
  <2>1. /\ asked = <<>> /\ responses = <<>> /\ \A k \in 1..Len(wire) : wire[k].kind = "State"
    BY <1>3, NothingUnderWay
  <2>2. asked' = <<>> \/ (l.pc = "waiting" /\ asked' = <<loops[i].request>>)
    BY <1>7, <1>9, <2>1
  <2>3. l.pc = "waiting" => i \in Waiting'
    <3>1. DOMAIN loops' = 1..Len(loops)
      BY <1>8
    <3>2. QED
      BY <1>8, <3>1 DEF Waiting
  <2>4. Len(asked') <= 1 /\ \A k \in 1..Len(asked') : asked'[k].by \in Waiting'
    <3> DEFINE r == loops[i].request
    <3>1. r.by = i
      BY <1>4
    <3> HIDE DEF r
    <3>2. CASE l.pc = "waiting" /\ asked' = <<r>>
      <4>1. Len(asked') = 1 /\ asked'[1] = r
        BY <3>2
      <4>2. QED
        BY <2>3, <3>1, <3>2, <4>1
    <3>3. CASE asked' = <<>>
      BY <3>3
    <3>4. QED
      BY <2>2, <3>2, <3>3 DEF r
  <2>5. responses' = <<>> /\ wire' = wire
    BY <1>1, <2>1 DEF muxVars
  <2>6. QED
    BY <2>1, <2>4, <2>5 DEF Pairing
<1>15. QED
  BY <1>8, <1>10, <1>11, <1>13, <1>14 DEF IInv

\* A loop receives the response to its request, or learns that there is none.
LEMMA ReceiveKeepsIInv ==
  ASSUME IInv, NEW i \in 1..Len(loops), Receive(i)
  PROVE  IInv'
<1>a. TypeOK /\ Order /\ Newest /\ Asking /\ Holder /\ Pairing
  BY DEF IInv
<1>1. /\ main = "receiving" /\ loops[i].pc = "waiting" /\ callers' = Tail(callers) /\ Resumes(i)
      /\ UNCHANGED <<serverVars, mux, states, mainVars, typed, tty, console, listeners>>
  BY DEF Receive, At, Resumes
<1>2. callers # <<>> /\ callers[1] = i
  BY <1>a, <1>1 DEF Holder
<1>3. callers' \in Seq(1..MaxStates)
  BY <1>a, <1>1, <1>2, QueueTypes, QueueFacts
<1>4. PICK l \in LoopRecord :
        /\ loops' = [loops EXCEPT ![i] = l] /\ l.voting = loops[i].voting
        /\ l.request = loops[i].request /\ l.pc \in {"option", "points", "done"}
        /\ l.pc = "points" => l.voting.kind # "Idle"
  BY <1>1, GoFacts
<1>5. /\ loops' \in Seq(LoopRecord) /\ Len(loops') = Len(loops)
      /\ loops'[i] = l
      /\ \A k \in 1..Len(loops) : k # i => loops'[k] = loops[k]
      /\ Newest' /\ Asking'
  <2>1. l.pc = "calling" => l.request # NoRequest /\ l.request.by = i
    BY <1>4
  <2>2. UNCHANGED mainVars
    BY <1>1
  <2>3. QED
    BY <1>4, <2>1, <2>2, LoopStep
<1>6. /\ responses \in Seq(Response) /\ responses' \in Seq(Response)
      /\ Len(responses) \in Nat /\ Len(responses') \in Nat /\ Len(responses') <= Len(responses)
      /\ mux = "running" => responses # <<>> /\ Len(responses') = Len(responses) - 1
  <2>1. responses \in Seq(Response)
    BY <1>a, QueueTypes
  <2>2. \/ responses # <<>> /\ responses' = Tail(responses)
        \/ responses' = responses /\ mux = "ended"
    BY DEF Receive
  <2>3. QED
    BY <2>1, <2>2, QueueFacts
<1>7. TypeOK'
  BY <1>a, <1>1, <1>3, <1>5, <1>6, BoundAssumption DEF TypeOK, serverVars, mainVars, LoopRecord
<1>8. Order'
  BY <1>a, <1>1 DEF Order, serverVars, mainVars
<1>9. Holder'
  <2>1. \A k \in 1..Len(loops) : loops'[k].pc # "waiting"
    BY <1>a, <1>2, <1>4, <1>5 DEF Holder
  <2>2. QED
    BY <1>5, <2>1 DEF Holder
<1>10. Pairing'
  <2> SUFFICES ASSUME mux = "running" PROVE Pairing'
    BY <1>1 DEF Pairing
  <2>1. Len(responses) = 1 /\ asked = <<>>
    BY <1>a, <1>6 DEF Pairing
  <2>2. \A k \in 1..Len(wire) : wire[k].kind = "State"
    BY <1>a, <1>6 DEF Pairing
  <2>3. asked' = <<>> /\ Len(responses') = 0 /\ wire' = wire
    BY <1>1, <1>6, <2>1 DEF serverVars
  <2>4. QED
    BY <2>2, <2>3 DEF Pairing
<1>11. QED
  BY <1>5, <1>7, <1>8, <1>9, <1>10 DEF IInv

\* The invariant is inductive.
LEMMA InvariantHolds == Spec => []IInv
<1>1. Init => IInv
  <2> SUFFICES ASSUME Init PROVE IInv
    OBVIOUS
  <2>1. TypeOK
    <3>1. asked \in Seq(Request)
      <4>1. EnterMsg \in Request
        BY RequestFields
      <4> HIDE DEF EnterMsg
      <4>2. <<EnterMsg>> \in Seq(Request)
        BY <4>1
      <4>3. QED
        BY <4>2 DEF Init
    <3>2. \A S : <<>> \in Seq(S)
      OBVIOUS
    <3>3. /\ wire \in Seq(Response \cup RoomState) /\ responses \in Seq(Response)
          /\ states \in Seq(RoomState) /\ console \in Seq(Line) /\ loops \in Seq(LoopRecord)
          /\ listeners \in Seq(1..MaxStates) /\ callers \in Seq(1..MaxStates)
      BY <3>2, Zenon DEF Init
    <3>4. /\ Len(responses) <= ChannelSize /\ Len(states) <= ChannelSize
          /\ Len(console) <= ChannelSize
          /\ sent \in 0..MaxStates /\ shown \in 0..MaxStates /\ typed \in 0..MaxLines
      BY BoundAssumption DEF Init
    <3>5. QED
      BY <3>1, <3>3, <3>4 DEF Init, TypeOK, LoopRecord
  <2>2. Order /\ Newest /\ Asking /\ Holder
    BY BoundAssumption DEF Init, Order, Newest, Asking, Holder
  <2>3. Pairing
    BY RequestFields DEF Init, Pairing, Waiting
  <2>4. QED
    BY <2>1, <2>2, <2>3 DEF IInv
<1>2. IInv /\ [Next]_vars => IInv'
  <2> SUFFICES ASSUME IInv, [Next]_vars PROVE IInv'
    OBVIOUS
  <2>1. CASE ServerAnswer
    BY <2>1, AnswerKeepsIInv
  <2>2. ASSUME NEW voting \in VotingState, NEW length \in Length, ServerState(voting, length)
        PROVE  IInv'
    BY <2>2, StateKeepsIInv
  <2>3. CASE ServerClose \/ MultiplexEnd \/ TypeError \/ \E line \in Line : Type(line)
    BY <2>3, AsideKeepsIInv
  <2>4. CASE Multiplex
    BY <2>4, MultiplexKeepsIInv
  <2>5. CASE Entered
    BY <2>5, EnteredKeepsIInv
  <2>6. CASE Show
    BY <2>6, ShowKeepsIInv
  <2>7. CASE Exit
    BY <2>7, ExitKeepsIInv
  <2>8. ASSUME NEW i \in DOMAIN loops, InputStep(i) PROVE IInv'
    <3>1. i \in 1..Len(loops)
      BY LoopFacts DEF IInv
    <3>2. QED
      BY <2>8, <3>1, QueueingKeepsIInv, TakeLineKeepsIInv, SendKeepsIInv, ReceiveKeepsIInv
         DEF InputStep
  <2>9. CASE UNCHANGED vars
    <3>1. UNCHANGED <<asked, wire, closed, sent, mux, responses, states, main, shown, last,
                      typed, tty, console, loops, listeners, callers>>
      BY <2>9 DEF vars, serverVars, muxVars, mainVars, inputVars
    <3>2. QED
      BY <3>1 DEF IInv, TypeOK, Order, Newest, Asking, Holder, Pairing, Waiting
  <2>10. QED
    BY <2>1, <2>2, <2>3, <2>4, <2>5, <2>6, <2>7, <2>8, <2>9 DEF Next
<1>3. QED
  BY <1>1, <1>2, PTL DEF Spec
-----------------------------------------------------------------------------
\* Every variable always has its type: no channel holds more than it may, and
\* there are never more input loops than states.
THEOREM TypeCorrect == Spec => []TypeOK
<1>1. IInv => TypeOK
  BY DEF IInv
<1>2. QED
  BY <1>1, InvariantHolds, PTL

\* The states are printed in the order they are sent, each of them once.
THEOREM NoStateIsSkipped == Spec => []StatesInOrder
<1>1. IInv => StatesInOrder
  <2> SUFFICES ASSUME TypeOK, Order PROVE StatesInOrder
    BY DEF IInv
  <2>1. DOMAIN wire = 1..Len(wire) /\ DOMAIN states = 1..Len(states)
    BY QueueTypes
  <2>2. \A k \in DOMAIN states : states[k].n = shown + k
    BY <2>1 DEF Order
  <2> DEFINE written == {k \in DOMAIN wire : wire[k].kind = "State"}
  <2>3. {wire[k].n : k \in written} = (shown + Len(states) + 1)..sent
    BY <2>1 DEF Order
  <2>4. \A j, k \in written : j < k => wire[j].n < wire[k].n
    BY <2>1 DEF Order
  <2>5. QED
    BY <2>2, <2>3, <2>4 DEF StatesInOrder
<1>2. QED
  BY <1>1, InvariantHolds, PTL

\* The newest input loop is always one for the vote that was printed last.
THEOREM NewestLoopFollows == Spec => []NewestLoopIsCurrent
<1>1. IInv => NewestLoopIsCurrent
  BY DEF IInv, Newest, NewestLoopIsCurrent
<1>2. QED
  BY <1>1, InvariantHolds, PTL

\* The response a task takes out of the channel is the one to its request.
THEOREM ResponsesPairUp == Spec => []AnswersPairUp
<1>1. IInv => AnswersPairUp
  <2> SUFFICES ASSUME IInv, mux = "running"
               PROVE  /\ Cardinality(Waiting) <= 1
                      /\ Len(asked) + Cardinality(Responses(wire)) + Len(responses)
                           <= Cardinality(Waiting)
                      /\ \A k \in DOMAIN asked : asked[k].by \in Waiting
                      /\ \A k \in Responses(wire) : wire[k].to \in Waiting
                      /\ \A k \in DOMAIN responses : responses[k].to \in Waiting
    BY DEF AnswersPairUp
  <2>1. /\ DOMAIN asked = 1..Len(asked) /\ DOMAIN responses = 1..Len(responses)
        /\ Len(asked) \in 0..1 /\ Len(responses) \in 0..1
        /\ Responses(wire) = {k \in 1..Len(wire) : wire[k].kind # "State"}
    <3>1. asked \in Seq(Request) /\ responses \in Seq(Response) /\ wire \in Seq(Item)
      BY QueueTypes DEF IInv
    <3>2. Len(asked) <= 1 /\ Len(responses) <= 1
      BY DEF IInv, Pairing
    <3>3. DOMAIN asked = 1..Len(asked) /\ DOMAIN responses = 1..Len(responses)
          /\ DOMAIN wire = 1..Len(wire)
      BY <3>1
    <3>4. Len(asked) \in 0..1 /\ Len(responses) \in 0..1
      <4>1. Len(asked) \in Nat /\ Len(responses) \in Nat
        BY <3>1, QueueFacts
      <4> DEFINE a == Len(asked)
                 b == Len(responses)
      <4>2. a \in Nat /\ b \in Nat /\ a <= 1 /\ b <= 1
        BY <3>2, <4>1
      <4> HIDE DEF a, b
      <4>3. a \in 0..1 /\ b \in 0..1
        BY <4>2
      <4>4. QED
        BY <4>3 DEF a, b
    <3>5. QED
      BY <3>3, <3>4 DEF Responses
  <2>2. /\ \A k \in 1..Len(asked) : asked[k].by \in Waiting
        /\ \A k \in 1..Len(responses) : responses[k].to \in Waiting /\ asked = <<>>
        /\ \A k \in Responses(wire) : wire[k].to \in Waiting /\ asked = <<>> /\ responses = <<>>
        /\ \A j, k \in Responses(wire) : j = k
    BY <2>1 DEF IInv, Pairing
  <2>3. Waiting = {} \/ \E x : Waiting = {x}
    <3>1. \A x, y \in Waiting : x = y
      <4>1. CASE main = "entering"
        <5>1. \A x \in Waiting : x = Main
          BY <4>1, WhoWaits DEF IInv, Asking
        <5>2. QED
          BY <5>1
      <4>2. CASE main # "entering"
        <5>1. \A x \in Waiting : callers[1] = x
          BY <4>2, WhoWaits DEF IInv, Holder
        <5>2. QED
          BY <5>1
      <4>3. QED
        BY <4>1, <4>2
    <3>2. QED
      BY <3>1
  <2>4. Responses(wire) = {} \/ \E k : Responses(wire) = {k}
    BY <2>2
  <2>5. /\ Cardinality(Waiting) = IF Waiting = {} THEN 0 ELSE 1
        /\ Cardinality(Responses(wire)) = IF Responses(wire) = {} THEN 0 ELSE 1
    BY <2>3, <2>4, FS_EmptySet, FS_Singleton
  <2>6. /\ Len(asked) = 1 => asked # <<>> /\ Waiting # {}
        /\ Len(responses) = 1 => responses # <<>> /\ Waiting # {} /\ asked = <<>>
        /\ Responses(wire) # {} => Waiting # {} /\ asked = <<>> /\ responses = <<>>
        /\ asked = <<>> => Len(asked) = 0
        /\ responses = <<>> => Len(responses) = 0
    <3>1. Len(asked) = 1 => 1 \in 1..Len(asked) /\ asked # <<>>
      BY <2>1
    <3>2. Len(responses) = 1 => 1 \in 1..Len(responses) /\ responses # <<>>
      BY <2>1
    <3>3. QED
      BY <2>2, <3>1, <3>2
  <2>7. Len(asked) + Cardinality(Responses(wire)) + Len(responses) <= Cardinality(Waiting)
    <3> DEFINE w == Cardinality(Waiting)
               r == Cardinality(Responses(wire))
               a == Len(asked)
               b == Len(responses)
    <3>1. a \in 0..1 /\ b \in 0..1 /\ r \in 0..1 /\ w \in 0..1
      BY <2>1, <2>5
    <3>2. /\ a = 1 => w = 1
          /\ b = 1 => w = 1 /\ a = 0
          /\ r = 1 => w = 1 /\ a = 0 /\ b = 0
      BY <2>5, <2>6
    <3> HIDE DEF w, r, a, b
    <3>3. a + r + b <= w
      BY <3>1, <3>2
    <3>4. QED
      BY <3>3 DEF w, r, a, b
  <2>8. QED
    BY <2>1, <2>2, <2>5, <2>7
<1>2. QED
  BY <1>1, InvariantHolds, PTL
=============================================================================

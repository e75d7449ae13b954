-------------------------- MODULE ServerRoomProofs --------------------------
(* Theorems about ServerRoom for any people, stories and cards.             *)
EXTENDS ServerRoom, FiniteSetTheorems, SequenceTheorems, TLAPS

\* What a subscriber knows who knows it all: who is in the room, who leads it
\* and whether it is busy.
Now == [winners |-> participants, leader |-> leader, busy |-> current # Idle]
\* The same of an idle room, and of a busy one.
WhileIdle(winners, first) == [winners |-> winners, leader |-> first, busy |-> FALSE]
WhileBusy(winners, first) == [winners |-> winners, leader |-> first, busy |-> TRUE]

\* What a client may know of the room, in an idle one and in a busy one.
LEMMA NowCases ==
  /\ current = Idle => Now = WhileIdle(participants, leader)
  /\ current # Idle => Now = WhileBusy(participants, leader)
  /\ current' = Idle => Now' = WhileIdle(participants', leader')
  /\ current' # Idle => Now' = WhileBusy(participants', leader')
<1>1. /\ current = Idle => (current # Idle) = FALSE
      /\ current # Idle => (current # Idle) = TRUE
      /\ current' = Idle => (current' # Idle) = FALSE
      /\ current' # Idle => (current' # Idle) = TRUE
  OBVIOUS
<1>2. Now' = [winners |-> participants', leader |-> leader', busy |-> current' # Idle]
  BY DEF Now, Idle
<1>3. QED
  BY <1>1, <1>2 DEF Now, WhileIdle, WhileBusy
-----------------------------------------------------------------------------
\* What one broadcast tells.
LEMMA LearnWhileIdle ==
  /\ \A A, l, w : Learn(WhileIdle(A, l), Entered(w)) = WhileIdle(A \cup {w}, l)
  /\ \A A, l, w : Learn(WhileIdle(A, l), Left(w)) = WhileIdle(A \ {w}, l)
  /\ \A A, l, w : Learn(WhileIdle(A, l), Leads(w)) = WhileIdle(A, w)
  /\ \A A, l : Learn(WhileIdle(A, l), NowVoting) = WhileBusy(A, l)
<1> USE DEF Learn, WhileIdle
<1>1. \A A, l, w : Learn(WhileIdle(A, l), Entered(w)) = WhileIdle(A \cup {w}, l)
  BY DEF Entered
<1>2. \A A, l, w : Learn(WhileIdle(A, l), Left(w)) = WhileIdle(A \ {w}, l)
  BY DEF Left
<1>3. \A A, l, w : Learn(WhileIdle(A, l), Leads(w)) = WhileIdle(A, w)
  BY DEF Leads
<1>4. \A A, l : Learn(WhileIdle(A, l), NowVoting) = WhileBusy(A, l)
  BY DEF WhileBusy, NowVoting
<1>5. QED
  BY <1>1, <1>2, <1>3, <1>4

\* What a client that knows the room to be busy makes of each broadcast.
LEMMA LearnWhileBusy ==
  /\ \A A, l, w : Learn(WhileBusy(A, l), Left(w)) = WhileBusy(A \ {w}, l)
  /\ \A A, l, w : Learn(WhileBusy(A, l), Leads(w)) = WhileBusy(A, w)
  /\ \A A, l : Learn(WhileBusy(A, l), NowIdle) = WhileIdle(A, l)
  /\ \A A, l : Learn(WhileBusy(A, l), FightEnded) = WhileBusy(A, l)
  /\ \A A, l, x : Learn(WhileBusy(A, l), VoteStarted(x)) = WhileBusy(A, l)
  /\ \A A, l, x : Learn(WhileBusy(A, l), VotesReceived(x)) = WhileBusy(A, l)
  /\ \A A, l, x, y : Learn(WhileBusy(A, l), VoteCast(x, y)) = WhileBusy(A, l)
  /\ \A A, l, x, y : Learn(WhileBusy(A, l), FightOver(x, y)) = WhileBusy(A, l)
<1> USE DEF Learn, WhileBusy
<1>1. \A A, l, w : Learn(WhileBusy(A, l), Left(w)) = WhileBusy(A \ {w}, l)
  BY DEF Left
<1>2. \A A, l, w : Learn(WhileBusy(A, l), Leads(w)) = WhileBusy(A, w)
  BY DEF Leads
<1>3. /\ \A A, l : Learn(WhileBusy(A, l), NowIdle) = WhileIdle(A, l)
      /\ \A A, l : Learn(WhileBusy(A, l), FightEnded) = WhileBusy(A, l)
  BY DEF WhileIdle, NowIdle, FightEnded
<1>4. \A A, l, x : Learn(WhileBusy(A, l), VoteStarted(x)) = WhileBusy(A, l)
  BY DEF VoteStarted
<1>5. \A A, l, x : Learn(WhileBusy(A, l), VotesReceived(x)) = WhileBusy(A, l)
  BY DEF VotesReceived
<1>6. \A A, l, x, y : Learn(WhileBusy(A, l), VoteCast(x, y)) = WhileBusy(A, l)
  BY DEF VoteCast
<1>7. \A A, l, x, y : Learn(WhileBusy(A, l), FightOver(x, y)) = WhileBusy(A, l)
  BY DEF FightOver
<1>8. QED
  BY <1>1, <1>2, <1>3, <1>4, <1>5, <1>6, <1>7

\* The positions of a short sequence.
LEMMA ShortFacts ==
  /\ \A k \in 0..5 : \A n \in 0..k : n \in {0, 1, 2, 3, 4, 5}
  /\ \A k \in 0..4 : k \in 0..5 /\ k + 1 \in 0..5 /\ k \in {0, 1, 2, 3, 4}
  /\ \A k \in 0..3 : k \in 0..4 /\ k + 1 \in 0..4
  /\ \A k \in 0..2 : k \in 0..4 /\ k + 1 \in 0..3 /\ k + 1 \in 0..4
OBVIOUS

\* What a client believes after each of a sequence of broadcasts, and in the end.
Learns(view, msgs, after) ==
  /\ after[0] = view
  /\ \A n \in 1..Len(msgs) : after[n] = Learn(after[n - 1], msgs[n])
  /\ LearnAll(view, msgs) = after[Len(msgs)]

\* What a sequence of broadcasts tells is what they tell one after the other.
\* No action has more than five.
LEMMA LearnAllSteps ==
  ASSUME NEW view, NEW msgs, Len(msgs) \in 0..5
  PROVE  \E after : Learns(view, msgs, after)
<1> DEFINE Def(f) == f = [n \in 0..Len(msgs) |->
                           IF n = 0 THEN view ELSE Learn(f[n - 1], msgs[n])]
           v1 == Learn(view, msgs[1])
           v2 == Learn(v1, msgs[2])
           v3 == Learn(v2, msgs[3])
           v4 == Learn(v3, msgs[4])
           v5 == Learn(v4, msgs[5])
           g == [n \in 0..Len(msgs) |->
                   CASE n = 0 -> view [] n = 1 -> v1 [] n = 2 -> v2
                     [] n = 3 -> v3 [] n = 4 -> v4 [] OTHER -> v5]
           after == CHOOSE f : Def(f)
<1>1. Len(msgs) \in 0..5
  OBVIOUS
<1>2. \A n \in 0..Len(msgs) : g[n] = IF n = 0 THEN view ELSE Learn(g[n - 1], msgs[n])
  <2> SUFFICES ASSUME NEW n \in 0..Len(msgs)
               PROVE  g[n] = IF n = 0 THEN view ELSE Learn(g[n - 1], msgs[n])
    OBVIOUS
  <2>1. n \in {0, 1, 2, 3, 4, 5}
    BY <1>1, ShortFacts, Zenon
  <2>2. CASE n = 0
    BY <2>2
  <2>3. CASE n # 0
    <3>1. n - 1 \in 0..Len(msgs)
      BY <1>1, <2>3
    <3>2. /\ g[n] = CASE n = 0 -> view [] n = 1 -> v1 [] n = 2 -> v2
                      [] n = 3 -> v3 [] n = 4 -> v4 [] OTHER -> v5
          /\ g[n - 1] = CASE n - 1 = 0 -> view [] n - 1 = 1 -> v1 [] n - 1 = 2 -> v2
                          [] n - 1 = 3 -> v3 [] n - 1 = 4 -> v4 [] OTHER -> v5
      BY <3>1
    <3> HIDE DEF g
    <3>3. QED
      BY <2>1, <2>3, <3>2
  <2>4. QED
    BY <2>2, <2>3
<1>3. Def(g)
  BY <1>2
<1>4. Def(after)
  BY <1>3
<1>5. LearnAll(view, msgs) = after[Len(msgs)]
  BY DEF LearnAll
<1> HIDE DEF after
<1>6. \A n \in 0..Len(msgs) : after[n] = IF n = 0 THEN view ELSE Learn(after[n - 1], msgs[n])
  BY <1>4
<1>7. Learns(view, msgs, after)
  BY <1>1, <1>5, <1>6 DEF Learns
<1>8. QED
  BY <1>7

\* A client that hears one broadcast applies it, ...
LEMMA LearnOne ==
  ASSUME NEW view, NEW a
  PROVE  LearnAll(view, <<a>>) = Learn(view, a)
<1> DEFINE q == <<a>>
<1>1. Len(q) = 1 /\ Len(q) \in 0..5 /\ q[1] = a
  OBVIOUS
<1> HIDE DEF q
<1>2. PICK after : Learns(view, q, after)
  BY <1>1, LearnAllSteps, Zenon
<1>3. after[1] = Learn(after[1 - 1], q[1])
  BY <1>1, <1>2 DEF Learns
<1>4. LearnAll(view, q) = Learn(view, a)
  BY <1>1, <1>2, <1>3 DEF Learns
<1>5. QED
  BY <1>4 DEF q

\* ... and of two the one after the other.
LEMMA LearnTwo ==
  ASSUME NEW view, NEW a, NEW b
  PROVE  LearnAll(view, <<a, b>>) = Learn(Learn(view, a), b)
<1> DEFINE q == <<a, b>>
<1>1. Len(q) = 2 /\ Len(q) \in 0..5 /\ q[1] = a /\ q[2] = b
  OBVIOUS
<1> HIDE DEF q
<1>2. PICK after : Learns(view, q, after)
  BY <1>1, LearnAllSteps, Zenon
<1>3. after[1] = Learn(after[1 - 1], q[1]) /\ after[2] = Learn(after[2 - 1], q[2])
  BY <1>1, <1>2 DEF Learns
<1>4. LearnAll(view, q) = Learn(Learn(view, a), b)
  BY <1>1, <1>2, <1>3 DEF Learns
<1>5. QED
  BY <1>4 DEF q

\* A client that has applied up to four broadcasts applies the next one to the result.
LEMMA LearnOneMore ==
  ASSUME NEW view, NEW S, NEW msgs \in Seq(S), Len(msgs) \in 0..4, NEW a
  PROVE  LearnAll(view, msgs \o <<a>>) = Learn(LearnAll(view, msgs), a)
<1> DEFINE q == msgs \o <<a>>
           T == S \cup {a}
<1>1. /\ msgs \in Seq(T) /\ <<a>> \in Seq(T) /\ Len(<<a>>) = 1 /\ <<a>>[1] = a
      /\ Len(msgs) \in 0..4
  OBVIOUS
<1>2. /\ q \in Seq(T) /\ Len(q) = Len(msgs) + 1 /\ q[Len(msgs) + 1] = a
      /\ \A n \in 1..Len(msgs) : q[n] = msgs[n]
  BY <1>1, ConcatProperties
<1> HIDE DEF q, T
<1>b. Len(msgs) \in 0..5
  BY <1>1
<1>3. PICK f : Learns(view, msgs, f)
  BY <1>b, LearnAllSteps, Zenon
<1>a. Len(q) \in 0..5
  BY <1>1, <1>2, ShortFacts
<1>4. PICK g : Learns(view, q, g)
  BY <1>a, LearnAllSteps, Zenon
<1>5. \A n \in 1..Len(msgs) : g[n - 1] = f[n - 1] => g[n] = f[n]
  BY <1>1, <1>2, <1>3, <1>4 DEF Learns
<1>6. g[Len(msgs)] = f[Len(msgs)]
  <2>0. g[0] = f[0]
    BY <1>3, <1>4 DEF Learns
  <2>1. 1 <= Len(msgs) => g[1] = f[1]
    BY <1>1, <1>5, <2>0
  <2>2. 2 <= Len(msgs) => g[2] = f[2]
    BY <1>1, <1>5, <2>1
  <2>3. 3 <= Len(msgs) => g[3] = f[3]
    BY <1>1, <1>5, <2>2
  <2>4. 4 <= Len(msgs) => g[4] = f[4]
    BY <1>1, <1>5, <2>3
  <2>5. Len(msgs) \in {0, 1, 2, 3, 4}
    BY <1>1, ShortFacts
  <2>6. CASE Len(msgs) = 0
    BY <2>0, <2>6
  <2>7. CASE Len(msgs) = 1
    BY <2>1, <2>7
  <2>8. CASE Len(msgs) = 2
    BY <2>2, <2>8
  <2>9. CASE Len(msgs) = 3
    BY <2>3, <2>9
  <2>10. CASE Len(msgs) = 4
    BY <2>4, <2>10
  <2>11. QED
    BY <2>5, <2>6, <2>7, <2>8, <2>9, <2>10
<1>7. g[Len(q)] = Learn(g[Len(msgs)], a)
  BY <1>1, <1>2, <1>4 DEF Learns
<1>8. QED
  BY <1>3, <1>4, <1>6, <1>7 DEF q, Learns

\* A client that has applied up to three broadcasts applies the next two one by one.
LEMMA LearnTwoMore ==
  ASSUME NEW view, NEW S, NEW msgs \in Seq(S), Len(msgs) \in 0..3, NEW a, NEW b
  PROVE  LearnAll(view, msgs \o <<a, b>>) = Learn(Learn(LearnAll(view, msgs), a), b)
<1> DEFINE T == S \cup {a, b}
           q == msgs \o <<a>>
<1>1. msgs \in Seq(T) /\ <<a>> \in Seq(T) /\ <<b>> \in Seq(T) /\ Len(<<a>>) = 1
      /\ Len(msgs) \in 0..3
  OBVIOUS
<1>2. <<a, b>> = <<a>> \o <<b>>
  <2>1. <<a>> \in Seq({a, b}) /\ <<b>> \in Seq({a, b}) /\ <<a, b>> \in Seq({a, b})
    OBVIOUS
  <2>2. /\ Len(<<a>>) = 1 /\ Len(<<b>>) = 1 /\ Len(<<a, b>>) = 2
        /\ <<a>>[1] = a /\ <<b>>[1] = b /\ <<a, b>>[1] = a /\ <<a, b>>[2] = b
    OBVIOUS
  <2>3. /\ <<a>> \o <<b>> \in Seq({a, b}) /\ Len(<<a>> \o <<b>>) = 2
        /\ (<<a>> \o <<b>>)[1] = a /\ (<<a>> \o <<b>>)[2] = b
    BY <2>1, <2>2, ConcatProperties
  <2> DEFINE c == <<a>> \o <<b>>
             d == <<a, b>>
  <2>4. c \in Seq({a, b}) /\ d \in Seq({a, b}) /\ Len(c) = Len(d) /\ Len(c) = 2
        /\ c[1] = d[1] /\ c[2] = d[2]
    BY <2>1, <2>2, <2>3
  <2> HIDE DEF c, d
  <2>5. \A i \in 1..Len(c) : c[i] = d[i]
    <3>1. \A i \in 1..2 : i = 1 \/ i = 2
      OBVIOUS
    <3>2. QED
      BY <2>4, <3>1
  <2>6. c = d
    BY <2>4, <2>5, SeqEqual, Zenon
  <2>7. QED
    BY <2>6 DEF c, d
<1> HIDE DEF T
<1>3. msgs \o <<a, b>> = q \o <<b>>
  BY <1>1, <1>2, ConcatAssociative
<1>4. q \in Seq(T) /\ Len(q) = Len(msgs) + 1
  BY <1>1, ConcatProperties
<1>5. LearnAll(view, q) = Learn(LearnAll(view, msgs), a)
  BY <1>1, LearnOneMore
<1> HIDE DEF q
<1>6. LearnAll(view, q \o <<b>>) = Learn(LearnAll(view, q), b)
  <2>1. Len(q) \in 0..4
    BY <1>1, <1>4, ShortFacts
  <2>2. QED
    BY <1>4, <2>1, LearnOneMore, Zenon
<1>7. QED
  BY <1>3, <1>5, <1>6
-----------------------------------------------------------------------------
\* The types of everything but what the participants know.
Types ==
  /\ participants \subseteq Winner
  /\ leader \in IF participants = {} THEN Winner \cup {NoOne} ELSE Winner
  /\ current \in State
  /\ alive \in BOOLEAN
  /\ sent \in Seq(ServerMessages)

\* As Cardinality counts only what is finite: the participants and the ballots.
Finite ==
  /\ IsFiniteSet(participants)
  /\ current # Idle => IsFiniteSet(DOMAIN current.votes)

\* All participants know the room, and nobody else is counted as one who does.
Informed == knows = [w \in participants |-> Now]

\* The inductive invariant.
IInv == Types /\ Finite /\ VotingAwaitsABallot /\ FightersArePresent /\ Informed

\* What the room is doing, by its kind.
LEMMA StateCases ==
  ASSUME current \in State
  PROVE  /\ current.kind \in {"Idle", "Voting", "Fighting"}
         /\ current.kind = "Idle" <=> current = Idle
         /\ current # Idle => current.story \in Story /\ current.votes \in Map(Winner, Points)
BY DEF State, Idle

\* A room with a vote or a fight on is not idle.
LEMMA BusyFacts ==
  ASSUME NEW story \in Story, NEW votes \in Map(Winner, Points)
  PROVE  /\ CurrentVote(story, votes) \in State /\ CurrentVote(story, votes) # Idle
         /\ CurrentVote(story, votes).kind = "Voting"
         /\ CurrentVote(story, votes).votes = votes
         /\ \A h, l \in Winner :
              /\ Fight(story, votes, h, l) \in State /\ Fight(story, votes, h, l) # Idle
              /\ Fight(story, votes, h, l).kind = "Fighting"
              /\ Fight(story, votes, h, l).votes = votes
              /\ Fight(story, votes, h, l).high = h /\ Fight(story, votes, h, l).low = l
BY DEF State, CurrentVote, Fight, Idle

\* The keys of a map of ballots are people, and its values points.
LEMMA MapFacts ==
  ASSUME NEW f \in Map(Winner, Points)
  PROVE  DOMAIN f \subseteq Winner /\ \A w \in DOMAIN f : f[w] \in Points
BY DEF Map

\* Ballots that are not all the same have a highest above the lowest.
LEMMA FightersDisagree ==
  ASSUME NEW votes \in Map(Winner, Points), Cardinality(Range(votes)) > 1,
         NEW high \in Highest(votes), NEW low \in Lowest(votes)
  PROVE  /\ high \in DOMAIN votes /\ low \in DOMAIN votes
         /\ votes[low] < votes[high]
         /\ \A w \in DOMAIN votes : votes[w] \in votes[low]..votes[high]
<1>1. high \in DOMAIN votes /\ low \in DOMAIN votes
  BY DEF Highest, Lowest
<1>2. \A w \in DOMAIN votes : votes[w] \in Nat
  BY MapFacts, PointsAssumption
<1>3. \A w \in DOMAIN votes : votes[low] <= votes[w] /\ votes[w] <= votes[high]
  BY DEF Highest, Lowest
<1>4. ASSUME votes[low] = votes[high] PROVE FALSE
  <2>1. \A w \in DOMAIN votes : votes[w] = votes[low]
    BY <1>1, <1>2, <1>3, <1>4
  <2>2. Range(votes) = {votes[low]}
    BY <1>1, <2>1 DEF Range
  <2>3. Cardinality(Range(votes)) = 1
    BY <2>2, FS_Singleton
  <2>4. QED
    BY <2>3
<1>5. votes[low] < votes[high]
  BY <1>1, <1>2, <1>3, <1>4
<1>6. QED
  BY <1>1, <1>2, <1>3, <1>5

\* Counting waits for more ballots, ends the vote, or begins a fight between
\* people who are there.
LEMMA CountEffect ==
  ASSUME NEW story \in Story, NEW votes \in Map(Winner, Points), NEW msgs,
         participants' \subseteq Winner, IsFiniteSet(participants'),
         IsFiniteSet(DOMAIN votes), Count(story, votes, msgs)
  PROVE  /\ current' \in State
         /\ current' # Idle => IsFiniteSet(DOMAIN current'.votes)
         /\ VotingAwaitsABallot' /\ FightersArePresent'
<1>1. Cardinality(participants') \in Nat /\ Cardinality(DOMAIN votes) \in Nat
  BY FS_CardinalityType
<1>2. CASE /\ Cardinality(participants') > Cardinality(DOMAIN votes)
           /\ current' = CurrentVote(story, votes)
  BY <1>1, <1>2, BusyFacts DEF VotingAwaitsABallot, FightersArePresent
<1>3. CASE current' = Idle
  BY <1>3 DEF VotingAwaitsABallot, FightersArePresent, Idle, State
<1>4. ASSUME Cardinality(Range(votes)) > 1,
             NEW high \in Highest(votes), NEW low \in Lowest(votes),
             {high, low} \subseteq participants', current' = Fight(story, votes, high, low)
      PROVE  /\ current' \in State
             /\ current' # Idle => IsFiniteSet(DOMAIN current'.votes)
             /\ VotingAwaitsABallot' /\ FightersArePresent'
  <2>1. high \in Winner /\ low \in Winner
    BY <1>4
  <2>2. /\ current' \in State /\ current'.kind = "Fighting" /\ current'.votes = votes
        /\ current'.high = high /\ current'.low = low
    BY <1>4, <2>1, BusyFacts
  <2>3. FightersArePresent'
    BY <1>4, <2>2, FightersDisagree DEF FightersArePresent
  <2>4. VotingAwaitsABallot'
    BY <2>2 DEF VotingAwaitsABallot
  <2>5. QED
    BY <2>2, <2>3, <2>4
<1>5. QED
  BY <1>2, <1>3, <1>4 DEF Count

\* What the participants make of a broadcast.
Heard == knows' = [w \in participants \cap participants' |-> LearnAll(knows[w], sent')]

\* Participants who know the room and apply what tells the change still know it.
LEMMA HeardInforms ==
  ASSUME Informed, participants' \subseteq participants, Heard, LearnAll(Now, sent') = Now'
  PROVE  Informed'
BY DEF Informed, Heard

\* The broadcasts of a count tell what has become of the vote.
LEMMA CountTells ==
  ASSUME NEW story \in Story, NEW votes \in Map(Winner, Points),
         NEW S, NEW msgs \in Seq(S), Len(msgs) \in 0..2,
         participants' \subseteq Winner, Count(story, votes, msgs),
         LearnAll(Now, msgs) = WhileBusy(participants', leader')
  PROVE  Heard /\ LearnAll(Now, sent') = Now'
<1> DEFINE v == VotesReceived(votes)
           results == msgs \o <<v>>
           T == S \cup {v}
<1>a. msgs \in Seq(T) /\ <<v>> \in Seq(T) /\ Len(<<v>>) = 1
  OBVIOUS
<1>1. results \in Seq(T) /\ Len(results) = Len(msgs) + 1
  BY <1>a, ConcatProperties
<1>2. LearnAll(Now, results) = WhileBusy(participants', leader')
  <2>1. Len(msgs) \in 0..4
    BY ShortFacts
  <2>2. LearnAll(Now, results) = Learn(LearnAll(Now, msgs), v)
    BY <2>1, LearnOneMore, Zenon
  <2>3. QED
    BY <2>2, LearnWhileBusy
<1> HIDE DEF results, T
<1>3. Len(results) \in 0..3 /\ Len(results) \in 0..4
  BY <1>1, ShortFacts
<1>4. CASE current' = CurrentVote(story, votes) /\ Broadcast(msgs)
  <2>1. current' # Idle
    BY <1>4, BusyFacts
  <2>2. QED
    BY <1>4, <2>1, NowCases DEF Broadcast, Heard
<1>5. CASE current' = Idle /\ Broadcast(results \o <<NowIdle>>)
  <2>1. LearnAll(Now, results \o <<NowIdle>>) = Learn(LearnAll(Now, results), NowIdle)
    BY <1>1, <1>3, LearnOneMore, Zenon
  <2>2. LearnAll(Now, results \o <<NowIdle>>) = Now'
    BY <1>2, <1>5, <2>1, LearnWhileBusy, NowCases
  <2>3. QED
    BY <1>5, <2>2 DEF Broadcast, Heard
<1>6. ASSUME NEW high, NEW low, {high, low} \subseteq participants',
             current' = Fight(story, votes, high, low),
             Broadcast(results \o <<FightOver(high, low)>>)
      PROVE  Heard /\ LearnAll(Now, sent') = Now'
  <2>1. current' # Idle
    BY <1>6, BusyFacts
  <2>2. LearnAll(Now, results \o <<FightOver(high, low)>>)
          = Learn(LearnAll(Now, results), FightOver(high, low))
    BY <1>1, <1>3, LearnOneMore, Zenon
  <2>3. LearnAll(Now, results \o <<FightOver(high, low)>>) = Now'
    BY <1>2, <2>1, <2>2, LearnWhileBusy, NowCases
  <2>4. QED
    BY <1>6, <2>3 DEF Broadcast, Heard
<1>7. ASSUME NEW high, NEW low, current' = Idle,
             Broadcast(results \o <<FightOver(high, low), NowIdle>>)
      PROVE  Heard /\ LearnAll(Now, sent') = Now'
  <2>1. LearnAll(Now, results \o <<FightOver(high, low), NowIdle>>)
          = Learn(Learn(LearnAll(Now, results), FightOver(high, low)), NowIdle)
    <3>1. results \in Seq(T) /\ Len(results) \in 0..3
      BY <1>1, <1>3
    <3>2. QED
      BY <3>1, LearnTwoMore
  <2>2. LearnAll(Now, results \o <<FightOver(high, low), NowIdle>>) = Now'
    BY <1>2, <1>7, <2>1, LearnWhileBusy, NowCases
  <2>3. QED
    BY <1>7, <2>2 DEF Broadcast, Heard
<1>8. QED
  BY <1>4, <1>5, <1>6, <1>7 DEF Count, results

\* The broadcasts of a count are messages.
LEMMA CountSends ==
  ASSUME NEW story \in Story, NEW votes \in Map(Winner, Points),
         NEW msgs \in Seq(ServerMessages), Count(story, votes, msgs)
  PROVE  sent' \in Seq(ServerMessages)
<1> DEFINE v == VotesReceived(votes)
<1>1. v \in ServerMessages /\ NowIdle \in ServerMessages
  BY DEF ServerMessages
<1>2. ASSUME NEW high \in Highest(votes), NEW low \in Lowest(votes)
      PROVE  FightOver(high, low) \in ServerMessages
  BY MapFacts DEF Highest, Lowest, ServerMessages
<1> HIDE DEF v
<1>3. msgs \o <<v>> \in Seq(ServerMessages)
  BY <1>1
<1> DEFINE results == msgs \o <<v>>
<1> HIDE DEF results
<1>4. results \in Seq(ServerMessages) /\ results \o <<NowIdle>> \in Seq(ServerMessages)
  BY <1>1, <1>3 DEF results
<1>5. \A f \in ServerMessages : /\ results \o <<f>> \in Seq(ServerMessages)
                               /\ results \o <<f, NowIdle>> \in Seq(ServerMessages)
  BY <1>1, <1>4
<1>6. QED
  BY <1>2, <1>4, <1>5 DEF Count, Broadcast, results, v
-----------------------------------------------------------------------------
\* A message that the room drops, refuses or panics over changes nothing.
LEMMA RefusalKeepsIInv ==
  ASSUME IInv, UNCHANGED <<participants, leader, current, knows>>, sent' = <<>>,
         alive' \in BOOLEAN
  PROVE  IInv'
<1>1. Types'
  BY DEF IInv, Types
<1>2. QED
  BY <1>1 DEF IInv, Finite, VotingAwaitsABallot, FightersArePresent, Informed, Now

\* Somebody enters an idle room.
LEMMA SubscribeKeepsIInv ==
  ASSUME IInv, NEW w \in Winner, Subscribe(w)
  PROVE  IInv'
<1>1. CASE w \in participants
  BY <1>1, RefusalKeepsIInv DEF Answered, Subscribe, IInv, Types
<1>2. CASE w \notin participants
  <2> DEFINE told == WhileIdle(participants', leader')
  <2>1. /\ participants' = participants \cup {w}
        /\ leader' = IF leader = NoOne THEN w ELSE leader
        /\ sent' = (IF leader = NoOne THEN <<Leads(w)>> ELSE <<>>) \o <<Entered(w)>>
        /\ knows' = [v \in participants' |->
                       IF v = w THEN Learn(told, Entered(w)) ELSE LearnAll(knows[v], sent')]
        /\ current = Idle /\ UNCHANGED current /\ alive' \in BOOLEAN
    BY <1>2 DEF Answered, Subscribe, WhileIdle
  <2>2. sent' \in {<<Leads(w)>> \o <<Entered(w)>>, <<>> \o <<Entered(w)>>}
    BY <2>1
  <2>3. Leads(w) \in ServerMessages /\ Entered(w) \in ServerMessages
    BY DEF Leads, Entered, ServerMessages
  <2>4. sent' \in Seq(ServerMessages)
    <3>1. <<Leads(w)>> \in Seq(ServerMessages) /\ <<Entered(w)>> \in Seq(ServerMessages)
      BY <2>3
    <3>2. /\ <<Leads(w)>> \o <<Entered(w)>> \in Seq(ServerMessages)
          /\ <<>> \o <<Entered(w)>> \in Seq(ServerMessages)
      BY <3>1, ConcatProperties, ConcatEmptySeq
    <3>3. QED
      BY <2>2, <3>2
  <2>5. Types'
    BY <2>1, <2>4 DEF IInv, Types
  <2>6. Finite'
    BY <2>1, FS_AddElement DEF IInv, Finite
  <2>7. VotingAwaitsABallot' /\ FightersArePresent'
    BY <2>1 DEF VotingAwaitsABallot, FightersArePresent, Idle
  <2>8. Now = WhileIdle(participants, leader) /\ Now' = told
    BY <2>1, NowCases
  <2>9. Learn(told, Entered(w)) = Now'
    <3>1. participants' \cup {w} = participants'
      BY <2>1
    <3>2. QED
      BY <2>8, <3>1, LearnWhileIdle
  <2>10. LearnAll(Now, sent') = Now'
    <3>1. LearnAll(Now, <<Leads(w)>>) = WhileIdle(participants, w)
      <4>1. LearnAll(Now, <<Leads(w)>>) = Learn(Now, Leads(w))
        BY LearnOne
      <4>2. QED
        BY <2>8, <4>1, LearnWhileIdle
    <3>2. LearnAll(Now, <<Leads(w)>> \o <<Entered(w)>>)
            = Learn(LearnAll(Now, <<Leads(w)>>), Entered(w))
      <4>1. <<Leads(w)>> \in Seq(ServerMessages) /\ Len(<<Leads(w)>>) = 1
        BY <2>3
      <4>2. Len(<<Leads(w)>>) \in 0..4
        BY <4>1
      <4>3. QED
        BY <4>1, <4>2, LearnOneMore, Zenon
    <3>3. LearnAll(Now, <<Entered(w)>>) = Learn(Now, Entered(w))
      BY LearnOne
    <3>4. <<>> \o <<Entered(w)>> = <<Entered(w)>>
      BY <2>3, ConcatEmptySeq
    <3>5. CASE leader = NoOne
      <4>1. sent' = <<Leads(w)>> \o <<Entered(w)>>
        BY <2>1, <3>5
      <4>2. Learn(WhileIdle(participants, w), Entered(w)) = WhileIdle(participants', leader')
        BY <2>1, <3>5, LearnWhileIdle
      <4>3. QED
        BY <2>8, <3>1, <3>2, <4>1, <4>2
    <3>6. CASE leader # NoOne
      <4>1. sent' = <<Entered(w)>>
        BY <2>1, <3>4, <3>6
      <4>2. Learn(Now, Entered(w)) = WhileIdle(participants', leader')
        BY <2>1, <2>8, <3>6, LearnWhileIdle
      <4>3. QED
        BY <2>8, <3>3, <4>1, <4>2
    <3>7. QED
      BY <3>5, <3>6
  <2>11. Informed'
    <3>1. \A v \in participants : knows[v] = Now
      BY DEF IInv, Informed
    <3>2. \A v \in participants' : knows'[v] = Now'
      BY <2>1, <2>9, <2>10, <3>1
    <3>3. QED
      BY <2>1, <3>2 DEF Informed
  <2>12. QED
    BY <2>5, <2>6, <2>7, <2>11 DEF IInv
<1>3. QED
  BY <1>1, <1>2

\* An idle room starts a vote without ballots.
LEMMA StartKeepsIInv ==
  ASSUME IInv, NEW w \in Winner, NEW story \in Story, StartVote(w, story)
  PROVE  IInv'
<1>1. CASE /\ w \in participants /\ current = Idle /\ UNCHANGED <<participants, leader, alive>>
           /\ current' = CurrentVote(story, [v \in {} |-> 0])
           /\ Broadcast(<<NowVoting, VoteStarted(story)>>)
  <2> DEFINE votes == [v \in {} |-> 0]
  <2>1. votes \in Map(Winner, Points) /\ DOMAIN votes = {}
    BY DEF Map
  <2> HIDE DEF votes
  <2>2. /\ current' \in State /\ current'.kind = "Voting" /\ current' # Idle
        /\ current'.votes = votes
    BY <1>1, <2>1, BusyFacts DEF votes
  <2>3. Finite'
    BY <1>1, <2>1, <2>2, FS_EmptySet DEF IInv, Finite
  <2>4. VotingAwaitsABallot'
    <3>1. /\ Cardinality(participants) \in Nat /\ Cardinality(participants) # 0
          /\ Cardinality(DOMAIN votes) = 0
      BY <1>1, <2>1, FS_EmptySet, FS_CardinalityType DEF IInv, Finite
    <3>2. QED
      BY <1>1, <2>2, <3>1 DEF VotingAwaitsABallot
  <2>5. FightersArePresent'
    BY <2>2 DEF FightersArePresent
  <2>6. NowVoting \in ServerMessages /\ VoteStarted(story) \in ServerMessages
    BY DEF ServerMessages
  <2>7. Types'
    <3>1. <<NowVoting, VoteStarted(story)>> \in Seq(ServerMessages)
      BY <2>6
    <3>2. QED
      BY <1>1, <2>2, <3>1 DEF IInv, Types, Broadcast
  <2>8. LearnAll(Now, sent') = Now'
    <3>1. LearnAll(Now, sent') = Learn(Learn(Now, NowVoting), VoteStarted(story))
      <4>1. LearnAll(Now, <<NowVoting, VoteStarted(story)>>)
              = Learn(Learn(Now, NowVoting), VoteStarted(story))
        BY LearnTwo
      <4>2. QED
        BY <1>1, <4>1 DEF Broadcast
    <3>2. Now = WhileIdle(participants, leader) /\ Now' = WhileBusy(participants, leader)
      BY <1>1, <2>2, NowCases
    <3>3. Learn(Now, NowVoting) = WhileBusy(participants, leader)
      BY <3>2, LearnWhileIdle
    <3>4. QED
      BY <3>1, <3>2, <3>3, LearnWhileBusy
  <2>9. Informed'
    BY <1>1, <2>8, HeardInforms DEF IInv, Broadcast, Heard
  <2>10. QED
    BY <2>3, <2>4, <2>5, <2>7, <2>9 DEF IInv
<1>2. CASE sent' = <<>> /\ UNCHANGED <<participants, leader, current, knows>>
  BY <1>2, RefusalKeepsIInv DEF StartVote, Panic, IInv, Types
<1>3. QED
  BY <1>1, <1>2 DEF StartVote, Panic

\* A count keeps the invariant.
LEMMA CountKeepsIInv ==
  ASSUME IInv, NEW story \in Story, NEW votes \in Map(Winner, Points),
         IsFiniteSet(DOMAIN votes),
         NEW msgs \in Seq(ServerMessages), Len(msgs) \in 0..2,
         participants' \subseteq participants, leader' \in IF participants' = {} THEN Winner \cup {NoOne} ELSE Winner,
         alive' \in BOOLEAN, Count(story, votes, msgs),
         LearnAll(Now, msgs) = WhileBusy(participants', leader')
  PROVE  IInv'
<1>1. participants' \subseteq Winner /\ IsFiniteSet(participants')
  BY FS_Subset DEF IInv, Types, Finite
<1>2. /\ current' \in State
      /\ current' # Idle => IsFiniteSet(DOMAIN current'.votes)
      /\ VotingAwaitsABallot' /\ FightersArePresent'
  BY <1>1, CountEffect
<1>3. sent' \in Seq(ServerMessages)
  BY CountSends
<1>4. Heard /\ LearnAll(Now, sent') = Now'
  BY <1>1, CountTells
<1>5. Informed'
  BY <1>4, HeardInforms DEF IInv
<1>6. QED
  BY <1>1, <1>2, <1>3, <1>5 DEF IInv, Types, Finite

\* A ballot.
LEMMA VoteKeepsIInv ==
  ASSUME IInv, NEW w \in Winner, NEW story \in Story, NEW p \in Points, Vote(w, story, p)
  PROVE  IInv'
<1> DEFINE votes == IF story = current.story
                    THEN [v \in DOMAIN current.votes \cup {w} |->
                            IF v = w THEN p ELSE current.votes[v]]
                    ELSE current.votes
           cast == <<VoteCast(w, p)>>
<1>1. CASE /\ current.kind = "Voting" /\ UNCHANGED <<participants, leader, alive>>
           /\ Count(current.story, votes, cast)
  <2>1. /\ current # Idle /\ current.story \in Story
        /\ current.votes \in Map(Winner, Points) /\ IsFiniteSet(DOMAIN current.votes)
    BY <1>1, StateCases DEF IInv, Types, Finite, Idle
  <2>2. votes \in Map(Winner, Points) /\ IsFiniteSet(DOMAIN votes)
    <3>1. CASE story = current.story
      <4>1. DOMAIN votes = DOMAIN current.votes \cup {w}
        BY <3>1
      <4>2. IsFiniteSet(DOMAIN votes)
        BY <2>1, <4>1, FS_AddElement
      <4>3. /\ DOMAIN votes \subseteq Winner
            /\ votes \in [DOMAIN current.votes \cup {w} -> Points]
        BY <2>1, <3>1, <4>1, MapFacts
      <4>4. QED
        BY <4>1, <4>2, <4>3 DEF Map
    <3>2. CASE story # current.story
      BY <2>1, <3>2
    <3>3. QED
      BY <3>1, <3>2
  <2>3. VoteCast(w, p) \in ServerMessages
    BY DEF ServerMessages
  <2>4. cast \in Seq(ServerMessages) /\ Len(cast) = 1
    BY <2>3
  <2>5. Len(cast) \in 0..2
    BY <2>4
  <2>6. LearnAll(Now, cast) = WhileBusy(participants, leader)
    <3>1. Now = WhileBusy(participants, leader)
      BY <2>1, NowCases
    <3>2. LearnAll(Now, cast) = Learn(Now, VoteCast(w, p))
      BY LearnOne
    <3>3. QED
      BY <3>1, <3>2, LearnWhileBusy
  <2>7. /\ participants' \subseteq participants /\ alive' \in BOOLEAN
        /\ leader' \in IF participants' = {} THEN Winner \cup {NoOne} ELSE Winner
    BY <1>1 DEF IInv, Types
  <2>8. LearnAll(Now, cast) = WhileBusy(participants', leader')
    BY <1>1, <2>6
  <2> HIDE DEF votes, cast
  <2>9. QED
    BY <1>1, <2>1, <2>2, <2>4, <2>5, <2>7, <2>8, CountKeepsIInv
<1>2. CASE sent' = <<>> /\ UNCHANGED <<participants, leader, current, knows>>
  BY <1>2, RefusalKeepsIInv DEF Vote, Panic, IInv, Types
<1>3. QED
  BY <1>1, <1>2 DEF Vote, Panic

\* A fight is settled.
LEMMA ResolveKeepsIInv ==
  ASSUME IInv, NEW w \in Winner, FightResolved(w)
  PROVE  IInv'
<1>1. CASE /\ current.kind = "Fighting" /\ UNCHANGED <<participants, leader, alive>>
           /\ current' = Idle /\ Broadcast(<<FightEnded, NowIdle>>)
  <2>1. FightEnded \in ServerMessages /\ NowIdle \in ServerMessages
    BY DEF ServerMessages
  <2>2. sent' \in Seq(ServerMessages)
    <3>1. <<FightEnded, NowIdle>> \in Seq(ServerMessages)
      BY <2>1
    <3>2. QED
      BY <1>1, <3>1 DEF Broadcast
  <2>3. Types' /\ Finite' /\ VotingAwaitsABallot' /\ FightersArePresent'
    BY <1>1, <2>2 DEF IInv, Types, Finite, VotingAwaitsABallot, FightersArePresent, State, Idle
  <2>4. LearnAll(Now, sent') = Now'
    <3>1. LearnAll(Now, sent') = Learn(Learn(Now, FightEnded), NowIdle)
      <4>1. LearnAll(Now, <<FightEnded, NowIdle>>) = Learn(Learn(Now, FightEnded), NowIdle)
        BY LearnTwo
      <4>2. QED
        BY <1>1, <4>1 DEF Broadcast
    <3>2. current # Idle
      BY <1>1 DEF Idle
    <3>3. Now = WhileBusy(participants, leader) /\ Now' = WhileIdle(participants, leader)
      BY <1>1, <3>2, NowCases
    <3>4. QED
      BY <3>1, <3>3, LearnWhileBusy
  <2>5. Informed'
    BY <1>1, <2>4, HeardInforms DEF IInv, Broadcast, Heard
  <2>6. QED
    BY <2>3, <2>5 DEF IInv
<1>2. CASE sent' = <<>> /\ UNCHANGED <<participants, leader, current, knows>>
  BY <1>2, RefusalKeepsIInv DEF FightResolved, Panic, IInv, Types
<1>3. QED
  BY <1>1, <1>2 DEF FightResolved, Panic

\* Somebody leaves: he and the next leader are told of, and a vote is counted
\* again or a fight is given up.
LEMMA LeaveKeepsIInv ==
  ASSUME IInv, NEW w \in Winner, LeaveRoom(w)
  PROVE  IInv'
<1>1. /\ w \in participants /\ participants' = participants \ {w} /\ UNCHANGED alive
  BY DEF LeaveRoom
<1>2. PICK next \in NextLeaders(w) : leader' = next /\ AfterLeave(LeaveNotice(w, next))
  BY DEF LeaveRoom
<1> DEFINE msgs == LeaveNotice(w, next)
<1>3. /\ participants' \subseteq participants
      /\ leader' \in IF participants' = {} THEN Winner \cup {NoOne} ELSE Winner
  BY <1>1, <1>2 DEF NextLeaders, IInv, Types
<1>4. participants' \subseteq Winner /\ IsFiniteSet(participants')
  BY <1>1, FS_RemoveElement DEF IInv, Types, Finite
<1>5. /\ participants = {w} => msgs = <<Left(w)>> /\ leader' = leader
      /\ participants # {w} => msgs = <<Left(w), Leads(next)>> /\ leader' \in Winner
  BY <1>2 DEF LeaveNotice, NextLeaders, IInv, Types
<1>6. msgs \in Seq(ServerMessages) /\ Len(msgs) \in 0..2
  <2>1. Left(w) \in ServerMessages
    BY DEF Left, ServerMessages
  <2>2. <<Left(w)>> \in Seq(ServerMessages) /\ Len(<<Left(w)>>) = 1
    BY <2>1
  <2>3. CASE participants = {w}
    <3>1. 1 \in 0..2
      OBVIOUS
    <3>2. QED
      BY <1>5, <2>2, <2>3, <3>1, Zenon
  <2>4. CASE participants # {w}
    <3>1. Leads(next) \in ServerMessages
      BY <1>2, <1>5, <2>4 DEF Leads, ServerMessages
    <3>2. <<Left(w), Leads(next)>> \in Seq(ServerMessages) /\ Len(<<Left(w), Leads(next)>>) = 2
      BY <2>1, <3>1
    <3>3. 2 \in 0..2
      OBVIOUS
    <3>4. QED
      BY <1>5, <2>4, <3>2, <3>3, Zenon
  <2>5. QED
    BY <2>3, <2>4
<1>7. /\ current = Idle => LearnAll(Now, msgs) = WhileIdle(participants', leader')
      /\ current # Idle => LearnAll(Now, msgs) = WhileBusy(participants', leader')
  <2>1. /\ LearnAll(Now, <<Left(w)>>) = Learn(Now, Left(w))
        /\ LearnAll(Now, <<Left(w), Leads(next)>>) = Learn(Learn(Now, Left(w)), Leads(next))
    BY LearnOne, LearnTwo
  <2>2. CASE current = Idle
    <3>1. Learn(Now, Left(w)) = WhileIdle(participants', leader)
      BY <1>1, <2>2, NowCases, LearnWhileIdle
    <3>2. Learn(Learn(Now, Left(w)), Leads(next)) = WhileIdle(participants', next)
      BY <3>1, LearnWhileIdle
    <3>3. QED
      BY <1>2, <1>5, <2>1, <2>2, <3>1, <3>2, Zenon
  <2>3. CASE current # Idle
    <3>1. Learn(Now, Left(w)) = WhileBusy(participants', leader)
      BY <1>1, <2>3, NowCases, LearnWhileBusy
    <3>2. Learn(Learn(Now, Left(w)), Leads(next)) = WhileBusy(participants', next)
      BY <3>1, LearnWhileBusy
    <3>3. QED
      BY <1>2, <1>5, <2>1, <2>3, <3>1, <3>2, Zenon
  <2>4. QED
    BY <2>2, <2>3
<1> HIDE DEF msgs
<1>8. Broadcast(msgs) => Heard /\ sent' = msgs
  BY DEF Broadcast, Heard
<1>9. CASE current = Idle /\ Broadcast(msgs) /\ UNCHANGED current
  <2>1. Types' /\ Finite' /\ VotingAwaitsABallot' /\ FightersArePresent'
    BY <1>1, <1>3, <1>4, <1>6, <1>8, <1>9
       DEF IInv, Types, Finite, VotingAwaitsABallot, FightersArePresent, Idle
  <2>2. LearnAll(Now, sent') = Now'
    BY <1>7, <1>8, <1>9, NowCases
  <2>3. Informed'
    BY <1>3, <1>8, <1>9, <2>2, HeardInforms DEF IInv
  <2>4. QED
    BY <2>1, <2>3 DEF IInv
<1>10. CASE current.kind = "Voting" /\ Count(current.story, current.votes, msgs)
  <2>1. /\ current # Idle /\ current.story \in Story
        /\ current.votes \in Map(Winner, Points) /\ IsFiniteSet(DOMAIN current.votes)
    BY <1>10, StateCases DEF IInv, Types, Finite, Idle
  <2>2. alive' \in BOOLEAN
    BY <1>1 DEF IInv, Types
  <2>3. QED
    BY <1>3, <1>6, <1>7, <1>10, <2>1, <2>2, CountKeepsIInv
<1>11. CASE /\ current.kind = "Fighting" /\ {current.high, current.low} \subseteq participants'
            /\ Broadcast(msgs) /\ UNCHANGED current
  <2>1. current # Idle
    BY <1>11 DEF Idle
  <2>2. Types' /\ Finite' /\ VotingAwaitsABallot'
    BY <1>1, <1>3, <1>4, <1>6, <1>8, <1>11 DEF IInv, Types, Finite, VotingAwaitsABallot
  <2>3. FightersArePresent'
    BY <1>11 DEF IInv, FightersArePresent
  <2>4. LearnAll(Now, sent') = Now'
    BY <1>7, <1>8, <1>11, <2>1, NowCases
  <2>5. Informed'
    BY <1>3, <1>8, <1>11, <2>4, HeardInforms DEF IInv
  <2>6. QED
    BY <2>2, <2>3, <2>5 DEF IInv
<1>12. CASE /\ current.kind = "Fighting"
            /\ Broadcast(msgs \o <<NowIdle>>) /\ current' = Idle
  <2>1. current # Idle
    BY <1>12 DEF Idle
  <2>2. msgs \o <<NowIdle>> \in Seq(ServerMessages)
    <3>1. NowIdle \in ServerMessages
      BY DEF ServerMessages
    <3>2. QED
      BY <1>6, <3>1
  <2>3. Heard /\ sent' = msgs \o <<NowIdle>>
    BY <1>12 DEF Broadcast, Heard
  <2>4. Types'
    BY <1>1, <1>3, <1>4, <1>12, <2>2, <2>3 DEF IInv, Types, State
  <2>5. Finite' /\ VotingAwaitsABallot' /\ FightersArePresent'
    BY <1>4, <1>12 DEF Finite, VotingAwaitsABallot, FightersArePresent, Idle
  <2>6. LearnAll(Now, sent') = Now'
    <3>1. LearnAll(Now, msgs \o <<NowIdle>>) = Learn(LearnAll(Now, msgs), NowIdle)
      <4>1. Len(msgs) \in 0..4
        BY <1>6, ShortFacts
      <4>2. QED
        BY <1>6, <4>1, LearnOneMore, Zenon
    <3>2. Learn(LearnAll(Now, msgs), NowIdle) = WhileIdle(participants', leader')
      BY <1>7, <2>1, LearnWhileBusy
    <3>3. QED
      BY <1>12, <2>3, <3>1, <3>2, NowCases
  <2>7. Informed'
    BY <1>3, <2>3, <2>6, HeardInforms DEF IInv
  <2>8. QED
    BY <2>4, <2>5, <2>7 DEF IInv
<1>13. QED
  BY <1>2, <1>9, <1>10, <1>11, <1>12 DEF AfterLeave, msgs
-----------------------------------------------------------------------------
\* The strengthening: the invariants of the votes, with finitely many people, and
\* that every participant knows exactly what there is to know.
LEMMA InvariantHolds == Spec => []IInv
<1>1. Init => IInv
  <2> SUFFICES ASSUME Init PROVE IInv
    OBVIOUS
  <2>1. Types
    BY DEF Init, Types, State
  <2>2. Finite /\ VotingAwaitsABallot /\ FightersArePresent
    BY FS_EmptySet DEF Init, Finite, VotingAwaitsABallot, FightersArePresent, Idle
  <2>3. Informed
    BY DEF Init, Informed
  <2>4. QED
    BY <2>1, <2>2, <2>3 DEF IInv
<1>2. IInv /\ [Next]_vars => IInv'
  <2> SUFFICES ASSUME IInv, [Next]_vars PROVE IInv'
    OBVIOUS
  <2>1. CASE UNCHANGED vars
    BY <2>1 DEF vars, IInv, Types, Finite, VotingAwaitsABallot, FightersArePresent, Informed, Now
  <2>2. CASE Next
    BY <2>2, SubscribeKeepsIInv, StartKeepsIInv, VoteKeepsIInv, LeaveKeepsIInv,
       ResolveKeepsIInv DEF Next
  <2>3. QED
    BY <2>1, <2>2
<1>3. QED
  BY <1>1, <1>2, PTL DEF Spec

\* Every variable of the room keeps its type.
THEOREM TypeCorrect == Spec => []TypeOK
<1>1. IInv => TypeOK
  <2> SUFFICES ASSUME IInv PROVE TypeOK
    OBVIOUS
  <2>1. Now \in View
    <3>1. (current # Idle) \in BOOLEAN
      OBVIOUS
    <3>2. QED
      BY <3>1 DEF Now, View, IInv, Types
  <2>2. knows \in [participants -> View]
    BY <2>1 DEF IInv, Informed
  <2>3. QED
    BY <2>2 DEF IInv, Types, TypeOK
<1>2. QED
  BY <1>1, InvariantHolds, PTL

\* The voting loop waits only while there are fewer ballots than participants,
\* also after somebody has left (the condition is read again after each message).
THEOREM VotingWaitsForBallots == Spec => []VotingAwaitsABallot
<1>1. IInv => VotingAwaitsABallot
  BY DEF IInv
<1>2. QED
  BY <1>1, InvariantHolds, PTL

\* The fighters are in the room and differ, whoever leaves during the fight.
THEOREM FightsAreAmongThePresent == Spec => []FightersArePresent
<1>1. IInv => FightersArePresent
  BY DEF IInv
<1>2. QED
  BY <1>1, InvariantHolds, PTL

\* The broadcasts, applied to the initial state, add up to what the room is.
THEOREM BroadcastsTellTheRoom == Spec => []SubscribersKnowTheRoom
<1>1. IInv => SubscribersKnowTheRoom
  BY DEF IInv, Informed, Now, SubscribersKnowTheRoom
<1>2. QED
  BY <1>1, InvariantHolds, PTL

\* unsubscribe hands the lead to somebody who is there.
THEOREM LeadersAreSucceeded == Spec => LeadershipIsHandedOver
<1>1. [Next]_vars =>
        [(leader \in participants /\ participants' # {}) => leader' \in participants']_vars
  <2> SUFFICES ASSUME Next, leader \in participants, participants' # {}
               PROVE  leader' \in participants'
    OBVIOUS
  <2>1. PICK w \in Winner :
          \/ Subscribe(w)
          \/ \E story \in Story : StartVote(w, story)
          \/ \E story \in Story, p \in Points : Vote(w, story, p)
          \/ LeaveRoom(w)
          \/ FightResolved(w)
    BY DEF Next
  <2>2. CASE Subscribe(w)
    BY <2>2 DEF Subscribe
  <2>3. CASE LeaveRoom(w)
    <3>1. participants' = participants \ {w} /\ leader' \in NextLeaders(w)
      BY <2>3 DEF LeaveRoom
    <3>2. QED
      BY <3>1 DEF NextLeaders
  <2>4. CASE UNCHANGED <<participants, leader>>
    BY <2>4
  <2>5. QED
    BY <2>1, <2>2, <2>3, <2>4 DEF StartVote, Vote, FightResolved, Panic
<1>2. QED
  BY <1>1, PTL DEF Spec, LeadershipIsHandedOver
=============================================================================

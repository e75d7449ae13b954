-------------------------- MODULE RoomActorProofs --------------------------
(* Theorems about RoomActor for any people, connections, stories and cards. *)
EXTENDS RoomActor, TLAPS

\* Cards are numbers, so ballots can be compared.
LEMMA CardsAreNumbers == Points \subseteq Nat
BY PointsAssumption DEF StoryPoints

\* A member of Map(S, T) is a function into T whose keys are in S.
LEMMA MapIntro ==
  ASSUME NEW S, NEW T, NEW D \in SUBSET S, NEW f \in [D -> T]
  PROVE  f \in Map(S, T)
BY DEF Map

\* The converse: the keys of a map are in S and its values in T.
LEMMA MapElim ==
  ASSUME NEW S, NEW T, NEW f \in Map(S, T)
  PROVE  /\ DOMAIN f \in SUBSET S
         /\ f \in [DOMAIN f -> T]
BY DEF Map

\* HashMap::insert and HashMap::remove keep a map a map.
LEMMA InsertMap ==
  ASSUME NEW S, NEW T, NEW f \in Map(S, T), NEW k \in S, NEW v \in T
  PROVE  /\ Insert(f, k, v) \in Map(S, T)
         /\ DOMAIN Insert(f, k, v) = DOMAIN f \cup {k}
         /\ Insert(f, k, v)[k] = v
         /\ \A x \in DOMAIN f : x # k => Insert(f, k, v)[x] = f[x]
<1>1. DOMAIN f \cup {k} \in SUBSET S
  BY MapElim
<1>2. Insert(f, k, v) \in [DOMAIN f \cup {k} -> T]
  BY MapElim DEF Insert
<1>3. Insert(f, k, v) \in Map(S, T)
  BY <1>1, <1>2, MapIntro
<1>4. QED
  BY <1>3 DEF Insert

\* A map without one of its keys is a map.
LEMMA RemoveMap ==
  ASSUME NEW S, NEW T, NEW f \in Map(S, T), NEW k
  PROVE  Remove(f, k) \in Map(S, T)
<1>1. DOMAIN f \ {k} \in SUBSET S
  BY MapElim
<1>2. Remove(f, k) \in [DOMAIN f \ {k} -> T]
  BY MapElim DEF Remove, Restrict
<1>3. QED
  BY <1>1, <1>2, MapIntro

\* A map without keys is a map, of whatever types.
LEMMA EmptyIsMap == ASSUME NEW S, NEW T PROVE EmptyMap \in Map(S, T)
<1>1. EmptyMap \in [{} -> T]
  BY DEF EmptyMap
<1>2. QED
  BY <1>1, MapIntro

-----------------------------------------------------------------------------
\* The three shapes of the voting state, and what their fields hold.
LEMMA VotingShape ==
  ASSUME NEW v \in VotingState
  PROVE  \/ v = Idle /\ v.kind = "Idle"
         \/ /\ v.kind = "Voting" /\ v # Idle
            /\ v.story \in Story
            /\ v.participants \in Map(Winner, Points \cup {NoVote})
         \/ /\ v.kind = "Fighting" /\ v # Idle
            /\ v.story \in Story
            /\ v.participants \in Map(Winner, Points)
            /\ v.fighters \in Winner \X Winner
BY DEF VotingState, Idle

\* A vote that has started is a voting state, and its fields are what it was made of.
LEMMA ActiveVoteType ==
  ASSUME NEW s \in Story, NEW b \in Map(Winner, Points \cup {NoVote})
  PROVE  /\ ActiveVote(s, b) \in VotingState
         /\ ActiveVote(s, b) # Idle
         /\ ActiveVote(s, b).kind = "Voting"
         /\ ActiveVote(s, b).story = s
         /\ ActiveVote(s, b).participants = b
BY DEF ActiveVote, VotingState, Idle

\* So is a fight.
LEMMA FightType ==
  ASSUME NEW s \in Story, NEW b \in Map(Winner, Points),
         NEW f \in Winner \X Winner
  PROVE  /\ Fight(s, b, f) \in VotingState
         /\ Fight(s, b, f) # Idle
         /\ Fight(s, b, f).kind = "Fighting"
         /\ Fight(s, b, f).story = s
         /\ Fight(s, b, f).participants = b
         /\ Fight(s, b, f).fighters = f
BY DEF Fight, VotingState, Idle

\* A ballot that is cast keeps the participants, and a complete set of ballots
\* holds points only.
LEMMA BallotsType ==
  ASSUME NEW b \in Map(Winner, Points \cup {NoVote}), NEW w, NEW p \in Points
  PROVE  /\ [b EXCEPT ![w] = p] \in Map(Winner, Points \cup {NoVote})
         /\ DOMAIN [b EXCEPT ![w] = p] = DOMAIN b
         /\ \A v \in DOMAIN b : v # w => [b EXCEPT ![w] = p][v] = b[v]
<1>1. [b EXCEPT ![w] = p] \in [DOMAIN b -> Points \cup {NoVote}]
  BY MapElim
<1>2. [b EXCEPT ![w] = p] \in Map(Winner, Points \cup {NoVote})
  <2> DEFINE c == [b EXCEPT ![w] = p]
  <2>1. DOMAIN b \in SUBSET Winner
    BY MapElim
  <2> HIDE DEF c
  <2>2. c \in Map(Winner, Points \cup {NoVote})
    BY <1>1, <2>1, MapIntro DEF c
  <2>3. QED
    BY <2>2 DEF c
<1>3. QED
  BY <1>2

\* Ballots of which none is missing are points.
LEMMA CompleteBallots ==
  ASSUME NEW b \in Map(Winner, Points \cup {NoVote}), Complete(b)
  PROVE  b \in Map(Winner, Points)
<1>1. b \in [DOMAIN b -> Points]
  BY MapElim DEF Complete
<1>2. QED
  BY <1>1, MapElim, MapIntro
-----------------------------------------------------------------------------
\* A message that is accepted leaves the types right when the room's own state
\* is: the broadcast is made of that state.
LEMMA AcceptType ==
  ASSUME winners' \in Map(Winner, Session),
         voting' \in VotingState,
         pastVotes' \in Map(Story, Points),
         Accept
  PROVE  TypeOK'
<1>1. DOMAIN winners' \in SUBSET Winner /\ winners' \in [DOMAIN winners' -> Session]
  BY MapElim
<1>2. Snapshot' \in RoomState
  BY <1>1 DEF Snapshot, RoomState
<1>3. sent' \in SUBSET [member: Winner, to: Session, state: RoomState]
  BY <1>1, <1>2 DEF Accept, BroadcastState
<1>4. QED
  BY <1>3 DEF TypeOK, Accept

\* A refused message changes neither the room's state nor its types.
LEMMA BailType == ASSUME TypeOK, Bail PROVE TypeOK' /\ UNCHANGED roomVars
BY DEF TypeOK, Bail, roomVars

\* The three outcomes of a ballot the room accepts.
LEMMA VoteOutcome ==
  ASSUME TypeOK, NEW w \in Winner, NEW id, NEW p \in Points,
         MayVote(w, id), NEW b, b = [voting.participants EXCEPT ![w] = p],
         CloseVote(b)
  PROVE  /\ voting.kind = "Voting" /\ voting # Idle
         /\ voting.story \in Story
         /\ b \in Map(Winner, Points \cup {NoVote})
         /\ DOMAIN b = DOMAIN voting.participants /\ w \in DOMAIN b
         /\ \A v \in DOMAIN b : v # w => b[v] = voting.participants[v]
         /\ \/ /\ ~Complete(b)
               /\ voting' = ActiveVote(voting.story, b)
               /\ pastVotes' = pastVotes
            \/ /\ b \in Map(Winner, Points)
               /\ \A v \in DOMAIN b : b[v] = p
               /\ voting' = Idle
               /\ pastVotes' = Insert(pastVotes, voting.story, p)
            \/ /\ b \in Map(Winner, Points)
               /\ ~Unanimous(b)
               /\ \E f \in Fighters(b) : voting' = Fight(voting.story, b, f)
               /\ pastVotes' = pastVotes
<1>1. voting \in VotingState
  BY DEF TypeOK
<1>2. /\ voting.kind = "Voting" /\ voting # Idle
      /\ voting.story \in Story
      /\ voting.participants \in Map(Winner, Points \cup {NoVote})
      /\ w \in DOMAIN voting.participants
  BY <1>1, VotingShape DEF MayVote
<1>3. /\ b \in Map(Winner, Points \cup {NoVote})
      /\ DOMAIN b = DOMAIN voting.participants /\ w \in DOMAIN b
      /\ \A v \in DOMAIN b : v # w => b[v] = voting.participants[v]
  BY <1>2, BallotsType
<1>4. b[w] = p
  BY <1>2
<1>5. CASE ~Complete(b)
  BY <1>2, <1>3, <1>5 DEF CloseVote
<1>6. CASE Complete(b) /\ Unanimous(b)
  <2>1. b \in Map(Winner, Points)
    BY <1>3, <1>6, CompleteBallots
  <2>2. \A v \in DOMAIN b : b[v] = p
    BY <1>3, <1>4, <1>6 DEF Unanimous
  <2>3. \A q \in Range(b) : q = p
    BY <2>2 DEF Range
  <2>4. voting' = Idle /\ pastVotes' = Insert(pastVotes, voting.story, p)
    BY <1>6, <2>3 DEF CloseVote
  <2>5. QED
    BY <1>2, <1>3, <2>1, <2>2, <2>4
<1>7. CASE Complete(b) /\ ~Unanimous(b)
  <2>1. b \in Map(Winner, Points)
    BY <1>3, <1>7, CompleteBallots
  <2>2. QED
    BY <1>2, <1>3, <1>7, <2>1 DEF CloseVote
<1>8. QED
  BY <1>5, <1>6, <1>7

\* Whoever is picked for a fight holds extreme, different points.
LEMMA FightersDiffer ==
  ASSUME NEW b \in Map(Winner, Points), ~Unanimous(b), NEW f \in Fighters(b)
  PROVE  /\ f \in Winner \X Winner
         /\ f[1] \in DOMAIN b /\ f[2] \in DOMAIN b
         /\ b[f[1]] < b[f[2]]
         /\ \A w \in DOMAIN b : b[f[1]] <= b[w] /\ b[w] <= b[f[2]]
<1>1. DOMAIN b \in SUBSET Winner /\ b \in [DOMAIN b -> Points]
  BY MapElim
<1>2. \A w \in DOMAIN b : b[w] \in Nat
  BY <1>1, CardsAreNumbers
<1>3. /\ f \in Winner \X Winner
      /\ f[1] \in DOMAIN b /\ f[2] \in DOMAIN b
      /\ \A w \in DOMAIN b : b[f[1]] <= b[w] /\ b[w] <= b[f[2]]
  BY <1>1 DEF Fighters
<1>4. PICK v \in DOMAIN b, w \in DOMAIN b : b[v] # b[w]
  BY DEF Unanimous
<1>5. b[f[1]] < b[f[2]]
  BY <1>2, <1>3, <1>4
<1>6. QED
  BY <1>3, <1>5

-----------------------------------------------------------------------------
\* The type invariant holds in every state the room can reach.
THEOREM TypeCorrect == Spec => []TypeOK
<1>1. Init => TypeOK
  BY EmptyIsMap DEF Init, TypeOK, VotingState
<1>2. TypeOK /\ [Next]_vars => TypeOK'
  <2> SUFFICES ASSUME TypeOK, [Next]_vars PROVE TypeOK'
    OBVIOUS
  <2>1. /\ winners \in Map(Winner, Session) /\ voting \in VotingState
        /\ pastVotes \in Map(Story, Points)
    BY DEF TypeOK
  <2>2. ASSUME NEW w \in Winner, NEW s \in Session, Enter(w, s) PROVE TypeOK'
    <3>1. CASE Bail
      BY <3>1, BailType
    <3>2. CASE winners' = Insert(winners, w, s) /\ UNCHANGED <<voting, pastVotes>> /\ Accept
      <4>1. winners' \in Map(Winner, Session)
        BY <2>1, <3>2, InsertMap
      <4>2. QED
        BY <2>1, <3>2, <4>1, AcceptType
    <3>3. QED
      BY <2>2, <3>1, <3>2 DEF Enter
  <2>3. ASSUME NEW w \in Winner, Leave(w) PROVE TypeOK'
    <3>1. CASE Bail
      BY <3>1, BailType
    <3>2. CASE winners' = Remove(winners, w) /\ UNCHANGED <<voting, pastVotes>> /\ Accept
      <4>1. winners' \in Map(Winner, Session)
        BY <2>1, <3>2, RemoveMap
      <4>2. QED
        BY <2>1, <3>2, <4>1, AcceptType
    <3>3. QED
      BY <2>3, <3>1, <3>2 DEF Leave
  <2>4. CASE RestartVote
    <3>1. CASE Bail
      BY <3>1, BailType
    <3>2. CASE voting.kind = "Fighting" /\ ~Bail
      <4> DEFINE none == [w \in DOMAIN voting.participants |-> NoVote]
      <4>1. voting.story \in Story /\ voting.participants \in Map(Winner, Points)
        BY <2>1, <3>2, VotingShape
      <4>2. DOMAIN voting.participants \in SUBSET Winner
        BY <4>1, MapElim
      <4>3. none \in [DOMAIN voting.participants -> Points \cup {NoVote}]
        OBVIOUS
      <4> HIDE DEF none
      <4>4. none \in Map(Winner, Points \cup {NoVote})
        BY <4>2, <4>3, MapIntro
      <4>5. voting' \in VotingState
        BY <2>4, <3>2, <4>1, <4>4, ActiveVoteType DEF RestartVote, none
      <4>6. QED
        BY <2>1, <2>4, <3>2, <4>5, AcceptType DEF RestartVote
    <3>3. QED
      BY <2>4, <3>1, <3>2 DEF RestartVote
  <2>5. ASSUME NEW s \in Story, StartVote(s) PROVE TypeOK'
    <3>1. CASE Bail
      BY <3>1, BailType
    <3>2. CASE voting = Idle /\ ~Bail
      <4> DEFINE none == [w \in DOMAIN winners |-> NoVote]
      <4>1. DOMAIN winners \in SUBSET Winner
        BY <2>1, MapElim
      <4>2. none \in [DOMAIN winners -> Points \cup {NoVote}]
        OBVIOUS
      <4> HIDE DEF none
      <4>3. none \in Map(Winner, Points \cup {NoVote})
        BY <4>1, <4>2, MapIntro
      <4>4. voting' \in VotingState
        BY <2>5, <3>2, <4>3, ActiveVoteType DEF StartVote, none
      <4>5. QED
        BY <2>1, <2>5, <3>2, <4>4, AcceptType DEF StartVote
    <3>3. QED
      BY <2>5, <3>1, <3>2 DEF StartVote
  <2>6. ASSUME NEW w \in Winner, NEW id \in StoryId, NEW p \in Points, Vote(w, id, p)
        PROVE  TypeOK'
    <3>1. CASE Bail
      BY <3>1, BailType
    <3>2. CASE ~Bail
      <4> DEFINE b == [voting.participants EXCEPT ![w] = p]
      <4>1. MayVote(w, id) /\ CloseVote(b) /\ UNCHANGED winners /\ Accept
        BY <2>6, <3>2 DEF Vote
      <4> HIDE DEF b
      <4>2. voting' \in VotingState /\ pastVotes' \in Map(Story, Points)
        <5>1. CASE voting' = ActiveVote(voting.story, b) /\ pastVotes' = pastVotes
          BY <2>1, <4>1, <5>1, VoteOutcome, ActiveVoteType DEF b
        <5>2. CASE voting' = Idle /\ pastVotes' = Insert(pastVotes, voting.story, p)
          <6>1. voting.story \in Story
            BY <4>1, VoteOutcome DEF b
          <6>2. QED
            BY <2>1, <5>2, <6>1, InsertMap DEF VotingState
        <5>3. CASE /\ b \in Map(Winner, Points) /\ ~Unanimous(b)
                   /\ \E f \in Fighters(b) : voting' = Fight(voting.story, b, f)
                   /\ pastVotes' = pastVotes
          <6>1. voting.story \in Story
            BY <4>1, VoteOutcome DEF b
          <6>2. QED
            BY <2>1, <5>3, <6>1, FightersDiffer, FightType
        <5>4. QED
          BY <4>1, <5>1, <5>2, <5>3, VoteOutcome DEF b
      <4>3. QED
        BY <2>1, <4>1, <4>2, AcceptType
    <3>3. QED
      BY <3>1, <3>2
  <2>7. CASE UNCHANGED vars
    BY <2>7 DEF vars, TypeOK, Snapshot
  <2>8. QED
    BY <2>2, <2>3, <2>4, <2>5, <2>6, <2>7 DEF Next
<1>3. QED
  BY <1>1, <1>2, PTL DEF Spec
-----------------------------------------------------------------------------
\* What a step may do to the vote and the results: nothing, restart a fight,
\* start a vote, or take a ballot.
LEMMA StepEffect ==
  ASSUME TypeOK, [Next]_vars
  PROVE  \/ UNCHANGED <<voting, pastVotes>>
         \/ /\ voting.kind = "Fighting"
            /\ voting' = ActiveVote(voting.story,
                                    [w \in DOMAIN voting.participants |-> NoVote])
            /\ pastVotes' = pastVotes
         \/ /\ voting = Idle
            /\ \E s \in Story :
                 voting' = ActiveVote(s, [w \in DOMAIN winners |-> NoVote])
            /\ pastVotes' = pastVotes
         \/ \E w \in Winner, id \in StoryId, p \in Points :
              MayVote(w, id) /\ CloseVote([voting.participants EXCEPT ![w] = p])
<1>1. ASSUME NEW w \in Winner, NEW s \in Session, Enter(w, s)
      PROVE  UNCHANGED <<voting, pastVotes>>
  BY <1>1 DEF Enter, Bail, roomVars
<1>2. ASSUME NEW w \in Winner, Leave(w) PROVE UNCHANGED <<voting, pastVotes>>
  BY <1>2 DEF Leave, Bail, roomVars
<1>3. CASE RestartVote
  BY <1>3 DEF RestartVote, Bail, roomVars
<1>4. ASSUME NEW s \in Story, StartVote(s)
      PROVE  \/ UNCHANGED <<voting, pastVotes>>
             \/ /\ voting = Idle
                /\ voting' = ActiveVote(s, [w \in DOMAIN winners |-> NoVote])
                /\ pastVotes' = pastVotes
  BY <1>4 DEF StartVote, Bail, roomVars
<1>5. ASSUME NEW w \in Winner, NEW id \in StoryId, NEW p \in Points, Vote(w, id, p)
      PROVE  \/ UNCHANGED <<voting, pastVotes>>
             \/ MayVote(w, id) /\ CloseVote([voting.participants EXCEPT ![w] = p])
  BY <1>5 DEF Vote, Bail, roomVars
<1>6. CASE UNCHANGED vars
  BY <1>6 DEF vars
<1>7. QED
  BY <1>1, <1>2, <1>3, <1>4, <1>5, <1>6 DEF Next

\* The state a room can be in between two messages: the conjunction that is
\* inductive.  (FightIsADisagreement is established by the last ballot, and
\* only a room of the right types has ballots that can be compared.)
IInv == TypeOK /\ OpenVoteMissesABallot /\ FightIsADisagreement

\* Init establishes the invariant and every step preserves it.
LEMMA Inductive ==
  /\ Init => OpenVoteMissesABallot /\ FightIsADisagreement
  /\ IInv /\ [Next]_vars => (OpenVoteMissesABallot /\ FightIsADisagreement)'
<1>1. Init => OpenVoteMissesABallot /\ FightIsADisagreement
  BY DEF Init, Idle, OpenVoteMissesABallot, FightIsADisagreement
<1>2. ASSUME IInv, [Next]_vars
      PROVE  (OpenVoteMissesABallot /\ FightIsADisagreement)'
  <2>1. TypeOK /\ voting \in VotingState
    BY <1>2 DEF IInv, TypeOK
  <2>2. CASE UNCHANGED <<voting, pastVotes>>
    BY <1>2, <2>2 DEF IInv, OpenVoteMissesABallot, FightIsADisagreement
  <2>3. ASSUME NEW s \in Story, NEW D \in SUBSET Winner,
               voting' = ActiveVote(s, [w \in D |-> NoVote])
        PROVE  (OpenVoteMissesABallot /\ FightIsADisagreement)'
    <3>1. /\ voting'.kind = "Voting"
          /\ voting'.participants = [w \in D |-> NoVote]
      BY <2>3 DEF ActiveVote
    <3>2. QED
      BY <3>1 DEF OpenVoteMissesABallot, FightIsADisagreement, Complete
  <2>4. CASE /\ voting.kind = "Fighting"
             /\ voting' = ActiveVote(voting.story,
                                     [w \in DOMAIN voting.participants |-> NoVote])
    BY <2>1, <2>3, <2>4, VotingShape, MapElim
  <2>5. CASE \E s \in Story :
               voting' = ActiveVote(s, [w \in DOMAIN winners |-> NoVote])
    BY <2>1, <2>3, <2>5, MapElim DEF TypeOK
  <2>6. ASSUME NEW w \in Winner, NEW id \in StoryId, NEW p \in Points,
               MayVote(w, id), CloseVote([voting.participants EXCEPT ![w] = p])
        PROVE  (OpenVoteMissesABallot /\ FightIsADisagreement)'
    <3> DEFINE b == [voting.participants EXCEPT ![w] = p]
    <3> HIDE DEF b
    <3>1. voting.story \in Story /\ b \in Map(Winner, Points \cup {NoVote})
      BY <2>1, <2>6, VoteOutcome DEF b
    <3>2. CASE ~Complete(b) /\ voting' = ActiveVote(voting.story, b)
      BY <3>1, <3>2, ActiveVoteType DEF OpenVoteMissesABallot, FightIsADisagreement
    <3>3. CASE voting' = Idle
      BY <3>3 DEF Idle, OpenVoteMissesABallot, FightIsADisagreement
    <3>4. ASSUME b \in Map(Winner, Points), ~Unanimous(b), NEW f \in Fighters(b),
                 voting' = Fight(voting.story, b, f)
          PROVE  (OpenVoteMissesABallot /\ FightIsADisagreement)'
      <4>1. /\ voting'.kind = "Fighting"
            /\ voting'.participants = b /\ voting'.fighters = f
        BY <3>4 DEF Fight
      <4>2. QED
        BY <3>4, <4>1, FightersDiffer DEF OpenVoteMissesABallot, FightIsADisagreement
    <3>5. QED
      BY <2>1, <2>6, <3>2, <3>3, <3>4, VoteOutcome DEF b
  <2>7. QED
    BY <1>2, <2>1, <2>2, <2>4, <2>5, <2>6, StepEffect
<1>3. QED
  BY <1>1, <1>2

\* The safety invariants, and the types they are about, are inductive together.
LEMMA InvariantHolds == Spec => []IInv
<1>1. Init /\ TypeOK => IInv
  BY Inductive DEF IInv
<1>2. IInv /\ TypeOK' /\ [Next]_vars => IInv'
  BY Inductive DEF IInv
<1>3. QED
  BY <1>1, <1>2, TypeCorrect, PTL DEF Spec

\* A vote is closed with its last ballot: one that is open misses a ballot, or
\* has no participants.
THEOREM OpenVotesMissABallot == Spec => []OpenVoteMissesABallot
<1>1. IInv => OpenVoteMissesABallot
  BY DEF IInv
<1>2. QED
  BY <1>1, InvariantHolds, PTL

\* A fight is between one who gave the fewest points and one who gave the most,
\* and these differ.
THEOREM FightsAreDisagreements == Spec => []FightIsADisagreement
<1>1. IInv => FightIsADisagreement
  BY DEF IInv
<1>2. QED
  BY <1>1, InvariantHolds, PTL

\* No step exchanges the story or the participants of a vote under way.
THEOREM ElectorateIsFrozen == Spec => ElectorateFrozen
<1>1. ASSUME TypeOK, [Next]_vars, voting # Idle, voting' # Idle
      PROVE  /\ voting'.story = voting.story
             /\ DOMAIN voting'.participants = DOMAIN voting.participants
  <2>1. CASE UNCHANGED <<voting, pastVotes>>
    BY <2>1
  <2>2. CASE voting' = ActiveVote(voting.story,
                                  [w \in DOMAIN voting.participants |-> NoVote])
    BY <2>2 DEF ActiveVote
  <2>3. ASSUME NEW w \in Winner, NEW id \in StoryId, NEW p \in Points,
               MayVote(w, id), CloseVote([voting.participants EXCEPT ![w] = p])
        PROVE  /\ voting'.story = voting.story
               /\ DOMAIN voting'.participants = DOMAIN voting.participants
    <3> DEFINE b == [voting.participants EXCEPT ![w] = p]
    <3>1. DOMAIN b = DOMAIN voting.participants
      OBVIOUS
    <3> HIDE DEF b
    <3>2. \/ voting' = ActiveVote(voting.story, b)
          \/ \E f \in Fighters(b) : voting' = Fight(voting.story, b, f)
      BY <1>1, <2>3, VoteOutcome DEF b
    <3>3. QED
      BY <3>1, <3>2 DEF ActiveVote, Fight
  <2>4. QED
    BY <1>1, <2>1, <2>2, <2>3, StepEffect
<1>2. TypeOK /\ [Next]_vars =>
        [(voting # Idle /\ voting' # Idle) =>
           /\ voting'.story = voting.story
           /\ DOMAIN voting'.participants = DOMAIN voting.participants]_vars
  BY <1>1
<1>3. QED
  BY <1>2, TypeCorrect, PTL DEF Spec, ElectorateFrozen

\* A ballot that closes the vote agrees with every other, and its points are
\* the ones recorded.
LEMMA ClosingBallot ==
  ASSUME TypeOK, NEW w \in Winner, NEW id \in StoryId, NEW p \in Points,
         Vote(w, id, p), voting # Idle, voting' = Idle
  PROVE  /\ w \in DOMAIN voting.participants
         /\ \A v \in DOMAIN voting.participants \ {w} :
              voting.participants[v] = p
         /\ pastVotes' = Insert(pastVotes, voting.story, p)
<1> DEFINE b == [voting.participants EXCEPT ![w] = p]
<1>1. MayVote(w, id) /\ CloseVote(b)
  BY DEF Vote, Bail, roomVars
<1> HIDE DEF b
<1>2. /\ voting.story \in Story /\ DOMAIN b = DOMAIN voting.participants
      /\ w \in DOMAIN b
      /\ \A v \in DOMAIN b : v # w => b[v] = voting.participants[v]
  BY <1>1, VoteOutcome DEF b
<1>3. ~\E s, c : voting' = ActiveVote(s, c)
  BY DEF ActiveVote, Idle
<1>4. ~\E s, c, f : voting' = Fight(s, c, f)
  BY DEF Fight, Idle
<1>5. (\A v \in DOMAIN b : b[v] = p) /\ pastVotes' = Insert(pastVotes, voting.story, p)
  BY <1>1, <1>3, <1>4, VoteOutcome DEF b
<1>6. QED
  BY <1>2, <1>5

\* Only a ballot ends a vote or changes the results, and the ballot that does
\* has the points of all the others, which are recorded.
THEOREM ResultsAreUnanimous == Spec => ResultIsUnanimous
<1> DEFINE ByABallot ==
      /\ voting.kind = "Voting" /\ voting' = Idle
      /\ \E w \in Winner, id \in StoryId, p \in Points : Vote(w, id, p)
    Agreed ==
      \A w \in Winner, id \in StoryId, p \in Points :
        Vote(w, id, p) =>
          /\ w \in DOMAIN voting.participants
          /\ \A v \in DOMAIN voting.participants \ {w} :
               voting.participants[v] = p
          /\ pastVotes' = Insert(pastVotes, voting.story, p)
<1>1. ASSUME TypeOK, [Next]_vars,
             pastVotes' # pastVotes \/ (voting # Idle /\ voting' = Idle)
      PROVE  ByABallot
  <2>1. ~UNCHANGED <<voting, pastVotes>>
    BY <1>1
  <2>2. ~\E s, b : voting' = ActiveVote(s, b) /\ pastVotes' = pastVotes
    BY <1>1 DEF ActiveVote, Idle
  <2>3. PICK w \in Winner, id \in StoryId, p \in Points : Vote(w, id, p)
    <3>1. ~UNCHANGED vars
      BY <2>1 DEF vars
    <3>2. \A w \in Winner, s \in Session : ~Enter(w, s)
      BY <2>1 DEF Enter, Bail, roomVars
    <3>3. \A w \in Winner : ~Leave(w)
      BY <2>1 DEF Leave, Bail, roomVars
    <3>4. ~RestartVote
      BY <2>1, <2>2 DEF RestartVote, Bail, roomVars
    <3>5. \A s \in Story : ~StartVote(s)
      BY <2>1, <2>2 DEF StartVote, Bail, roomVars
    <3>6. QED
      BY <1>1, <3>1, <3>2, <3>3, <3>4, <3>5 DEF Next
  <2>4. MayVote(w, id) /\ CloseVote([voting.participants EXCEPT ![w] = p])
    BY <2>1, <2>3 DEF Vote, Bail, roomVars
  <2> DEFINE b == [voting.participants EXCEPT ![w] = p]
  <2> HIDE DEF b
  <2>5. /\ voting.kind = "Voting"
        /\ \/ \E s, c : voting' = ActiveVote(s, c) /\ pastVotes' = pastVotes
           \/ voting' = Idle
           \/ \E f : voting' = Fight(voting.story, b, f) /\ pastVotes' = pastVotes
    BY <1>1, <2>4, VoteOutcome DEF b
  <2>6. ~\E f : voting' = Fight(voting.story, b, f) /\ pastVotes' = pastVotes
    BY <1>1 DEF Fight, Idle
  <2>7. QED
    BY <2>2, <2>3, <2>5, <2>6
<1>2. ASSUME TypeOK, [Next]_vars, voting # Idle /\ voting' = Idle PROVE Agreed
  BY <1>2, ClosingBallot
<1>3. TypeOK /\ [Next]_vars =>
        [/\ (pastVotes' # pastVotes \/ (voting # Idle /\ voting' = Idle)) => ByABallot
         /\ (voting # Idle /\ voting' = Idle) => Agreed]_vars
  BY <1>1, <1>2
<1>4. QED
  BY <1>3, TypeCorrect, PTL DEF Spec, ResultIsUnanimous

\* A vote started in an empty room can never be closed.
THEOREM EmptyVoteIsForEver == Spec => EmptyVoteNeverEnds
<1>1. ASSUME TypeOK, [Next]_vars,
             voting.kind = "Voting", DOMAIN voting.participants = {}
      PROVE  UNCHANGED <<voting, pastVotes>>
  <2>1. \A w \in Winner, id \in StoryId : ~MayVote(w, id)
    BY <1>1 DEF MayVote
  <2>2. voting # Idle /\ voting.kind # "Fighting"
    BY <1>1 DEF Idle
  <2>3. QED
    BY <1>1, <2>1, <2>2, StepEffect
<1>2. TypeOK /\ [Next]_vars =>
        [(voting.kind = "Voting" /\ DOMAIN voting.participants = {}) =>
           UNCHANGED <<voting, pastVotes>>]_vars
  BY <1>1
<1>3. QED
  BY <1>2, TypeCorrect, PTL DEF Spec, EmptyVoteNeverEnds

-----------------------------------------------------------------------------
\* What an open, a disputed and a closed round are mapped to, before a step ...
LEMMA RoundBefore ==
  /\ voting.kind = "Idle" => RoundOf = Round!Closed
  /\ voting.kind = "Voting" =>
       RoundOf = Round!Open(voting.story, DOMAIN voting.participants)
  /\ voting.kind = "Fighting" =>
       RoundOf = Round!Disputed(voting.story, DOMAIN voting.participants,
                                voting.fighters[1], voting.fighters[2])
BY DEF RoundOf, Round!Closed, Round!Open, Round!Disputed

\* ... and after it.
LEMMA RoundAfter ==
  /\ voting' = Idle => RoundOf' = Round!Closed
  /\ \A s, b : voting' = ActiveVote(s, b) => RoundOf' = Round!Open(s, DOMAIN b)
  /\ \A s, b, f : voting' = Fight(s, b, f) =>
       RoundOf' = Round!Disputed(s, DOMAIN b, f[1], f[2])
BY DEF RoundOf, Idle, ActiveVote, Fight, Round!Closed, Round!Open, Round!Disputed

\* A ballot is a stutter of the round unless it is the last one, which decides
\* or disputes it.
LEMMA BallotImplementsRound ==
  ASSUME TypeOK, NEW w \in Winner, NEW id \in StoryId, NEW p \in Points,
         MayVote(w, id), CloseVote([voting.participants EXCEPT ![w] = p])
  PROVE  [Round!Next]_(Round!vars)
<1> DEFINE b == [voting.participants EXCEPT ![w] = p]
<1> HIDE DEF b
<1>1. /\ voting.kind = "Voting" /\ voting.story \in Story
      /\ DOMAIN b = DOMAIN voting.participants /\ w \in DOMAIN b
  BY VoteOutcome DEF b
<1>2. RoundOf = Round!Open(voting.story, DOMAIN b)
  BY <1>1, RoundBefore
<1>3. RoundOf.phase = "Open" /\ RoundOf.story = voting.story /\ RoundOf.voters = DOMAIN b
  BY <1>2 DEF Round!Open
<1>4. CASE voting' = ActiveVote(voting.story, b) /\ pastVotes' = pastVotes
  BY <1>2, <1>4, RoundAfter DEF Round!vars
<1>5. CASE voting' = Idle /\ pastVotes' = Insert(pastVotes, voting.story, p)
  <2>1. RoundOf' = Round!Closed
    BY <1>5, RoundAfter
  <2>2. Round!Agree(p)
    BY <1>1, <1>3, <1>5, <2>1 DEF Round!Agree, Insert
  <2>3. QED
    BY <2>2 DEF Round!Next
<1>6. ASSUME b \in Map(Winner, Points), ~Unanimous(b), NEW f \in Fighters(b),
             voting' = Fight(voting.story, b, f), pastVotes' = pastVotes
      PROVE  [Round!Next]_(Round!vars)
  <2>1. RoundOf' = Round!Disputed(voting.story, DOMAIN b, f[1], f[2])
    BY <1>6, RoundAfter
  <2>2. /\ f[1] \in DOMAIN b /\ f[2] \in DOMAIN b
        /\ b[f[1]] < b[f[2]]
        /\ \A v \in DOMAIN b : b[f[1]] <= b[v] /\ b[v] <= b[f[2]]
    BY <1>6, FightersDiffer
  <2>3. Round!Disagree(b)
    BY <1>3, <1>6, <2>1, <2>2 DEF Round!Disagree
  <2>4. b \in [RoundOf.voters -> Points]
    BY <1>3, <1>6, MapElim
  <2>5. QED
    BY <1>3, <2>3, <2>4 DEF Round!Next
<1>7. QED
  BY <1>4, <1>5, <1>6, VoteOutcome DEF b

\* The room implements the abstract round, for any people, stories and cards.
THEOREM RoomImplementsRound == Spec => ImplementsRound
<1>1. Init => Round!Init
  BY DEF Init, EmptyMap, Idle, RoundOf, Round!Init, Round!Closed
<1>2. TypeOK /\ [Next]_vars => [Round!Next]_(Round!vars)
  <2> SUFFICES ASSUME TypeOK, [Next]_vars PROVE [Round!Next]_(Round!vars)
    OBVIOUS
  <2>1. CASE UNCHANGED <<voting, pastVotes>>
    BY <2>1 DEF RoundOf, Round!vars
  <2>2. CASE /\ voting.kind = "Fighting"
             /\ voting' = ActiveVote(voting.story,
                                     [w \in DOMAIN voting.participants |-> NoVote])
             /\ pastVotes' = pastVotes
    <3>1. RoundOf' = Round!Open(voting.story, DOMAIN voting.participants)
      BY <2>2, RoundAfter
    <3>2. /\ RoundOf.phase = "Disputed" /\ RoundOf.story = voting.story
          /\ RoundOf.voters = DOMAIN voting.participants
      BY <2>2, RoundBefore DEF Round!Disputed
    <3>3. QED
      BY <2>2, <3>1, <3>2 DEF Round!Reopen, Round!Next
  <2>3. ASSUME voting = Idle, pastVotes' = pastVotes, NEW s \in Story,
               voting' = ActiveVote(s, [w \in DOMAIN winners |-> NoVote])
        PROVE  [Round!Next]_(Round!vars)
    <3>1. RoundOf' = Round!Open(s, DOMAIN winners)
      BY <2>3, RoundAfter
    <3>2. RoundOf.phase = "Closed"
      BY <2>3, RoundBefore DEF Idle, Round!Closed
    <3>3. DOMAIN winners \in SUBSET Winner
      BY MapElim DEF TypeOK
    <3>4. QED
      BY <2>3, <3>1, <3>2, <3>3 DEF Round!Begin, Round!Next
  <2>4. QED
    BY <2>1, <2>2, <2>3, BallotImplementsRound, StepEffect
<1>3. QED
  BY <1>1, <1>2, TypeCorrect, PTL DEF Spec, ImplementsRound, Round!Spec
=============================================================================

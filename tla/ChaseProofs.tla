---------------------------- MODULE ChaseProofs ----------------------------
(***************************************************************************)
(* Proofs about Chase, for any actors, initiative orders, speeds, distances *)
(* and bounds.                                                             *)
(***************************************************************************)
EXTENDS Chase, LeastElement, TLAPS

(***************************************************************************)
(* The inductive invariant.  A chase c, with t the turns taken this round,  *)
(* has someone on both sides; someone at or after the place turn_index      *)
(* names, so that looking for the current participant never wraps around;   *)
(* those before that place have had their turn and those from it on have    *)
(* not; and nobody is caught once a turn was taken.                         *)
(***************************************************************************)
Sides(c) == c.in \cap c.quarry # {} /\ c.in \ c.quarry # {}
Ahead(c) == \E k \in DOMAIN c.order : k >= c.turn /\ c.order[k] \in c.in
Counted(c, t) ==
  \A k \in DOMAIN c.order :
    c.order[k] \in c.in => t[c.order[k]] = IF k < c.turn THEN 1 ELSE 0
Apart(c, t) == (c.round > 1 \/ \E a \in Actor : t[a] > 0) => ~TooClose(c, c.in, c.at)

Sound(c, t) ==
  /\ c \in Chases
  /\ c.in \subseteq Members(c.order)
  /\ Sides(c) /\ Ahead(c) /\ Counted(c, t) /\ Apart(c, t)

IInv ==
  /\ TypeOK
  /\ \A a \in Actor : took[a] <= 1
  /\ On => phase = "play" /\ ~fighting /\ Sound(chase, took)

(***************************************************************************)
(* Types.                                                                  *)
(***************************************************************************)
LEMMA OrderType ==
  ASSUME NEW order \in Orders
  PROVE  /\ order \in Seq(Actor) /\ DOMAIN order \subseteq Nat \ {0}
         /\ Members(order) \subseteq Actor
         /\ \A i \in DOMAIN order : order[i] \in Actor
         /\ \A i, j \in DOMAIN order : order[i] = order[j] => i = j
<1>1. order \in Seq(Actor)
  BY ChaseAssumption
<1>2. DOMAIN order = 1 .. Len(order) /\ Len(order) \in Nat
  BY <1>1
<1>3. \A i \in DOMAIN order : order[i] \in Actor
  BY <1>1
<1>4. \A i, j \in DOMAIN order : order[i] = order[j] => i = j
  BY ChaseAssumption
<1>5. Members(order) \subseteq Actor
  BY <1>3 DEF Members
<1>6. DOMAIN order \subseteq Nat \ {0}
  BY <1>2
<1> QED BY <1>1, <1>3, <1>4, <1>5, <1>6

LEMMA MovedType ==
  ASSUME NEW pace \in Nat, NEW lying \in BOOLEAN, NEW rises \in BOOLEAN,
         NEW action, NEW delay \in Nat
  PROVE  Moved(pace, lying, rises, action, delay) \in Nat
<1> DEFINE speed == IF lying /\ ~rises THEN pace \div 2 ELSE pace
           walked == speed - (IF lying /\ rises THEN speed \div 2 ELSE 0)
           feet == IF action = "dash" THEN walked + speed ELSE walked
<1>1. pace \div 2 \in Nat
  OBVIOUS
<1>2. speed \in Nat
  BY <1>1
<1>3. speed \div 2 \in Nat /\ speed \div 2 <= speed
  BY <1>2
<1>4. walked \in Nat
  BY <1>2, <1>3
<1>5. feet \in Nat
  BY <1>2, <1>4
<1> HIDE DEF feet
<1>6. (IF feet > delay THEN feet - delay ELSE 0) \in Nat
  BY <1>5
<1> QED BY <1>6 DEF Moved, feet, walked, speed

LEMMA PaceType ==
  ASSUME TypeOK, NEW a \in Actor
  PROVE  Pace(a) \in Nat
<1>1. Speed[a] \in Nat
  BY ChaseAssumption
<1>2. Speed[a] \div 2 \in Nat
  BY <1>1
<1> QED BY <1>1, <1>2 DEF Pace

(***************************************************************************)
(* The end of a turn.                                                      *)
(***************************************************************************)
\* Who may act is unique, and stands at or after the place turn_index names.
LEMMA CurrentUnique ==
  ASSUME NEW order, DOMAIN order \subseteq Nat, NEW turn \in Nat, NEW active,
         NEW i, NEW j, IsNext(i, turn, order, active), IsNext(j, turn, order, active)
  PROVE  i = j
BY DEF IsNext

LEMMA CurrentIsAhead ==
  ASSUME NEW c \in Chases, Ahead(c),
         NEW i, IsNext(i, c.turn, c.order, c.in)
  PROVE  /\ i >= c.turn
         /\ \A j \in DOMAIN c.order : c.order[j] \in c.in => j < c.turn \/ j >= i
<1>1. c.order \in Orders /\ c.turn \in Nat
  BY DEF Chases
<1>2. DOMAIN c.order \subseteq Nat
  BY <1>1, OrderType
<1> QED BY <1>1, <1>2 DEF Ahead, IsNext

LEMMA CurrentExists ==
  ASSUME NEW c \in Chases, Ahead(c)
  PROVE  \E i \in DOMAIN c.order : IsNext(i, c.turn, c.order, c.in)
<1> DEFINE S == {k \in DOMAIN c.order : k >= c.turn /\ c.order[k] \in c.in}
<1>1. DOMAIN c.order \subseteq Nat /\ c.turn \in Nat
  BY OrderType DEF Chases
<1>2. S \in SUBSET Nat /\ S # {}
  BY <1>1 DEF Ahead
<1>3. PICK i \in S : \A m \in S : i <= m
  BY <1>2, LeastOf
<1>4. ASSUME NEW j \in DOMAIN c.order, c.order[j] \in c.in
      PROVE  j < c.turn \/ j >= i
  BY <1>1, <1>3, <1>4
<1>5. IsNext(i, c.turn, c.order, c.in)
  BY <1>1, <1>3, <1>4 DEF IsNext
<1> QED BY <1>3, <1>5

\* A turn ends the chase, or leaves a sound one in which the counts are right.
LEMMA TurnEnds ==
  ASSUME IInv, On, NEW i \in DOMAIN chase.order, IsCurrent(i),
         NEW active, chase.in \ {chase.order[i]} \subseteq active, active \subseteq chase.in,
         NEW at \in [Actor -> Nat], NEW dashes \in [Actor -> Nat],
         EndTurn(i, active, at, dashes)
  PROVE  /\ took' \in [Actor -> Nat] /\ \A a \in Actor : took'[a] <= 1
         /\ window' \in SUBSET Actor
         /\ chase' # None =>
              /\ Sound(chase', took')
              /\ chase'.round # chase.round =>
                   \A k \in DOMAIN chase.order :
                     chase.order[k] \in chase.in \cap chase'.in =>
                       took[chase.order[k]] = IF IsCurrent(k) THEN 0 ELSE 1
<1> DEFINE order == chase.order
           ended == \A j \in DOMAIN order : j > i => order[j] \notin active
<1>1. chase \in Chases /\ Sound(chase, took) /\ took \in [Actor -> Nat]
  BY DEF IInv, TypeOK, On
<1>2. /\ order \in Orders /\ chase.turn \in Nat /\ chase.round \in Nat
      /\ chase.quarry \in SUBSET Actor /\ chase.in \in SUBSET Actor /\ chase.closing \in Closings
  BY <1>1 DEF Chases
<1>3. /\ DOMAIN order \subseteq Nat /\ i \in Nat
      /\ \A k \in DOMAIN order : order[k] \in Actor
      /\ \A j, k \in DOMAIN order : order[j] = order[k] => j = k
  BY <1>2, OrderType
<1>4. /\ i >= chase.turn
      /\ \A j \in DOMAIN order : order[j] \in chase.in => j < chase.turn \/ j >= i
      /\ order[i] \in chase.in
  BY <1>1, CurrentIsAhead DEF Sound, IsCurrent, IsNext
<1>5. /\ took[order[i]] = 0
      /\ \A k \in DOMAIN order : order[k] \in chase.in =>
           took[order[k]] = IF k < i THEN 1 ELSE 0
  BY <1>1, <1>2, <1>3, <1>4 DEF Sound, Counted
<1>6. window' \in SUBSET Actor
  BY DEF EndTurn, IInv, TypeOK
<1>7. /\ NoTurns \in [Actor -> Nat]
      /\ \A a \in Actor : NoTurns[a] = 0 /\ NoTurns[a] <= 1
  BY DEF NoTurns
<1>8. CASE chase' = None /\ took' = NoTurns
  BY <1>6, <1>7, <1>8
<1>9. CASE /\ ~(active \subseteq chase.quarry) /\ ~TooClose(chase, active, at)
           /\ \E escaped \in SUBSET (active \cap chase.quarry), trouble \in BOOLEAN, n \in DOMAIN order :
                /\ ~ended => escaped = {}
                /\ IsNext(n, i + 1, order, active)
                /\ active \cap chase.quarry # escaped
                /\ chase' = [round |-> IF ended THEN chase.round + 1 ELSE chase.round,
                            turn |-> n, order |-> order, quarry |-> chase.quarry,
                            in |-> active \ escaped, at |-> at, dashes |-> dashes,
                            pending |-> trouble, closing |-> chase.closing]
                /\ took' = IF ended THEN NoTurns ELSE [took EXCEPT ![order[i]] = @ + 1]
  <2> PICK escaped \in SUBSET (active \cap chase.quarry), trouble \in BOOLEAN, n \in DOMAIN order :
        /\ ~ended => escaped = {}
        /\ IsNext(n, i + 1, order, active)
        /\ active \cap chase.quarry # escaped
        /\ chase' = [round |-> IF ended THEN chase.round + 1 ELSE chase.round,
                    turn |-> n, order |-> order, quarry |-> chase.quarry,
                    in |-> active \ escaped, at |-> at, dashes |-> dashes,
                    pending |-> trouble, closing |-> chase.closing]
        /\ took' = IF ended THEN NoTurns ELSE [took EXCEPT ![order[i]] = @ + 1]
    BY <1>9
  <2> HIDE DEF ended
  <2>1. /\ chase' \in Chases
        /\ chase'.order = order /\ chase'.quarry = chase.quarry /\ chase'.closing = chase.closing
        /\ chase'.round = (IF ended THEN chase.round + 1 ELSE chase.round)
        /\ chase'.turn = n /\ chase'.in = active \ escaped /\ chase'.at = at
    BY <1>1, <1>2, <1>3 DEF Chases
  <2>2. n \in Nat /\ order[n] \in active
    BY <1>3 DEF IsNext
  <2>3. chase'.in \subseteq Members(chase'.order)
    BY <1>1, <2>1 DEF Sound
  <2>4. Sides(chase')
    BY <1>9, <2>1 DEF Sides
  <2>5. ~TooClose(chase', chase'.in, chase'.at)
    BY <1>9, <2>1 DEF TooClose
  <2>6. CASE ended
    <3>1. \A k \in DOMAIN order : order[k] \in active => k <= i /\ k >= n
      BY <1>3, <2>2, <2>6 DEF ended, IsNext
    <3>2. Ahead(chase')
      <4>1. PICK x \in active \cap chase.quarry : x \notin escaped
        OBVIOUS
      <4>2. PICK k \in DOMAIN order : order[k] = x
        BY <1>1, <4>1 DEF Sound, Members
      <4> QED BY <2>1, <3>1, <4>1, <4>2 DEF Ahead
    <3>3. took' = NoTurns
      BY <2>6
    <3>4. Counted(chase', took')
      BY <1>3, <1>7, <2>1, <2>2, <3>1, <3>3 DEF Counted
    <3>5. ASSUME NEW k \in DOMAIN order, order[k] \in chase.in \cap chase'.in
          PROVE  took[order[k]] = IF IsCurrent(k) THEN 0 ELSE 1
      <4>1. k <= i /\ k \in Nat
        BY <1>3, <2>1, <3>1, <3>5
      <4>2. CASE k = i
        BY <1>5, <4>2
      <4>3. CASE k < i
        <5>1. ~IsCurrent(k)
          BY <1>2, <1>3, <4>3, CurrentUnique DEF IsCurrent
        <5> QED BY <1>5, <3>5, <4>3, <5>1
      <4> QED BY <1>3, <4>1, <4>2, <4>3
    <3>6. Sound(chase', took')
      BY <2>1, <2>3, <2>4, <2>5, <3>2, <3>4 DEF Sound, Apart
    <3>7. took' \in [Actor -> Nat] /\ \A a \in Actor : took'[a] <= 1
      BY <1>7, <3>3, Zenon
    <3> QED BY <1>6, <3>5, <3>6, <3>7
  <2>7. CASE ~ended
    <3>1. /\ n > i
          /\ \A k \in DOMAIN order : order[k] \in active => k <= i \/ k >= n
      BY <1>3, <2>2, <2>7 DEF ended, IsNext
    <3>2. chase'.in = active
      BY <2>1, <2>7
    <3>3. Ahead(chase')
      BY <2>1, <2>2, <3>2 DEF Ahead
    <3>4. took' = [took EXCEPT ![order[i]] = @ + 1]
      BY <2>7
    <3>5. took' \in [Actor -> Nat] /\ \A a \in Actor : took'[a] <= 1
      BY <1>1, <1>3, <1>5, <3>4 DEF IInv
    <3>6. Counted(chase', took')
      <4> SUFFICES ASSUME NEW k \in DOMAIN order, order[k] \in active
                   PROVE  took'[order[k]] = IF k < n THEN 1 ELSE 0
        BY <2>1, <3>2 DEF Counted
      <4>1. k \in Nat /\ order[k] \in Actor /\ (k <= i \/ k >= n)
        BY <1>3, <3>1
      <4>2. CASE k = i
        BY <1>1, <1>3, <1>5, <3>1, <3>4, <4>2
      <4>3. CASE k # i
        <5>1. took'[order[k]] = took[order[k]]
          BY <1>1, <1>3, <3>4, <4>1, <4>3
        <5> QED BY <1>3, <1>5, <2>2, <3>1, <4>1, <4>3, <5>1
      <4> QED BY <4>2, <4>3
    <3>7. chase'.round = chase.round
      BY <2>1, <2>7
    <3> QED
      BY <1>6, <2>1, <2>3, <2>4, <2>5, <3>3, <3>5, <3>6, <3>7 DEF Sound, Apart
  <2> QED BY <2>6, <2>7
<1> QED BY <1>8, <1>9 DEF EndTurn

(***************************************************************************)
(* Steps.                                                                  *)
(***************************************************************************)
LEMMA RecoveredType ==
  ASSUME TypeOK, NEW a \in Actor
  PROVE  RecoverChaseExhaustion(a) \in 0 .. 6
<1>1. ex[a] \in 0 .. 6 /\ tired[a] \in Nat
  BY DEF TypeOK
<1> QED BY <1>1 DEF RecoverChaseExhaustion

LEMMA SetType ==
  ASSUME TypeOK, NEW a \in Actor, NEW level \in 0 .. 6
  PROVE  SetExhaustion(a, level) \in 0 .. 6
BY DEF TypeOK, SetExhaustion

LEMMA InitIInv == ASSUME Init PROVE IInv
<1>1. ~On
  BY DEF Init, On
<1>2. \A a \in Actor : took[a] <= 1
  BY DEF Init, NoTurns
<1>3. ex \in [Actor -> 0 .. 6] /\ other \in [Actor -> Nat]
  <2>1. Brought \in [Actor -> 0 .. 6]
    BY ChaseAssumption
  <2>2. Brought \in [Actor -> Nat]
    BY <2>1
  <2>3. ex = Brought /\ other = Brought
    BY DEF Init
  <2> QED BY <2>1, <2>2, <2>3
<1>4. tired \in [Actor -> Nat] /\ took \in [Actor -> Nat]
  BY DEF Init, NoTurns
<1>5. up \in [Actor -> BOOLEAN] /\ prone \in [Actor -> BOOLEAN]
  BY DEF Init
<1>6. /\ phase \in {"lobby", "play"} /\ fighting \in BOOLEAN
      /\ chase \in Chases \cup {None} /\ window \in SUBSET Actor
      /\ troubles \in 0 .. MaxTroubles
  <2>1. MaxTroubles \in Nat
    BY ChaseAssumption
  <2>2. phase = "lobby" /\ fighting = FALSE /\ chase = None /\ window = {} /\ troubles = 0
    BY Zenon DEF Init
  <2>3. troubles \in 0 .. MaxTroubles
    BY <2>1, <2>2
  <2> QED BY <2>2, <2>3, Zenon
<1> QED BY <1>1, <1>2, <1>3, <1>4, <1>5, <1>6 DEF IInv, TypeOK

\* A turn is the end of a turn of an actor who is the current one.
LEMMA TurnStep ==
  ASSUME IInv, NEW i \in Places, NEW action, TakeTurn(i, action)
  PROVE  /\ up' \in [Actor -> BOOLEAN] /\ prone' \in [Actor -> BOOLEAN]
         /\ ex' \in [Actor -> 0 .. 6] /\ tired' \in [Actor -> Nat]
         /\ \E active \in SUBSET chase.in, at \in [Actor -> Nat], dashes \in [Actor -> Nat] :
              /\ chase.in \ {chase.order[i]} \subseteq active
              /\ EndTurn(i, active, at, dashes)
<1> DEFINE a == chase.order[i]
<1>1. On /\ i \in DOMAIN chase.order /\ chase \in Chases /\ Sound(chase, took)
  BY DEF Places, IInv, Sound
<1>2. a \in Actor
  BY <1>1, OrderType DEF Chases
<1>3. TypeOK
  BY DEF IInv
<1>4. chase.at \in [Actor -> Nat] /\ chase.dashes \in [Actor -> Nat]
  BY <1>1 DEF Chases
<1> PICK c \in (IF chase.pending THEN Complications ELSE {Unhindered}),
         falls \in BOOLEAN, rises \in BOOLEAN, fails \in BOOLEAN, struck \in BOOLEAN :
       Settle(i, action, c, falls, rises, fails, struck)
  BY Zenon DEF TakeTurn
<1> DEFINE lying == prone[a] \/ c.prone
           alive == up[a] /\ ~falls
           goes == alive /\ action # "drop_out"
           dashes == chase.dashes[a] + (IF goes /\ action = "dash" THEN 1 ELSE 0)
           feet == IF goes THEN Moved(Pace(a), lying, rises, action, c.delay) ELSE 0
           level == IF fails THEN SetExhaustion(a, Least(6, ex[a] + 1)) ELSE ex[a]
           stays == goes /\ ~struck /\ ~(fails /\ level >= 5)
           active == IF stays THEN chase.in ELSE chase.in \ {a}
<1>5. c.delay \in Nat /\ c.prone \in BOOLEAN
  <2>1. \A d \in Nat, pr, h, g \in BOOLEAN :
          /\ Complication(d, pr, h, g).delay \in Nat
          /\ Complication(d, pr, h, g).prone \in BOOLEAN
    BY DEF Complication
  <2>2. Unhindered.delay \in Nat /\ Unhindered.prone \in BOOLEAN
    BY <2>1 DEF Unhindered
  <2>3. ASSUME c \in Complications
        PROVE  c = Unhindered \/ \E d \in Nat, pr, h, g \in BOOLEAN : c = Complication(d, pr, h, g)
    BY <2>3 DEF Complications
  <2>4. CASE c = Unhindered
    BY <2>2, <2>4
  <2>5. CASE c # Unhindered
    <3>1. c \in Complications
      BY <2>5
    <3>2. PICK d \in Nat, pr \in BOOLEAN, h \in BOOLEAN, g \in BOOLEAN : c = Complication(d, pr, h, g)
      BY <2>3, <2>5, <3>1
    <3> QED BY <2>1, <3>2
  <2> QED BY <2>4, <2>5
<1>6. lying \in BOOLEAN /\ alive \in BOOLEAN
  BY <1>5
<1>7. Moved(Pace(a), lying, rises, action, c.delay) \in Nat
  <2> HIDE DEF lying
  <2> QED BY <1>2, <1>3, <1>5, <1>6, PaceType, MovedType
<1>8. feet \in Nat
  <2> HIDE DEF goes, lying
  <2> QED BY <1>7
<1>9. [chase.at EXCEPT ![a] = @ + feet] \in [Actor -> Nat]
  <2> HIDE DEF feet
  <2> QED BY <1>2, <1>4, <1>8
<1>10. [chase.dashes EXCEPT ![a] = dashes] \in [Actor -> Nat]
  <2>1. dashes \in Nat
    <3> HIDE DEF goes
    <3> QED BY <1>2, <1>4
  <2> HIDE DEF dashes
  <2> QED BY <1>2, <1>4, <2>1
<1>11. /\ up' = [up EXCEPT ![a] = alive /\ ~struck]
       /\ ex' = [ex EXCEPT ![a] = level]
       /\ prone' = [prone EXCEPT ![a] = lying /\ ~rises]
       /\ tired' = [tired EXCEPT ![a] = IF fails THEN @ + 1 ELSE @]
       /\ EndTurn(i, active, [chase.at EXCEPT ![a] = @ + feet], [chase.dashes EXCEPT ![a] = dashes])
  BY DEF Settle
<1>12. up' \in [Actor -> BOOLEAN] /\ prone' \in [Actor -> BOOLEAN]
  <2> HIDE DEF alive, lying
  <2> QED BY <1>2, <1>3, <1>6, <1>11 DEF TypeOK
<1>13. level \in 0 .. 6
  <2>1. ex[a] \in 0 .. 6
    BY <1>2, <1>3 DEF TypeOK
  <2>2. Least(6, ex[a] + 1) \in 0 .. 6
    BY <2>1 DEF Least
  <2>3. SetExhaustion(a, Least(6, ex[a] + 1)) \in 0 .. 6
    BY <1>2, <1>3, <2>2, SetType
  <2> QED BY <2>1, <2>3
<1>14. ex' \in [Actor -> 0 .. 6] /\ tired' \in [Actor -> Nat]
  <2> HIDE DEF level
  <2> QED BY <1>2, <1>3, <1>11, <1>13 DEF TypeOK
<1>15. chase.in \ {a} \subseteq active /\ active \subseteq chase.in
  <2> HIDE DEF stays
  <2> QED OBVIOUS
<1> DEFINE at == [chase.at EXCEPT ![a] = @ + feet]
           ran == [chase.dashes EXCEPT ![a] = dashes]
<1>16. at \in [Actor -> Nat] /\ ran \in [Actor -> Nat] /\ EndTurn(i, active, at, ran)
  BY <1>9, <1>10, <1>11
<1> HIDE DEF active, at, ran
<1> QED BY <1>12, <1>14, <1>15, <1>16

\* Every other command leaves a chase as it is, begins one or ends it.
LEMMA StartSound ==
  ASSUME IInv, NEW order \in Orders, NEW quarry \in Quarries, NEW gap \in Gaps,
         NEW closing \in Closings, ChaseStart(order, quarry, gap, closing)
  PROVE  Sound(chase', took') /\ took' = NoTurns
<1>1. /\ order \in Seq(Actor) /\ DOMAIN order \subseteq Nat \ {0}
      /\ Members(order) \subseteq Actor /\ \A k \in DOMAIN order : order[k] \in Actor
  BY OrderType
<1>2. NoTurns \in [Actor -> Nat] /\ \A a \in Actor : NoTurns[a] = 0
  BY DEF NoTurns
<1>3. gap \in Nat /\ quarry \in SUBSET Actor
  BY ChaseAssumption
<1>4. [a \in Actor |-> IF a \in quarry THEN gap ELSE 0] \in [Actor -> Nat]
  BY <1>3
<1>5. /\ chase' \in Chases /\ took' = NoTurns
      /\ chase'.order = order /\ chase'.in = Members(order) /\ chase'.quarry = quarry
      /\ chase'.turn = 1 /\ chase'.round = 1
  BY <1>1, <1>2, <1>3, <1>4 DEF ChaseStart, Chases
<1>6. Sides(chase')
  BY <1>5 DEF ChaseStart, Sides
<1>7. Ahead(chase')
  <2>1. PICK k \in DOMAIN order : order[k] \in quarry
    BY DEF ChaseStart, Members
  <2>2. order[k] \in Members(order) /\ k >= 1
    BY <1>1 DEF Members
  <2> QED BY <1>5, <2>2 DEF Ahead
<1>8. Counted(chase', took') /\ Apart(chase', took')
  BY <1>1, <1>2, <1>5 DEF Counted, Apart
<1> QED BY <1>5, <1>6, <1>7, <1>8 DEF Sound

\* What the commands that are not about the chase leave of the invariant.
LEMMA SameChase ==
  ASSUME IInv, chase' = chase, took' = took, TypeOK',
         On => phase' = "play" /\ ~fighting'
  PROVE  IInv'
BY DEF IInv, On, Sound, Sides, Ahead, Counted, Apart, TooClose

LEMMA NoChase ==
  ASSUME TypeOK', chase' = None, took' = NoTurns
  PROVE  IInv'
BY DEF IInv, On, NoTurns

LEMMA StepIInv == ASSUME IInv, [Next]_vars PROVE IInv' /\ [TurnRule]_vars
<1>0. TypeOK /\ \A a \in Actor : took[a] <= 1
  BY DEF IInv
<1>1. ASSUME chase' = chase, took' = took PROVE TurnRule
  BY <1>0, <1>1 DEF TurnRule
<1>2. ASSUME chase' = None PROVE TurnRule
  BY <1>2 DEF TurnRule
<1>3. ASSUME NEW to \in {"lobby", "play"}, PhaseSet(to) PROVE IInv' /\ TurnRule
  <2>1. chase' = chase /\ took' = took
    BY <1>3 DEF PhaseSet
  <2>2. TypeOK'
    BY <1>0, <1>3 DEF TypeOK, PhaseSet, sheets
  <2>3. On => phase' = "play" /\ ~fighting'
    BY <1>3 DEF PhaseSet, IInv
  <2> QED BY <1>1, <2>1, <2>2, <2>3, SameChase
<1>4. ASSUME CombatStart PROVE IInv' /\ TurnRule
  <2>1. chase' = chase /\ took' = took /\ ~On
    BY <1>4 DEF CombatStart
  <2>2. TypeOK'
    BY <1>0, <1>4 DEF TypeOK, CombatStart, sheets
  <2> QED BY <1>1, <2>1, <2>2, SameChase
<1>5. ASSUME CombatEnd PROVE IInv' /\ TurnRule
  <2>1. chase' = chase /\ took' = took /\ ~On
    BY <1>5 DEF CombatEnd, IInv
  <2>2. TypeOK'
    BY <1>0, <1>5 DEF TypeOK, CombatEnd, sheets
  <2> QED BY <1>1, <2>1, <2>2, SameChase
<1>6. ASSUME NEW order \in Orders, NEW quarry \in Quarries, NEW gap \in Gaps,
             NEW closing \in Closings, ChaseStart(order, quarry, gap, closing)
      PROVE  IInv' /\ TurnRule
  <2>1. Sound(chase', took') /\ took' = NoTurns
    BY <1>6, StartSound
  <2>2. NoTurns \in [Actor -> Nat] /\ \A a \in Actor : NoTurns[a] <= 1
    BY DEF NoTurns
  <2>3. troubles' \in 0 .. MaxTroubles
    BY <1>0, <1>6, ChaseAssumption DEF ChaseStart, Trouble, TypeOK
  <2>4. chase' \in Chases
    BY <2>1 DEF Sound
  <2>5. TypeOK'
    BY <1>0, <1>6, <2>1, <2>2, <2>3, <2>4 DEF TypeOK, ChaseStart, sheets
  <2>6. phase' = "play" /\ ~fighting' /\ ~On
    BY <1>6 DEF ChaseStart
  <2>7. \A a \in Actor : took'[a] <= 1
    BY <2>1, <2>2, Zenon
  <2>8. IInv'
    BY <2>1, <2>5, <2>6, <2>7 DEF IInv
  <2> QED BY <2>6, <2>8 DEF TurnRule
<1>7. ASSUME NEW i \in Places, NEW action, TakeTurn(i, action) PROVE IInv' /\ TurnRule
  <2>1. On /\ IsCurrent(i) /\ i \in DOMAIN chase.order
    BY <1>7 DEF TakeTurn, Places
  <2>2. /\ up' \in [Actor -> BOOLEAN] /\ prone' \in [Actor -> BOOLEAN]
        /\ ex' \in [Actor -> 0 .. 6] /\ tired' \in [Actor -> Nat]
    BY <1>7, TurnStep
  <2>3. PICK active \in SUBSET chase.in, at \in [Actor -> Nat], dashes \in [Actor -> Nat] :
          chase.in \ {chase.order[i]} \subseteq active /\ EndTurn(i, active, at, dashes)
    BY <1>7, TurnStep
  <2>4. /\ took' \in [Actor -> Nat] /\ \A a \in Actor : took'[a] <= 1
        /\ window' \in SUBSET Actor
        /\ chase' # None =>
             /\ Sound(chase', took')
             /\ chase'.round # chase.round =>
                  \A k \in DOMAIN chase.order :
                    chase.order[k] \in chase.in \cap chase'.in =>
                      took[chase.order[k]] = IF IsCurrent(k) THEN 0 ELSE 1
    BY <2>1, <2>3, TurnEnds
  <2>5. chase' \in Chases \cup {None}
    BY <2>4 DEF Sound
  <2>6. /\ phase' = phase /\ fighting' = fighting /\ other' = other /\ troubles' = troubles
        /\ phase = "play" /\ ~fighting
    BY <1>7 DEF TakeTurn
  <2>7. TypeOK'
    BY <1>0, <2>2, <2>4, <2>5, <2>6 DEF TypeOK
  <2>8. IInv'
    BY <2>4, <2>6, <2>7 DEF IInv, On
  <2> QED BY <2>4, <2>8 DEF TurnRule
<1>8. ASSUME ChaseEnd PROVE IInv' /\ TurnRule
  <2>1. chase' = None /\ took' = NoTurns
    BY <1>8 DEF ChaseEnd
  <2>2. took' \in [Actor -> Nat]
    BY <2>1 DEF NoTurns
  <2>3. TypeOK'
    BY <1>0, <1>8, <2>1, <2>2 DEF TypeOK, ChaseEnd, sheets
  <2> QED BY <1>2, <2>1, <2>3, NoChase
<1>9. ASSUME TypeOK', chase' = chase, took' = took, phase' = phase, fighting' = fighting
      PROVE  IInv' /\ TurnRule
  <2>1. On => phase' = "play" /\ ~fighting'
    BY <1>9 DEF IInv
  <2> QED BY <1>1, <1>9, <2>1, SameChase
<1>10. ASSUME NEW resting \in Parties, NEW offered \in SUBSET resting, ShortRest(resting, offered)
       PROVE  IInv' /\ TurnRule
  <2>1. \A a \in Actor : RecoverChaseExhaustion(a) \in 0 .. 6
    BY <1>0, RecoveredType
  <2>2. ex' \in [Actor -> 0 .. 6] /\ tired' \in [Actor -> Nat]
    BY <1>0, <1>10, <2>1 DEF ShortRest, TypeOK
  <2>3. window' \in SUBSET Actor
    BY <1>10, ChaseAssumption DEF ShortRest
  <2>4. troubles' \in 0 .. MaxTroubles
    BY <1>0, <1>10, ChaseAssumption DEF ShortRest, Trouble, TypeOK
  <2>5. /\ phase' = phase /\ fighting' = fighting /\ chase' = chase /\ took' = took
        /\ up' = up /\ prone' = prone /\ other' = other
    BY <1>10 DEF ShortRest
  <2>6. TypeOK'
    BY <1>0, <2>2, <2>3, <2>4, <2>5 DEF TypeOK
  <2> QED BY <1>9, <2>5, <2>6
<1>11. ASSUME NEW resting \in Parties, NEW fed \in BOOLEAN, LongRest(resting, fed)
       PROVE  IInv' /\ TurnRule
  <2> DEFINE rested(n) == IF fed /\ n > 0 THEN n - 1 ELSE n
  <2>1. \A a \in Actor : RecoverChaseExhaustion(a) \in 0 .. 6
    BY <1>0, RecoveredType
  <2>2. /\ \A n \in 0 .. 6 : rested(n) \in 0 .. 6
        /\ \A n \in Nat : rested(n) \in Nat
    OBVIOUS
  <2>3. /\ ex' = [a \in Actor |-> IF a \in resting THEN rested(RecoverChaseExhaustion(a)) ELSE ex[a]]
        /\ other' = [a \in Actor |-> IF a \in resting THEN rested(other[a]) ELSE other[a]]
        /\ tired' = [a \in Actor |-> IF a \in resting THEN 0 ELSE tired[a]]
        /\ troubles < MaxTroubles /\ troubles' = troubles + 1
        /\ phase' = phase /\ fighting' = fighting /\ chase' = chase /\ took' = took
        /\ up' = up /\ prone' = prone /\ window' = window
    BY <1>11 DEF LongRest, Trouble
  <2> HIDE DEF rested
  <2>4. /\ ex' \in [Actor -> 0 .. 6] /\ tired' \in [Actor -> Nat]
        /\ other' \in [Actor -> Nat]
    BY <1>0, <2>1, <2>2, <2>3 DEF TypeOK
  <2>5. troubles' \in 0 .. MaxTroubles
    BY <1>0, <2>3, ChaseAssumption DEF TypeOK
  <2>6. TypeOK'
    BY <1>0, <2>3, <2>4, <2>5 DEF TypeOK
  <2> QED BY <1>9, <2>3, <2>6
<1>12. ASSUME NEW a \in Actor, NEW heals \in BOOLEAN, NEW more \in BOOLEAN, HitDie(a, heals, more)
       PROVE  IInv' /\ TurnRule
  <2>1. up' \in [Actor -> BOOLEAN]
    BY <1>0, <1>12 DEF HitDie, TypeOK
  <2>2. TypeOK' /\ chase' = chase /\ took' = took /\ phase' = phase /\ fighting' = fighting
    BY <1>0, <1>12, <2>1 DEF HitDie, TypeOK
  <2> QED BY <1>9, <2>2
<1>13. ASSUME NEW a \in Actor, ForcedMarch(a) PROVE IInv' /\ TurnRule
  <2>1. ex' \in [Actor -> 0 .. 6] /\ other' \in [Actor -> Nat]
    <3>1. ex[a] \in 0 .. 6 /\ ex[a] < 6
      BY <1>0, <1>13 DEF ForcedMarch, TypeOK
    <3>2. SetExhaustion(a, ex[a] + 1) \in 0 .. 6
      BY <1>0, <3>1, SetType
    <3>3. /\ ex' = [ex EXCEPT ![a] = SetExhaustion(a, ex[a] + 1)]
          /\ other' = [other EXCEPT ![a] = IF a \in Immune THEN @ ELSE @ + 1]
      BY <1>13 DEF ForcedMarch
    <3> QED BY <1>0, <3>2, <3>3 DEF TypeOK
  <2>2. troubles' \in 0 .. MaxTroubles
    BY <1>0, <1>13, ChaseAssumption DEF ForcedMarch, Trouble, TypeOK
  <2>3. TypeOK' /\ chase' = chase /\ took' = took /\ phase' = phase /\ fighting' = fighting
    BY <1>0, <1>13, <2>1, <2>2 DEF ForcedMarch, TypeOK
  <2> QED BY <1>9, <2>3
<1>14. ASSUME NEW a \in Actor, HitPoints(a) PROVE IInv' /\ TurnRule
  <2>1. up' \in [Actor -> BOOLEAN]
    BY <1>0, <1>14 DEF HitPoints, TypeOK
  <2>2. troubles' \in 0 .. MaxTroubles
    BY <1>0, <1>14, ChaseAssumption DEF HitPoints, Trouble, TypeOK
  <2>3. TypeOK' /\ chase' = chase /\ took' = took /\ phase' = phase /\ fighting' = fighting
    BY <1>0, <1>14, <2>1, <2>2 DEF HitPoints, TypeOK
  <2> QED BY <1>9, <2>3
<1>15. ASSUME NEW a \in Actor, NEW level \in Levels, ExhaustionSet(a, level) PROVE IInv' /\ TurnRule
  <2>1. level \in 0 .. 6
    BY ChaseAssumption
  <2>2. ex' \in [Actor -> 0 .. 6] /\ other' \in [Actor -> Nat]
    <3> DEFINE reached == SetExhaustion(a, level)
    <3>1. reached \in 0 .. 6
      BY <1>0, <2>1, SetType
    <3>2. /\ ex' = [ex EXCEPT ![a] = reached]
          /\ other' = [other EXCEPT ![a] = IF @ + reached > ex[a] THEN @ + reached - ex[a] ELSE 0]
      BY <1>15 DEF ExhaustionSet
    <3> HIDE DEF reached
    <3> QED BY <1>0, <3>1, <3>2 DEF TypeOK
  <2>3. troubles' \in 0 .. MaxTroubles
    BY <1>0, <1>15, ChaseAssumption DEF ExhaustionSet, Trouble, TypeOK
  <2>4. TypeOK' /\ chase' = chase /\ took' = took /\ phase' = phase /\ fighting' = fighting
    BY <1>0, <1>15, <2>2, <2>3 DEF ExhaustionSet, TypeOK
  <2> QED BY <1>9, <2>4
<1>16. CASE UNCHANGED vars
  <2>1. TypeOK' /\ chase' = chase /\ took' = took /\ phase' = phase /\ fighting' = fighting
    BY <1>0, <1>16 DEF vars, TypeOK
  <2> QED BY <1>9, <2>1
<1>17. CASE Next
  BY <1>3, <1>4, <1>5, <1>6, <1>7, <1>8, <1>10, <1>11, <1>12, <1>13, <1>14, <1>15, <1>17 DEF Next
<1> QED BY <1>16, <1>17

(***************************************************************************)
(* The theorems.                                                           *)
(***************************************************************************)
LEMMA IInvAlways == Spec => []IInv
<1>1. Init => IInv
  BY InitIInv
<1>2. IInv /\ [Next]_vars => IInv'
  BY StepIInv
<1> QED BY <1>1, <1>2, PTL DEF Spec

\* Chases, sheets and counters keep their types.
THEOREM Typing == Spec => []TypeOK
<1>1. IInv => TypeOK
  BY DEF IInv
<1> QED BY <1>1, IInvAlways, PTL

\* Whoever drops out, falls or escapes, each participant who stays has exactly
\* one turn in every round (advance_chase_turn, current_chase_participant).
THEOREM TurnsAreFair == Spec => EachTurnOnce
<1>1. IInv /\ [Next]_vars => [TurnRule]_vars
  BY StepIInv
<1> QED BY <1>1, IInvAlways, PTL DEF Spec, EachTurnOnce

\* An active chase can always go on, with both sides in it, one participant to
\* act and nobody caught.
THEOREM ChaseGoesOn == Spec => []ChaseIsOn
<1>1. IInv => ChaseIsOn
  <2> SUFFICES ASSUME IInv, On
               PROVE  /\ phase = "play" /\ ~fighting
                      /\ chase.in \cap chase.quarry # {} /\ chase.in \ chase.quarry # {}
                      /\ \E i \in DOMAIN chase.order :
                           IsCurrent(i) /\ \A j \in DOMAIN chase.order : IsCurrent(j) => j = i
                      /\ Taken => ~TooClose(chase, chase.in, chase.at)
    BY DEF ChaseIsOn
  <2>1. Sound(chase, took) /\ phase = "play" /\ ~fighting
    BY DEF IInv
  <2>2. chase \in Chases /\ Sides(chase) /\ Ahead(chase) /\ Apart(chase, took)
    BY <2>1 DEF Sound
  <2>3. PICK i \in DOMAIN chase.order : IsCurrent(i)
    BY <2>2, CurrentExists DEF IsCurrent
  <2>4. DOMAIN chase.order \subseteq Nat /\ chase.turn \in Nat
    BY <2>2, OrderType DEF Chases
  <2>5. \A j \in DOMAIN chase.order : IsCurrent(j) => j = i
    BY <2>3, <2>4, CurrentUnique DEF IsCurrent
  <2> QED BY <2>1, <2>2, <2>3, <2>5 DEF Sides, Apart, Taken
<1> QED BY <1>1, IInvAlways, PTL
=============================================================================

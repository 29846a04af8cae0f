--------------------------- MODULE MovementProofs ---------------------------
(***************************************************************************)
(* Proofs about Movement, for every line, any number of threats with any    *)
(* reaches, and any bounds on moves and troubles.                          *)
(***************************************************************************)
EXTENDS Movement, LeastElement, SequenceTheorems, FiniteSetTheorems, TLAPS

(***************************************************************************)
(* The shape of the stored encounter.                                      *)
(***************************************************************************)
Pays == {"movement", "action", "reaction"}
Hows == {"walk", "crawl", "push", "stand"}
Crossings == [threat : Threats, reach : Nat]
Rests == [kind : {"move"}, path : Seq(Cells), at : Cells, crawl : BOOLEAN,
          window : Crossings, ignored : SUBSET Crossings]
Grants == [kind : {"grant"}, payment : Pays, left : Int]
Taken == [how : Hows, from : Cells, to : Cells, move : Nat,
          watched : SUBSET Threats, payment : Pays]
Offers == [move : Nat, step : Nat, threat : Threats, reach : Nat]
Choices == {"opportunity", "defense", "concentration", "rescue"}
Fights ==
  [at : Cells, spent : Int, condition : {"able", "stopped", "down"}, prone : BOOLEAN,
   disengaged : BOOLEAN, main : Int, reaction : Int, ready : SUBSET Threats,
   pending : SUBSET Choices, cont : {NoMove} \cup Rests, grant : {NoGrant} \cup Grants,
   trail : Seq(Taken), asked : Seq(Offers), met : SUBSET Int, move : Nat]

(***************************************************************************)
(* The inductive invariant.                                                *)
(***************************************************************************)
Held(s) == s.grant # NoGrant => s.cont # NoMove
Once(s) == \A j, k \in DOMAIN s.asked : s.asked[j] = s.asked[k] => j = k
Free(s) ==
  \A i \in DOMAIN s.trail :
    LET step == s.trail[i]
    IN step.how \in {"walk", "crawl"} =>
         \A t \in step.watched : \A r \in Reach[t] :
           Leaves(step.from, step.to, t, r) =>
             \E k \in DOMAIN s.asked :
               s.asked[k] = [move |-> step.move, step |-> i, threat |-> t, reach |-> r]

\* What was offered was offered for a step already taken or about to be.
Dated(s) ==
  \A k \in DOMAIN s.asked :
    /\ s.asked[k].move <= s.move
    /\ s.asked[k].move = s.move => s.asked[k].step <= Len(s.trail) + 1

\* Exactly the crossings in ignored were offered for the next step of this move.
OfferedHere(s, ignored) ==
  /\ \A k \in DOMAIN s.asked :
       s.asked[k].move = s.move /\ s.asked[k].step = Len(s.trail) + 1 =>
         [threat |-> s.asked[k].threat, reach |-> s.asked[k].reach] \in ignored
  /\ \A c \in ignored : \E k \in DOMAIN s.asked :
       s.asked[k] = [move |-> s.move, step |-> Len(s.trail) + 1,
                     threat |-> c.threat, reach |-> c.reach]

\* While the mover is where its move paused, the rest of it remembers them; and
\* a mover that was pushed away is not brought back.
Remembers(s) ==
  s.cont # NoMove =>
    /\ s.cont.at <= s.at
    /\ s.at = s.cont.at => OfferedHere(s, s.cont.ignored)

\* A stored rest of a move waits for a choice.
Waits(s) == s.cont # NoMove => s.pending # {}

Core(s) == s \in Fights /\ Held(s) /\ Once(s) /\ Free(s) /\ Dated(s) /\ Remembers(s)
IInv == Core(fight) /\ Waits(fight)

(***************************************************************************)
(* Windows.                                                                *)
(***************************************************************************)
\* The exits of a route, one by one.
LEMMA ExitsAre ==
  ASSUME NEW route, NEW e
  PROVE  e \in Exits(route) <=>
           \E t \in Threats, i \in 1 .. Len(route) - 1 : \E r \in Reach[t] :
             /\ Leaves(route[i], route[i + 1], t, r)
             /\ e = [offset |-> i - 1, threat |-> t, reach |-> r]
<1> DEFINE P(t, i) == \E r \in Reach[t] :
                        /\ Leaves(route[i], route[i + 1], t, r)
                        /\ e = [offset |-> i - 1, threat |-> t, reach |-> r]
<1>1. \A t, i : e \in ExitsAt(route, i, t) <=> P(t, i)
  BY DEF ExitsAt
<1>2. e \in Exits(route) <=>
        \E t \in Threats, i \in 1 .. Len(route) - 1 : e \in ExitsAt(route, i, t)
  BY DEF Exits
<1> HIDE DEF P
<1>3. e \in Exits(route) <=> \E t \in Threats, i \in 1 .. Len(route) - 1 : P(t, i)
  BY <1>1, <1>2, Zenon
<1> QED BY <1>3, Zenon DEF P

\* First is one of the windows, and no other comes before it.
LEMMA FirstIsFirst ==
  ASSUME NEW route, Len(route) \in Nat, NEW W \in SUBSET Exits(route), W # {}
  PROVE  First(W) \in W /\ \A v \in W : First(W).offset <= v.offset
<1>1. \A w \in W : /\ w.offset \in Nat /\ w.threat \in Threats /\ w.reach \in Nat
                   /\ Rank[w.threat] \in Nat
  <2> TAKE w \in W
  <2>1. PICK t \in Threats, i \in 1 .. Len(route) - 1 : \E r \in Reach[t] :
            w = [offset |-> i - 1, threat |-> t, reach |-> r]
    BY ExitsAre
  <2>2. PICK r \in Reach[t] : w = [offset |-> i - 1, threat |-> t, reach |-> r]
    BY <2>1
  <2>3. r \in Nat /\ Rank[t] \in Nat
    BY LineAssumption
  <2> QED BY <2>2, <2>3
<1>2. PICK o \in {w.offset : w \in W} : \A v \in W : o <= v.offset
  <2>1. {w.offset : w \in W} \in SUBSET Nat /\ {w.offset : w \in W} # {}
    BY <1>1
  <2>2. PICK n \in {w.offset : w \in W} : \A m \in {w.offset : w \in W} : n <= m
    BY <2>1, LeastOf
  <2> QED BY <2>2
<1> DEFINE W1 == {w \in W : w.offset = o}
<1>3. W1 # {}
  OBVIOUS
<1>4. PICK k \in {Rank[w.threat] : w \in W1} : \A v \in W1 : k <= Rank[v.threat]
  <2>1. {Rank[w.threat] : w \in W1} \in SUBSET Nat /\ {Rank[w.threat] : w \in W1} # {}
    BY <1>1, <1>3
  <2>2. PICK n \in {Rank[w.threat] : w \in W1} :
          \A m \in {Rank[w.threat] : w \in W1} : n <= m
    BY <2>1, LeastOf
  <2> QED BY <2>2
<1> DEFINE W2 == {w \in W1 : Rank[w.threat] = k}
<1>5. W2 # {}
  OBVIOUS
<1>6. PICK h \in {w.reach : w \in W2} : \A v \in W2 : h <= v.reach
  <2>1. {w.reach : w \in W2} \in SUBSET Nat /\ {w.reach : w \in W2} # {}
    BY <1>1, <1>5
  <2>2. PICK n \in {w.reach : w \in W2} : \A m \in {w.reach : w \in W2} : n <= m
    BY <2>1, LeastOf
  <2> QED BY <2>2
<1>7. PICK w \in W2 : w.reach = h
  OBVIOUS
<1>8. \A v \in W : Precedes(w, v)
  <2> TAKE v \in W
  <2>0. /\ w \in W /\ w.offset = o /\ Rank[w.threat] = k
        /\ o \in Nat /\ v.offset \in Nat /\ o <= v.offset
    BY <1>1, <1>2
  <2>1. CASE v.offset # o
    BY <2>0, <2>1 DEF Precedes
  <2>2. CASE v.offset = o /\ Rank[v.threat] # k
    <3>1. k <= Rank[v.threat] /\ k \in Nat /\ Rank[v.threat] \in Nat
      BY <1>1, <1>4, <2>0, <2>2
    <3> QED BY <2>0, <2>2, <3>1 DEF Precedes
  <2>3. CASE v \in W2
    <3>1. w.threat = v.threat
      BY <1>1, <2>0, <2>3, LineAssumption
    <3>2. w.reach <= v.reach
      BY <1>6, <1>7, <2>3
    <3> QED BY <2>0, <2>3, <3>1, <3>2 DEF Precedes
  <2> QED BY <2>1, <2>2, <2>3
<1>9. First(W) \in W /\ \A v \in W : Precedes(First(W), v)
  <2>1. \E x \in W : \A v \in W : Precedes(x, v)
    BY <1>8
  <2> QED BY <2>1 DEF First
<1>10. \A v \in W : First(W).offset <= v.offset
  <2> TAKE v \in W
  <2>1. Precedes(First(W), v) /\ First(W).offset \in Nat /\ v.offset \in Nat
    BY <1>1, <1>9
  <2> QED BY <2>1 DEF Precedes
<1> QED BY <1>9, <1>10

(***************************************************************************)
(* Walking.                                                                *)
(***************************************************************************)
LEMMA CellsAre == Cells = 0 .. LastCell /\ LastCell \in Nat
BY LineAssumption DEF Cells

\* A route is the place where it starts, then its path.
LEMMA RouteIs ==
  ASSUME NEW from \in Cells, NEW path \in Seq(Cells)
  PROVE  /\ Len(path) \in Nat
         /\ Len(Route(from, path)) = Len(path) + 1
         /\ Route(from, path)[1] = from
         /\ \A i \in 1 .. Len(path) : Route(from, path)[i + 1] = path[i]
         /\ \A i \in 1 .. Len(path) + 1 : Route(from, path)[i] \in Cells
<1>1. Len(path) \in Nat /\ <<from>> \in Seq(Cells) /\ Len(<<from>>) = 1 /\ <<from>>[1] = from
  BY LenProperties
<1>2. /\ <<from>> \o path \in Seq(Cells)
      /\ Len(<<from>> \o path) = 1 + Len(path)
      /\ \A i \in 1 .. 1 + Len(path) :
           (<<from>> \o path)[i] = IF i <= 1 THEN <<from>>[i] ELSE path[i - 1]
  BY <1>1, ConcatProperties
<1>3. \A i \in 1 .. Len(path) + 1 : (<<from>> \o path)[i] \in Cells
  BY <1>1, <1>2, ElementOfSeq
<1> QED BY <1>1, <1>2, <1>3 DEF Route

\* The part of a path before some place.
LEMMA PrefixIs ==
  ASSUME NEW path \in Seq(Cells), NEW n \in 0 .. Len(path)
  PROVE  /\ SubSeq(path, 1, n) \in Seq(Cells)
         /\ Len(SubSeq(path, 1, n)) = n
         /\ \A i \in 1 .. n : SubSeq(path, 1, n)[i] = path[i]
<1>1. Len(path) \in Nat /\ \A i \in 1 .. n : path[i] \in Cells
  BY LenProperties, ElementOfSeq
<1> QED BY <1>1, SubSeqProperties

\* What a stretch adds to the trail, cell by cell.
LEMMA StepsAre ==
  ASSUME NEW s \in Fights, NEW path \in Seq(Cells), NEW how \in Hows
  PROVE  /\ Steps(s, path, how) \in Seq(Taken)
         /\ Len(Steps(s, path, how)) = Len(path)
         /\ \A i \in 1 .. Len(path) :
              LET step == Steps(s, path, how)[i]
              IN /\ step.how = how /\ step.move = s.move
                 /\ step.from = Route(s.at, path)[i] /\ step.to = path[i]
                 /\ step.watched = IF s.disengaged THEN {} ELSE s.ready
<1>0. s.at \in Cells /\ s.move \in Nat /\ s.ready \subseteq Threats
      /\ s.grant \in {NoGrant} \cup Grants
  BY DEF Fights
<1> DEFINE watched == IF s.disengaged THEN {} ELSE s.ready
           payment == IF s.grant = NoGrant THEN "movement" ELSE s.grant.payment
           Made(i) == [how |-> how, from |-> Route(s.at, path)[i], to |-> path[i],
                       move |-> s.move, watched |-> watched, payment |-> payment]
<1>1. Len(path) \in Nat /\ \A i \in 1 .. Len(path) : Route(s.at, path)[i] \in Cells
  BY <1>0, RouteIs
<1>2. \A i \in 1 .. Len(path) : path[i] \in Cells
  BY ElementOfSeq
<1>3. watched \in SUBSET Threats
  BY <1>0
<1>4. payment \in Pays
  BY <1>0 DEF Grants, Pays
<1>5. Steps(s, path, how) = [i \in 1 .. Len(path) |-> Made(i)]
  BY DEF Steps
<1> HIDE DEF watched, payment
<1>6. \A i \in 1 .. Len(path) : Made(i) \in Taken
  BY <1>0, <1>1, <1>2, <1>3, <1>4 DEF Taken
<1>7. \A i \in 1 .. Len(path) :
        /\ Made(i).how = how /\ Made(i).move = s.move
        /\ Made(i).from = Route(s.at, path)[i] /\ Made(i).to = path[i]
        /\ Made(i).watched = watched
  OBVIOUS
<1> HIDE DEF Made
<1>8. Steps(s, path, how) \in Seq(Taken) /\ Len(Steps(s, path, how)) = Len(path)
  BY <1>1, <1>5, <1>6
<1>9. \A i \in 1 .. Len(path) : Steps(s, path, how)[i] = Made(i)
  BY <1>5
<1> QED BY <1>7, <1>8, <1>9 DEF watched

\* A path costs a number of cells.
LEMMA CostIsNat ==
  ASSUME NEW path \in Seq(Cells), NEW crawl \in BOOLEAN, NEW rough
  PROVE  Cost(path, crawl, rough) \in Nat
<1> DEFINE P == {i \in 1 .. Len(path) : path[i] \in rough}
<1>1. Len(path) \in Nat
  BY LenProperties
<1>2. Cardinality(P) \in Nat
  <2>1. IsFiniteSet(1 .. Len(path))
    BY <1>1, FS_Interval
  <2>2. P \in SUBSET (1 .. Len(path))
    OBVIOUS
  <2>3. IsFiniteSet(P)
    BY <2>1, <2>2, FS_Subset
  <2> QED BY <2>3, FS_CardinalityType
<1> QED BY <1>1, <1>2 DEF Cost

\* Walk moves the mover, extends the trail, charges and changes nothing else.
Pace(crawl) == IF crawl THEN "crawl" ELSE "walk"
Walked(w, s, path, crawl) ==
  /\ w \in Fights
  /\ w.at = Arrive(s, path)
  /\ w.trail = s.trail \o Steps(s, path, Pace(crawl))
  /\ w.asked = s.asked /\ w.cont = s.cont /\ w.pending = s.pending
  /\ w.move = s.move

LEMMA WalkIs ==
  ASSUME NEW s \in Fights, NEW path \in Seq(Cells), NEW crawl \in BOOLEAN, NEW rough
  PROVE  Walked(Walk(s, path, crawl, rough), s, path, crawl)
<1> DEFINE cost == Cost(path, crawl, rough)
           spent == IF PaysMovement(s) THEN s.spent + cost ELSE s.spent
           how == Pace(crawl)
           trail == s.trail \o Steps(s, path, how)
<1>1. cost \in Int
  BY CostIsNat
<1>2. Arrive(s, path) \in Cells
  <2>1. s.at \in Cells
    BY DEF Fights
  <2>2. path # <<>> => Len(path) \in 1 .. Len(path)
    BY EmptySeq, LenProperties
  <2> QED BY <2>1, <2>2, ElementOfSeq DEF Arrive
<1>3. trail \in Seq(Taken)
  <2>1. how \in Hows
    BY DEF Hows, Pace
  <2>2. Steps(s, path, how) \in Seq(Taken)
    BY <2>1, StepsAre
  <2>3. s.trail \in Seq(Taken)
    BY DEF Fights
  <2> QED BY <2>2, <2>3, ConcatProperties
<1> HIDE DEF cost
<1>4. spent \in Int
  BY <1>1 DEF Fights
<1>5. Charged(s, cost) \in {NoGrant} \cup Grants
  <2>1. ASSUME NEW g \in Grants, NEW n \in Int
        PROVE  [g EXCEPT !.left = n] \in Grants
    BY DEF Grants
  <2>2. ASSUME NEW g \in Grants PROVE g.left - cost \in Int
    BY <1>1 DEF Grants
  <2>3. s.grant \in {NoGrant} \cup Grants
    BY DEF Fights
  <2> QED BY <2>1, <2>2, <2>3, Zenon DEF Charged
<1>6. Walk(s, path, crawl, rough) =
        [s EXCEPT !.at = Arrive(s, path), !.spent = spent,
                  !.grant = Charged(s, cost), !.trail = trail]
  BY Zenon DEF Walk, cost, Pace
<1> HIDE DEF spent, trail
<1>7. /\ [s EXCEPT !.at = Arrive(s, path), !.spent = spent,
                   !.grant = Charged(s, cost), !.trail = trail] \in Fights
      /\ Walk(s, path, crawl, rough).at = Arrive(s, path)
      /\ Walk(s, path, crawl, rough).trail = trail
      /\ Walk(s, path, crawl, rough).asked = s.asked
      /\ Walk(s, path, crawl, rough).cont = s.cont
      /\ Walk(s, path, crawl, rough).pending = s.pending
      /\ Walk(s, path, crawl, rough).move = s.move
  BY <1>2, <1>3, <1>4, <1>5, <1>6 DEF Fights
<1>8. Walk(s, path, crawl, rough) \in Fights
  BY <1>6, <1>7, Zenon
<1> QED BY <1>7, <1>8, Zenon DEF trail, Walked

\* The stretch before the first window is walked out of no reach unasked.
LEMMA StretchIsFree ==
  ASSUME NEW s \in Fights, NEW path \in Seq(Cells), NEW n \in 0 .. Len(path),
         NEW crawl \in BOOLEAN, NEW rough, NEW ignored,
         Once(s), Free(s), Dated(s), OfferedHere(s, ignored),
         \A w \in Windows(s, path, ignored) : n <= w.offset
  PROVE  LET w == Walk(s, SubSeq(path, 1, n), crawl, rough)
         IN /\ w \in Fights
            /\ w.cont = s.cont /\ w.pending = s.pending /\ w.move = s.move
            /\ w.asked = s.asked
            /\ Len(w.trail) = Len(s.trail) + n
            /\ Once(w) /\ Free(w) /\ Dated(w)
            /\ n = 0 => w.at = s.at
<1> DEFINE p == SubSeq(path, 1, n)
           w == Walk(s, p, crawl, rough)
           how == Pace(crawl)
           route == Route(s.at, path)
           more == Steps(s, p, how)
<1>0. /\ s.at \in Cells /\ s.trail \in Seq(Taken) /\ s.asked \in Seq(Offers)
      /\ s.move \in Nat /\ how \in Hows
  BY DEF Fights, Hows, Pace
<1>1. /\ p \in Seq(Cells) /\ Len(p) = n /\ n \in Nat /\ Len(path) \in Nat
      /\ \A i \in 1 .. n : p[i] = path[i]
  BY PrefixIs, LenProperties
<1> HIDE DEF p
<1>2. /\ w \in Fights /\ w.at = Arrive(s, p) /\ w.trail = s.trail \o more
      /\ w.asked = s.asked /\ w.cont = s.cont /\ w.pending = s.pending
      /\ w.move = s.move
  <2> HIDE DEF w
  <2>1. Walked(w, s, p, crawl)
    BY <1>1, WalkIs DEF w
  <2> QED BY <2>1, Zenon DEF Walked
<1> HIDE DEF w, how
<1>a. /\ more \in Seq(Taken) /\ Len(more) = Len(p)
      /\ \A j \in 1 .. Len(p) :
           /\ more[j].how = how /\ more[j].move = s.move
           /\ more[j].from = Route(s.at, p)[j] /\ more[j].to = p[j]
           /\ more[j].watched = IF s.disengaged THEN {} ELSE s.ready
  BY <1>0, <1>1, StepsAre
<1> HIDE DEF more
<1>3. /\ more \in Seq(Taken) /\ Len(more) = n
      /\ \A j \in 1 .. n :
           /\ more[j].how = how /\ more[j].move = s.move
           /\ more[j].from = Route(s.at, p)[j] /\ more[j].to = p[j]
           /\ more[j].watched = IF s.disengaged THEN {} ELSE s.ready
  BY <1>1, <1>a
<1>4. \A j \in 1 .. n : more[j].from = route[j] /\ more[j].to = route[j + 1]
  <2>a. /\ Route(s.at, p)[1] = s.at
        /\ \A i \in 1 .. Len(p) : Route(s.at, p)[i + 1] = p[i]
    BY <1>0, <1>1, RouteIs
  <2>b. /\ Route(s.at, path)[1] = s.at
        /\ \A i \in 1 .. Len(path) : Route(s.at, path)[i + 1] = path[i]
    BY <1>0, RouteIs
  <2>1. /\ Route(s.at, p)[1] = s.at /\ route[1] = s.at
        /\ \A i \in 1 .. n : Route(s.at, p)[i + 1] = p[i]
        /\ \A i \in 1 .. Len(path) : route[i + 1] = path[i]
    BY <1>1, <2>a, <2>b
  <2>2. ASSUME NEW j \in 1 .. n PROVE Route(s.at, p)[j] = route[j]
    <3>1. CASE j = 1
      BY <2>1, <3>1
    <3>2. CASE j # 1
      <4>1. j - 1 \in 1 .. n /\ j - 1 \in 1 .. Len(path) /\ (j - 1) + 1 = j
        BY <1>1, <3>2
      <4> QED BY <1>1, <2>1, <4>1
    <3> QED BY <3>1, <3>2
  <2>3. ASSUME NEW j \in 1 .. n PROVE p[j] = route[j + 1]
    BY <1>1, <2>1
  <2> QED BY <1>3, <2>2, <2>3
<1>5. Len(s.trail) \in Nat /\ DOMAIN s.trail = 1 .. Len(s.trail)
  BY <1>0, LenProperties
<1>6. /\ Len(w.trail) = Len(s.trail) + n
      /\ DOMAIN w.trail = 1 .. Len(s.trail) + n
      /\ \A i \in 1 .. Len(s.trail) : w.trail[i] = s.trail[i]
      /\ \A j \in 1 .. n : w.trail[Len(s.trail) + j] = more[j]
  <2>0. s.trail \in Seq(Taken) /\ more \in Seq(Taken)
    BY <1>0, <1>3
  <2>1. /\ s.trail \o more \in Seq(Taken)
        /\ Len(s.trail \o more) = Len(s.trail) + Len(more)
        /\ \A i \in 1 .. Len(s.trail) + Len(more) : (s.trail \o more)[i] =
             IF i <= Len(s.trail) THEN s.trail[i] ELSE more[i - Len(s.trail)]
    BY <2>0, ConcatProperties, Zenon
  <2>2. DOMAIN (s.trail \o more) = 1 .. Len(s.trail) + n
    BY <1>3, <2>1, LenProperties
  <2>3. \A j \in 1 .. n : w.trail[Len(s.trail) + j] = more[j]
    <3> TAKE j \in 1 .. n
    <3>1. Len(s.trail) + j \in 1 .. Len(s.trail) + Len(more)
          /\ ~(Len(s.trail) + j <= Len(s.trail))
          /\ (Len(s.trail) + j) - Len(s.trail) = j
      BY <1>1, <1>3, <1>5
    <3> QED BY <1>2, <2>1, <3>1
  <2>4. \A i \in 1 .. Len(s.trail) : w.trail[i] = s.trail[i]
    BY <1>1, <1>2, <1>3, <1>5, <2>1
  <2> QED BY <1>2, <1>3, <2>1, <2>2, <2>3, <2>4
<1> HIDE DEF route
<1>7. Free(w)
  <2> SUFFICES ASSUME NEW i \in DOMAIN w.trail, w.trail[i].how \in {"walk", "crawl"},
                      NEW t \in w.trail[i].watched, NEW r \in Reach[t],
                      Leaves(w.trail[i].from, w.trail[i].to, t, r)
               PROVE  \E k \in DOMAIN w.asked :
                        w.asked[k] = [move |-> w.trail[i].move, step |-> i,
                                      threat |-> t, reach |-> r]
    BY DEF Free
  <2>1. CASE i \in 1 .. Len(s.trail)
    <3>1. w.trail[i] = s.trail[i]
      BY <1>6, <2>1
    <3> QED BY <1>2, <1>5, <2>1, <3>1 DEF Free
  <2>2. CASE i \notin 1 .. Len(s.trail)
    <3>1. PICK j \in 1 .. n : i = Len(s.trail) + j
      <4>1. i \in 1 .. Len(s.trail) + n /\ i - Len(s.trail) \in 1 .. n
            /\ i = Len(s.trail) + (i - Len(s.trail))
        BY <1>1, <1>5, <1>6, <2>2
      <4> QED BY <4>1
    <3>2. w.trail[i] = more[j]
      BY <1>6, <3>1
    <3>3. ~s.disengaged /\ t \in s.ready /\ t \in Threats
      BY <1>3, <3>2 DEF Fights
    <3> DEFINE e == [offset |-> j - 1, threat |-> t, reach |-> r]
    <3>4. e \in Exits(route)
      <4>1. Leaves(route[j], route[j + 1], t, r)
        BY <1>4, <3>2
      <4>2. Len(route) = Len(path) + 1
        BY <1>0, RouteIs DEF route
      <4>3. j \in 1 .. Len(route) - 1
        BY <1>1, <4>2
      <4> QED BY <3>3, <4>1, <4>3, ExitsAre
    <3>5. e \notin Windows(s, path, ignored)
      <4>1. e.offset = j - 1 /\ ~(n <= j - 1)
        BY <1>1
      <4> QED BY <4>1
    <3>6. e.offset = 0 /\ Crossing(e) \in ignored
      <4>1. e.threat = t
        OBVIOUS
      <4> HIDE DEF e
      <4> QED BY <3>3, <3>4, <3>5, <4>1 DEF Windows, route
    <3>7. j = 1 /\ [threat |-> t, reach |-> r] \in ignored
      BY <3>6 DEF Crossing
    <3>8. \E k \in DOMAIN s.asked :
            s.asked[k] = [move |-> s.move, step |-> Len(s.trail) + 1,
                          threat |-> t, reach |-> r]
      BY <3>7 DEF OfferedHere
    <3> QED BY <1>2, <1>3, <3>1, <3>2, <3>7, <3>8
  <2> QED BY <2>1, <2>2
<1>8. Once(w)
  BY <1>2 DEF Once
<1>9. Dated(w)
  <2> SUFFICES ASSUME NEW k \in DOMAIN s.asked
               PROVE  /\ s.asked[k].move <= s.move
                      /\ s.asked[k].move = s.move =>
                           s.asked[k].step <= Len(s.trail) + n + 1
    BY <1>2, <1>6 DEF Dated
  <2>1. s.asked[k].step \in Nat
    <3>1. s.asked[k] \in Offers
      BY <1>0, ElementOfSeq, LenProperties
    <3> QED BY <3>1 DEF Offers
  <2> QED BY <1>1, <1>5, <2>1 DEF Dated
<1>10. n = 0 => w.at = s.at
  <2>1. n = 0 => p = <<>>
    BY <1>1, EmptySeq
  <2> QED BY <1>2, <2>1 DEF Arrive
<1> QED BY <1>2, <1>6, <1>7, <1>8, <1>9, <1>10 DEF w, p

(***************************************************************************)
(* Starting a move and going on with it.                                   *)
(***************************************************************************)
LEMMA RestsAreMoves == \A c \in Rests : c # NoMove
BY DEF Rests, NoMove

\* More questions make no step of the trail less free.
LEMMA FreeExtends ==
  ASSUME NEW s, NEW r, Free(s), r.trail = s.trail,
         \A k \in DOMAIN s.asked : k \in DOMAIN r.asked /\ r.asked[k] = s.asked[k]
  PROVE  Free(r)
<1> SUFFICES ASSUME NEW i \in DOMAIN s.trail, s.trail[i].how \in {"walk", "crawl"},
                    NEW t \in s.trail[i].watched, NEW h \in Reach[t],
                    Leaves(s.trail[i].from, s.trail[i].to, t, h)
             PROVE  \E k \in DOMAIN r.asked :
                      r.asked[k] = [move |-> s.trail[i].move, step |-> i,
                                    threat |-> t, reach |-> h]
  BY DEF Free
<1>1. PICK k \in DOMAIN s.asked :
        s.asked[k] = [move |-> s.trail[i].move, step |-> i, threat |-> t, reach |-> h]
  BY Zenon DEF Free
<1> QED BY <1>1, Zenon

\* A move that provokes nothing ends, and with it its grant.
LEMMA CompletedMoveKeeps ==
  ASSUME NEW w \in Fights, Once(w), Free(w), Dated(w)
  PROVE  LET r == [w EXCEPT !.cont = NoMove, !.grant = NoGrant]
         IN Core(r) /\ Waits(r)
<1> DEFINE r == [w EXCEPT !.cont = NoMove, !.grant = NoGrant]
<1>1. /\ r \in Fights /\ r.cont = NoMove /\ r.grant = NoGrant /\ r.at = w.at
      /\ r.trail = w.trail /\ r.asked = w.asked /\ r.move = w.move
  BY DEF Fights
<1> HIDE DEF r
<1>2. Free(r)
  BY <1>1, FreeExtends
<1>3. Once(r) /\ Dated(r)
  BY <1>1 DEF Once, Dated
<1>4. Held(r) /\ Remembers(r) /\ Waits(r)
  BY <1>1 DEF Held, Remembers, Waits
<1> QED BY <1>1, <1>2, <1>3, <1>4, Zenon DEF r, Core

\* The window a move pauses for.
LEMMA WindowIs ==
  ASSUME NEW s \in Fights, NEW path \in Seq(Cells), NEW ignored,
         Windows(s, path, ignored) # {}
  PROVE  LET w == First(Windows(s, path, ignored))
         IN /\ w.offset \in 0 .. Len(path) /\ w.offset < Len(path)
            /\ Crossing(w) \in Crossings
            /\ Crossing(w) = [threat |-> w.threat, reach |-> w.reach]
            /\ w.offset = 0 => Crossing(w) \notin ignored
            /\ \A v \in Windows(s, path, ignored) : w.offset <= v.offset
<1> DEFINE W == Windows(s, path, ignored)
           w == First(W)
           route == Route(s.at, path)
<1>1. s.at \in Cells
  BY DEF Fights
<1>2. Len(route) = Len(path) + 1 /\ Len(path) \in Nat
  BY <1>1, RouteIs
<1> HIDE DEF route
<1>3. W \in SUBSET Exits(route)
  BY DEF Windows, route
<1>4. \A v \in W : v.offset = 0 => Crossing(v) \notin ignored
  BY DEF Windows
<1> HIDE DEF W
<1>5. w \in W /\ \A v \in W : w.offset <= v.offset
  BY <1>2, <1>3, FirstIsFirst DEF W
<1>6. PICK t \in Threats, i \in 1 .. Len(route) - 1 : \E r \in Reach[t] :
          w = [offset |-> i - 1, threat |-> t, reach |-> r]
  BY <1>3, <1>5, ExitsAre
<1>7. PICK r \in Reach[t] : w = [offset |-> i - 1, threat |-> t, reach |-> r]
  BY <1>6
<1> HIDE DEF w
<1>8. /\ w.offset \in 0 .. Len(path) /\ w.offset < Len(path)
      /\ w.threat \in Threats /\ w.reach \in Nat
  BY <1>2, <1>7, LineAssumption
<1>9. Crossing(w) \in Crossings /\ Crossing(w) = [threat |-> w.threat, reach |-> w.reach]
  BY <1>8 DEF Crossing, Crossings
<1> QED BY <1>4, <1>5, <1>8, <1>9 DEF w, W

\* Pausing asks once more, and remembers what was asked for here.
LEMMA PausedMoveKeeps ==
  ASSUME NEW s \in Fights, NEW path \in Seq(Cells), NEW crawl \in BOOLEAN, NEW rough,
         NEW ignored \in SUBSET Crossings,
         Once(s), Free(s), Dated(s), OfferedHere(s, ignored),
         Windows(s, path, ignored) # {}
  PROVE  LET r == Pause(s, path, crawl, rough, ignored, First(Windows(s, path, ignored)))
         IN Core(r) /\ Waits(r)
<1> DEFINE w == First(Windows(s, path, ignored))
           n == w.offset
           walked == Walk(s, SubSeq(path, 1, n), crawl, rough)
           a == [move |-> s.move, step |-> Len(walked.trail) + 1,
                 threat |-> w.threat, reach |-> w.reach]
           kept == IF n = 0 THEN ignored \cup {Crossing(w)} ELSE {Crossing(w)}
           rest == [kind |-> "move", path |-> SubSeq(path, n + 1, Len(path)),
                    at |-> walked.at, crawl |-> crawl, window |-> Crossing(w),
                    ignored |-> kept]
           r == Pause(s, path, crawl, rough, ignored, w)
<1>1. /\ n \in 0 .. Len(path) /\ Crossing(w) \in Crossings
      /\ Crossing(w) = [threat |-> w.threat, reach |-> w.reach]
      /\ n = 0 => Crossing(w) \notin ignored
      /\ \A v \in Windows(s, path, ignored) : n <= v.offset
  BY WindowIs
<1>2. Len(path) \in Nat
  BY LenProperties
<1> HIDE DEF w, n
<1>3. /\ walked \in Fights /\ walked.move = s.move /\ walked.asked = s.asked
      /\ Len(walked.trail) = Len(s.trail) + n
      /\ Once(walked) /\ Free(walked) /\ Dated(walked)
  BY <1>1, StretchIsFree
<1> HIDE DEF walked
<1>4. s.asked \in Seq(Offers) /\ s.trail \in Seq(Taken) /\ s.move \in Nat
      /\ walked.at \in Cells /\ walked.pending \subseteq Choices
  BY <1>3 DEF Fights
<1>5. Len(s.trail) \in Nat /\ n \in Nat /\ Len(s.asked) \in Nat
      /\ DOMAIN s.asked = 1 .. Len(s.asked)
  BY <1>1, <1>2, <1>4, LenProperties
<1>6. a \in Offers
  <2>1. w.threat \in Threats /\ w.reach \in Nat
    BY <1>1 DEF Crossings
  <2>2. Len(walked.trail) + 1 \in Nat
    BY <1>3, <1>5
  <2> QED BY <1>4, <2>1, <2>2 DEF Offers
<1>7. kept \subseteq Crossings
  BY <1>1
<1> HIDE DEF kept
<1>8. rest \in Rests
  <2>1. SubSeq(path, n + 1, Len(path)) \in Seq(Cells)
    <3>1. \A i \in n + 1 .. Len(path) : path[i] \in Cells
      BY <1>5, ElementOfSeq
    <3> QED BY <1>2, <1>5, <3>1, SubSeqProperties
  <2> QED BY <1>1, <1>4, <1>7, <2>1 DEF Rests
<1>9. /\ Append(s.asked, a) \in Seq(Offers)
      /\ DOMAIN Append(s.asked, a) = 1 .. Len(s.asked) + 1
      /\ \A k \in 1 .. Len(s.asked) : Append(s.asked, a)[k] = s.asked[k]
      /\ Append(s.asked, a)[Len(s.asked) + 1] = a
  <2> HIDE DEF a
  <2>1. /\ Append(s.asked, a) \in Seq(Offers)
        /\ Len(Append(s.asked, a)) = Len(s.asked) + 1
        /\ \A k \in 1 .. Len(s.asked) : Append(s.asked, a)[k] = s.asked[k]
        /\ Append(s.asked, a)[Len(s.asked) + 1] = a
    BY <1>4, <1>6, AppendProperties
  <2> QED BY <2>1, LenProperties
<1>10. r = [walked EXCEPT !.pending = walked.pending \cup {"opportunity"},
                          !.asked = Append(s.asked, a), !.cont = rest]
  BY <1>3, Zenon DEF Pause, walked, n, kept
<1> HIDE DEF r, rest
<1>11. /\ r \in Fights /\ r.cont = rest /\ r.at = walked.at /\ r.trail = walked.trail
       /\ r.asked = Append(s.asked, a) /\ r.move = s.move /\ "opportunity" \in r.pending
  <2> HIDE DEF a
  <2>1. walked.pending \cup {"opportunity"} \in SUBSET Choices
    BY <1>4 DEF Choices
  <2> DEFINE asked == Append(s.asked, a)
             pending == walked.pending \cup {"opportunity"}
  <2>2. asked \in Seq(Offers)
    BY <1>9
  <2> HIDE DEF asked, pending
  <2>3. r = [walked EXCEPT !.pending = pending, !.asked = asked, !.cont = rest]
    BY <1>10 DEF asked, pending
  <2>4. /\ [walked EXCEPT !.pending = pending, !.asked = asked, !.cont = rest] \in Fights
        /\ r.cont = rest /\ r.at = walked.at /\ r.trail = walked.trail
        /\ r.asked = asked /\ r.move = walked.move /\ r.pending = pending
    BY <1>3, <1>8, <2>1, <2>2, <2>3 DEF Fights, pending
  <2> QED BY <1>3, <2>3, <2>4 DEF asked, pending
<1>12. rest # NoMove /\ rest.at = walked.at /\ rest.ignored = kept
  BY <1>8, RestsAreMoves DEF rest
<1>13. \A k \in 1 .. Len(s.asked) : s.asked[k].move = s.move /\ s.asked[k].step = a.step =>
         n = 0 /\ [threat |-> s.asked[k].threat, reach |-> s.asked[k].reach] \in ignored
  <2> SUFFICES ASSUME NEW k \in 1 .. Len(s.asked),
                      s.asked[k].move = s.move, s.asked[k].step = a.step
               PROVE  n = 0 /\ [threat |-> s.asked[k].threat,
                                reach |-> s.asked[k].reach] \in ignored
    OBVIOUS
  <2>1. a.step = Len(s.trail) + n + 1
    BY <1>3
  <2>2. a.step <= Len(s.trail) + 1
    BY <1>5 DEF Dated
  <2>3. n = 0
    BY <1>5, <2>1, <2>2
  <2> QED BY <1>5, <2>1, <2>3 DEF OfferedHere
<1>14. Once(r)
  <2> SUFFICES ASSUME NEW k \in 1 .. Len(s.asked) PROVE s.asked[k] # a
    BY <1>5, <1>9, <1>11 DEF Once
  <2> SUFFICES ASSUME s.asked[k] = a PROVE FALSE
    OBVIOUS
  <2>1. a.move = s.move /\ a.threat = w.threat /\ a.reach = w.reach
    OBVIOUS
  <2> HIDE DEF a
  <2>2. n = 0 /\ [threat |-> w.threat, reach |-> w.reach] \in ignored
    BY <1>13, <2>1
  <2> QED BY <1>1, <2>2
<1>15. Free(r)
  <2> HIDE DEF a
  <2>1. \A k \in DOMAIN s.asked : k \in DOMAIN r.asked /\ r.asked[k] = s.asked[k]
    BY <1>5, <1>9, <1>11
  <2> QED BY <1>3, <1>11, <2>1, FreeExtends
<1>16. Dated(r)
  <2> SUFFICES ASSUME NEW k \in 1 .. Len(s.asked) + 1
               PROVE  /\ r.asked[k].move <= r.move
                      /\ r.asked[k].move = r.move => r.asked[k].step <= Len(r.trail) + 1
    BY <1>9, <1>11 DEF Dated
  <2>1. CASE k \in 1 .. Len(s.asked)
    BY <1>3, <1>5, <1>9, <1>11, <2>1 DEF Dated
  <2>2. CASE k = Len(s.asked) + 1
    BY <1>3, <1>4, <1>5, <1>9, <1>11, <2>2
  <2> QED BY <1>5, <2>1, <2>2
<1>17. OfferedHere(r, kept)
  <2>1. ASSUME NEW k \in 1 .. Len(s.asked) + 1,
               r.asked[k].move = r.move, r.asked[k].step = Len(r.trail) + 1
        PROVE  [threat |-> r.asked[k].threat, reach |-> r.asked[k].reach] \in kept
    <3>1. CASE k \in 1 .. Len(s.asked)
      BY <1>9, <1>11, <1>13, <2>1, <3>1 DEF kept
    <3>2. CASE k = Len(s.asked) + 1
      BY <1>1, <1>9, <1>11, <3>2 DEF kept
    <3> QED BY <1>5, <3>1, <3>2
  <2>2. ASSUME NEW c \in kept
        PROVE  \E k \in 1 .. Len(s.asked) + 1 :
                 r.asked[k] = [move |-> r.move, step |-> Len(r.trail) + 1,
                               threat |-> c.threat, reach |-> c.reach]
    <3>1. CASE c = Crossing(w)
      <4>1. Len(s.asked) + 1 \in 1 .. Len(s.asked) + 1
        BY <1>5
      <4>2. c.threat = w.threat /\ c.reach = w.reach
        BY <1>1, <3>1
      <4> QED BY <1>9, <1>11, <4>1, <4>2
    <3>2. CASE c # Crossing(w)
      <4>1. n = 0 /\ c \in ignored
        BY <3>2 DEF kept
      <4>2. PICK k \in DOMAIN s.asked :
              s.asked[k] = [move |-> s.move, step |-> Len(s.trail) + 1,
                            threat |-> c.threat, reach |-> c.reach]
        BY <4>1 DEF OfferedHere
      <4>3. Len(r.trail) = Len(s.trail)
        BY <1>3, <1>5, <1>11, <4>1
      <4>4. k \in 1 .. Len(s.asked) + 1 /\ k \in 1 .. Len(s.asked)
        BY <1>5
      <4> QED BY <1>9, <1>11, <4>2, <4>3, <4>4
    <3> QED BY <3>1, <3>2
  <2> QED BY <1>9, <1>11, <2>1, <2>2 DEF OfferedHere
<1>18. Remembers(r)
  <2>1. walked.at \in Int
    BY <1>4, CellsAre
  <2> QED BY <1>11, <1>12, <1>17, <2>1 DEF Remembers
<1>19. Held(r) /\ Waits(r)
  BY <1>11, <1>12 DEF Held, Waits
<1> QED BY <1>11, <1>14, <1>15, <1>16, <1>18, <1>19 DEF Core, r, w

\* Whatever is started leaves an encounter of the right shape.
LEMMA StartKeeps ==
  ASSUME NEW s \in Fights, NEW path \in Seq(Cells), NEW crawl \in BOOLEAN, NEW rough,
         NEW ignored \in SUBSET Crossings,
         Once(s), Free(s), Dated(s), OfferedHere(s, ignored)
  PROVE  /\ Core(StartMovement(s, path, crawl, rough, ignored))
         /\ Waits(StartMovement(s, path, crawl, rough, ignored))
<1>1. CASE Windows(s, path, ignored) = {}
  <2> DEFINE w == Walk(s, path, crawl, rough)
  <2>1. Len(path) \in 0 .. Len(path) /\ SubSeq(path, 1, Len(path)) = path
    BY LenProperties, SubSeqFull
  <2>2. w \in Fights /\ Once(w) /\ Free(w) /\ Dated(w)
    BY <1>1, <2>1, StretchIsFree
  <2>3. StartMovement(s, path, crawl, rough, ignored) =
          [w EXCEPT !.cont = NoMove, !.grant = NoGrant]
    BY <1>1, Zenon DEF StartMovement
  <2> HIDE DEF w
  <2> QED BY <2>2, <2>3, CompletedMoveKeeps
<1>2. CASE Windows(s, path, ignored) # {}
  <2>1. StartMovement(s, path, crawl, rough, ignored) =
          Pause(s, path, crawl, rough, ignored, First(Windows(s, path, ignored)))
    BY <1>2, Zenon DEF StartMovement
  <2> QED BY <1>2, <2>1, PausedMoveKeeps
<1> QED BY <1>1, <1>2

\* A change that leaves the move alone.
SameWalk(r, s) ==
  /\ r \in Fights
  /\ r.at = s.at /\ r.cont = s.cont /\ r.grant = s.grant /\ r.trail = s.trail
  /\ r.asked = s.asked /\ r.move = s.move

LEMMA SameWalkKeeps ==
  ASSUME NEW s, NEW r, Core(s), SameWalk(r, s)
  PROVE  Core(r)
<1>1. Free(r)
  BY FreeExtends DEF Core, SameWalk
<1>2. Once(r) /\ Dated(r)
  BY DEF Core, SameWalk, Once, Dated
<1>3. Held(r)
  BY DEF Core, SameWalk, Held
<1>4. Remembers(r)
  BY DEF Core, SameWalk, Remembers, OfferedHere
<1> QED BY <1>1, <1>2, <1>3, <1>4 DEF Core, SameWalk

\* Cancelling drops the rest and its grant.
LEMMA CancelKeeps ==
  ASSUME NEW s, Core(s)
  PROVE  Core(Cancel(s)) /\ Waits(Cancel(s))
<1> DEFINE r == Cancel(s)
<1>1. s \in Fights /\ Once(s) /\ Free(s) /\ Dated(s)
  BY DEF Core
<1>2. /\ r \in Fights /\ r.cont = NoMove /\ r.grant = NoGrant
      /\ r.trail = s.trail /\ r.asked = s.asked /\ r.move = s.move
  BY <1>1 DEF Cancel, Fights
<1> HIDE DEF r
<1>3. Free(r)
  BY <1>1, <1>2, FreeExtends
<1>4. Once(r) /\ Dated(r)
  BY <1>1, <1>2 DEF Once, Dated
<1>5. Held(r) /\ Remembers(r) /\ Waits(r)
  BY <1>2 DEF Held, Remembers, Waits
<1> QED BY <1>2, <1>3, <1>4, <1>5 DEF Core, r

\* The end of every commit: the rest waits, is cancelled or is walked on.
LEMMA ResumeKeeps ==
  ASSUME NEW s, Core(s)
  PROVE  Core(Resume(s)) /\ Waits(Resume(s))
<1>0. s \in Fights /\ Held(s) /\ Once(s) /\ Free(s) /\ Dated(s) /\ Remembers(s)
  BY DEF Core
<1>1. CASE s.cont = NoMove \/ s.pending \ {"opportunity"} # {}
  BY <1>1 DEF Resume, Waits
<1>2. CASE ~(s.cont = NoMove \/ s.pending \ {"opportunity"} # {}) /\ ~CanGoOn(s)
  <2>1. Resume(s) = Cancel(s)
    BY <1>2 DEF Resume
  <2> QED BY <2>1, CancelKeeps
<1>3. CASE /\ ~(s.cont = NoMove \/ s.pending \ {"opportunity"} # {})
           /\ CanGoOn(s) /\ StillAsked(s)
  <2>1. Resume(s) = s /\ "opportunity" \in s.pending
    BY <1>3 DEF Resume, StillAsked
  <2> QED BY <2>1 DEF Waits
<1>4. CASE /\ ~(s.cont = NoMove \/ s.pending \ {"opportunity"} # {})
           /\ CanGoOn(s) /\ ~StillAsked(s)
  <2>1. Resume(s) = Restart(s)
    BY <1>4 DEF Resume
  <2>2. s.cont \in Rests /\ s.at = s.cont.at
    BY <1>0, <1>4 DEF Fights, CanGoOn
  <2>3. /\ s.cont.path \in Seq(Cells) /\ s.cont.crawl \in BOOLEAN
        /\ s.cont.ignored \in SUBSET Crossings
    BY <2>2 DEF Rests
  <2>4. CASE MayWalk(s, s.cont.path, s.cont.crawl, Difficult)
    <3> DEFINE r == [s EXCEPT !.pending = {}]
    <3>1. SameWalk(r, s)
      BY <1>0 DEF Fights, SameWalk
    <3>2. Restart(s) = StartMovement(r, s.cont.path, s.cont.crawl, Difficult, s.cont.ignored)
      BY <2>4, Zenon DEF Restart
    <3> HIDE DEF r
    <3>3. r \in Fights /\ Once(r) /\ Free(r) /\ Dated(r) /\ Remembers(r)
      BY <3>1, SameWalkKeeps DEF Core
    <3>4. OfferedHere(r, s.cont.ignored)
      <4>1. r.cont = s.cont /\ r.at = r.cont.at /\ r.cont # NoMove
        BY <1>4, <2>2, <3>1 DEF SameWalk
      <4> QED BY <3>3, <4>1 DEF Remembers
    <3> QED BY <2>1, <2>3, <3>2, <3>3, <3>4, StartKeeps
  <2>5. CASE ~MayWalk(s, s.cont.path, s.cont.crawl, Difficult)
    <3>1. Restart(s) = Cancel(s)
      BY <2>5, Zenon DEF Restart
    <3> QED BY <2>1, <3>1, CancelKeeps
  <2> QED BY <2>4, <2>5
<1> QED BY <1>1, <1>2, <1>3, <1>4

\* A trail that grows by steps nobody took willingly.
LEMMA TrailGrows ==
  ASSUME NEW s \in Fights, NEW r \in Fights, NEW more \in Seq(Taken),
         \A i \in 1 .. Len(more) : more[i].how \notin {"walk", "crawl"},
         Once(s), Free(s), Dated(s),
         r.trail = s.trail \o more, r.asked = s.asked, r.move = s.move
  PROVE  Once(r) /\ Free(r) /\ Dated(r)
<1>0. s.trail \in Seq(Taken) /\ s.asked \in Seq(Offers)
  BY DEF Fights
<1>1. /\ Len(r.trail) = Len(s.trail) + Len(more)
      /\ DOMAIN r.trail = 1 .. Len(s.trail) + Len(more)
      /\ \A i \in 1 .. Len(s.trail) + Len(more) : r.trail[i] =
           IF i <= Len(s.trail) THEN s.trail[i] ELSE more[i - Len(s.trail)]
      /\ DOMAIN s.trail = 1 .. Len(s.trail)
      /\ Len(s.trail) \in Nat /\ Len(more) \in Nat
  BY <1>0, ConcatProperties, LenProperties
<1>2. Free(r)
  <2> SUFFICES ASSUME NEW i \in DOMAIN r.trail, r.trail[i].how \in {"walk", "crawl"},
                      NEW t \in r.trail[i].watched, NEW h \in Reach[t],
                      Leaves(r.trail[i].from, r.trail[i].to, t, h)
               PROVE  \E k \in DOMAIN s.asked :
                        s.asked[k] = [move |-> r.trail[i].move, step |-> i,
                                      threat |-> t, reach |-> h]
    BY DEF Free
  <2>1. i <= Len(s.trail)
    <3> SUFFICES ASSUME ~(i <= Len(s.trail)) PROVE FALSE
      OBVIOUS
    <3>1. r.trail[i] = more[i - Len(s.trail)] /\ i - Len(s.trail) \in 1 .. Len(more)
      BY <1>1
    <3> QED BY <3>1
  <2>2. i \in DOMAIN s.trail /\ r.trail[i] = s.trail[i]
    BY <1>1, <2>1
  <2> QED BY <2>2 DEF Free
<1>3. Once(r)
  BY DEF Once
<1>4. Dated(r)
  <2> SUFFICES ASSUME NEW k \in DOMAIN s.asked
               PROVE  /\ s.asked[k].move <= s.move
                      /\ s.asked[k].move = s.move =>
                           s.asked[k].step <= Len(s.trail) + Len(more) + 1
    BY <1>1 DEF Dated
  <2>1. s.asked[k] \in Offers
    BY <1>0, ElementOfSeq, LenProperties
  <2>2. s.asked[k].step \in Nat
    BY <2>1 DEF Offers
  <2> QED BY <1>1, <2>2 DEF Dated
<1> QED BY <1>2, <1>3, <1>4

\* A push is one step, not a willing one.
LEMMA PushIs ==
  ASSUME NEW s \in Fights, NEW cell \in Cells
  PROVE  /\ Steps(s, <<cell>>, "push") \in Seq(Taken)
         /\ \A i \in 1 .. Len(Steps(s, <<cell>>, "push")) :
              Steps(s, <<cell>>, "push")[i].how \notin {"walk", "crawl"}
<1> DEFINE p == <<cell>>
<1>1. p \in Seq(Cells) /\ "push" \in Hows
  BY DEF Hows
<1> HIDE DEF p
<1>2. /\ Steps(s, p, "push") \in Seq(Taken)
      /\ Len(Steps(s, p, "push")) = Len(p)
      /\ \A i \in 1 .. Len(p) : Steps(s, p, "push")[i].how = "push"
  BY <1>1, StepsAre
<1>3. \A i \in 1 .. Len(Steps(s, p, "push")) :
        Steps(s, p, "push")[i].how \notin {"walk", "crawl"}
  BY <1>2
<1> QED BY <1>2, <1>3 DEF p

\* Blows change what the mover can do, and may push it off its place.
LEMMA StruckKeeps ==
  ASSUME NEW s, Core(s), NEW blow \in Blows \cup {"defense"}
  PROVE  Core(Struck(s, blow))
<1> DEFINE pushed == blow = "pushed" /\ s.at < LastCell
           pending == s.pending \cup Opens(blow)
           prone == s.prone \/ blow = "prone"
           condition == CASE blow \in {"down", "down_rescue"} -> "down"
                          [] blow = "stopped" /\ s.condition = "able" -> "stopped"
                          [] OTHER -> s.condition
           at == IF pushed THEN s.at + 1 ELSE s.at
           trail == IF pushed THEN s.trail \o Steps(s, <<s.at + 1>>, "push") ELSE s.trail
           r == Struck(s, blow)
<1>0. s \in Fights /\ Held(s) /\ Once(s) /\ Free(s) /\ Dated(s) /\ Remembers(s)
  BY DEF Core
<1>1. pending \in SUBSET Choices
  <2>1. Opens(blow) \subseteq Choices
    BY DEF Opens, Choices
  <2> QED BY <1>0, <2>1 DEF Fights
<1>2. prone \in BOOLEAN
  OBVIOUS
<1>3. condition \in {"able", "stopped", "down"}
  BY <1>0 DEF Fights
<1>4. s.at \in Cells /\ (pushed => s.at + 1 \in Cells)
  BY <1>0, CellsAre DEF Fights
<1>5. at \in Cells
  BY <1>4
<1>6. trail \in Seq(Taken)
  <2>1. s.trail \in Seq(Taken)
    BY <1>0 DEF Fights
  <2>2. pushed => Steps(s, <<s.at + 1>>, "push") \in Seq(Taken)
    BY <1>0, <1>4, PushIs
  <2> QED BY <2>1, <2>2, ConcatProperties
<1>7. r = [s EXCEPT !.pending = pending, !.prone = prone, !.condition = condition,
                    !.at = at, !.trail = trail]
  BY Zenon DEF Struck
<1> HIDE DEF pending, prone, condition, r
<1>8. /\ r \in Fights /\ r.at = at /\ r.trail = trail /\ r.cont = s.cont
      /\ r.grant = s.grant /\ r.asked = s.asked /\ r.move = s.move
  <2> HIDE DEF at, trail
  <2>1. /\ [s EXCEPT !.pending = pending, !.prone = prone, !.condition = condition,
                     !.at = at, !.trail = trail] \in Fights
        /\ r.at = at /\ r.trail = trail /\ r.cont = s.cont
        /\ r.grant = s.grant /\ r.asked = s.asked /\ r.move = s.move
    BY <1>0, <1>1, <1>2, <1>3, <1>5, <1>6, <1>7 DEF Fights, Choices
  <2> QED BY <1>7, <2>1, Zenon
<1>9. CASE ~pushed
  <2>1. SameWalk(r, s)
    BY <1>8, <1>9 DEF SameWalk
  <2> QED BY <2>1, SameWalkKeeps DEF r
<1>10. CASE pushed
  <2>1. r.trail = s.trail \o Steps(s, <<s.at + 1>>, "push") /\ r.at = s.at + 1
    BY <1>8, <1>10
  <2>2. Once(r) /\ Free(r) /\ Dated(r)
    <3> DEFINE more == Steps(s, <<s.at + 1>>, "push")
    <3>1. /\ more \in Seq(Taken)
          /\ \A i \in 1 .. Len(more) : more[i].how \notin {"walk", "crawl"}
      BY <1>0, <1>4, <1>10, PushIs
    <3>2. r.trail = s.trail \o more
      BY <2>1
    <3> HIDE DEF more
    <3> QED BY <1>0, <1>8, <3>1, <3>2, TrailGrows
  <2>3. Held(r)
    BY <1>0, <1>8 DEF Held
  <2>4. Remembers(r)
    <3>1. CASE s.cont = NoMove
      BY <1>8, <3>1 DEF Remembers
    <3>2. CASE s.cont # NoMove
      <4>1. s.cont.at \in Cells
        BY <1>0, <3>2 DEF Fights, Rests
      <4>2. s.cont.at <= s.at
        BY <1>0, <3>2 DEF Remembers
      <4>3. s.cont.at \in Int /\ s.at \in Int
        BY <1>4, <4>1, CellsAre
      <4>4. r.cont.at <= r.at /\ r.at # r.cont.at
        BY <1>8, <2>1, <4>2, <4>3
      <4> QED BY <4>4 DEF Remembers
    <3> QED BY <3>1, <3>2
  <2> QED BY <1>8, <2>2, <2>3, <2>4 DEF Core, r
<1> QED BY <1>9, <1>10

(***************************************************************************)
(* The steps.                                                              *)
(***************************************************************************)
\* A commit of an encounter of the right shape stores one that is again.
LEMMA CommitKeeps ==
  ASSUME NEW s, Core(s), Commit(s)
  PROVE  IInv'
<1>1. fight' = Resume(s)
  BY DEF Commit
<1>2. Core(Resume(s)) /\ Waits(Resume(s))
  BY ResumeKeeps
<1>3. Core(fight') /\ Waits(fight')
  BY <1>1, <1>2, Zenon
<1> QED BY <1>3 DEF IInv, Core, Waits, Held, Once, Free, Dated, Remembers, OfferedHere

LEMMA InitHolds == Init => IInv
<1> SUFFICES ASSUME Init PROVE IInv
  OBVIOUS
<1>1. fight \in Fights
  <2>1. Start \in Cells
    BY LineAssumption, CellsAre
  <2>2. <<>> \in Seq(Taken) /\ <<>> \in Seq(Offers)
    BY EmptySeq
  <2> QED BY <2>1, <2>2 DEF Init, Fights
<1>2. /\ fight.cont = NoMove /\ fight.grant = NoGrant
      /\ fight.trail = <<>> /\ fight.asked = <<>>
  BY DEF Init
<1>3. DOMAIN fight.trail = {} /\ DOMAIN fight.asked = {}
  BY <1>2, EmptySeq
<1> QED BY <1>1, <1>2, <1>3 DEF IInv, Core, Held, Once, Free, Dated, Remembers, Waits

\* The number of the move that starts is new, so nothing was offered in it.
LEMMA NewMove ==
  ASSUME NEW s, NEW r, Core(s), r \in Fights, r.trail = s.trail, r.asked = s.asked,
         r.move = s.move + 1
  PROVE  Once(r) /\ Free(r) /\ Dated(r) /\ OfferedHere(r, {})
<1>0. s \in Fights /\ Once(s) /\ Free(s) /\ Dated(s) /\ s.move \in Nat
      /\ s.asked \in Seq(Offers)
  BY DEF Core, Fights
<1>1. \A k \in DOMAIN s.asked : s.asked[k].move <= s.move /\ s.asked[k].move \in Nat
  <2> TAKE k \in DOMAIN s.asked
  <2>1. s.asked[k] \in Offers
    BY <1>0, ElementOfSeq, LenProperties
  <2> QED BY <1>0, <2>1 DEF Dated, Offers
<1>2. \A k \in DOMAIN r.asked : r.asked[k].move <= r.move /\ r.asked[k].move # r.move
  BY <1>0, <1>1
<1>3. Dated(r) /\ OfferedHere(r, {})
  BY <1>2 DEF Dated, OfferedHere
<1>4. Free(r)
  BY <1>0, FreeExtends
<1>5. Once(r)
  BY <1>0 DEF Once
<1> QED BY <1>3, <1>4, <1>5

\* A path asked for is a sequence of cells.
LEMMA PathsAre ==
  ASSUME NEW from \in Cells, NEW path \in PathsFrom[from]
  PROVE  path \in Seq(Cells)
<1>1. path \in UNION {[1 .. n -> Cells] : n \in 1 .. MaxPath}
  BY DEF PathsFrom
<1>2. PICK n \in 1 .. MaxPath : path \in [1 .. n -> Cells]
  BY <1>1
<1>3. n \in Nat
  BY LineAssumption
<1> QED BY <1>2, <1>3

\* Contacts on the way may strike the mover too.
LEMMA MetKeeps ==
  ASSUME NEW s \in Fights, NEW path \in Seq(Cells), NEW moved, Core(moved), NEW blow \in Contact
  PROVE  Core(Met(s, path, moved, blow))
<1> DEFINE contacts == Contacts(s, path, moved.at)
           r == [moved EXCEPT !.met = moved.met \cup contacts]
<1>0. blow \in Blows
  BY DEF Contact, Blows
<1>1. CASE contacts = {}
  BY <1>1 DEF Met
<1>2. CASE contacts # {}
  <2>1. Len(s.trail) \in Nat
    BY LenProperties DEF Fights
  <2>2. contacts \subseteq Int
    <3>1. Entries(RouteWalked(Route(s.at, path), moved.at)) \subseteq Int
      BY DEF Entries
    <3> HIDE DEF contacts
    <3> QED BY <2>1, <3>1 DEF Contacts, contacts
  <2> HIDE DEF contacts
  <2>3. SameWalk(r, moved)
    BY <2>2 DEF Core, Fights, SameWalk
  <2>4. Met(s, path, moved, blow) = Struck(r, blow)
    BY <1>2, Zenon DEF Met, contacts
  <2> HIDE DEF r
  <2>5. Core(r)
    BY <2>3, SameWalkKeeps
  <2> QED BY <1>0, <2>4, <2>5, StruckKeeps
<1> QED BY <1>1, <1>2

LEMMA MoveKeeps ==
  ASSUME IInv, NEW path \in PathsFrom[fight.at], NEW blow \in Contact,
         Move(path, fight.prone, blow)
  PROVE  IInv'
<1> DEFINE s == [fight EXCEPT !.move = fight.move + 1]
           crawl == fight.prone
           rough == Difficult \cup Sphere
           moved == StartMovement(s, path, crawl, rough, {})
<1>1. Core(fight) /\ fight \in Fights /\ fight.at \in Cells /\ crawl \in BOOLEAN
  BY DEF IInv, Core, Fights
<1>2. /\ s \in Fights /\ s.trail = fight.trail /\ s.asked = fight.asked
      /\ s.move = fight.move + 1
  BY <1>1 DEF Fights
<1>3. path \in Seq(Cells)
  BY <1>1, PathsAre
<1>4. Commit(Met(s, path, moved, blow))
  BY Zenon DEF Move
<1> HIDE DEF s
<1>5. Once(s) /\ Free(s) /\ Dated(s) /\ OfferedHere(s, {})
  BY <1>1, <1>2, NewMove
<1> HIDE DEF crawl, rough
<1>6. Core(moved)
  BY <1>1, <1>2, <1>3, <1>5, StartKeeps
<1> HIDE DEF moved
<1>7. Core(Met(s, path, moved, blow))
  BY <1>2, <1>3, <1>6, MetKeeps
<1> QED BY <1>4, <1>7, CommitKeeps

LEMMA SourceMoveKeeps ==
  ASSUME IInv, NEW path \in PathsFrom[fight.at], NEW payment \in Payments,
         SourceMove(path, fight.prone, payment)
  PROVE  IInv'
<1> DEFINE s == Granted(fight, payment)
           crawl == fight.prone
           main == IF payment = "action" THEN fight.main - 1 ELSE fight.main
           reaction == IF payment = "reaction" THEN fight.reaction - 1 ELSE fight.reaction
           grant == [kind |-> "grant", payment |-> payment, left |-> Speed]
           moved == StartMovement(s, path, crawl, Difficult, {})
<1>1. Core(fight) /\ fight \in Fights /\ fight.at \in Cells /\ crawl \in BOOLEAN
  BY DEF IInv, Core, Fights
<1>2. main \in Int /\ reaction \in Int /\ fight.move + 1 \in Nat
  BY <1>1 DEF Fights
<1>3. grant \in Grants
  BY PaymentAssumption, LineAssumption DEF Grants, Pays
<1>4. s = [fight EXCEPT !.grant = grant, !.main = main, !.reaction = reaction,
                        !.move = fight.move + 1]
  BY Zenon DEF Granted
<1>5. Commit(moved)
  BY Zenon DEF SourceMove
<1> HIDE DEF s, grant, main, reaction
<1>6. /\ s \in Fights /\ s.trail = fight.trail /\ s.asked = fight.asked
      /\ s.move = fight.move + 1
  <2>1. /\ [fight EXCEPT !.grant = grant, !.main = main, !.reaction = reaction,
                         !.move = fight.move + 1] \in Fights
        /\ s.trail = fight.trail /\ s.asked = fight.asked
        /\ s.move = fight.move + 1
    BY <1>1, <1>2, <1>3, <1>4 DEF Fights
  <2> QED BY <1>4, <2>1, Zenon
<1>7. path \in Seq(Cells)
  BY <1>1, PathsAre
<1>8. Once(s) /\ Free(s) /\ Dated(s) /\ OfferedHere(s, {})
  BY <1>1, <1>6, NewMove
<1> HIDE DEF crawl
<1>9. Core(moved)
  BY <1>1, <1>6, <1>7, <1>8, StartKeeps
<1> HIDE DEF moved
<1> QED BY <1>5, <1>9, CommitKeeps

\* With no choice open no move is stored, so a step aside disturbs nothing.
LEMMA AsideKeeps ==
  ASSUME IInv, fight.pending = {}, NEW r \in Fights, NEW more \in Seq(Taken),
         \A i \in 1 .. Len(more) : more[i].how \notin {"walk", "crawl"},
         r.trail = fight.trail \o more, r.asked = fight.asked, r.move = fight.move,
         r.cont = fight.cont, r.grant = fight.grant
  PROVE  Core(r)
<1>1. /\ fight \in Fights /\ Once(fight) /\ Free(fight) /\ Dated(fight) /\ Held(fight)
      /\ fight.cont = NoMove
  BY DEF IInv, Core, Waits
<1>2. Once(r) /\ Free(r) /\ Dated(r)
  BY <1>1, TrailGrows
<1>3. Held(r) /\ Remembers(r)
  BY <1>1 DEF Held, Remembers
<1> QED BY <1>2, <1>3 DEF Core

LEMMA PushKeeps ==
  ASSUME IInv, NEW cell \in Cells, NEW blow \in Contact, Push(cell, blow)
  PROVE  IInv'
<1> DEFINE more == Steps(fight, <<cell>>, "push")
           trail == fight.trail \o more
           pushed == [fight EXCEPT !.at = cell, !.trail = trail]
           path == <<cell>>
<1>1. fight \in Fights /\ fight.pending = {} /\ Commit(Met(fight, path, pushed, blow))
  BY DEF IInv, Core, Push
<1>2. more \in Seq(Taken) /\ \A i \in 1 .. Len(more) : more[i].how \notin {"walk", "crawl"}
  BY <1>1, PushIs
<1>3. path \in Seq(Cells)
  OBVIOUS
<1> HIDE DEF more, path
<1>4. trail \in Seq(Taken)
  <2>1. fight.trail \in Seq(Taken)
    BY <1>1 DEF Fights
  <2> QED BY <1>2, <2>1, ConcatProperties
<1> HIDE DEF trail
<1>5. /\ pushed \in Fights /\ pushed.trail = trail /\ pushed.asked = fight.asked
      /\ pushed.move = fight.move /\ pushed.cont = fight.cont /\ pushed.grant = fight.grant
  BY <1>1, <1>4 DEF Fights
<1> HIDE DEF pushed
<1>6. Core(pushed)
  BY <1>1, <1>2, <1>5, AsideKeeps DEF trail
<1>7. Core(Met(fight, path, pushed, blow))
  BY <1>1, <1>3, <1>6, MetKeeps
<1> QED BY <1>1, <1>7, CommitKeeps

LEMMA StandKeeps ==
  ASSUME IInv, Stand
  PROVE  IInv'
<1> DEFINE step == [how |-> "stand", from |-> fight.at, to |-> fight.at,
                    move |-> fight.move, watched |-> {}, payment |-> "movement"]
           spent == fight.spent + Speed \div 2
           trail == Append(fight.trail, step)
           more == <<step>>
           r == [fight EXCEPT !.prone = FALSE, !.spent = spent, !.trail = trail]
<1>1. fight \in Fights /\ fight.pending = {} /\ Commit(r)
  BY DEF IInv, Core, Stand
<1>2. step \in Taken /\ step.how = "stand"
  BY <1>1 DEF Fights, Taken, Hows, Pays
<1>3. spent \in Int
  BY <1>1, LineAssumption DEF Fights
<1> HIDE DEF step, spent
<1>4. more \in Seq(Taken) /\ \A i \in 1 .. Len(more) : more[i].how \notin {"walk", "crawl"}
  BY <1>2
<1>5. fight.trail \in Seq(Taken)
  BY <1>1 DEF Fights
<1>6. trail \in Seq(Taken) /\ trail = fight.trail \o more
  BY <1>2, <1>5, AppendProperties, AppendIsConcat
<1> HIDE DEF trail, more
<1>7. /\ r \in Fights /\ r.trail = trail /\ r.asked = fight.asked
      /\ r.move = fight.move /\ r.cont = fight.cont /\ r.grant = fight.grant
  BY <1>1, <1>3, <1>6 DEF Fights
<1> HIDE DEF r
<1>8. Core(r)
  BY <1>1, <1>4, <1>6, <1>7, AsideKeeps
<1> QED BY <1>1, <1>8, CommitKeeps

\* Answers and what else happens change only choices, reactions and conditions,
\* before a blow falls.
LEMMA AnswerKeeps ==
  ASSUME IInv, Answer
  PROVE  IInv'
<1>0. Core(fight) /\ fight \in Fights
  BY DEF IInv, Core
<1>1. ASSUME Decline PROVE IInv'
  <2>1. SameWalk(Answered(fight), fight)
    BY <1>0 DEF SameWalk, Answered, Fights
  <2>2. Core(Answered(fight))
    BY <1>0, <2>1, SameWalkKeeps
  <2> QED BY <1>1, <2>2, CommitKeeps DEF Decline
<1>2. ASSUME NEW blow \in Blows \cup {"defense"}, React(blow) PROVE IInv'
  <2> DEFINE t == fight.cont.window.threat
             a == Answered(fight)
             r == [a EXCEPT !.ready = a.ready \ {t}]
  <2>1. SameWalk(a, fight)
    BY <1>0 DEF SameWalk, Answered, Fights
  <2>2. Commit(Struck(r, blow))
    BY <1>2, Zenon DEF React
  <2> HIDE DEF a, t
  <2>3. Core(a) /\ a \in Fights
    BY <1>0, <2>1, SameWalkKeeps DEF Core
  <2>4. SameWalk(r, a)
    BY <2>3 DEF SameWalk, Fights
  <2> HIDE DEF r
  <2>5. Core(Struck(r, blow))
    BY <2>3, <2>4, SameWalkKeeps, StruckKeeps
  <2> QED BY <2>2, <2>5, CommitKeeps
<1>3. ASSUME NEW blow \in Blows, Defend(blow) PROVE IInv'
  <2> DEFINE r == [fight EXCEPT !.pending = fight.pending \ {"defense"}]
  <2>1. Commit(Struck(r, blow))
    BY <1>3, Zenon DEF Defend
  <2>2. SameWalk(r, fight)
    BY <1>0 DEF SameWalk, Fights
  <2> HIDE DEF r
  <2>3. Core(Struck(r, blow))
    BY <1>0, <2>2, SameWalkKeeps, StruckKeeps
  <2> QED BY <2>1, <2>3, CommitKeeps
<1>4. ASSUME Concentrate PROVE IInv'
  <2> DEFINE r == [fight EXCEPT !.pending = fight.pending \ {"concentration"}]
  <2>1. Commit(r)
    BY <1>4, Zenon DEF Concentrate
  <2>2. SameWalk(r, fight)
    BY <1>0 DEF SameWalk, Fights
  <2> HIDE DEF r
  <2> QED BY <1>0, <2>1, <2>2, SameWalkKeeps, CommitKeeps
<1>5. ASSUME NEW saved \in BOOLEAN, Rescue(saved) PROVE IInv'
  <2> DEFINE c == IF saved THEN "able" ELSE fight.condition
             r == [fight EXCEPT !.pending = fight.pending \ {"rescue"}, !.condition = c]
  <2>1. Commit(r)
    BY <1>5, Zenon DEF Rescue
  <2>2. c \in {"able", "stopped", "down"}
    BY <1>0 DEF Fights
  <2> HIDE DEF c
  <2>3. SameWalk(r, fight)
    BY <1>0, <2>2 DEF SameWalk, Fights
  <2> HIDE DEF r
  <2> QED BY <1>0, <2>1, <2>3, SameWalkKeeps, CommitKeeps
<1> QED BY <1>1, <1>2, <1>3, <1>4, <1>5 DEF Answer

LEMMA NextKeeps == IInv /\ [Next]_vars => IInv'
<1> SUFFICES ASSUME IInv, [Next]_vars PROVE IInv'
  OBVIOUS
<1>0. Core(fight) /\ fight \in Fights
  BY DEF IInv, Core
<1>1. ASSUME NEW blow \in Blows, Suffer(blow) PROVE IInv'
  <2>1. Core(Struck(fight, blow))
    BY <1>0, StruckKeeps
  <2> QED BY <1>1, <2>1, CommitKeeps DEF Suffer
<1>2. ASSUME NEW t \in Threats, Disable(t) PROVE IInv'
  <2> DEFINE r == [fight EXCEPT !.ready = fight.ready \ {t}]
  <2>1. Commit(r)
    BY <1>2, Zenon DEF Disable
  <2>2. SameWalk(r, fight)
    BY <1>0 DEF SameWalk, Fights
  <2> HIDE DEF r
  <2> QED BY <1>0, <2>1, <2>2, SameWalkKeeps, CommitKeeps
<1>3. ASSUME Disengage PROVE IInv'
  <2> DEFINE m == fight.main - 1
             r == [fight EXCEPT !.main = m, !.disengaged = TRUE]
  <2>1. Commit(r)
    BY <1>3, Zenon DEF Disengage
  <2>2. m \in Int
    BY <1>0 DEF Fights
  <2> HIDE DEF m
  <2>3. SameWalk(r, fight)
    BY <1>0, <2>2 DEF SameWalk, Fights
  <2> HIDE DEF r
  <2> QED BY <1>0, <2>1, <2>3, SameWalkKeeps, CommitKeeps
<1>4. CASE UNCHANGED vars
  <2>1. fight' = fight
    BY <1>4 DEF vars
  <2> QED BY <2>1 DEF IInv, Core, Waits, Held, Once, Free, Dated, Remembers, OfferedHere
<1> QED BY <1>1, <1>2, <1>3, <1>4, MoveKeeps, SourceMoveKeeps, PushKeeps, StandKeeps,
           AnswerKeeps DEF Next

LEMMA IInvAlways == Spec => []IInv
BY InitHolds, NextKeeps, PTL DEF Spec

(***************************************************************************)
(* The theorems.                                                           *)
(***************************************************************************)
\* However a move is interrupted, resumed, cancelled or finished, a source's
\* grant of movement ends with it (_finish_source_movement).
THEOREM GrantEnds == Spec => []GrantEndsWithMove
<1>1. IInv => GrantEndsWithMove
  BY DEF IInv, Core, Held, GrantEndsWithMove
<1> QED BY <1>1, IInvAlways, PTL

\* No crossing is offered twice, although each resumption plans the rest of the
\* path again: the crossings remembered with the rest are exactly those offered
\* for its first step.
THEOREM OfferedAtMostOnce == Spec => []OfferedOnce
<1>1. IInv => OfferedOnce
  BY DEF IInv, Core, Once, OfferedOnce
<1> QED BY <1>1, IInvAlways, PTL

\* No willing step leaves the reach of a threat that could react, unless this
\* very crossing was offered to it in this move.
THEOREM NobodyLeavesFree == Spec => []NoFreeExit
<1>1. IInv => NoFreeExit
  BY DEF IInv, Core, Free, NoFreeExit
<1> QED BY <1>1, IInvAlways, PTL
(***************************************************************************)
(* Payment.  The price of a trail is a sum over its steps, so it grows by   *)
(* what Walk charges; and what pays for a move, an action or a reaction,    *)
(* pays for no other.                                                      *)
(***************************************************************************)
Count(trail, S) == Cardinality({i \in DOMAIN trail : trail[i] \in S})
Way(how, payment) == {x \in Taken : x.how = how /\ x.payment = payment}
Slowed(payment) ==
  {x \in Taken : x.how \in {"walk", "crawl"} /\ x.payment = payment /\ x.to \in Difficult}
Bill(trail, payment) ==
  Count(trail, Way("walk", payment)) + 2 * Count(trail, Way("crawl", payment))
    + Count(trail, Slowed(payment)) + (Speed \div 2) * Count(trail, Way("stand", payment))

\* The steps of a trail that are of some kind are finitely many.
LEMMA CountIs ==
  ASSUME NEW a \in Seq(Taken), NEW S
  PROVE  /\ IsFiniteSet({i \in DOMAIN a : a[i] \in S})
         /\ Count(a, S) \in Nat
<1>1. DOMAIN a = 1 .. Len(a) /\ Len(a) \in Nat
  BY LenProperties
<1>2. IsFiniteSet(1 .. Len(a))
  BY <1>1, FS_Interval
<1>3. {i \in DOMAIN a : a[i] \in S} \in SUBSET (1 .. Len(a))
  BY <1>1
<1>4. IsFiniteSet({i \in DOMAIN a : a[i] \in S})
  BY <1>2, <1>3, FS_Subset
<1> QED BY <1>4, FS_CardinalityType DEF Count

LEMMA CountConcat ==
  ASSUME NEW a \in Seq(Taken), NEW b \in Seq(Taken), NEW S
  PROVE  Count(a \o b, S) = Count(a, S) + Count(b, S)
<1> DEFINE A == {i \in DOMAIN a : a[i] \in S}
           B == {i \in DOMAIN b : b[i] \in S}
           C == {i \in DOMAIN (a \o b) : (a \o b)[i] \in S}
           n == Len(a)
           D == {i \in C : i > n}
           f == [i \in B |-> i + n]
<1>1. /\ DOMAIN a = 1 .. n /\ DOMAIN b = 1 .. Len(b) /\ n \in Nat /\ Len(b) \in Nat
      /\ DOMAIN (a \o b) = 1 .. n + Len(b)
      /\ \A i \in 1 .. n + Len(b) : (a \o b)[i] = IF i <= n THEN a[i] ELSE b[i - n]
  BY ConcatProperties, LenProperties
<1>2. IsFiniteSet(A) /\ IsFiniteSet(B) /\ Cardinality(A) \in Nat /\ Cardinality(B) \in Nat
  BY CountIs, FS_CardinalityType
<1>3. C = A \cup D /\ A \cap D = {}
  <2>1. ASSUME NEW i \in C PROVE i \in A \/ i \in D
    BY <1>1
  <2>2. ASSUME NEW i \in A PROVE i \in C /\ i \notin D
    <3>1. i \in 1 .. n + Len(b) /\ i <= n
      BY <1>1
    <3> QED BY <1>1, <3>1
  <2> QED BY <2>1, <2>2
<1>4. ASSUME NEW i \in B PROVE i + n \in D
  <2>1. i + n \in 1 .. n + Len(b) /\ ~(i + n <= n) /\ (i + n) - n = i
    BY <1>1
  <2> QED BY <1>1, <2>1
<1>5. ASSUME NEW i \in D PROVE i - n \in B /\ f[i - n] = i
  <2>1. i \in 1 .. n + Len(b) /\ ~(i <= n) /\ (a \o b)[i] \in S
    BY <1>1
  <2>2. i - n \in 1 .. Len(b) /\ (i - n) + n = i /\ b[i - n] \in S
    BY <1>1, <2>1
  <2> QED BY <1>1, <2>2
<1>6. f \in Bijection(B, D)
  <2>1. f \in [B -> D]
    BY <1>4
  <2>2. f \in Injection(B, D)
    <3> SUFFICES ASSUME NEW i \in B, NEW j \in B, f[i] = f[j] PROVE i = j
      BY <2>1 DEF Injection, IsInjective
    <3> QED BY <1>1
  <2>3. f \in Surjection(B, D)
    <3>1. \A i \in D : \E j \in B : f[j] = i
      BY <1>5
    <3> QED BY <2>1, <3>1 DEF Surjection
  <2> QED BY <2>2, <2>3 DEF Bijection
<1>7. IsFiniteSet(D) /\ Cardinality(D) = Cardinality(B)
  BY <1>2, <1>6, FS_Bijection DEF ExistsBijection
<1> HIDE DEF A, B, C, D
<1>8. Cardinality(C) = Cardinality(A) + Cardinality(B)
  <2>1. Cardinality(A \cup D) = Cardinality(A) + Cardinality(D) - Cardinality(A \cap D)
    BY <1>2, <1>7, FS_Union
  <2>2. A \cap D = {} /\ Cardinality({}) = 0
    BY <1>3, FS_EmptySet
  <2>3. Cardinality(A \cap D) = 0
    BY <2>2
  <2>4. Cardinality(C) = Cardinality(A \cup D)
    BY <1>3
  <2> QED BY <1>2, <1>7, <2>1, <2>3, <2>4
<1> QED BY <1>8 DEF Count, A, B, C

LEMMA HalfSpeed == Speed \in Nat /\ Speed \div 2 \in Nat /\ Speed \div 2 <= Speed
BY LineAssumption

LEMMA Distributes ==
  ASSUME NEW h \in Nat, NEW x \in Nat, NEW y \in Nat
  PROVE  h * (x + y) = h * x + h * y /\ h * x \in Nat /\ h * y \in Nat
OBVIOUS

LEMMA BillIsNat ==
  ASSUME NEW a \in Seq(Taken), NEW p
  PROVE  Bill(a, p) \in Nat
<1> DEFINE h == Speed \div 2
           st == Count(a, Way("stand", p))
<1>1. h \in Nat /\ st \in Nat
  BY HalfSpeed, CountIs
<1>2. /\ Count(a, Way("walk", p)) \in Nat /\ Count(a, Way("crawl", p)) \in Nat
      /\ Count(a, Slowed(p)) \in Nat
  BY CountIs
<1> HIDE DEF h, st
<1>3. h * st \in Nat
  BY <1>1, Distributes
<1> QED BY <1>2, <1>3 DEF Bill, h, st

LEMMA SumsAdd ==
  ASSUME NEW w \in Nat, NEW c \in Nat, NEW m \in Nat, NEW t \in Nat,
         NEW w2 \in Nat, NEW c2 \in Nat, NEW m2 \in Nat, NEW t2 \in Nat
  PROVE  (w + w2) + 2 * (c + c2) + (m + m2) + (t + t2) =
           (w + 2 * c + m + t) + (w2 + 2 * c2 + m2 + t2)
OBVIOUS

LEMMA BillAdds ==
  ASSUME NEW a \in Seq(Taken), NEW b \in Seq(Taken), NEW p
  PROVE  Bill(a \o b, p) = Bill(a, p) + Bill(b, p)
<1> DEFINE h == Speed \div 2
           w == Count(a, Way("walk", p))
           c == Count(a, Way("crawl", p))
           m == Count(a, Slowed(p))
           t == Count(a, Way("stand", p))
           w2 == Count(b, Way("walk", p))
           c2 == Count(b, Way("crawl", p))
           m2 == Count(b, Slowed(p))
           t2 == Count(b, Way("stand", p))
<1>1. /\ h \in Nat /\ w \in Nat /\ c \in Nat /\ m \in Nat /\ t \in Nat
      /\ w2 \in Nat /\ c2 \in Nat /\ m2 \in Nat /\ t2 \in Nat
  BY CountIs, HalfSpeed
<1>2. /\ Count(a \o b, Way("walk", p)) = w + w2
      /\ Count(a \o b, Way("crawl", p)) = c + c2
      /\ Count(a \o b, Slowed(p)) = m + m2
      /\ Count(a \o b, Way("stand", p)) = t + t2
  BY CountConcat
<1>3. /\ Bill(a, p) = w + 2 * c + m + h * t
      /\ Bill(b, p) = w2 + 2 * c2 + m2 + h * t2
  BY DEF Bill
<1>4. Bill(a \o b, p) = (w + w2) + 2 * (c + c2) + (m + m2) + h * (t + t2)
  BY <1>2 DEF Bill
<1> HIDE DEF h, w, c, m, t, w2, c2, m2, t2
<1>5. h * (t + t2) = h * t + h * t2 /\ h * t \in Nat /\ h * t2 \in Nat
  BY <1>1, Distributes
<1> DEFINE x == h * t
           y == h * t2
<1>6. /\ x \in Nat /\ y \in Nat
      /\ Bill(a, p) = w + 2 * c + m + x
      /\ Bill(b, p) = w2 + 2 * c2 + m2 + y
      /\ Bill(a \o b, p) = (w + w2) + 2 * (c + c2) + (m + m2) + (x + y)
  BY <1>3, <1>4, <1>5
<1> HIDE DEF x, y
<1> QED BY <1>1, <1>6, SumsAdd

LEMMA CountAll ==
  ASSUME NEW b \in Seq(Taken), NEW S, \A i \in 1 .. Len(b) : b[i] \in S
  PROVE  Count(b, S) = Len(b)
<1>1. DOMAIN b = 1 .. Len(b) /\ Len(b) \in Nat
  BY LenProperties
<1>2. {i \in DOMAIN b : b[i] \in S} = 1 .. Len(b)
  BY <1>1
<1>3. Cardinality(1 .. Len(b)) = Len(b)
  BY <1>1, FS_Interval
<1> QED BY <1>2, <1>3 DEF Count

LEMMA CountNone ==
  ASSUME NEW b \in Seq(Taken), NEW S, \A i \in 1 .. Len(b) : b[i] \notin S
  PROVE  Count(b, S) = 0
<1>1. DOMAIN b = 1 .. Len(b) /\ Len(b) \in Nat
  BY LenProperties
<1>2. {i \in DOMAIN b : b[i] \in S} = {}
  BY <1>1
<1> QED BY <1>2, FS_EmptySet DEF Count

\* Steps that cost nothing, or that something else paid for.
LEMMA FreeOfCharge ==
  ASSUME NEW b \in Seq(Taken), NEW p,
         \A i \in 1 .. Len(b) : b[i].how = "push" \/ b[i].payment # p
  PROVE  Bill(b, p) = 0
<1>1. \A how \in {"walk", "crawl", "stand"} : Count(b, Way(how, p)) = 0
  BY CountNone DEF Way
<1>2. Count(b, Slowed(p)) = 0
  BY CountNone DEF Slowed
<1> DEFINE h == Speed \div 2
<1>3. h \in Nat
  BY HalfSpeed
<1> HIDE DEF h
<1>4. h * 0 = 0
  BY <1>3
<1> QED BY <1>1, <1>2, <1>4 DEF Bill, h

\* What pays for the steps of a stretch.
Payer(s) == IF s.grant = NoGrant THEN "movement" ELSE s.grant.payment

LEMMA StepsPay ==
  ASSUME NEW s \in Fights, NEW path \in Seq(Cells), NEW how
  PROVE  \A i \in 1 .. Len(path) : Steps(s, path, how)[i].payment = Payer(s)
BY Zenon DEF Steps, Payer

\* A stretch costs its payer what Walk charges for it, on a map whose sphere adds
\* no difficult terrain.
LEMMA StretchBill ==
  ASSUME NEW s \in Fights, NEW path \in Seq(Cells), NEW crawl \in BOOLEAN, NEW p
  PROVE  Bill(Steps(s, path, Pace(crawl)), p) =
           IF p = Payer(s) THEN Cost(path, crawl, Difficult) ELSE 0
<1> DEFINE how == Pace(crawl)
           b == Steps(s, path, how)
           n == Len(path)
<1>1. how \in Hows /\ how \in {"walk", "crawl"} /\ (how = "crawl" <=> crawl)
  BY DEF Pace, Hows
<1> HIDE DEF how
<1>2. /\ b \in Seq(Taken) /\ Len(b) = n
      /\ \A i \in 1 .. n : b[i].how = how /\ b[i].to = path[i]
  BY <1>1, StepsAre
<1>3. \A i \in 1 .. n : b[i].payment = Payer(s)
  BY StepsPay
<1>n. n \in Nat /\ DOMAIN b = 1 .. n
  BY <1>2, LenProperties
<1> HIDE DEF b
<1>4. CASE p # Payer(s)
  BY <1>2, <1>3, <1>4, FreeOfCharge DEF b, how
<1>5. CASE p = Payer(s)
  <2>1. \A i \in 1 .. n : b[i] \in Taken
    BY <1>2, ElementOfSeq
  <2>2. Count(b, Way(how, p)) = n
    <3>1. \A i \in 1 .. Len(b) : b[i] \in Way(how, p)
      BY <1>2, <1>3, <1>5, <2>1 DEF Way
    <3> QED BY <1>2, <3>1, CountAll
  <2>3. ASSUME NEW other, other # how PROVE Count(b, Way(other, p)) = 0
    <3>1. \A i \in 1 .. Len(b) : b[i] \notin Way(other, p)
      BY <1>2, <2>3 DEF Way
    <3> QED BY <1>2, <3>1, CountNone
  <2>4. Count(b, Slowed(p)) = Cardinality({i \in 1 .. n : path[i] \in Difficult})
    <3>1. {i \in DOMAIN b : b[i] \in Slowed(p)} = {i \in 1 .. n : path[i] \in Difficult}
      BY <1>1, <1>2, <1>3, <1>5, <1>n, <2>1 DEF Slowed
    <3> QED BY <3>1 DEF Count
  <2>5. Cardinality({i \in 1 .. n : path[i] \in Difficult}) \in Nat
    BY <1>2, <2>4, CountIs
  <2> DEFINE h == Speed \div 2
  <2>6. h \in Nat
    BY HalfSpeed
  <2> HIDE DEF h
  <2>7. h * 0 = 0
    BY <2>6
  <2>8. Count(b, Way("stand", p)) = 0
    BY <1>1, <2>3
  <2>9. Count(b, Way("walk", p)) + 2 * Count(b, Way("crawl", p)) =
          (IF crawl THEN 2 ELSE 1) * n
    <3>1. CASE crawl
      <4>1. Count(b, Way("walk", p)) = 0 /\ Count(b, Way("crawl", p)) = n
        BY <1>1, <2>2, <2>3, <3>1
      <4> QED BY <3>1, <4>1, <1>n
    <3>2. CASE ~crawl
      <4>1. Count(b, Way("crawl", p)) = 0 /\ Count(b, Way("walk", p)) = n
        BY <1>1, <2>2, <2>3, <3>2
      <4> QED BY <3>2, <4>1, <1>n
    <3> QED BY <3>1, <3>2
  <2>10. Bill(b, p) = (IF crawl THEN 2 ELSE 1) * n
                        + Cardinality({i \in 1 .. n : path[i] \in Difficult})
    <3>1. Bill(b, p) = Count(b, Way("walk", p)) + 2 * Count(b, Way("crawl", p))
                         + Count(b, Slowed(p)) + h * 0
      BY <2>8 DEF Bill, h
    <3>2. (IF crawl THEN 2 ELSE 1) * n \in Nat
      BY <1>n
    <3> QED BY <2>4, <2>5, <2>7, <2>9, <3>1, <3>2
  <2> QED BY <1>5, <2>10 DEF Cost, b, how
<1> QED BY <1>4, <1>5

(***************************************************************************)
(* What a turn has left, and what the trail has cost.                      *)
(***************************************************************************)
GrantIsDue(s) ==
  s.grant # NoGrant =>
    /\ s.grant.left \in 0 .. Speed
    /\ s.grant.payment = "action" => s.main = 0
    /\ s.grant.payment = "reaction" => s.reaction = 0
Books(s) ==
  /\ s.spent \in 0 .. Speed
  /\ s.main \in {0, 1} /\ s.reaction \in {0, 1}
  /\ GrantIsDue(s)
  /\ s.move \in 0 .. MaxMoves
  /\ \A i \in DOMAIN s.trail : s.trail[i].move \in 0 .. MaxMoves

\* An action or a reaction still to be had has paid for no step.
Paid(s) ==
  /\ s.spent = Bill(s.trail, "movement")
  /\ s.grant # NoGrant /\ s.grant.payment # "movement" =>
       Speed - s.grant.left = Bill(s.trail, s.grant.payment)
  /\ s.main = 1 => Bill(s.trail, "action") = 0
  /\ s.reaction = 1 => Bill(s.trail, "reaction") = 0

\* A move asked for while a sphere is active is charged for the sphere's cells, and
\* its rest is not: the sum holds where they are difficult terrain anyhow.
Accounts(s) == Books(s) /\ (Sphere \subseteq Difficult => Paid(s))

LEMMA GrantsAreMade == \A g \in Grants : g # NoGrant /\ g.payment \in Pays /\ g.left \in Int
BY DEF Grants, NoGrant

\* Walk charges the payer of the move, and leaves the actions alone.
Charges(w, s, cost) ==
  /\ w.spent = IF PaysMovement(s) THEN s.spent + cost ELSE s.spent
  /\ w.main = s.main /\ w.reaction = s.reaction
  /\ w.condition = s.condition
  /\ s.grant = NoGrant => w.grant = NoGrant
  /\ s.grant # NoGrant => /\ w.grant # NoGrant
                          /\ w.grant.payment = s.grant.payment
                          /\ w.grant.left = s.grant.left - cost

LEMMA WalkCharges ==
  ASSUME NEW s \in Fights, NEW path \in Seq(Cells), NEW crawl \in BOOLEAN, NEW rough
  PROVE  Charges(Walk(s, path, crawl, rough), s, Cost(path, crawl, rough))
<1> DEFINE cost == Cost(path, crawl, rough)
           w == Walk(s, path, crawl, rough)
           spent == IF PaysMovement(s) THEN s.spent + cost ELSE s.spent
           trail == s.trail \o Steps(s, path, Pace(crawl))
           at == Arrive(s, path)
           grant == Charged(s, cost)
<1>1. cost \in Int
  BY CostIsNat
<1> HIDE DEF cost
<1>2. w = [s EXCEPT !.at = at, !.spent = spent, !.grant = grant, !.trail = trail]
  BY Zenon DEF Walk, cost, Pace
<1>3. s.grant \in {NoGrant} \cup Grants
  BY DEF Fights
<1>4. /\ s.grant = NoGrant => grant = NoGrant
      /\ s.grant # NoGrant => /\ grant # NoGrant
                              /\ grant.payment = s.grant.payment
                              /\ grant.left = s.grant.left - cost
  <2>1. CASE s.grant = NoGrant
    BY <2>1 DEF Charged
  <2>2. CASE s.grant # NoGrant
    <3> DEFINE left == s.grant.left - cost
    <3>1. grant = [s.grant EXCEPT !.left = left] /\ s.grant \in Grants
      BY <1>3, <2>2 DEF Charged
    <3>2. left \in Int
      BY <1>1, <3>1, GrantsAreMade
    <3> HIDE DEF left, grant
    <3>3. grant \in Grants /\ grant.payment = s.grant.payment /\ grant.left = left
      BY <3>1, <3>2 DEF Grants
    <3> QED BY <2>2, <3>3, GrantsAreMade DEF left
  <2> QED BY <2>1, <2>2
<1> HIDE DEF spent, trail, at, grant, w
<1>5. /\ w.spent = spent /\ w.main = s.main /\ w.reaction = s.reaction
      /\ w.condition = s.condition /\ w.grant = grant
  BY <1>2 DEF Fights
<1> QED BY <1>4, <1>5 DEF Charges, spent, w, cost

\* A stretch within what is available leaves the accounts in order.
LEMMA WalkAccounts ==
  ASSUME NEW s \in Fights, NEW path \in Seq(Cells), NEW crawl \in BOOLEAN, NEW rough,
         Accounts(s), s.condition = "able",
         Cost(path, crawl, rough) <= Available(s),
         Sphere \subseteq Difficult => rough = Difficult
  PROVE  Accounts(Walk(s, path, crawl, rough))
<1> DEFINE cost == Cost(path, crawl, rough)
           w == Walk(s, path, crawl, rough)
           more == Steps(s, path, Pace(crawl))
<1>1. cost \in Nat /\ cost <= Available(s)
  BY CostIsNat
<1>2. Charges(w, s, cost)
  BY WalkCharges
<1>3. w.trail = s.trail \o more /\ w.move = s.move
  BY WalkIs DEF Walked
<1>4. /\ more \in Seq(Taken) /\ Len(more) = Len(path)
      /\ \A i \in 1 .. Len(path) : more[i].move = s.move
  BY StepsAre DEF Pace, Hows
<1>5. Sphere \subseteq Difficult =>
        \A p : Bill(more, p) = IF p = Payer(s) THEN cost ELSE 0
  BY StretchBill
<1> HIDE DEF cost, w, more
<1>6. /\ s.trail \in Seq(Taken) /\ s.grant \in {NoGrant} \cup Grants
      /\ s.spent \in 0 .. Speed /\ Speed \in Nat /\ s.spent \in Nat
  BY HalfSpeed DEF Fights, Accounts, Books
<1>7. Remaining(s) = Speed - s.spent
  BY <1>6 DEF Remaining, EffectiveSpeed
<1>8. PaysMovement(s) <=> Payer(s) = "movement"
  BY DEF PaysMovement, Payer
<1>9. PaysMovement(s) => cost <= Speed - s.spent
  <2>1. CASE s.grant = NoGrant
    BY <1>1, <1>6, <1>7, <2>1 DEF Available
  <2>2. CASE s.grant # NoGrant /\ s.grant.payment = "movement"
    <3>1. s.grant.left \in 0 .. Speed
      BY <2>2 DEF Accounts, Books, GrantIsDue
    <3>2. cost <= Least(s.grant.left, Remaining(s))
      BY <1>1, <2>2 DEF Available
    <3> QED BY <1>1, <1>6, <1>7, <3>1, <3>2 DEF Least
  <2> QED BY <2>1, <2>2 DEF PaysMovement
<1>10. s.grant # NoGrant => s.grant.left \in 0 .. Speed /\ cost <= s.grant.left
  <2> SUFFICES ASSUME s.grant # NoGrant
               PROVE  s.grant.left \in 0 .. Speed /\ cost <= s.grant.left
    OBVIOUS
  <2>1. s.grant.left \in 0 .. Speed
    BY DEF Accounts, Books, GrantIsDue
  <2>2. CASE s.grant.payment = "movement"
    BY <1>1, <1>6, <1>7, <2>1, <2>2 DEF Available, Least
  <2>3. CASE s.grant.payment # "movement"
    BY <1>1, <2>1, <2>3 DEF Available
  <2> QED BY <2>1, <2>2, <2>3
<1>11. Books(w)
  <2>1. w.spent \in 0 .. Speed
    BY <1>1, <1>2, <1>6, <1>9 DEF Charges
  <2>2. w.main \in {0, 1} /\ w.reaction \in {0, 1} /\ w.move \in 0 .. MaxMoves
    BY <1>2, <1>3 DEF Charges, Accounts, Books
  <2>3. GrantIsDue(w)
    <3> SUFFICES ASSUME w.grant # NoGrant PROVE GrantIsDue(w)
      BY DEF GrantIsDue
    <3>1. /\ s.grant # NoGrant /\ w.grant.payment = s.grant.payment
          /\ w.grant.left = s.grant.left - cost
          /\ w.main = s.main /\ w.reaction = s.reaction
      BY <1>2 DEF Charges
    <3>2. w.grant.left \in 0 .. Speed
      <4> DEFINE left == s.grant.left
      <4>1. left \in 0 .. Speed /\ cost <= left /\ w.grant.left = left - cost
        BY <1>10, <3>1
      <4> HIDE DEF left
      <4> QED BY <1>1, <1>6, <4>1
    <3>3. GrantIsDue(s)
      BY DEF Accounts, Books
    <3> QED BY <3>1, <3>2, <3>3 DEF GrantIsDue
  <2>4. \A i \in DOMAIN w.trail : w.trail[i].move \in 0 .. MaxMoves
    <3> SUFFICES ASSUME NEW i \in DOMAIN w.trail PROVE w.trail[i].move \in 0 .. MaxMoves
      OBVIOUS
    <3>1. /\ DOMAIN w.trail = 1 .. Len(s.trail) + Len(more)
          /\ w.trail[i] = IF i <= Len(s.trail) THEN s.trail[i] ELSE more[i - Len(s.trail)]
          /\ DOMAIN s.trail = 1 .. Len(s.trail)
          /\ Len(s.trail) \in Nat /\ Len(more) \in Nat
      <4>1. s.trail \in Seq(Taken) /\ more \in Seq(Taken)
        BY <1>4, <1>6
      <4>2. /\ s.trail \o more \in Seq(Taken)
            /\ Len(s.trail \o more) = Len(s.trail) + Len(more)
            /\ \A k \in 1 .. Len(s.trail) + Len(more) : (s.trail \o more)[k] =
                 IF k <= Len(s.trail) THEN s.trail[k] ELSE more[k - Len(s.trail)]
        BY <4>1, ConcatProperties, Zenon
      <4>3. DOMAIN w.trail = 1 .. Len(s.trail) + Len(more)
        BY <1>3, <4>2, LenProperties
      <4> QED BY <1>3, <4>1, <4>2, <4>3, LenProperties
    <3>2. CASE i <= Len(s.trail)
      BY <3>1, <3>2 DEF Accounts, Books
    <3>3. CASE ~(i <= Len(s.trail))
      <4>1. i - Len(s.trail) \in 1 .. Len(path)
        BY <1>4, <3>1, <3>3
      <4>2. w.trail[i].move = s.move
        BY <1>4, <3>1, <3>3, <4>1
      <4> QED BY <4>2 DEF Accounts, Books
    <3> QED BY <3>2, <3>3
  <2> QED BY <2>1, <2>2, <2>3, <2>4 DEF Books
<1>12. ASSUME Sphere \subseteq Difficult PROVE Paid(w)
  <2>0. Paid(s)
    BY <1>12 DEF Accounts
  <2>1. \A p : /\ Bill(w.trail, p) = Bill(s.trail, p) + (IF p = Payer(s) THEN cost ELSE 0)
               /\ Bill(s.trail, p) \in Nat
    BY <1>3, <1>4, <1>5, <1>6, <1>12, BillAdds, BillIsNat
  <2>2. w.spent = Bill(w.trail, "movement")
    BY <1>1, <1>2, <1>6, <1>8, <2>0, <2>1 DEF Charges, Paid
  <2>3. ASSUME w.grant # NoGrant, w.grant.payment # "movement"
        PROVE  Speed - w.grant.left = Bill(w.trail, w.grant.payment)
    <3>1. /\ s.grant # NoGrant /\ w.grant.payment = s.grant.payment
          /\ w.grant.left = s.grant.left - cost /\ Payer(s) = s.grant.payment
      BY <1>2, <2>3 DEF Charges, Payer
    <3>2. Speed - s.grant.left = Bill(s.trail, s.grant.payment)
      BY <2>0, <2>3, <3>1 DEF Paid
    <3>3. Bill(w.trail, w.grant.payment) = Bill(s.trail, s.grant.payment) + cost
      BY <2>1, <3>1
    <3> QED BY <1>1, <1>6, <1>10, <3>1, <3>2, <3>3
  <2>4. GrantIsDue(s)
    BY DEF Accounts, Books
  <2>5. ASSUME w.main = 1 PROVE Bill(w.trail, "action") = 0
    <3>1. s.main = 1 /\ Payer(s) # "action"
      BY <1>2, <2>4, <2>5 DEF Charges, Payer, GrantIsDue
    <3> QED BY <2>0, <2>1, <3>1 DEF Paid
  <2>6. ASSUME w.reaction = 1 PROVE Bill(w.trail, "reaction") = 0
    <3>1. s.reaction = 1 /\ Payer(s) # "reaction"
      BY <1>2, <2>4, <2>6 DEF Charges, Payer, GrantIsDue
    <3> QED BY <2>0, <2>1, <3>1 DEF Paid
  <2> QED BY <2>2, <2>3, <2>5, <2>6 DEF Paid
<1> QED BY <1>11, <1>12 DEF Accounts, w

(***************************************************************************)
(* A stored rest of a move is a path that can be walked from where it       *)
(* waits, and only such a rest is asked about.                             *)
(***************************************************************************)
Rested(s) ==
  /\ s.cont # NoMove => /\ s.cont.path \in PathsFrom[s.cont.at]
                        /\ s.cont.window \in s.cont.ignored
  /\ "opportunity" \in s.pending => s.cont # NoMove
Sound(s) == Accounts(s) /\ Rested(s)

Adjacent(m, n) == n - m \in {-1, 1}

LEMMA PathsFromAre ==
  ASSUME NEW from \in Cells, NEW path
  PROVE  path \in PathsFrom[from] <=>
           /\ path \in Seq(Cells)
           /\ Len(path) \in 1 .. MaxPath
           /\ \A i \in 1 .. Len(path) :
                Adjacent(Route(from, path)[i], Route(from, path)[i + 1])
<1>0. MaxPath \in Nat
  BY LineAssumption
<1>1. path \in UNION {[1 .. n -> Cells] : n \in 1 .. MaxPath} <=>
        path \in Seq(Cells) /\ Len(path) \in 1 .. MaxPath
  <2>1. ASSUME NEW n \in 1 .. MaxPath, path \in [1 .. n -> Cells]
        PROVE  path \in Seq(Cells) /\ Len(path) = n
    BY <1>0, <2>1
  <2>2. ASSUME path \in Seq(Cells), Len(path) \in 1 .. MaxPath
        PROVE  path \in [1 .. Len(path) -> Cells]
    BY <2>2, LenProperties
  <2> QED BY <2>1, <2>2
<1>2. path \in PathsFrom[from] <=>
        /\ path \in UNION {[1 .. n -> Cells] : n \in 1 .. MaxPath}
        /\ \A i \in 1 .. Len(path) :
             Adjacent(Route(from, path)[i], Route(from, path)[i + 1])
  BY DEF PathsFrom, Adjacent
<1> QED BY <1>1, <1>2

\* The rest of a path, from where its first part led.
LEMMA RestOfPath ==
  ASSUME NEW from \in Cells, NEW path \in PathsFrom[from],
         NEW n \in 0 .. Len(path), n < Len(path), NEW at,
         at = Route(from, path)[n + 1]
  PROVE  at \in Cells /\ SubSeq(path, n + 1, Len(path)) \in PathsFrom[at]
<1> DEFINE q == SubSeq(path, n + 1, Len(path))
           route == Route(from, path)
<1>1. /\ path \in Seq(Cells) /\ Len(path) \in 1 .. MaxPath
      /\ \A i \in 1 .. Len(path) : Adjacent(route[i], route[i + 1])
  BY PathsFromAre
<1>2. /\ \A i \in 1 .. Len(path) : route[i + 1] = path[i]
      /\ \A i \in 1 .. Len(path) + 1 : route[i] \in Cells
  BY <1>1, RouteIs
<1> HIDE DEF route
<1>3. Len(path) \in Nat /\ n \in Nat /\ MaxPath \in Nat
  BY <1>1, LenProperties, LineAssumption
<1>4. at \in Cells
  BY <1>2, <1>3 DEF route
<1>5. /\ q \in Seq(Cells) /\ Len(q) = Len(path) - n
      /\ \A i \in 1 .. Len(path) - n : q[i] = path[n + i]
  <2>1. \A i \in n + 1 .. Len(path) : path[i] \in Cells
    BY <1>1, <1>3, ElementOfSeq
  <2>2. /\ q \in Seq(Cells)
        /\ Len(q) = IF n + 1 <= Len(path) THEN Len(path) - (n + 1) + 1 ELSE 0
        /\ \A i \in 1 .. Len(path) - (n + 1) + 1 : q[i] = path[(n + 1) + i - 1]
    BY <1>1, <1>3, <2>1, SubSeqProperties
  <2>3. Len(path) - (n + 1) + 1 = Len(path) - n /\ n + 1 <= Len(path)
    BY <1>3
  <2>4. \A i \in 1 .. Len(path) - n : (n + 1) + i - 1 = n + i
    BY <1>3
  <2> HIDE DEF q
  <2> QED BY <2>2, <2>3, <2>4
<1> HIDE DEF q
<1>6. Len(q) \in 1 .. MaxPath
  BY <1>1, <1>3, <1>5
<1>7. /\ Route(at, q)[1] = at
      /\ \A i \in 1 .. Len(q) : Route(at, q)[i + 1] = q[i]
  BY <1>4, <1>5, RouteIs
<1>8. \A i \in 1 .. Len(q) : Route(at, q)[i + 1] = route[n + i + 1]
  <2> TAKE i \in 1 .. Len(q)
  <2>1. n + i \in 1 .. Len(path)
    BY <1>3, <1>5
  <2> QED BY <1>2, <1>5, <1>7, <2>1
<1>9. ASSUME NEW i \in 1 .. Len(q)
      PROVE  Adjacent(Route(at, q)[i], Route(at, q)[i + 1])
  <2>0. n + i \in 1 .. Len(path) /\ Adjacent(route[n + i], route[n + i + 1])
    BY <1>1, <1>3, <1>5 DEF route
  <2>1. Route(at, q)[i] = route[n + i]
    <3>1. CASE i = 1
      BY <1>7, <3>1 DEF route
    <3>2. CASE i # 1
      <4>1. i - 1 \in 1 .. Len(q) /\ (i - 1) + 1 = i /\ n + (i - 1) + 1 = n + i
        BY <1>3, <1>5, <3>2
      <4>2. Route(at, q)[(i - 1) + 1] = route[n + (i - 1) + 1]
        BY <1>8, <4>1
      <4> QED BY <4>1, <4>2
    <3> QED BY <3>1, <3>2
  <2> QED BY <1>8, <2>0, <2>1
<1> QED BY <1>4, <1>5, <1>6, <1>9, PathsFromAre DEF q

\* The first part of a path costs no more than the whole.
LEMMA PrefixCost ==
  ASSUME NEW path \in Seq(Cells), NEW n \in 0 .. Len(path), NEW crawl \in BOOLEAN, NEW rough
  PROVE  Cost(SubSeq(path, 1, n), crawl, rough) <= Cost(path, crawl, rough)
<1> DEFINE p == SubSeq(path, 1, n)
           A == {i \in 1 .. n : p[i] \in rough}
           B == {i \in 1 .. Len(path) : path[i] \in rough}
<1>1. /\ p \in Seq(Cells) /\ Len(p) = n /\ Len(path) \in Nat /\ n \in Nat /\ n <= Len(path)
      /\ \A i \in 1 .. n : p[i] = path[i]
  BY PrefixIs, LenProperties
<1> HIDE DEF p
<1>2. A \subseteq B
  BY <1>1
<1>3. IsFiniteSet(B)
  <2>1. IsFiniteSet(1 .. Len(path))
    BY <1>1, FS_Interval
  <2> QED BY <2>1, FS_Subset
<1>4. Cardinality(A) <= Cardinality(B) /\ Cardinality(A) \in Nat /\ Cardinality(B) \in Nat
  BY <1>2, <1>3, FS_Subset, FS_CardinalityType
<1>5. {i \in 1 .. Len(p) : p[i] \in rough} = A
  BY <1>1
<1> DEFINE a == Cardinality(A)
           b == Cardinality(B)
           price == IF crawl THEN 2 ELSE 1
<1>6. Cost(p, crawl, rough) = price * Len(p) + a
  BY <1>5, Zenon DEF Cost
<1>7. Cost(path, crawl, rough) = price * Len(path) + b
  BY Zenon DEF Cost
<1> HIDE DEF a, b
<1>8. a \in Nat /\ b \in Nat /\ a <= b
  BY <1>4 DEF a, b
<1>9. price * Len(p) + a <= price * Len(path) + b
  BY <1>1, <1>8
<1> QED BY <1>6, <1>7, <1>9 DEF p

\* An encounter with the same books, perhaps without its grant.
SameBooks(r, s) ==
  /\ r.spent = s.spent /\ r.main = s.main /\ r.reaction = s.reaction
  /\ r.move = s.move /\ r.trail = s.trail
  /\ r.grant = s.grant \/ r.grant = NoGrant

LEMMA SameBooksKeep ==
  ASSUME NEW s, NEW r, Accounts(s), SameBooks(r, s)
  PROVE  Accounts(r)
<1>1. Books(r)
  BY DEF Accounts, Books, GrantIsDue, SameBooks
<1>2. Sphere \subseteq Difficult => Paid(r)
  BY Zenon DEF Accounts, Paid, SameBooks
<1> QED BY <1>1, <1>2 DEF Accounts

\* A push is on nobody's bill.
LEMMA PushKeepsBooks ==
  ASSUME NEW s \in Fights, NEW r, Accounts(s), NEW cell \in Cells,
         r.spent = s.spent, r.main = s.main, r.reaction = s.reaction,
         r.grant = s.grant, r.move = s.move,
         r.trail = s.trail \o Steps(s, <<cell>>, "push")
  PROVE  Accounts(r)
<1> DEFINE path == <<cell>>
           more == Steps(s, path, "push")
<1>1. path \in Seq(Cells) /\ Len(path) = 1 /\ "push" \in Hows
  BY DEF Hows
<1> HIDE DEF path
<1>2. /\ more \in Seq(Taken) /\ Len(more) = 1
      /\ \A i \in 1 .. 1 : more[i].how = "push" /\ more[i].move = s.move
  BY <1>1, StepsAre
<1>3. s.trail \in Seq(Taken)
  BY DEF Fights
<1>4. r.trail = s.trail \o more
  BY DEF path
<1> HIDE DEF more
<1>5. \A p : Bill(r.trail, p) = Bill(s.trail, p)
  <2> TAKE p
  <2>1. Bill(more, p) = 0
    BY <1>2, FreeOfCharge
  <2>2. Bill(s.trail \o more, p) = Bill(s.trail, p) + Bill(more, p)
    BY <1>2, <1>3, BillAdds
  <2>3. Bill(s.trail, p) \in Nat
    BY <1>3, BillIsNat
  <2>4. Bill(r.trail, p) = Bill(s.trail \o more, p)
    BY <1>4
  <2> QED BY <2>1, <2>2, <2>3, <2>4
<1>6. \A i \in DOMAIN r.trail : r.trail[i].move \in 0 .. MaxMoves
  <2> SUFFICES ASSUME NEW i \in DOMAIN r.trail PROVE r.trail[i].move \in 0 .. MaxMoves
    OBVIOUS
  <2>1. /\ s.trail \o more \in Seq(Taken)
        /\ Len(s.trail \o more) = Len(s.trail) + Len(more)
        /\ \A k \in 1 .. Len(s.trail) + Len(more) : (s.trail \o more)[k] =
             IF k <= Len(s.trail) THEN s.trail[k] ELSE more[k - Len(s.trail)]
    BY <1>2, <1>3, ConcatProperties, Zenon
  <2>2. i \in 1 .. Len(s.trail) + 1 /\ DOMAIN s.trail = 1 .. Len(s.trail)
        /\ Len(s.trail) \in Nat
    BY <1>2, <1>3, <1>4, <2>1, LenProperties
  <2>3. CASE i <= Len(s.trail)
    BY <1>2, <1>4, <2>1, <2>2, <2>3 DEF Accounts, Books
  <2>4. CASE ~(i <= Len(s.trail))
    <3>1. i - Len(s.trail) \in 1 .. 1
      BY <2>2, <2>4
    <3>2. r.trail[i].move = s.move
      BY <1>2, <1>4, <2>1, <2>2, <2>4, <3>1
    <3> QED BY <3>2 DEF Accounts, Books
  <2> QED BY <2>3, <2>4
<1>7. Books(r)
  BY <1>6 DEF Accounts, Books, GrantIsDue
<1>8. Sphere \subseteq Difficult => Paid(r)
  BY <1>5, Zenon DEF Accounts, Paid
<1> QED BY <1>7, <1>8 DEF Accounts

\* What is started within the means of the mover is sound.
LEMMA StartSound ==
  ASSUME NEW s \in Fights, NEW path \in PathsFrom[s.at], NEW crawl \in BOOLEAN, NEW rough,
         NEW ignored \in SUBSET Crossings, Accounts(s), "opportunity" \notin s.pending,
         s.condition = "able", Cost(path, crawl, rough) <= Available(s),
         Sphere \subseteq Difficult => rough = Difficult
  PROVE  Sound(StartMovement(s, path, crawl, rough, ignored))
<1> DEFINE W == Windows(s, path, ignored)
           c == First(W)
           n == c.offset
           r == StartMovement(s, path, crawl, rough, ignored)
<1>0. s.at \in Cells
  BY DEF Fights
<1>1. path \in Seq(Cells)
  BY <1>0, PathsAre
<1>2. CASE W = {}
  <2> DEFINE w == Walk(s, path, crawl, rough)
  <2>1. w \in Fights /\ Accounts(w) /\ w.pending = s.pending
    <3>1. Walked(w, s, path, crawl)
      BY <1>1, WalkIs
    <3>2. Accounts(w)
      BY <1>1, WalkAccounts
    <3> HIDE DEF w
    <3> QED BY <3>1, <3>2 DEF Walked
  <2>2. r = [w EXCEPT !.cont = NoMove, !.grant = NoGrant]
    BY <1>2, Zenon DEF StartMovement
  <2> HIDE DEF w, r
  <2>3. SameBooks(r, w) /\ r.cont = NoMove /\ r.pending = w.pending
    BY <2>1, <2>2 DEF Fights, SameBooks
  <2> QED BY <2>1, <2>3, SameBooksKeep DEF Sound, Rested, r
<1>3. CASE W # {}
  <2> DEFINE w == Walk(s, SubSeq(path, 1, n), crawl, rough)
             kept == IF n = 0 THEN ignored \cup {Crossing(c)} ELSE {Crossing(c)}
             rest == [kind |-> "move", path |-> SubSeq(path, n + 1, Len(path)),
                      at |-> w.at, crawl |-> crawl, window |-> Crossing(c),
                      ignored |-> kept]
             asked == Append(w.asked, [move |-> s.move, step |-> Len(w.trail) + 1,
                                       threat |-> c.threat, reach |-> c.reach])
             pending == w.pending \cup {"opportunity"}
  <2>1. n \in 0 .. Len(path) /\ n < Len(path)
    BY <1>1, <1>3, WindowIs
  <2>2. r = [w EXCEPT !.pending = pending, !.asked = asked, !.cont = rest]
    BY <1>3, Zenon DEF StartMovement, Pause
  <2> HIDE DEF c, n, asked
  <2>3. /\ SubSeq(path, 1, n) \in Seq(Cells) /\ Len(SubSeq(path, 1, n)) = n
        /\ \A i \in 1 .. n : SubSeq(path, 1, n)[i] = path[i]
    BY <1>1, <2>1, PrefixIs
  <2>4. Cost(SubSeq(path, 1, n), crawl, rough) <= Available(s)
    <3> DEFINE x == Cost(SubSeq(path, 1, n), crawl, rough)
               y == Cost(path, crawl, rough)
    <3>1. x <= y /\ x \in Nat /\ y \in Nat
      BY <1>1, <2>1, <2>3, PrefixCost, CostIsNat
    <3>2. Available(s) \in Int
      <4>1. s.spent \in Nat /\ Speed \in Nat /\ Remaining(s) \in Int
        BY HalfSpeed DEF Accounts, Books, Remaining, EffectiveSpeed
      <4>2. s.grant # NoGrant => s.grant.left \in Int
        BY GrantsAreMade DEF Fights
      <4> QED BY <4>1, <4>2 DEF Available, Least
    <3> HIDE DEF x, y
    <3>3. y <= Available(s)
      BY DEF y
    <3> QED BY <3>1, <3>2, <3>3 DEF x
  <2>5. Accounts(w)
    BY <2>3, <2>4, WalkAccounts
  <2>6. Walked(w, s, SubSeq(path, 1, n), crawl)
    BY <2>3, WalkIs
  <2>7. w \in Fights /\ w.at = Arrive(s, SubSeq(path, 1, n))
    BY <2>6, Zenon DEF Walked
  <2> HIDE DEF w
  <2>8. w.at = Route(s.at, path)[n + 1]
    <3>1. /\ Route(s.at, path)[1] = s.at
          /\ \A i \in 1 .. Len(path) : Route(s.at, path)[i + 1] = path[i]
      BY <1>0, <1>1, RouteIs
    <3>2. CASE n = 0
      <4>1. SubSeq(path, 1, n) = <<>>
        BY <2>3, <3>2, EmptySeq
      <4> QED BY <2>7, <3>1, <3>2, <4>1 DEF Arrive
    <3>3. CASE n # 0
      <4>1. SubSeq(path, 1, n) # <<>> /\ n \in 1 .. n /\ n \in 1 .. Len(path)
        BY <1>1, <2>1, <2>3, <3>3, EmptySeq, LenProperties
      <4> QED BY <2>3, <2>7, <3>1, <4>1 DEF Arrive
    <3> QED BY <3>2, <3>3
  <2>9. SubSeq(path, n + 1, Len(path)) \in PathsFrom[w.at]
    BY <1>0, <2>1, <2>8, RestOfPath
  <2>10. rest # NoMove /\ rest.path \in PathsFrom[rest.at] /\ rest.window \in rest.ignored
    BY <2>9 DEF NoMove
  <2> HIDE DEF rest, pending, r
  <2>11. SameBooks(r, w) /\ r.cont = rest
    BY <2>2, <2>7 DEF Fights, SameBooks
  <2> QED BY <2>5, <2>10, <2>11, SameBooksKeep DEF Sound, Rested, r
<1> QED BY <1>2, <1>3

\* A change that leaves books and rest alone.
Aside(r, s) ==
  /\ r.spent = s.spent /\ r.main = s.main /\ r.reaction = s.reaction
  /\ r.grant = s.grant /\ r.move = s.move /\ r.trail = s.trail /\ r.cont = s.cont
  /\ "opportunity" \in r.pending => "opportunity" \in s.pending

LEMMA AsideSound ==
  ASSUME NEW s, NEW r, Sound(s), Aside(r, s)
  PROVE  Sound(r)
<1>1. SameBooks(r, s)
  BY DEF Aside, SameBooks
<1> QED BY <1>1, SameBooksKeep DEF Sound, Rested, Aside

LEMMA CancelSound ==
  ASSUME NEW s \in Fights, Sound(s)
  PROVE  Sound(Cancel(s))
<1> DEFINE r == Cancel(s)
<1>1. SameBooks(r, s) /\ r.cont = NoMove /\ "opportunity" \notin r.pending
  BY DEF Cancel, Fights, SameBooks
<1> HIDE DEF r
<1> QED BY <1>1, SameBooksKeep DEF Sound, Rested, r

\* A rest that is walked on is walked within what is left of the movement.
LEMMA ResumeSound ==
  ASSUME NEW s, Core(s), Sound(s)
  PROVE  Sound(Resume(s))
<1>0. s \in Fights /\ Accounts(s) /\ Rested(s)
  BY DEF Core, Sound
<1>1. CASE Resume(s) = s
  BY <1>1
<1>2. CASE Resume(s) = Cancel(s)
  BY <1>0, <1>2, CancelSound
<1>3. CASE /\ s.cont # NoMove /\ CanGoOn(s)
           /\ MayWalk(s, s.cont.path, s.cont.crawl, Difficult)
           /\ Resume(s) = Restart(s)
  <2> DEFINE r == [s EXCEPT !.pending = {}]
             path == s.cont.path
             crawl == s.cont.crawl
             ignored == s.cont.ignored
  <2>1. s.cont \in Rests /\ s.at = s.cont.at
    BY <1>0, <1>3 DEF Fights, CanGoOn
  <2>2. crawl \in BOOLEAN /\ ignored \in SUBSET Crossings
    BY <2>1 DEF Rests
  <2>3. path \in PathsFrom[s.at]
    BY <1>0, <1>3, <2>1 DEF Rested
  <2>4. Restart(s) = StartMovement(r, path, crawl, Difficult, ignored)
    BY <1>3, Zenon DEF Restart
  <2>5. s.condition = "able" /\ Cost(path, crawl, Difficult) <= Available(s)
    BY <1>3 DEF MayWalk
  <2> HIDE DEF r, path, crawl, ignored
  <2>6. /\ r \in Fights /\ SameBooks(r, s) /\ r.pending = {} /\ r.at = s.at
        /\ r.condition = s.condition /\ r.grant = s.grant
    BY <1>0 DEF Fights, SameBooks, r
  <2>7. Available(r) = Available(s)
    BY <2>6 DEF Available, Remaining, EffectiveSpeed, SameBooks
  <2>8. Accounts(r)
    BY <1>0, <2>6, SameBooksKeep
  <2>9. Sound(StartMovement(r, path, crawl, Difficult, ignored))
    BY <2>2, <2>3, <2>5, <2>6, <2>7, <2>8, StartSound
  <2> QED BY <1>3, <2>4, <2>9
<1> QED BY <1>1, <1>2, <1>3 DEF Resume, Restart

LEMMA StruckSound ==
  ASSUME NEW s \in Fights, Sound(s), NEW blow \in Blows \cup {"defense"}
  PROVE  Sound(Struck(s, blow))
<1> DEFINE pushed == blow = "pushed" /\ s.at < LastCell
           pending == s.pending \cup Opens(blow)
           prone == s.prone \/ blow = "prone"
           condition == CASE blow \in {"down", "down_rescue"} -> "down"
                          [] blow = "stopped" /\ s.condition = "able" -> "stopped"
                          [] OTHER -> s.condition
           at == IF pushed THEN s.at + 1 ELSE s.at
           trail == IF pushed THEN s.trail \o Steps(s, <<s.at + 1>>, "push") ELSE s.trail
           r == Struck(s, blow)
<1>1. r = [s EXCEPT !.pending = pending, !.prone = prone, !.condition = condition,
                    !.at = at, !.trail = trail]
  BY Zenon DEF Struck
<1>2. "opportunity" \in pending => "opportunity" \in s.pending
  BY DEF Opens, Blows
<1>3. s.at \in Cells /\ (pushed => s.at + 1 \in Cells)
  BY CellsAre DEF Fights
<1> HIDE DEF pending, prone, condition, at, trail, r
<1>4. /\ r.spent = s.spent /\ r.main = s.main /\ r.reaction = s.reaction
      /\ r.grant = s.grant /\ r.move = s.move /\ r.trail = trail
      /\ r.cont = s.cont /\ r.pending = pending
  BY <1>1 DEF Fights
<1>5. Rested(r)
  BY <1>2, <1>4 DEF Sound, Rested
<1>6. CASE ~pushed
  <2>1. SameBooks(r, s)
    BY <1>4, <1>6 DEF SameBooks, trail
  <2> QED BY <1>5, <2>1, SameBooksKeep DEF Sound, r
<1>7. CASE pushed
  <2>1. r.trail = s.trail \o Steps(s, <<s.at + 1>>, "push")
    BY <1>4, <1>7 DEF trail
  <2>2. Accounts(r)
    BY <1>3, <1>4, <1>7, <2>1, PushKeepsBooks DEF Sound
  <2> QED BY <1>5, <2>2 DEF Sound, r
<1> QED BY <1>6, <1>7

LEMMA MetSound ==
  ASSUME NEW s, NEW path, NEW moved, Core(moved), Sound(moved), NEW blow \in Contact,
         \A i \in Contacts(s, path, moved.at) : i \in Int
  PROVE  Sound(Met(s, path, moved, blow))
<1> DEFINE contacts == Contacts(s, path, moved.at)
           r == [moved EXCEPT !.met = moved.met \cup contacts]
<1>0. blow \in Blows
  BY DEF Contact, Blows
<1>1. CASE contacts = {}
  BY <1>1 DEF Met
<1>2. CASE contacts # {}
  <2>1. Met(s, path, moved, blow) = Struck(r, blow)
    BY <1>2, Zenon DEF Met
  <2> HIDE DEF contacts
  <2>2. Aside(r, moved) /\ r \in Fights
    BY DEF Core, Fights, Aside, contacts
  <2> HIDE DEF r
  <2> QED BY <1>0, <2>1, <2>2, AsideSound, StruckSound
<1> QED BY <1>1, <1>2

\* What is committed is sound again.
LEMMA CommitSound ==
  ASSUME NEW s, Core(s), Sound(s), Commit(s)
  PROVE  Sound(fight')
BY ResumeSound DEF Commit

\* The contacts of a route are places in the trail.
LEMMA ContactsAre ==
  ASSUME NEW s \in Fights, NEW path, NEW at
  PROVE  \A i \in Contacts(s, path, at) : i \in Int
<1> TAKE i \in Contacts(s, path, at)
<1>1. PICK e \in Entries(RouteWalked(Route(s.at, path), at)) : i = Len(s.trail) + e - 1
  BY DEF Contacts
<1>2. e \in Int
  BY <1>1 DEF Entries
<1>3. Len(s.trail) \in Nat
  BY LenProperties DEF Fights
<1> QED BY <1>1, <1>2, <1>3

\* Nothing is asked about between two moves.
LEMMA NothingAsked ==
  ASSUME NEW s, Sound(s), Unopposed(s)
  PROVE  s.cont = NoMove /\ "opportunity" \notin s.pending
BY DEF Sound, Rested, Unopposed

(***************************************************************************)
(* The steps keep the accounts.                                            *)
(***************************************************************************)
LEMMA MoveSound ==
  ASSUME IInv, Sound(fight), NEW path \in PathsFrom[fight.at], NEW blow \in Contact,
         Move(path, fight.prone, blow)
  PROVE  Sound(fight')
<1> DEFINE s == [fight EXCEPT !.move = fight.move + 1]
           crawl == fight.prone
           rough == Difficult \cup Sphere
           moved == StartMovement(s, path, crawl, rough, {})
<1>1. Core(fight) /\ fight \in Fights /\ fight.at \in Cells /\ crawl \in BOOLEAN
  BY DEF IInv, Core, Fights
<1>2. /\ Commit(Met(s, path, moved, blow)) /\ MayWalk(s, path, crawl, rough)
      /\ Unopposed(fight) /\ fight.move < MaxMoves
  BY Zenon DEF Move
<1>3. path \in Seq(Cells)
  BY <1>1, PathsAre
<1>4. fight.move + 1 \in Nat
  BY <1>1 DEF Fights
<1>5. /\ s \in Fights /\ s.at = fight.at /\ s.trail = fight.trail /\ s.asked = fight.asked
      /\ s.move = fight.move + 1 /\ s.grant = fight.grant /\ s.spent = fight.spent
      /\ s.main = fight.main /\ s.reaction = fight.reaction
      /\ s.condition = fight.condition /\ s.pending = fight.pending
  BY <1>1, <1>4 DEF Fights
<1> HIDE DEF s
<1>6. Once(s) /\ Free(s) /\ Dated(s) /\ OfferedHere(s, {})
  BY <1>1, <1>5, NewMove
<1>7. Accounts(s)
  <2>1. s.move \in 0 .. MaxMoves
    <3>1. fight.move \in 0 .. MaxMoves /\ MaxMoves \in Nat
      BY LineAssumption DEF Sound, Accounts, Books
    <3> QED BY <1>2, <1>5, <3>1
  <2>2. Books(s)
    BY <1>5, <2>1 DEF Sound, Accounts, Books, GrantIsDue
  <2>3. Sphere \subseteq Difficult => Paid(s)
    BY <1>5, Zenon DEF Sound, Accounts, Paid
  <2> QED BY <2>2, <2>3 DEF Accounts
<1>8. /\ s.condition = "able" /\ Cost(path, crawl, rough) <= Available(s)
      /\ "opportunity" \notin s.pending
  BY <1>2, <1>5, NothingAsked DEF MayWalk
<1>9. Sphere \subseteq Difficult => rough = Difficult
  OBVIOUS
<1> HIDE DEF crawl, rough
<1>10. Core(moved) /\ Sound(moved)
  BY <1>1, <1>3, <1>5, <1>6, <1>7, <1>8, <1>9, StartKeeps, StartSound
<1> HIDE DEF moved
<1>11. Core(Met(s, path, moved, blow))
  BY <1>3, <1>5, <1>10, MetKeeps
<1>12. Sound(Met(s, path, moved, blow))
  BY <1>5, <1>10, ContactsAre, MetSound
<1> QED BY <1>2, <1>11, <1>12, CommitSound

\* What a source grants is paid for by an action or a reaction that had paid for
\* nothing yet, or by the movement of the turn.
LEMMA GrantedAccounts ==
  ASSUME fight \in Fights, Sound(fight), NEW payment \in Payments, fight.move < MaxMoves,
         Granted(fight, payment).main >= 0, Granted(fight, payment).reaction >= 0
  PROVE  LET s == Granted(fight, payment)
         IN /\ s \in Fights /\ Accounts(s) /\ s.at = fight.at
            /\ s.trail = fight.trail /\ s.asked = fight.asked
            /\ s.move = fight.move + 1 /\ s.condition = fight.condition
            /\ s.pending = fight.pending
<1> DEFINE s == Granted(fight, payment)
           main == IF payment = "action" THEN fight.main - 1 ELSE fight.main
           reaction == IF payment = "reaction" THEN fight.reaction - 1 ELSE fight.reaction
           grant == [kind |-> "grant", payment |-> payment, left |-> Speed]
           move == fight.move + 1
<1>1. main \in Int /\ reaction \in Int /\ move \in Nat
  BY DEF Fights
<1>2. grant \in Grants /\ grant.payment = payment /\ grant.left = Speed
  BY PaymentAssumption, LineAssumption DEF Grants, Pays
<1>3. s = [fight EXCEPT !.grant = grant, !.main = main, !.reaction = reaction,
                        !.move = move]
  BY Zenon DEF Granted
<1>4. s.main >= 0 /\ s.reaction >= 0
  OBVIOUS
<1>5. /\ fight.main \in {0, 1} /\ fight.reaction \in {0, 1} /\ fight.move \in 0 .. MaxMoves
      /\ MaxMoves \in Nat /\ Speed \in Nat /\ fight.spent \in 0 .. Speed
  BY LineAssumption DEF Sound, Accounts, Books
<1>6. /\ main = fight.main - (IF payment = "action" THEN 1 ELSE 0)
      /\ reaction = fight.reaction - (IF payment = "reaction" THEN 1 ELSE 0)
      /\ move = fight.move + 1
  BY <1>5
<1> HIDE DEF s, grant, main, reaction, move
<1>7. /\ s \in Fights /\ s.trail = fight.trail /\ s.asked = fight.asked
      /\ s.move = move /\ s.grant = grant /\ s.spent = fight.spent
      /\ s.main = main /\ s.reaction = reaction /\ s.at = fight.at
      /\ s.condition = fight.condition /\ s.pending = fight.pending
  BY <1>1, <1>2, <1>3 DEF Fights
<1>8. /\ main \in {0, 1} /\ reaction \in {0, 1} /\ move \in 0 .. MaxMoves
      /\ payment = "action" => main = 0 /\ fight.main = 1
      /\ payment = "reaction" => reaction = 0 /\ fight.reaction = 1
      /\ main = 1 => fight.main = 1
      /\ reaction = 1 => fight.reaction = 1
  <2>1. main >= 0 /\ reaction >= 0
    BY <1>4, <1>7
  <2>2. move \in 0 .. MaxMoves
    BY <1>5, <1>6
  <2>3. /\ payment = "action" => main = fight.main - 1
        /\ payment # "action" => main = fight.main
        /\ payment = "reaction" => reaction = fight.reaction - 1
        /\ payment # "reaction" => reaction = fight.reaction
    BY <1>5, <1>6
  <2>4. main \in {0, 1} /\ (payment = "action" => main = 0 /\ fight.main = 1)
        /\ (main = 1 => fight.main = 1)
    BY <1>5, <2>1, <2>3
  <2>5. reaction \in {0, 1} /\ (payment = "reaction" => reaction = 0 /\ fight.reaction = 1)
        /\ (reaction = 1 => fight.reaction = 1)
    BY <1>5, <2>1, <2>3
  <2> QED BY <2>2, <2>4, <2>5
<1>9. Books(s)
  <2>1. GrantIsDue(s)
    BY <1>2, <1>5, <1>7, <1>8 DEF GrantIsDue
  <2> QED BY <1>5, <1>7, <1>8, <2>1 DEF Sound, Accounts, Books
<1>10. ASSUME Sphere \subseteq Difficult PROVE Paid(s)
  <2>1. Paid(fight)
    BY <1>10 DEF Sound, Accounts
  <2>2. payment \in Pays
    BY PaymentAssumption DEF Pays
  <2>3. payment # "movement" => Bill(fight.trail, payment) = 0
    BY <1>8, <2>1, <2>2 DEF Paid, Pays
  <2>4. Speed - Speed = 0
    BY <1>5
  <2> QED BY <1>2, <1>7, <1>8, <2>1, <2>3, <2>4 DEF Paid
<1> QED BY <1>6, <1>7, <1>9, <1>10 DEF Accounts, s

LEMMA SourceMoveSound ==
  ASSUME IInv, Sound(fight), NEW path \in PathsFrom[fight.at], NEW payment \in Payments,
         SourceMove(path, fight.prone, payment)
  PROVE  Sound(fight')
<1> DEFINE s == Granted(fight, payment)
           crawl == fight.prone
           moved == StartMovement(s, path, crawl, Difficult, {})
<1>1. Core(fight) /\ fight \in Fights /\ fight.at \in Cells /\ crawl \in BOOLEAN
  BY DEF IInv, Core, Fights
<1>2. /\ Commit(moved) /\ MayWalk(s, path, crawl, Difficult) /\ Unopposed(fight)
      /\ fight.move < MaxMoves /\ s.main >= 0 /\ s.reaction >= 0
  BY Zenon DEF SourceMove
<1>3. /\ s \in Fights /\ Accounts(s) /\ s.at = fight.at
      /\ s.trail = fight.trail /\ s.asked = fight.asked
      /\ s.move = fight.move + 1 /\ s.pending = fight.pending
  BY <1>1, <1>2, GrantedAccounts
<1> HIDE DEF s, crawl
<1>4. path \in Seq(Cells)
  BY <1>1, PathsAre
<1>5. Once(s) /\ Free(s) /\ Dated(s) /\ OfferedHere(s, {})
  BY <1>1, <1>3, NewMove
<1>6. /\ s.condition = "able" /\ Cost(path, crawl, Difficult) <= Available(s)
      /\ "opportunity" \notin s.pending
  BY <1>2, <1>3, NothingAsked DEF MayWalk
<1>7. Core(moved) /\ Sound(moved)
  BY <1>1, <1>3, <1>4, <1>5, <1>6, StartKeeps, StartSound
<1> HIDE DEF moved
<1> QED BY <1>2, <1>7, CommitSound

LEMMA PushSound ==
  ASSUME IInv, Sound(fight), NEW cell \in Cells, NEW blow \in Contact, Push(cell, blow)
  PROVE  Sound(fight')
<1> DEFINE more == Steps(fight, <<cell>>, "push")
           trail == fight.trail \o more
           pushed == [fight EXCEPT !.at = cell, !.trail = trail]
           path == <<cell>>
<1>1. /\ fight \in Fights /\ fight.pending = {}
      /\ Commit(Met(fight, path, pushed, blow))
  BY DEF IInv, Core, Push
<1>2. more \in Seq(Taken) /\ \A i \in 1 .. Len(more) : more[i].how \notin {"walk", "crawl"}
  BY <1>1, PushIs
<1>3. path \in Seq(Cells)
  OBVIOUS
<1> HIDE DEF more
<1>4. trail \in Seq(Taken)
  <2>1. fight.trail \in Seq(Taken)
    BY <1>1 DEF Fights
  <2> QED BY <1>2, <2>1, ConcatProperties
<1> HIDE DEF trail
<1>5. /\ pushed \in Fights /\ pushed.trail = trail /\ pushed.asked = fight.asked
      /\ pushed.move = fight.move /\ pushed.cont = fight.cont /\ pushed.grant = fight.grant
      /\ pushed.spent = fight.spent /\ pushed.main = fight.main
      /\ pushed.reaction = fight.reaction /\ pushed.pending = fight.pending
  BY <1>1, <1>4 DEF Fights
<1> HIDE DEF pushed, path
<1>6. Core(pushed)
  BY <1>1, <1>2, <1>5, AsideKeeps DEF trail
<1>7. Sound(pushed)
  <2>1. Accounts(pushed)
    BY <1>1, <1>5, PushKeepsBooks DEF Sound, trail, more
  <2>2. Rested(pushed)
    BY <1>5 DEF Sound, Rested
  <2> QED BY <2>1, <2>2 DEF Sound
<1>8. Core(Met(fight, path, pushed, blow)) /\ Sound(Met(fight, path, pushed, blow))
  BY <1>1, <1>3, <1>6, <1>7, ContactsAre, MetKeeps, MetSound
<1> QED BY <1>1, <1>8, CommitSound

\* Standing up costs half the speed, once.
LEMMA StandBill ==
  ASSUME NEW step \in Taken, step.how = "stand", step.payment = "movement", NEW p
  PROVE  Bill(<<step>>, p) = IF p = "movement" THEN Speed \div 2 ELSE 0
<1> DEFINE b == <<step>>
           h == Speed \div 2
<1>1. b \in Seq(Taken) /\ Len(b) = 1 /\ b[1] = step
  OBVIOUS
<1>2. h \in Nat
  BY HalfSpeed
<1> HIDE DEF b, h
<1>3. CASE p # "movement"
  <2>1. \A i \in 1 .. Len(b) : b[i].payment # p
    BY <1>1, <1>3
  <2>2. Bill(b, p) = 0
    BY <1>1, <2>1, FreeOfCharge
  <2> QED BY <1>3, <2>2 DEF b
<1>4. CASE p = "movement"
  <2>1. Count(b, Way("stand", p)) = 1
    <3>1. \A i \in 1 .. Len(b) : b[i] \in Way("stand", p)
      BY <1>1, <1>4 DEF Way
    <3> QED BY <1>1, <3>1, CountAll
  <2>2. Count(b, Way("walk", p)) = 0 /\ Count(b, Way("crawl", p)) = 0
    BY <1>1, CountNone DEF Way
  <2>3. Count(b, Slowed(p)) = 0
    BY <1>1, CountNone DEF Slowed
  <2>4. Bill(b, p) = 0 + 2 * 0 + 0 + h * 1
    BY <2>1, <2>2, <2>3 DEF Bill, h
  <2> QED BY <1>2, <1>4, <2>4 DEF b, h
<1> QED BY <1>3, <1>4

LEMMA StandSound ==
  ASSUME IInv, Sound(fight), Stand
  PROVE  Sound(fight')
<1> DEFINE step == [how |-> "stand", from |-> fight.at, to |-> fight.at,
                    move |-> fight.move, watched |-> {}, payment |-> "movement"]
           h == Speed \div 2
           spent == fight.spent + h
           trail == Append(fight.trail, step)
           more == <<step>>
           r == [fight EXCEPT !.prone = FALSE, !.spent = spent, !.trail = trail]
<1>1. /\ fight \in Fights /\ fight.pending = {} /\ Commit(r)
      /\ fight.condition = "able" /\ Remaining(fight) >= h
  BY DEF IInv, Core, Stand
<1>2. /\ step \in Taken /\ step.how = "stand" /\ step.payment = "movement"
      /\ step.move = fight.move
  BY <1>1 DEF Fights, Taken, Hows, Pays
<1>3. h \in Nat /\ Speed \in Nat /\ h <= Speed
  BY HalfSpeed
<1>4. /\ fight.spent \in 0 .. Speed /\ fight.move \in 0 .. MaxMoves
      /\ fight.trail \in Seq(Taken)
  BY <1>1 DEF Sound, Accounts, Books, Fights
<1>5. Bill(more, "movement") = h /\ \A p : p # "movement" => Bill(more, p) = 0
  BY <1>2, StandBill
<1> HIDE DEF step, h
<1>6. spent \in 0 .. Speed
  BY <1>1, <1>3, <1>4 DEF Remaining, EffectiveSpeed
<1>7. more \in Seq(Taken) /\ \A i \in 1 .. Len(more) : more[i].how \notin {"walk", "crawl"}
  BY <1>2
<1>8. trail \in Seq(Taken) /\ trail = fight.trail \o more
  BY <1>2, <1>4, AppendProperties, AppendIsConcat
<1>9. \A i \in DOMAIN trail : trail[i].move \in 0 .. MaxMoves
  <2>1. /\ DOMAIN trail = 1 .. Len(fight.trail) + 1 /\ Len(fight.trail) \in Nat
        /\ DOMAIN fight.trail = 1 .. Len(fight.trail)
        /\ \A i \in 1 .. Len(fight.trail) : trail[i] = fight.trail[i]
        /\ trail[Len(fight.trail) + 1] = step
    BY <1>2, <1>4, AppendProperties, LenProperties
  <2> SUFFICES ASSUME NEW i \in DOMAIN trail PROVE trail[i].move \in 0 .. MaxMoves
    OBVIOUS
  <2> HIDE DEF trail
  <2>2. i \in 1 .. Len(fight.trail) \/ i = Len(fight.trail) + 1
    BY <2>1
  <2>3. CASE i \in 1 .. Len(fight.trail)
    BY <2>1, <2>3 DEF Sound, Accounts, Books
  <2> QED BY <1>2, <1>4, <2>1, <2>2, <2>3
<1> HIDE DEF spent, trail, more
<1>10. /\ r \in Fights /\ r.trail = trail /\ r.asked = fight.asked
       /\ r.move = fight.move /\ r.cont = fight.cont /\ r.grant = fight.grant
       /\ r.spent = spent /\ r.main = fight.main /\ r.reaction = fight.reaction
       /\ r.pending = fight.pending
  <2>1. spent \in Int /\ trail \in Seq(Taken) /\ fight \in Fights
    BY <1>1, <1>3, <1>6, <1>8
  <2>2. r \in Fights
    BY <2>1 DEF Fights
  <2>3. /\ r.trail = trail /\ r.asked = fight.asked /\ r.move = fight.move
        /\ r.cont = fight.cont /\ r.grant = fight.grant
    BY <2>1 DEF Fights
  <2>4. /\ r.spent = spent /\ r.main = fight.main /\ r.reaction = fight.reaction
        /\ r.pending = fight.pending
    BY <2>1 DEF Fights
  <2> QED BY <2>2, <2>3, <2>4
<1> HIDE DEF r
<1>11. Core(r)
  BY <1>1, <1>7, <1>8, <1>10, AsideKeeps
<1>12. Rested(r)
  BY <1>10 DEF Sound, Rested
<1>13. Books(r)
  BY <1>6, <1>9, <1>10 DEF Sound, Accounts, Books, GrantIsDue
<1>14. ASSUME Sphere \subseteq Difficult PROVE Paid(r)
  <2>0. Paid(fight)
    BY <1>14 DEF Sound, Accounts
  <2>1. \A p : /\ Bill(trail, p) = Bill(fight.trail, p) + Bill(more, p)
               /\ Bill(fight.trail, p) \in Nat
    BY <1>4, <1>7, <1>8, BillAdds, BillIsNat
  <2>2. \A p : p # "movement" => Bill(r.trail, p) = Bill(fight.trail, p)
    <3> SUFFICES ASSUME NEW p, p # "movement"
                 PROVE  Bill(r.trail, p) = Bill(fight.trail, p)
      OBVIOUS
    <3> QED BY <1>5, <1>10, <2>1
  <2>3. Bill(r.trail, "movement") = spent
    BY <1>3, <1>4, <1>5, <1>10, <2>0, <2>1 DEF Paid, spent
  <2> QED BY <1>10, <2>0, <2>2, <2>3, Zenon DEF Paid
<1> QED BY <1>1, <1>11, <1>12, <1>13, <1>14, CommitSound DEF Sound, Accounts

\* Answers change choices, reactions and conditions, before a blow falls.
LEMMA AnswerSound ==
  ASSUME IInv, Sound(fight), Answer
  PROVE  Sound(fight')
<1>0. Core(fight) /\ fight \in Fights
  BY DEF IInv, Core
<1>1. ASSUME Decline PROVE Sound(fight')
  <2> DEFINE r == Answered(fight)
  <2>1. SameWalk(r, fight) /\ Aside(r, fight)
    BY <1>0 DEF SameWalk, Aside, Answered, Fights
  <2>2. Core(r) /\ Sound(r)
    BY <1>0, <2>1, SameWalkKeeps, AsideSound
  <2> QED BY <1>1, <2>2, CommitSound DEF Decline
<1>2. ASSUME NEW blow \in Blows \cup {"defense"}, React(blow) PROVE Sound(fight')
  <2> DEFINE t == fight.cont.window.threat
             a == Answered(fight)
             r == [a EXCEPT !.ready = a.ready \ {t}]
  <2>1. SameWalk(a, fight) /\ Aside(a, fight)
    BY <1>0 DEF SameWalk, Aside, Answered, Fights
  <2>2. Commit(Struck(r, blow))
    BY <1>2, Zenon DEF React
  <2> HIDE DEF a, t
  <2>3. Core(a) /\ a \in Fights /\ Sound(a)
    BY <1>0, <2>1, SameWalkKeeps, AsideSound DEF Core
  <2>4. SameWalk(r, a) /\ Aside(r, a)
    BY <2>3 DEF SameWalk, Aside, Fights
  <2> HIDE DEF r
  <2>5. Core(r) /\ r \in Fights /\ Sound(r)
    BY <2>3, <2>4, SameWalkKeeps, AsideSound DEF Core
  <2>6. Core(Struck(r, blow)) /\ Sound(Struck(r, blow))
    BY <2>5, StruckKeeps, StruckSound
  <2> QED BY <2>2, <2>6, CommitSound
<1>3. ASSUME NEW blow \in Blows, Defend(blow) PROVE Sound(fight')
  <2> DEFINE r == [fight EXCEPT !.pending = fight.pending \ {"defense"}]
  <2>1. Commit(Struck(r, blow))
    BY <1>3, Zenon DEF Defend
  <2>2. SameWalk(r, fight) /\ Aside(r, fight)
    BY <1>0 DEF SameWalk, Aside, Fights
  <2> HIDE DEF r
  <2>3. Core(r) /\ r \in Fights /\ Sound(r)
    BY <1>0, <2>2, SameWalkKeeps, AsideSound DEF Core
  <2>4. Core(Struck(r, blow)) /\ Sound(Struck(r, blow))
    BY <2>3, StruckKeeps, StruckSound
  <2> QED BY <2>1, <2>4, CommitSound
<1>4. ASSUME Concentrate PROVE Sound(fight')
  <2> DEFINE r == [fight EXCEPT !.pending = fight.pending \ {"concentration"}]
  <2>1. Commit(r)
    BY <1>4, Zenon DEF Concentrate
  <2>2. SameWalk(r, fight) /\ Aside(r, fight)
    BY <1>0 DEF SameWalk, Aside, Fights
  <2> HIDE DEF r
  <2>3. Core(r) /\ Sound(r)
    BY <1>0, <2>2, SameWalkKeeps, AsideSound
  <2> QED BY <2>1, <2>3, CommitSound
<1>5. ASSUME NEW saved \in BOOLEAN, Rescue(saved) PROVE Sound(fight')
  <2> DEFINE c == IF saved THEN "able" ELSE fight.condition
             r == [fight EXCEPT !.pending = fight.pending \ {"rescue"}, !.condition = c]
  <2>1. Commit(r)
    BY <1>5, Zenon DEF Rescue
  <2>2. c \in {"able", "stopped", "down"}
    BY <1>0 DEF Fights
  <2> HIDE DEF c
  <2>3. SameWalk(r, fight) /\ Aside(r, fight)
    BY <1>0, <2>2 DEF SameWalk, Aside, Fights
  <2> HIDE DEF r
  <2>4. Core(r) /\ Sound(r)
    BY <1>0, <2>3, SameWalkKeeps, AsideSound
  <2> QED BY <2>1, <2>4, CommitSound
<1> QED BY <1>1, <1>2, <1>3, <1>4, <1>5 DEF Answer

\* An action spent on disengaging pays for no step.
LEMMA DisengageSound ==
  ASSUME IInv, Sound(fight), Disengage
  PROVE  Sound(fight')
<1> DEFINE m == fight.main - 1
           r == [fight EXCEPT !.main = m, !.disengaged = TRUE]
<1>0. Core(fight) /\ fight \in Fights
  BY DEF IInv, Core
<1>1. Commit(r) /\ fight.main > 0
  BY Zenon DEF Disengage
<1>2. fight.main \in {0, 1}
  BY DEF Sound, Accounts, Books
<1>3. m = 0
  BY <1>1, <1>2
<1> HIDE DEF m
<1>4. /\ SameWalk(r, fight) /\ r.spent = fight.spent /\ r.main = 0
      /\ r.reaction = fight.reaction /\ r.grant = fight.grant /\ r.move = fight.move
      /\ r.trail = fight.trail /\ r.cont = fight.cont /\ r.pending = fight.pending
  <2>1. m \in Int
    BY <1>3
  <2>2. SameWalk(r, fight)
    BY <1>0, <2>1 DEF SameWalk, Fights
  <2>3. r.main = m /\ r.spent = fight.spent /\ r.reaction = fight.reaction
    BY <1>0, <2>1 DEF Fights
  <2>4. /\ r.grant = fight.grant /\ r.move = fight.move /\ r.trail = fight.trail
        /\ r.cont = fight.cont /\ r.pending = fight.pending
    BY <1>0, <2>1 DEF Fights
  <2> QED BY <1>3, <2>2, <2>3, <2>4
<1> HIDE DEF r
<1>5. Core(r)
  BY <1>0, <1>4, SameWalkKeeps
<1>6. Books(r)
  BY <1>4 DEF Sound, Accounts, Books, GrantIsDue
<1>7. Sphere \subseteq Difficult => Paid(r)
  BY <1>4 DEF Sound, Accounts, Paid
<1>8. Rested(r)
  BY <1>4 DEF Sound, Rested
<1> QED BY <1>1, <1>5, <1>6, <1>7, <1>8, CommitSound DEF Sound, Accounts

LEMMA InitSound == Init => Sound(fight)
<1> SUFFICES ASSUME Init PROVE Sound(fight)
  OBVIOUS
<1>1. /\ fight.cont = NoMove /\ fight.grant = NoGrant /\ fight.trail = <<>>
      /\ fight.spent = 0 /\ fight.main = 1 /\ fight.reaction = 1 /\ fight.move = 0
      /\ fight.pending = {}
  BY DEF Init
<1>2. fight.trail \in Seq(Taken) /\ Len(fight.trail) = 0 /\ DOMAIN fight.trail = {}
  BY <1>1, EmptySeq
<1>3. Speed \in Nat /\ MaxMoves \in Nat
  BY LineAssumption
<1>4. \A p : Bill(fight.trail, p) = 0
  <2> TAKE p
  <2>1. \A i \in 1 .. Len(fight.trail) :
          fight.trail[i].how = "push" \/ fight.trail[i].payment # p
    BY <1>2
  <2> QED BY <1>2, <2>1, FreeOfCharge
<1>5. Books(fight)
  BY <1>1, <1>2, <1>3 DEF Books, GrantIsDue
<1>6. Paid(fight)
  BY <1>1, <1>4 DEF Paid
<1> QED BY <1>1, <1>5, <1>6 DEF Sound, Accounts, Rested

LEMMA NextSound == IInv /\ Sound(fight) /\ [Next]_vars => Sound(fight')
<1> SUFFICES ASSUME IInv, Sound(fight), [Next]_vars PROVE Sound(fight')
  OBVIOUS
<1>0. Core(fight) /\ fight \in Fights
  BY DEF IInv, Core
<1>1. ASSUME NEW blow \in Blows, Suffer(blow) PROVE Sound(fight')
  <2>1. Core(Struck(fight, blow)) /\ Sound(Struck(fight, blow))
    BY <1>0, StruckKeeps, StruckSound
  <2> QED BY <1>1, <2>1, CommitSound DEF Suffer
<1>2. ASSUME NEW t \in Threats, Disable(t) PROVE Sound(fight')
  <2> DEFINE r == [fight EXCEPT !.ready = fight.ready \ {t}]
  <2>1. Commit(r)
    BY <1>2, Zenon DEF Disable
  <2>2. SameWalk(r, fight) /\ Aside(r, fight)
    BY <1>0 DEF SameWalk, Aside, Fights
  <2> HIDE DEF r
  <2>3. Core(r) /\ Sound(r)
    BY <1>0, <2>2, SameWalkKeeps, AsideSound
  <2> QED BY <2>1, <2>3, CommitSound
<1>3. CASE UNCHANGED vars
  BY <1>3 DEF vars
<1> QED BY <1>1, <1>2, <1>3, MoveSound, SourceMoveSound, PushSound, StandSound,
           DisengageSound, AnswerSound DEF Next


(***************************************************************************)
(* The theorems on accounts and shape.                                     *)
(***************************************************************************)
Shape == IInv /\ Sound(fight) /\ troubles \in 0 .. MaxTroubles

LEMMA ShapeHolds == Spec => []Shape
<1>1. Init => Shape
  <2> SUFFICES ASSUME Init PROVE Shape
    OBVIOUS
  <2>1. troubles \in 0 .. MaxTroubles
    BY LineAssumption DEF Init
  <2> QED BY <2>1, InitHolds, InitSound DEF Shape
<1>2. Shape /\ [Next]_vars => Shape'
  <2> SUFFICES ASSUME Shape, [Next]_vars PROVE Shape'
    OBVIOUS
  <2>1. IInv'
    BY NextKeeps DEF Shape
  <2>2. Sound(fight)'
    <3>1. Sound(fight')
      BY NextSound DEF Shape
    <3> QED BY <3>1 DEF Sound, Accounts, Books, GrantIsDue, Paid, Rested, Bill, Count, Way,
                       Slowed
  <2>3. (troubles \in 0 .. MaxTroubles)'
    <3>1. troubles' = troubles \/ (troubles < MaxTroubles /\ troubles' = troubles + 1)
      BY DEF Next, vars, Move, SourceMove, Push, Answer, Decline, React, Defend, Concentrate,
             Rescue, Suffer, Disable, Stand, Disengage
    <3>2. MaxTroubles \in Nat /\ troubles \in 0 .. MaxTroubles
      BY LineAssumption DEF Shape
    <3> QED BY <3>1, <3>2
  <2> QED BY <2>1, <2>2, <2>3 DEF Shape
<1> QED BY <1>1, <1>2, PTL DEF Spec

\* The stored encounter keeps the shape the handlers rely on: a stored rest is a
\* path that leads on from where the mover paused, somebody still has a choice to
\* make while it is stored, and no budget of the turn is overdrawn
\* (movement_continuations.py, resume_pending_movement).
THEOREM MovementTypeCorrect == Spec => []TypeOK
<1>1. Shape => TypeOK
  <2> SUFFICES ASSUME Shape PROVE TypeOK
    OBVIOUS
  <2>0. /\ fight \in Fights /\ Waits(fight) /\ Books(fight) /\ Rested(fight)
        /\ troubles \in 0 .. MaxTroubles
    BY DEF Shape, IInv, Core, Sound, Accounts
  <2>1. /\ fight.at \in Cells /\ fight.condition \in {"able", "stopped", "down"}
        /\ {fight.prone, fight.disengaged} \subseteq BOOLEAN
        /\ fight.ready \subseteq Threats
        /\ fight.pending \subseteq {"opportunity", "defense", "concentration", "rescue"}
    BY <2>0 DEF Fights, Choices
  <2>2. /\ fight.spent \in 0 .. Speed /\ {fight.main, fight.reaction} \subseteq {0, 1}
        /\ fight.grant # NoGrant => fight.grant.left \in 0 .. Speed
    BY <2>0 DEF Books, GrantIsDue
  <2>3. ASSUME NEW i \in DOMAIN fight.trail PROVE fight.trail[i] \in Step
    <3>1. fight.trail \in Seq(Taken)
      BY <2>0 DEF Fights
    <3>2. fight.trail[i] \in Taken
      BY <3>1, ElementOfSeq, LenProperties
    <3>3. fight.trail[i].move \in 0 .. MaxMoves
      BY <2>0 DEF Books
    <3> DEFINE step == fight.trail[i]
    <3> HIDE DEF step
    <3>4. step \in Taken /\ step.move \in 0 .. MaxMoves
      BY <3>2, <3>3 DEF step
    <3>5. step \in Step
      BY <3>4 DEF Taken, Step, Hows, Pays
    <3> QED BY <3>5 DEF step
  <2>4. ASSUME fight.cont # NoMove
        PROVE  /\ fight.pending # {}
               /\ fight.cont.path \in PathsFrom[fight.cont.at]
               /\ fight.cont.window.threat \in Threats
               /\ fight.cont.window \in fight.cont.ignored
    <3>1. fight.cont \in Rests
      BY <2>0, <2>4 DEF Fights
    <3>2. fight.cont.window.threat \in Threats
      BY <3>1 DEF Rests, Crossings
    <3> QED BY <2>0, <2>4, <3>2 DEF Waits, Rested
  <2>5. "opportunity" \in fight.pending => fight.cont # NoMove
    BY <2>0 DEF Rested
  <2> QED BY <2>0, <2>1, <2>2, <2>3, <2>4, <2>5 DEF TypeOK
<1> QED BY <1>1, ShapeHolds, PTL

\* What the property counts is the bill of the trail.
LEMMA BillIsPaidWith ==
  ASSUME fight.trail \in Seq(Taken), NEW p
  PROVE  PaidWith(p) = Bill(fight.trail, p)
<1> DEFINE trail == fight.trail
           paid == {i \in DOMAIN trail : trail[i].payment = p}
           Of(how) == {i \in paid : trail[i].how = how}
           slow == {i \in Of("walk") \cup Of("crawl") : trail[i].to \in Difficult}
<1>1. \A i \in DOMAIN trail : trail[i] \in Taken
  BY ElementOfSeq, LenProperties
<1>2. \A how : Of(how) = {i \in DOMAIN trail : trail[i] \in Way(how, p)}
  BY <1>1 DEF Way
<1>3. slow = {i \in DOMAIN trail : trail[i] \in Slowed(p)}
  BY <1>1 DEF Slowed
<1>4. PaidWith(p) = Cardinality(Of("walk")) + 2 * Cardinality(Of("crawl"))
                      + Cardinality(slow) + (Speed \div 2) * Cardinality(Of("stand"))
  BY Zenon DEF PaidWith
<1>5. /\ Cardinality(Of("walk")) = Count(trail, Way("walk", p))
      /\ Cardinality(Of("crawl")) = Count(trail, Way("crawl", p))
      /\ Cardinality(Of("stand")) = Count(trail, Way("stand", p))
      /\ Cardinality(slow) = Count(trail, Slowed(p))
  BY <1>2, <1>3, Zenon DEF Count
<1> HIDE DEF paid, Of, slow
<1> QED BY <1>4, <1>5, Zenon DEF Bill

\* However often a move is interrupted, resumed or cancelled, and whatever pays
\* for it, each cell walked is paid for once (_spend_movement_uninterrupted).  A
\* move asked for while a sphere is active also pays for the sphere's cells as for
\* difficult terrain while its resumption does not, hence the hypothesis.
THEOREM EveryCellIsPaid ==
  ASSUME Sphere \subseteq Difficult
  PROVE  Spec => []WalkedIsPaid
<1>1. Shape => WalkedIsPaid
  <2> SUFFICES ASSUME Shape PROVE WalkedIsPaid
    OBVIOUS
  <2>1. Paid(fight) /\ fight.trail \in Seq(Taken)
    BY DEF Shape, IInv, Core, Sound, Accounts, Fights
  <2>2. \A p : PaidWith(p) = Bill(fight.trail, p)
    BY <2>1, BillIsPaidWith
  <2> QED BY <2>1, <2>2 DEF Paid, WalkedIsPaid
<1> QED BY <1>1, ShapeHolds, PTL
=============================================================================

------------------------------ MODULE Movement ------------------------------
(***************************************************************************)
(* Movement interrupted by opportunity attacks                             *)
(* (domain/movement_continuations.py, _spend_movement_uninterrupted and     *)
(* the commit that resumes a move, services/movement_continuations.py).     *)
(*                                                                         *)
(* A move is walked only as far as the first reaction it provokes.  The     *)
(* stretch walked is paid for, the rest is stored in the encounter as       *)
(* movement_continuation, and a window asks the threat.  Every later commit *)
(* of the encounter ends in resume_pending_movement, which waits while      *)
(* other choices are open, cancels the rest when the mover cannot go on,    *)
(* and else starts the rest as a new move, which may be interrupted again.  *)
(*                                                                         *)
(* One mover walks on a line of five-foot cells; threats stand on or beside *)
(* the line.  Distances, movement and reaches are in cells.  As in the code *)
(* an operation maps a stored encounter to the next one, so the encounter   *)
(* is one record and the operations are functions of it.                    *)
(***************************************************************************)
EXTENDS Integers, Sequences, FiniteSets

CONSTANTS
  Start,        \* where the mover begins its turn
  LastCell,     \* the line is the cells 0..LastCell
  Speed,        \* the mover's speed
  Threats,      \* hostile creatures
  Rank,         \* [Threats -> Nat], the order of their actor ids
  Cell,         \* [Threats -> Nat], where each stands along the line
  Side,         \* [Threats -> Nat], and how far beside it
  Reach,        \* [Threats -> SUBSET Nat], the reaches of its melee weapons
  Difficult,    \* cells of difficult terrain on the battle map
  Sphere,       \* cells an active Rolling Sphere fills
  Payments,     \* what pays for the moves a spell, plan or readied action grants
  MaxPath,      \* the longest path asked for
  MaxMoves,     \* bound on the moves of the turn
  MaxTroubles   \* bound on what befalls the combatants meanwhile

ASSUME LineAssumption ==
  /\ {Start, LastCell, Speed, MaxPath, MaxMoves, MaxTroubles} \subseteq Nat
  /\ Start <= LastCell
  /\ Rank \in [Threats -> Nat] /\ Cell \in [Threats -> Nat] /\ Side \in [Threats -> Nat]
  /\ Reach \in [Threats -> SUBSET Nat]
  /\ \A t, u \in Threats : Rank[t] = Rank[u] => t = u
ASSUME PaymentAssumption == Payments \subseteq {"movement", "action", "reaction"}

VARIABLES
  fight,     \* the encounter as stored in the campaign
  troubles   \* how much has befallen the combatants, for its bound

vars == <<fight, troubles>>

Cells == 0 .. LastCell
NoMove == [kind |-> "none"]
NoGrant == [kind |-> "none"]

\* What the reaction, or a save it led to, does to the mover.
Blows ==
  {"none", "prone", "stopped", "pushed", "down", "down_rescue", "concentration"}

\* What a contact with the sphere does.
Contact == IF Sphere = {} THEN {"none"} ELSE {"none", "prone", "down", "concentration"}

\* A requested path: the cells after the one the mover stands on.
Route(from, path) == <<from>> \o path
PathsFrom ==
  [from \in Cells |->
     {path \in UNION {[1 .. n -> Cells] : n \in 1 .. MaxPath} :
        \A i \in 1 .. Len(path) :
           Route(from, path)[i + 1] - Route(from, path)[i] \in {-1, 1}}]
Init ==
  /\ fight = [at |-> Start, spent |-> 0, condition |-> "able", prone |-> FALSE,
              disengaged |-> FALSE, main |-> 1, reaction |-> 1, ready |-> Threats,
              pending |-> {}, cont |-> NoMove, grant |-> NoGrant,
              trail |-> <<>>, asked |-> <<>>, met |-> {}, move |-> 0]
  /\ troubles = 0

(***************************************************************************)
(* Reaction windows.                                                       *)
(***************************************************************************)
Abs(n) == IF n < 0 THEN -n ELSE n
Distance(cell, t) ==
  IF Abs(cell - Cell[t]) > Side[t] THEN Abs(cell - Cell[t]) ELSE Side[t]

Leaves(from, to, t, r) == Distance(from, t) <= r /\ r < Distance(to, t)

Crossing(w) == [threat |-> w.threat, reach |-> w.reach]

\* The places where a route leaves a reach.
ExitsAt(route, i, t) ==
  {[offset |-> i - 1, threat |-> t, reach |-> r] :
     r \in {n \in Reach[t] : Leaves(route[i], route[i + 1], t, n)}}
Exits(route) ==
  UNION {ExitsAt(route, i, t) : t \in Threats, i \in 1 .. Len(route) - 1}

\* Mutant: an offered crossing is never offered again, wherever on the path.
WindowsOnce(s, path, ignored) ==
  IF s.disengaged THEN {}
  ELSE {w \in Exits(Route(s.at, path)) :
          w.threat \in s.ready /\ Crossing(w) \notin ignored}

\* The crossings of a path, by threats that can still react.  A crossing at the
\* very start is not offered again once it was.
Windows(s, path, ignored) ==
  IF s.disengaged THEN {}
  ELSE {w \in Exits(Route(s.at, path)) :
          /\ w.threat \in s.ready
          /\ ~(w.offset = 0 /\ Crossing(w) \in ignored)}

Precedes(w, v) ==
  \/ w.offset < v.offset
  \/ w.offset = v.offset /\ Rank[w.threat] < Rank[v.threat]
  \/ w.offset = v.offset /\ w.threat = v.threat /\ w.reach <= v.reach
First(windows) == CHOOSE w \in windows : \A v \in windows : Precedes(w, v)

(***************************************************************************)
(* Spending movement.                                                      *)
(***************************************************************************)
EffectiveSpeed(s) == IF s.condition = "able" THEN Speed ELSE 0
Least(m, n) == IF m < n THEN m ELSE n
Remaining(s) == IF EffectiveSpeed(s) > s.spent THEN EffectiveSpeed(s) - s.spent ELSE 0

PaysMovement(s) == s.grant = NoGrant \/ s.grant.payment = "movement"
Available(s) ==
  IF s.grant = NoGrant THEN Remaining(s)
  ELSE IF s.grant.payment = "movement" THEN Least(s.grant.left, Remaining(s))
  ELSE s.grant.left

Cost(path, crawl, rough) ==
  (IF crawl THEN 2 ELSE 1) * Len(path)
    + Cardinality({i \in 1 .. Len(path) : path[i] \in rough})

MayWalk(s, path, crawl, rough) ==
  /\ s.condition = "able"
  /\ PaysMovement(s) => Remaining(s) > 0
  /\ s.prone => crawl
  /\ Cost(path, crawl, rough) <= Available(s)

\* trail is the movement_history of the turn, one entry per cell.
Steps(s, path, how) ==
  [i \in 1 .. Len(path) |->
     [how |-> how, from |-> Route(s.at, path)[i], to |-> path[i], move |-> s.move,
      watched |-> IF s.disengaged THEN {} ELSE s.ready,
      payment |-> IF s.grant = NoGrant THEN "movement" ELSE s.grant.payment]]

Arrive(s, path) == IF path = <<>> THEN s.at ELSE path[Len(path)]

\* What the grant of a move has left after it paid.
Charged(s, cost) ==
  IF s.grant = NoGrant THEN NoGrant ELSE [s.grant EXCEPT !.left = s.grant.left - cost]

\* Mutant: a source's grant is spent on top of the turn's movement.
WalkTwicePaid(s, path, crawl, rough) ==
  LET cost == Cost(path, crawl, rough)
  IN [s EXCEPT !.at = Arrive(s, path), !.spent = @ + cost,
               !.grant = Charged(s, cost),
               !.trail = @ \o Steps(s, path, IF crawl THEN "crawl" ELSE "walk")]

Walk(s, path, crawl, rough) ==
  LET cost == Cost(path, crawl, rough)
  IN [s EXCEPT !.at = Arrive(s, path),
               !.spent = IF PaysMovement(s) THEN s.spent + cost ELSE s.spent,
               !.grant = Charged(s, cost),
               !.trail = @ \o Steps(s, path, IF crawl THEN "crawl" ELSE "walk")]

(***************************************************************************)
(* start_movement: the whole path, or the prefix before the first window.   *)
(***************************************************************************)
\* Mutant: only the crossing that was just offered is remembered.
PauseForgetful(s, path, crawl, rough, ignored, w) ==
  LET walked == Walk(s, SubSeq(path, 1, w.offset), crawl, rough)
  IN [walked EXCEPT
        !.pending = @ \cup {"opportunity"},
        !.asked = Append(@, [move |-> s.move, step |-> Len(walked.trail) + 1,
                             threat |-> w.threat, reach |-> w.reach]),
        !.cont = [kind |-> "move", path |-> SubSeq(path, w.offset + 1, Len(path)),
                  at |-> walked.at, crawl |-> crawl, window |-> Crossing(w),
                  ignored |-> {Crossing(w)}]]

\* The prefix is walked; the window asks; what was offered here stays ignored.
Pause(s, path, crawl, rough, ignored, w) ==
  LET walked == Walk(s, SubSeq(path, 1, w.offset), crawl, rough)
  IN [walked EXCEPT
        !.pending = @ \cup {"opportunity"},
        !.asked = Append(@, [move |-> s.move, step |-> Len(walked.trail) + 1,
                             threat |-> w.threat, reach |-> w.reach]),
        !.cont = [kind |-> "move", path |-> SubSeq(path, w.offset + 1, Len(path)),
                  at |-> walked.at, crawl |-> crawl, window |-> Crossing(w),
                  ignored |-> IF w.offset = 0 THEN ignored \cup {Crossing(w)}
                                              ELSE {Crossing(w)}]]

StartMovement(s, path, crawl, rough, ignored) ==
  LET windows == Windows(s, path, ignored)
  IN IF windows = {}
     THEN [Walk(s, path, crawl, rough) EXCEPT !.cont = NoMove, !.grant = NoGrant]
     ELSE Pause(s, path, crawl, rough, ignored, First(windows))

(***************************************************************************)
(* resume_pending_movement, at the end of every commit.                    *)
(***************************************************************************)
\* Mutant: the own window stays open.
CancelUnderWindow(s) == [s EXCEPT !.cont = NoMove, !.grant = NoGrant]

\* Mutant: only the continuation is dropped.
CancelPathOnly(s) == [s EXCEPT !.cont = NoMove, !.pending = @ \ {"opportunity"}]

\* The continuation, its window and _finish_source_movement.
Cancel(s) ==
  [s EXCEPT !.cont = NoMove, !.grant = NoGrant, !.pending = @ \ {"opportunity"}]

\* The own window is dropped when its threat can no longer react.
StillAsked(s) == "opportunity" \in s.pending /\ s.cont.window.threat \in s.ready

Restart(s) ==
  IF MayWalk(s, s.cont.path, s.cont.crawl, Difficult)
  THEN StartMovement([s EXCEPT !.pending = {}], s.cont.path, s.cont.crawl, Difficult,
             s.cont.ignored)
  ELSE Cancel(s)

\* The mover is where it paused and able to walk.
CanGoOn(s) == s.condition = "able" /\ s.at = s.cont.at

\* Mutant: a mover that cannot go on keeps its continuation.
ResumeLater(s) ==
  IF s.cont = NoMove \/ s.pending \ {"opportunity"} # {} \/ ~CanGoOn(s) \/ StillAsked(s)
  THEN s ELSE Restart(s)

Resume(s) ==
  IF s.cont = NoMove \/ s.pending \ {"opportunity"} # {} THEN s
  ELSE IF ~CanGoOn(s) THEN Cancel(s)
  ELSE IF StillAsked(s) THEN s
  ELSE Restart(s)

Commit(s) == fight' = Resume(s)

\* A blow, with the choices it opens.  One struck down may be offered a rescue.
Opens(blow) ==
  CASE blow = "down_rescue" -> {"rescue"}
    [] blow \in {"concentration", "defense"} -> {blow}
    [] OTHER -> {}

Struck(s, blow) ==
  LET pushed == blow = "pushed" /\ s.at < LastCell
  IN [s EXCEPT
        !.pending = @ \cup Opens(blow),
        !.prone = @ \/ blow = "prone",
        !.condition = CASE blow \in {"down", "down_rescue"} -> "down"
                        [] blow = "stopped" /\ @ = "able"   -> "stopped"
                        [] OTHER                            -> @,
        !.at = IF pushed THEN @ + 1 ELSE @,
        !.trail = IF pushed THEN @ \o Steps(s, <<s.at + 1>>, "push") ELSE @]

(***************************************************************************)
(* combat_move, refused while any choice is open.  The sphere's cells count  *)
(* as difficult terrain for the request, and the entries into it along the   *)
(* stretch walked by this call are settled.                                *)
(***************************************************************************)
Unopposed(s) == s.cont = NoMove /\ s.pending \cap {"opportunity", "defense"} = {}

\* Route indices at which the mover is newly inside the sphere.
Entries(route) ==
  {i \in 1 .. Len(route) :
     route[i] \in Sphere /\ (i = 1 \/ route[i - 1] \notin Sphere)}

\* The route is cut at the last place where it meets the settled position.
RouteWalked(route, at) ==
  LET last == CHOOSE i \in 1 .. Len(route) :
                 route[i] = at /\ \A j \in i + 1 .. Len(route) : route[j] # at
  IN SubSeq(route, 1, last)

\* Entry i of the route is made by step i - 1 of the call, hence by this step
\* of the trail.
Contacts(s, path, at) ==
  {Len(s.trail) + i - 1 : i \in Entries(RouteWalked(Route(s.at, path), at))}

Met(s, path, moved, blow) ==
  LET contacts == Contacts(s, path, moved.at)
  IN IF contacts = {} THEN moved
     ELSE Struck([moved EXCEPT !.met = @ \cup contacts], blow)

Move(path, crawl, blow) ==
  LET s == [fight EXCEPT !.move = @ + 1]
      moved == StartMovement(s, path, crawl, Difficult \cup Sphere, {})
  IN /\ fight.move < MaxMoves /\ Unopposed(fight) /\ fight.pending = {}
     /\ blow # "none" => Contacts(s, path, moved.at) # {}
     /\ MayWalk(s, path, crawl, Difficult \cup Sphere)
     /\ Commit(Met(s, path, moved, blow))
     /\ UNCHANGED troubles

\* spend_source_movement: a move paid by an action, a reaction or movement as a
\* reviewed plan or a readied action grants it, on the mover's turn.
Granted(s, payment) ==
  [s EXCEPT !.grant = [kind |-> "grant", payment |-> payment, left |-> Speed],
            !.main = IF payment = "action" THEN @ - 1 ELSE @,
            !.reaction = IF payment = "reaction" THEN @ - 1 ELSE @,
            !.move = @ + 1]

SourceMove(path, crawl, payment) ==
  LET s == Granted(fight, payment)
  IN /\ fight.move < MaxMoves /\ Unopposed(fight)
     /\ fight.condition = "able"
     /\ s.main >= 0 /\ s.reaction >= 0
     /\ MayWalk(s, path, crawl, Difficult)
     /\ Commit(StartMovement(s, path, crawl, Difficult, {}))
     /\ UNCHANGED troubles

\* combat_move with forced movement provokes nothing and costs nothing.
Push(cell, blow) ==
  LET pushed == [fight EXCEPT !.at = cell, !.trail = @ \o Steps(fight, <<cell>>, "push")]
  IN /\ troubles < MaxTroubles
     /\ fight.pending = {}
     /\ cell \in Cells /\ cell - fight.at \in {-1, 1}
     /\ blow # "none" => Contacts(fight, <<cell>>, cell) # {}
     /\ Commit(Met(fight, <<cell>>, pushed, blow))
     /\ troubles' = troubles + 1

(***************************************************************************)
(* The threat's answer, and the choices an attack opens.                    *)
(***************************************************************************)
Answered(s) == [s EXCEPT !.pending = @ \ {"opportunity"}]

\* combat_reaction_attack; the mover may be able to defend before the damage.
React(blow) ==
  LET t == fight.cont.window.threat
  IN /\ "opportunity" \in fight.pending /\ t \in fight.ready
     /\ Commit(Struck([Answered(fight) EXCEPT !.ready = @ \ {t}], blow))
     /\ UNCHANGED troubles

Decline ==
  /\ "opportunity" \in fight.pending
  /\ Commit(Answered(fight))
  /\ UNCHANGED troubles

Defend(blow) ==
  /\ "defense" \in fight.pending
  /\ Commit(Struck([fight EXCEPT !.pending = @ \ {"defense"}], blow))
  /\ UNCHANGED troubles

Concentrate ==
  /\ "concentration" \in fight.pending
  /\ Commit([fight EXCEPT !.pending = @ \ {"concentration"}])
  /\ UNCHANGED troubles

\* A choice that may bring the mover back from zero hit points.
Rescue(saved) ==
  /\ "rescue" \in fight.pending
  /\ Commit([fight EXCEPT !.pending = @ \ {"rescue"},
                          !.condition = IF saved THEN "able" ELSE @])
  /\ UNCHANGED troubles

(***************************************************************************)
(* What else is committed meanwhile.                                       *)
(***************************************************************************)
\* Damage or a condition from elsewhere.
Suffer(blow) ==
  /\ troubles < MaxTroubles
  /\ Struck(fight, blow) # fight
  /\ Commit(Struck(fight, blow))
  /\ troubles' = troubles + 1

\* A threat uses its reaction elsewhere, is incapacitated, or loses sight.
Disable(t) ==
  /\ troubles < MaxTroubles /\ t \in fight.ready
  /\ Commit([fight EXCEPT !.ready = @ \ {t}])
  /\ troubles' = troubles + 1

\* Both refused while any choice is open.
Stand ==
  /\ fight.pending = {} /\ fight.prone /\ fight.condition = "able"
  /\ Remaining(fight) >= Speed \div 2
  /\ Commit([fight EXCEPT !.prone = FALSE, !.spent = @ + Speed \div 2,
               !.trail = Append(@, [how |-> "stand", from |-> fight.at, to |-> fight.at,
                                    move |-> fight.move, watched |-> {},
                                    payment |-> "movement"])])
  /\ UNCHANGED troubles

Disengage ==
  /\ fight.pending = {} /\ fight.main > 0 /\ ~fight.disengaged
  /\ fight.condition = "able"
  /\ Commit([fight EXCEPT !.main = @ - 1, !.disengaged = TRUE])
  /\ UNCHANGED troubles

Answer ==
  \/ Decline
  \/ \E blow \in Blows \cup {"defense"} : React(blow)
  \/ \E blow \in Blows : Defend(blow)
  \/ Concentrate
  \/ \E saved \in BOOLEAN : Rescue(saved)

Next ==
  \/ \E path \in PathsFrom[fight.at], blow \in Contact : Move(path, fight.prone, blow)
  \/ \E path \in PathsFrom[fight.at], payment \in Payments :
        SourceMove(path, fight.prone, payment)
  \/ \E cell \in Cells, blow \in Contact : Push(cell, blow)
  \/ Answer
  \/ \E blow \in Blows : Suffer(blow)
  \/ \E t \in Threats : Disable(t)
  \/ Stand
  \/ Disengage

Spec == Init /\ [][Next]_vars

\* While choices are open somebody answers one of them in the end; most other
\* commands, and the end of the turn and of the encounter, are refused till then.
FairSpec == Spec /\ WF_vars(Answer)
-----------------------------------------------------------------------------
(***************************************************************************)
(* Properties.                                                             *)
(***************************************************************************)
\* The stored encounter has the shape the handlers rely on: a stored rest of a
\* move starts where it says, is a path of the line and has something to walk;
\* and while it is stored somebody still has a choice to make.
Step == [how : {"walk", "crawl", "push", "stand"}, from : Cells, to : Cells,
         move : 0 .. MaxMoves, watched : SUBSET Threats,
         payment : {"movement", "action", "reaction"}]
TypeOK ==
  /\ fight.at \in Cells /\ fight.spent \in 0 .. Speed
  /\ fight.condition \in {"able", "stopped", "down"}
  /\ {fight.prone, fight.disengaged} \subseteq BOOLEAN
  /\ {fight.main, fight.reaction} \subseteq {0, 1}
  /\ fight.ready \subseteq Threats
  /\ fight.pending \subseteq {"opportunity", "defense", "concentration", "rescue"}
  /\ \A i \in DOMAIN fight.trail : fight.trail[i] \in Step
  /\ fight.grant # NoGrant => fight.grant.left \in 0 .. Speed
  /\ fight.cont # NoMove =>
       /\ fight.pending # {}
       /\ fight.cont.path \in PathsFrom[fight.cont.at]
       /\ fight.cont.window.threat \in Threats
       /\ fight.cont.window \in fight.cont.ignored
  /\ "opportunity" \in fight.pending => fight.cont # NoMove
  /\ troubles \in 0 .. MaxTroubles

\* What the cells of the trail cost that were paid in one way.
PaidWith(payment) ==
  LET paid == {i \in DOMAIN fight.trail : fight.trail[i].payment = payment}
      Of(how) == {i \in paid : fight.trail[i].how = how}
  IN Cardinality(Of("walk")) + 2 * Cardinality(Of("crawl"))
       + Cardinality({i \in Of("walk") \cup Of("crawl") : fight.trail[i].to \in Difficult})
       + (Speed \div 2) * Cardinality(Of("stand"))

\* However often a move is interrupted, each cell walked is paid for once, from
\* the turn's movement or from the grant the move was made under.
WalkedIsPaid ==
  /\ fight.spent = PaidWith("movement")
  /\ fight.grant # NoGrant /\ fight.grant.payment # "movement" =>
       Speed - fight.grant.left = PaidWith(fight.grant.payment)

\* Nobody walks out of a reach for free: each willing step out of the reach of a
\* threat that could react then was first offered to it, in this very move.
NoFreeExit ==
  \A i \in DOMAIN fight.trail :
    LET step == fight.trail[i]
    IN step.how \in {"walk", "crawl"} =>
         \A t \in step.watched : \A r \in Reach[t] :
           Leaves(step.from, step.to, t, r) =>
             \E k \in DOMAIN fight.asked :
               fight.asked[k] = [move |-> step.move, step |-> i, threat |-> t, reach |-> r]

\* And no crossing is offered twice, although each resumption plans it again.
OfferedOnce ==
  \A j, k \in DOMAIN fight.asked : fight.asked[j] = fight.asked[k] => j = k

\* A source's grant of movement does not outlive its move.
GrantEndsWithMove == fight.grant # NoGrant => fight.cont # NoMove

\* An interrupted move is finished or cancelled once its choices are answered.
MovementEnds == fight.cont # NoMove ~> fight.cont = NoMove

\* Each step that walks into the sphere's space is settled as a contact with it.
EntriesAreContacts ==
  \A i \in DOMAIN fight.trail :
    LET step == fight.trail[i]
    IN step.how \in {"walk", "crawl"} /\ step.to \in Sphere /\ step.from \notin Sphere
         => i \in fight.met
=============================================================================

-------------------------------- MODULE Chase --------------------------------
(***************************************************************************)
(* Chases (domain/chase_engine.py and chase_start, chase_take_turn and      *)
(* chase_end of services/combat.py) and what surrounds them: the phase,     *)
(* combat, rests, forced marches and the exhaustion a chase leaves behind.  *)
(*                                                                         *)
(* Every command is one compare-and-swap commit on the campaign's revision, *)
(* so every action is one command.  A chase that ended is kept by the code  *)
(* for display only and is None here.                                       *)
(*                                                                         *)
(* A sheet is whether the actor is above 0 hit points, its exhaustion and   *)
(* whether it is prone; tired is the count its active chase_exhaustion      *)
(* effect records; window holds the actors whose short-rest Hit Die choice  *)
(* is current.  Distances and speeds are in feet.                           *)
(***************************************************************************)
EXTENDS Integers, Sequences, FiniteSets

CONSTANTS
  Actor,
  None,
  Speed,          \* [Actor -> Nat], walking speed with the reviewed adjustment
  FreeDashes,     \* [Actor -> Nat], 3 + Constitution modifier, at least 0
  Orders,         \* the initiative orders a chase may begin with
  Quarries,       \* and who may be chased
  Parties,        \* the groups that rest together
  Gaps,           \* the distances a chase may begin at
  Closings,       \* close_transition.distance_ft, or 0 when there is none
  Brought,        \* [Actor -> 0..6], the exhaustion each brings along
  Levels,         \* what exhaustion_set may be asked for
  Immune,         \* the actors immune to exhaustion
  MaxRound,       \* bound on the rounds of a chase
  MaxTroubles     \* bound on chases and on what befalls the actors outside them

ASSUME ChaseAssumption ==
  /\ Speed \in [Actor -> Nat] /\ FreeDashes \in [Actor -> Nat]
  /\ \A order \in Orders :
       /\ order \in Seq(Actor)
       /\ \A i, j \in DOMAIN order : order[i] = order[j] => i = j
  /\ Quarries \subseteq SUBSET Actor /\ Parties \subseteq SUBSET Actor
  /\ Gaps \subseteq Nat \ {0} /\ Closings \subseteq Nat
  /\ Brought \in [Actor -> 0 .. 6]
  /\ Levels \subseteq 0 .. 6 /\ Immune \subseteq Actor
  /\ MaxRound \in Nat /\ MaxTroubles \in Nat

VARIABLES
  phase,      \* campaign.state.game_phase
  fighting,   \* is a combat active?
  chase,      \* campaign.state.chase while it is active
  up,         \* [Actor -> BOOLEAN], hit points above 0
  ex,         \* [Actor -> 0..6], combat.exhaustion
  prone,      \* [Actor -> BOOLEAN]
  tired,      \* [Actor -> Nat], levels the active chase_exhaustion effect records
  window,     \* actors with a current short_rest_hit_dice choice
  other,      \* history: exhaustion from anything but chases
  took,       \* history: turns taken in the current round of the chase
  troubles    \* chases and troubles so far, for their bound

sheets == <<up, ex, prone, tired, other>>
vars == <<phase, fighting, chase, up, ex, prone, tired, window, other, took, troubles>>

On == chase # None
Least(m, n) == IF m < n THEN m ELSE n
NoTurns == [a \in Actor |-> 0]
Members(order) == {order[i] : i \in DOMAIN order}
Trouble == troubles < MaxTroubles /\ troubles' = troubles + 1

Init ==
  /\ phase = "lobby" /\ fighting = FALSE /\ chase = None
  /\ up = [a \in Actor |-> TRUE]
  /\ other = Brought /\ ex = Brought
  /\ prone = [a \in Actor |-> FALSE]
  /\ tired = [a \in Actor |-> 0]
  /\ window = {}
  /\ took = NoTurns
  /\ troubles = 0

\* set_exhaustion_level: who is immune keeps the level it has when a higher one
\* is asked for; a lower one is set.
SetExhaustion(a, level) == IF a \in Immune /\ level > ex[a] THEN ex[a] ELSE level

-----------------------------------------------------------------------------
(* The phase and combat *)

PhaseSet(to) ==
  /\ ~fighting
  /\ phase # to
  /\ to = "lobby" => ~On
  /\ phase' = to
  /\ UNCHANGED <<fighting, chase, sheets, window, took, troubles>>

\* Mutant: a combat may begin while a chase is on.
CombatStartAnyway ==
  /\ window = {}
  /\ ~fighting
  /\ fighting' = TRUE /\ phase' = "play"
  /\ UNCHANGED <<chase, sheets, window, took, troubles>>

CombatStart ==
  /\ window = {}
  /\ ~fighting /\ ~On
  /\ fighting' = TRUE /\ phase' = "play"
  /\ UNCHANGED <<chase, sheets, window, took, troubles>>

CombatEnd ==
  /\ fighting
  /\ fighting' = FALSE /\ phase' = "play"
  /\ UNCHANGED <<chase, sheets, window, took, troubles>>

-----------------------------------------------------------------------------
(* The chase *)

ChaseStart(order, quarry, gap, closing) ==
  /\ Trouble
  /\ phase = "play"
  /\ quarry # {} /\ quarry \subseteq Members(order) /\ Members(order) \ quarry # {}
  /\ window = {}
  /\ ~fighting /\ ~On
  /\ \A a \in Members(order) : up[a]
  /\ chase' = [round |-> 1, turn |-> 1, order |-> order, quarry |-> quarry,
               in |-> Members(order),
               at |-> [a \in Actor |-> IF a \in quarry THEN gap ELSE 0],
               dashes |-> NoTurns, pending |-> FALSE, closing |-> closing]
  /\ took' = NoTurns
  /\ UNCHANGED <<phase, fighting, sheets, window>>

\* Mutant: the search begins one place too late.
IsNextAfter(i, turn, order, active) ==
  /\ i \in DOMAIN order /\ order[i] \in active
  /\ \A j \in DOMAIN order :
       order[j] \in active => IF i > turn THEN j <= turn \/ j >= i
                                          ELSE j <= turn /\ j >= i

\* i is the first of the participants in active, at or after turn and then
\* from the head of the order.
IsNext(i, turn, order, active) ==
  /\ i \in DOMAIN order /\ order[i] \in active
  /\ \A j \in DOMAIN order :
       order[j] \in active => IF i >= turn THEN j < turn \/ j >= i
                                           ELSE j < turn /\ j >= i

IsCurrent(i) == IsNext(i, chase.turn, chase.order, chase.in)

\* Urban complications: knocked prone, a guard who attacks, or movement lost
\* and perhaps damage (hurt: it may be enough to fall).  Unhindered is a check
\* that succeeds.
Complication(d, p, h, g) == [delay |-> d, prone |-> p, hurt |-> h, guard |-> g]
Unhindered == Complication(0, FALSE, FALSE, FALSE)
Complications ==
  {Unhindered, Complication(0, TRUE, FALSE, FALSE), Complication(0, FALSE, FALSE, TRUE)}
    \cup {Complication(d, FALSE, TRUE, FALSE) : d \in {0, 5, 10}}

\* Speed after exhaustion.
Pace(a) == IF ex[a] >= 5 THEN 0 ELSE IF ex[a] >= 2 THEN Speed[a] \div 2 ELSE Speed[a]

\* Speed while prone is halved; standing up instead costs half of it.
Moved(pace, lying, rises, action, delay) ==
  LET speed == IF lying /\ ~rises THEN pace \div 2 ELSE pace
      walked == speed - (IF lying /\ rises THEN speed \div 2 ELSE 0)
      feet == IF action = "dash" THEN walked + speed ELSE walked
  IN  IF feet > delay THEN feet - delay ELSE 0

TooClose(c, active, at) ==
  \E q \in active \cap c.quarry, p \in active \ c.quarry : at[q] <= at[p] + c.closing

\* The end of the turn of the participant at index i: whether the chase is
\* over, who is next, whether a round ends, and then which quarries escape.
\* active is who remains after the turn.
EndTurn(i, active, at, dashes) ==
  LET order == chase.order
      caught == active \subseteq chase.quarry \/ active \cap chase.quarry = {}
                  \/ TooClose(chase, active, at)
      ended == \A j \in DOMAIN order : j > i => order[j] \notin active
  IN  /\ ended => window = {}
      /\ window' = window \ Members(order)
      /\ \/ /\ caught
            /\ chase' = None /\ took' = NoTurns
         \/ /\ ~caught
            /\ ended => chase.round < MaxRound
            /\ \E escaped \in SUBSET (active \cap chase.quarry), trouble \in BOOLEAN, n \in DOMAIN order :
                 /\ ~ended => escaped = {}
                 /\ IsNext(n, i + 1, order, active)
                 /\ IF active \cap chase.quarry = escaped
                      THEN chase' = None /\ took' = NoTurns
                      ELSE /\ chase' = [round |-> IF ended THEN chase.round + 1 ELSE chase.round,
                                         turn |-> n, order |-> order, quarry |-> chase.quarry,
                                         in |-> active \ escaped, at |-> at, dashes |-> dashes,
                                         pending |-> trouble, closing |-> chase.closing]
                           /\ took' = IF ended THEN NoTurns
                                      ELSE [took EXCEPT ![order[i]] = @ + 1]

Places == IF On THEN DOMAIN chase.order ELSE {}

\* In this order: the complication left by the turn before, which may drop the
\* actor to 0 hit points; standing up; movement, and for a dash beyond the free
\* ones a check that may fail; the guard, who strikes those who run past.  A
\* failed check is recorded in the effect whether or not it raised the level.
Settle(i, action, c, falls, rises, fails, struck) ==
  LET a == chase.order[i]
      lying == prone[a] \/ c.prone
      alive == up[a] /\ ~falls
      goes == alive /\ action # "drop_out"
      dashes == chase.dashes[a] + (IF goes /\ action = "dash" THEN 1 ELSE 0)
      feet == IF goes THEN Moved(Pace(a), lying, rises, action, c.delay) ELSE 0
      level == IF fails THEN SetExhaustion(a, Least(6, ex[a] + 1)) ELSE ex[a]
      stays == goes /\ ~struck /\ ~(fails /\ level >= 5)
  IN  /\ falls => c.hurt /\ up[a]
      /\ rises => lying /\ Pace(a) > 0 /\ alive
      /\ fails => goes /\ action = "dash" /\ dashes > FreeDashes[a]
      /\ struck => c.guard /\ feet >= 20
      /\ up' = [up EXCEPT ![a] = alive /\ ~struck]
      /\ ex' = [ex EXCEPT ![a] = level]
      /\ prone' = [prone EXCEPT ![a] = lying /\ ~rises]
      /\ tired' = [tired EXCEPT ![a] = IF fails THEN @ + 1 ELSE @]
      /\ EndTurn(i, IF stays THEN chase.in ELSE chase.in \ {a},
                 [chase.at EXCEPT ![a] = @ + feet],
                 [chase.dashes EXCEPT ![a] = dashes])

TakeTurn(i, action) ==
  /\ On /\ phase = "play" /\ ~fighting
  /\ IsCurrent(i)
  /\ \E c \in (IF chase.pending THEN Complications ELSE {Unhindered}),
        falls, rises, fails, struck \in BOOLEAN :
       Settle(i, action, c, falls, rises, fails, struck)
  /\ UNCHANGED <<phase, fighting, other, troubles>>

ChaseEnd ==
  /\ On /\ phase = "play" /\ ~fighting
  /\ chase' = None /\ took' = NoTurns
  /\ UNCHANGED <<phase, fighting, sheets, window, troubles>>

-----------------------------------------------------------------------------
(* Rests and marches *)

\* apply_rest takes back the levels the effect records and ends the effect.
RecoverChaseExhaustion(a) == IF ex[a] > tired[a] THEN ex[a] - tired[a] ELSE 0

\* The dead (exhaustion 6) cannot rest; at 0 hit points only the stable can,
\* and only a short rest.  A rest asks for no chase to be over.
ShortRest(resting, offered) ==
  /\ Trouble
  /\ window = {} /\ ~fighting
  /\ \A a \in resting : ex[a] < 6
  /\ offered \subseteq resting
  /\ ex' = [a \in Actor |-> IF a \in resting THEN RecoverChaseExhaustion(a) ELSE ex[a]]
  /\ tired' = [a \in Actor |-> IF a \in resting THEN 0 ELSE tired[a]]
  /\ window' = offered
  /\ UNCHANGED <<phase, fighting, chase, up, prone, other, took>>

LongRest(resting, fed) ==
  LET rested(n) == IF fed /\ n > 0 THEN n - 1 ELSE n
  IN  /\ Trouble
      /\ window = {} /\ ~fighting
      /\ \A a \in resting : up[a] /\ ex[a] < 6
      /\ ex' = [a \in Actor |-> IF a \in resting THEN rested(RecoverChaseExhaustion(a)) ELSE ex[a]]
      /\ other' = [a \in Actor |-> IF a \in resting THEN rested(other[a]) ELSE other[a]]
      /\ tired' = [a \in Actor |-> IF a \in resting THEN 0 ELSE tired[a]]
      /\ UNCHANGED <<phase, fighting, chase, up, prone, window, took>>

\* Spending or stopping; while more dice can be spent the choice goes on.
HitDie(a, heals, more) ==
  /\ a \in window /\ ~fighting /\ ~On
  /\ up' = [up EXCEPT ![a] = @ \/ heals]
  /\ window' = IF more THEN window ELSE window \ {a}
  /\ UNCHANGED <<phase, fighting, chase, ex, prone, tired, other, took, troubles>>

\* A save failed on a forced march.  Travel asks for no choice to be settled:
\* the clock moves on, and every open choice lapses.
ForcedMarch(a) ==
  /\ Trouble
  /\ ~fighting
  /\ ex[a] < 6
  /\ ex' = [ex EXCEPT ![a] = SetExhaustion(a, @ + 1)]
  /\ other' = [other EXCEPT ![a] = IF a \in Immune THEN @ ELSE @ + 1]
  /\ window' = {}
  /\ UNCHANGED <<phase, fighting, chase, up, prone, tired, took>>

\* character_exhaustion_set.  What it lowers counts against the other levels
\* first; the effect of a chase is left alone.  The dead are left out: they stay
\* dead whatever level is set, and neither rest nor march.
ExhaustionSet(a, level) ==
  LET reached == SetExhaustion(a, level)
  IN  /\ Trouble
      /\ ~fighting
      /\ ex[a] < 6
      /\ level # ex[a]
      /\ ex' = [ex EXCEPT ![a] = reached]
      /\ other' = [other EXCEPT ![a] = IF @ + reached > ex[a] THEN @ + reached - ex[a] ELSE 0]
      /\ window' = window \ {a}
      /\ UNCHANGED <<phase, fighting, chase, up, prone, tired, took>>

\* Damage and healing by other commands.
HitPoints(a) ==
  /\ Trouble
  /\ up[a] \/ ex[a] < 6
  /\ up' = [up EXCEPT ![a] = ~@]
  /\ window' = window \ {a}
  /\ UNCHANGED <<phase, fighting, chase, ex, prone, tired, other, took>>

-----------------------------------------------------------------------------
Next ==
  \/ \E to \in {"lobby", "play"} : PhaseSet(to)
  \/ CombatStart \/ CombatEnd
  \/ \E order \in Orders, quarry \in Quarries, gap \in Gaps, closing \in Closings :
       ChaseStart(order, quarry, gap, closing)
  \/ \E i \in Places, action \in {"move", "dash", "drop_out"} : TakeTurn(i, action)
  \/ ChaseEnd
  \/ \E resting \in Parties : \E offered \in SUBSET resting : ShortRest(resting, offered)
  \/ \E resting \in Parties, fed \in BOOLEAN : LongRest(resting, fed)
  \/ \E a \in Actor, heals \in BOOLEAN, more \in BOOLEAN : HitDie(a, heals, more)
  \/ \E a \in Actor : ForcedMarch(a) \/ HitPoints(a)
  \/ \E a \in Actor, level \in Levels : ExhaustionSet(a, level)

Spec == Init /\ [][Next]_vars

-----------------------------------------------------------------------------
(* Properties *)

Chases ==
  [round : Nat, turn : Nat, order : Orders, quarry : SUBSET Actor, in : SUBSET Actor,
   at : [Actor -> Nat], dashes : [Actor -> Nat], pending : BOOLEAN, closing : Closings]

\* The stored state has the shape the validators demand.
TypeOK ==
  /\ phase \in {"lobby", "play"} /\ fighting \in BOOLEAN
  /\ chase \in Chases \cup {None}
  /\ up \in [Actor -> BOOLEAN] /\ prone \in [Actor -> BOOLEAN]
  /\ ex \in [Actor -> 0 .. 6]
  /\ tired \in [Actor -> Nat] /\ other \in [Actor -> Nat]
  /\ window \in SUBSET Actor
  /\ took \in [Actor -> Nat]
  /\ troubles \in 0 .. MaxTroubles

\* A step within a chase: the turns taken, and what holds when the round changes.
TurnRule ==
  On /\ chase' # None =>
    /\ \A a \in Actor : took'[a] <= 1
    /\ chase'.round # chase.round =>
         \A i \in DOMAIN chase.order :
           chase.order[i] \in chase.in \cap chase'.in =>
             took[chase.order[i]] = IF IsCurrent(i) THEN 0 ELSE 1

\* In every round each participant who is still in the chase has taken exactly
\* one turn when the round ends, and nobody takes a second one before, although
\* participants drop out, fall and escape while turn_index names a place in
\* the whole list (advance_chase_turn, current_chase_participant).
EachTurnOnce == [][TurnRule]_vars

Taken == chase.round > 1 \/ \E a \in Actor : took[a] > 0

\* An active chase is one that can go on: it is play and not combat, both
\* sides still have someone in it, exactly one participant is the one who may
\* act, and once a turn was taken no pursuer is at the quarry it chases
\* (the outcomes of advance_chase_turn, the guards of chase_start,
\* combat_start and game_phase_set).
ChaseIsOn ==
  On => /\ phase = "play" /\ ~fighting
        /\ chase.in \cap chase.quarry # {} /\ chase.in \ chase.quarry # {}
        /\ \E i \in DOMAIN chase.order : IsCurrent(i) /\ \A j \in DOMAIN chase.order : IsCurrent(j) => j = i
        /\ Taken => ~TooClose(chase, chase.in, chase.at)

\* Exhaustion that did not come from a chase is never taken away with the
\* levels that did ("every level gained that way ends on the next Short or
\* Long Rest, while unrelated exhaustion remains", RUNTIME_DEEP_REFERENCE).
\* The code does not keep this: a rest subtracts what the effect records from
\* whatever level the sheet then has (recover_chase_exhaustion).
UnrelatedRemains == \A a \in Actor : ex[a] >= other[a]
=============================================================================

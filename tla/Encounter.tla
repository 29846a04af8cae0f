------------------------------ MODULE Encounter ------------------------------
(***************************************************************************)
(* One encounter of the combat engine, 2014 rules: the order of turns with *)
(* reinforcements and the dead, what a blow, a heal and a death save do to *)
(* an actor, concentration, readied actions and spells, and the windows    *)
(* (choices and saves) that hold everything else up.                       *)
(*                                                                         *)
(* Each tool call commits once, under the campaign revision it read, so a  *)
(* handler is one action.  A combatant's copy of its sheet is brought up   *)
(* to date in the same commit and is not kept apart here.                  *)
(***************************************************************************)
EXTENDS Integers, FiniteSets

CONSTANTS
  Actor,     \* the campaign's actors
  Rank,      \* initiative order, ties settled: a distinct number for each
  HP,        \* hit point maximum of each
  Savers,    \* those that make death saves (player characters)
  Casters,   \* those that can hold a spell
  Watchers,  \* those that may ready an action
  Ambushed,  \* those surprised when they enter
  Oiled,     \* those that may end a turn in burning oil
  Aflame,    \* those that may start a turn on fire
  Prompted,  \* those a reaction window may be opened for
  LineUps,   \* how the encounter may begin: [start, bench]
  Blow,      \* what may hit an actor: [amount, crit, ko]
  Cure,      \* how much healing an actor may receive at once
  MaxRound   \* bound: no turn is ended into a later round

ASSUME ActorAssumption == IsFiniteSet(Actor) /\ Actor # {}
ASSUME RankAssumption ==
  /\ Rank \in [Actor -> Nat]
  /\ \A a, b \in Actor : Rank[a] = Rank[b] => a = b
ASSUME HPAssumption == HP \in [Actor -> Nat \ {0}]
ASSUME KindAssumption ==
  \A S \in {Savers, Casters, Watchers, Ambushed, Oiled, Aflame, Prompted} : S \subseteq Actor
ASSUME LineUpAssumption ==
  \A l \in LineUps : /\ l.start \subseteq Actor /\ l.start # {}
                     /\ l.bench \subseteq Actor \ l.start
ASSUME BlowAssumption ==
  Blow \subseteq [amount : Nat \ {0}, crit : BOOLEAN, ko : BOOLEAN]
ASSUME CureAssumption == Cure \subseteq Nat \ {0}
ASSUME RoundAssumption == MaxRound \in Nat \ {0}

VARIABLES
  sheet,     \* [hp, cond, succ, fail, conc] of every actor
  present,   \* the combatants
  waits,     \* reinforcements: the round each joins in, 0 for none
  bench,     \* campaign actors that may still be sent in
  turn,      \* whose turn it is
  round,
  surprised, \* combatants whose first turn has not ended yet
  reaction,  \* reactions left to each
  main,      \* the current actor's action: "free", "spent" or "cast"
  bonus,     \* the current actor's bonus action is unspent
  due,       \* the current actor owes the death save of this turn
  readied,   \* [kind, status] of what each holds ready
  pending,   \* open windows, [kind, actor]
  active,
  acted,     \* history: who started a turn in this round
  reacted,   \* history: reactions spent since the own turn's start, up to 2
  dying,     \* history: the current actor has been dying since its turn came
  saved      \* history: death saves rolled this turn, up to 2

places == <<present, waits, bench, turn, round, surprised>>
history == <<acted, reacted, dying, saved>>
vars == <<sheet, places, reaction, main, bonus, due, readied, pending, active, history>>

Nothing == [kind |-> "none", status |-> "none"]
SheetType == [hp : Nat, cond : SUBSET {"unconscious", "stable", "dead"},
              succ : 0..2, fail : 0..3, conc : {"none", "spell", "held"}]
ReadyType == [kind : {"action", "spell"}, status : {"armed", "triggered"}] \cup {Nothing}
Window == [kind : {"readied_action", "readied_spell", "concentration", "reaction"},
           actor : Actor]

(***************************************************************************)
(* Every state is well formed: nobody has more hit points than its         *)
(* maximum, a tally of three successes is never stored, the current actor  *)
(* is a combatant, and nobody is both in the encounter and waiting.        *)
(***************************************************************************)
TypeOK ==
  /\ sheet \in [Actor -> SheetType]
  /\ \A a \in Actor : sheet[a].hp <= HP[a]
  /\ present \subseteq Actor /\ turn \in present
  /\ waits \in [Actor -> Nat] /\ bench \subseteq Actor
  /\ \A a \in Actor : a \in present => waits[a] = 0 /\ a \notin bench
  /\ round \in 1..MaxRound
  /\ surprised \subseteq Actor
  /\ reaction \in [Actor -> 0..1]
  /\ main \in {"free", "spent", "cast"} /\ bonus \in BOOLEAN /\ due \in BOOLEAN
  /\ readied \in [Actor -> ReadyType]
  /\ pending \subseteq Window
  /\ active \in BOOLEAN
  /\ acted \subseteq Actor
  /\ reacted \in [Actor -> 0..2]
  /\ dying \in BOOLEAN /\ saved \in 0..2

(***************************************************************************)
(* An actor's sheet.                                                       *)
(***************************************************************************)
Dead(s) == "dead" \in s.cond
Dying(s) == s.hp = 0 /\ s.cond \cap {"dead", "stable"} = {}
Incapacitated(s) == s.cond \cap {"unconscious", "dead"} # {}

\* Failed saves after a blow at 0 hit points: two for a critical one.
FailuresUncapped(s, blow) == s.fail + (IF blow.crit THEN 2 ELSE 1)
Failures(s, blow) ==
  LET fail == s.fail + (IF blow.crit THEN 2 ELSE 1) IN IF fail > 3 THEN 3 ELSE fail

\* What one blow does to actor a: 0 hit points knock it out, make it dying or
\* kill it, a blow at 0 counts as failed saves, and only the conscious keep
\* their concentration.
Struck(a, s, blow) ==
  LET hp == IF s.hp > blow.amount THEN s.hp - blow.amount ELSE 0
      felled == s.hp > 0 /\ hp = 0
      suffers == s.hp = 0 /\ a \in Savers /\ ~Dead(s)
      massive == blow.amount >= HP[a] + s.hp
      fail == IF suffers /\ ~massive THEN Failures(s, blow) ELSE s.fail
      killed == \/ felled /\ ~blow.ko /\ (massive \/ a \notin Savers)
                \/ suffers /\ (massive \/ fail >= 3)
  IN  [s EXCEPT !.hp = hp,
                !.fail = fail,
                !.conc = IF hp = 0 THEN "none" ELSE @,
                !.cond = CASE killed -> {"dead"}
                           [] felled /\ ~killed -> {"unconscious"} \cup (IF blow.ko THEN {"stable"} ELSE {})
                           [] suffers /\ ~killed -> {"unconscious"}
                           [] OTHER -> @]

\* Oil and alchemist's fire: one hit point of this model.
Ember == [amount |-> 1, crit |-> FALSE, ko |-> FALSE]

HealedTallyKept(a, s, amount) ==
  [s EXCEPT !.hp = IF @ + amount > HP[a] THEN HP[a] ELSE @ + amount,
            !.cond = @ \ {"unconscious", "stable"}]
Healed(a, s, amount) ==
  [s EXCEPT !.hp = IF @ + amount > HP[a] THEN HP[a] ELSE @ + amount,
            !.cond = @ \ {"unconscious", "stable"},
            !.succ = 0, !.fail = 0]

Stabilized(s) ==
  [s EXCEPT !.cond = @ \cup {"stable", "unconscious"}, !.succ = 0, !.fail = 0]

\* A death save: the natural 20, the natural 1, or a plain success or failure.
Rolled(s, die) ==
  LET fail == s.fail + (CASE die = "one" -> 2 [] die = "low" -> 1 [] OTHER -> 0)
  IN  CASE die = "twenty" -> [s EXCEPT !.hp = 1, !.cond = @ \ {"unconscious"}, !.succ = 0, !.fail = 0]
        [] die = "high" /\ s.succ < 2 -> [s EXCEPT !.succ = @ + 1]
        [] die = "high" /\ s.succ = 2 -> Stabilized(s)
        [] die \in {"one", "low"} /\ fail < 3 -> [s EXCEPT !.fail = fail]
        [] OTHER -> [s EXCEPT !.fail = 3, !.cond = {"dead"}]

(***************************************************************************)
(* The order of turns.  Combatants stand in order of Rank; a place in it   *)
(* is who is up, who is present and which round it is.                     *)
(***************************************************************************)
First(S) == CHOOSE a \in S : \A b \in S : Rank[a] <= Rank[b]
Later(a, S) == {b \in S : Rank[b] > Rank[a]}

\* A round begins with the reinforcements due by then in their ranks.
NewRound(place) ==
  LET all == place.present \cup {a \in Actor : waits[a] \in 1..(place.round + 1)}
  IN  [who |-> First(all), present |-> all, round |-> place.round + 1]

Step(place) ==
  LET rest == Later(place.who, place.present)
  IN  IF rest = {} THEN NewRound(place) ELSE [place EXCEPT !.who = First(rest)]

\* The place k dead combatants further than the one after the current actor.
Passed[k \in 0..Cardinality(Actor)] ==
  IF k = 0 THEN Step([who |-> turn, present |-> present, round |-> round])
           ELSE Step(Passed[k - 1])

DownPassedOver(sh, k) == k < Cardinality(Passed[k].present) /\ Incapacitated(sh[Passed[k].who])

\* The dead are passed over, as long as fewer were than there are combatants.
PassedOver(sh, k) == k < Cardinality(Passed[k].present) /\ Dead(sh[Passed[k].who])

Landing(sh) ==
  Passed[CHOOSE k \in 0..Cardinality(Actor) :
           ~PassedOver(sh, k) /\ \A j \in 0..(k - 1) : PassedOver(sh, j)]

Init ==
  \E lineup \in LineUps :
    /\ sheet = [a \in Actor |-> [hp |-> HP[a], cond |-> {}, succ |-> 0, fail |-> 0, conc |-> "none"]]
    /\ present = lineup.start
    /\ bench = lineup.bench
    /\ waits = [a \in Actor |-> 0]
    /\ turn = First(lineup.start)
    /\ round = 1
    /\ surprised = Ambushed \cap lineup.start
    /\ reaction = [a \in Actor |-> IF a \in Ambushed THEN 0 ELSE 1]
    /\ main = IF First(lineup.start) \in Ambushed THEN "spent" ELSE "free"
    /\ bonus = (First(lineup.start) \notin Ambushed)
    /\ due = FALSE
    /\ readied = [a \in Actor |-> Nothing]
    /\ pending = {}
    /\ active = TRUE
    /\ acted = {First(lineup.start)}
    /\ reacted = [a \in Actor |-> 0]
    /\ dying = FALSE
    /\ saved = 0

SpellWindow(a) == [kind |-> "readied_spell", actor |-> a]
ActionWindow(a) == [kind |-> "readied_action", actor |-> a]
ConcentrationWindow(a) == [kind |-> "concentration", actor |-> a]

\* Nothing else may happen while a choice or a save is open.
OnlyActive == active
Unblocked == active /\ pending = {}

\* What was readied lapses, and held energy with it.
EnergyKept(a, s) == s
Lapsed(a, s) ==
  IF readied[a].kind = "spell" /\ s.conc = "held" THEN [s EXCEPT !.conc = "none"] ELSE s

\* A save is due at the turn of an actor that was dying before it and still is.
OwesIfDying(a, after) == a \in Savers /\ Dying(after[a])
Owes(a, after) == a \in Savers /\ Dying(sheet[a]) /\ Dying(after[a])

(***************************************************************************)
(* combat_end_turn.  The current actor may burn in oil; if that leaves it  *)
(* concentrating, the save it owes refuses the call.  The next actor's     *)
(* readied response lapses, its budget is renewed, fire may burn it, and a *)
(* death save is due if it was dying already.                              *)
(***************************************************************************)
EndTurn ==
  /\ Unblocked
  /\ \E oil \in (IF turn \in Oiled THEN BOOLEAN ELSE {FALSE}), fire \in BOOLEAN :
       LET singed == IF oil THEN [sheet EXCEPT ![turn] = Struck(turn, @, Ember)] ELSE sheet
           place == Landing(singed)
           next == place.who
           burnt == IF fire THEN [singed EXCEPT ![next] = Struck(next, @, Ember)] ELSE singed
           idle == next \in surprised \ {turn}
       IN  /\ oil => singed[turn].conc = "none"
           /\ ~(due /\ Dying(singed[turn]))
           /\ fire => next \in Aflame
           /\ place.round <= MaxRound
           /\ sheet' = [burnt EXCEPT ![next] = Lapsed(next, @)]
           /\ present' = place.present
           /\ waits' = [a \in Actor |-> IF a \in place.present THEN 0 ELSE waits[a]]
           /\ turn' = next
           /\ round' = place.round
           /\ surprised' = surprised \ {turn}
           /\ reaction' = [a \in Actor |-> CASE a = next -> (IF idle THEN 0 ELSE 1)
                                             [] a # next /\ a = turn /\ a \in surprised -> 1
                                             [] OTHER -> reaction[a]]
           /\ main' = IF idle THEN "spent" ELSE "free"
           /\ bonus' = ~idle
           /\ due' = Owes(next, burnt)
           /\ readied' = [readied EXCEPT ![next] = Nothing]
           /\ acted' = (IF place.round > round THEN {} ELSE acted) \cup {next}
           /\ reacted' = [reacted EXCEPT ![next] = 0]
           /\ dying' = (next \in Savers /\ Dying(sheet[next]) /\ Dying(burnt[next]))
           /\ saved' = 0
  /\ UNCHANGED <<bench, pending, active>>

(***************************************************************************)
(* Blows, healing and death saves.                                         *)
(***************************************************************************)
\* A blow lands on a when the sheets, readied entries and windows are as given:
\* a spell whose concentration it ends dissipates with its window, and it opens
\* a save for the concentration it leaves.
Hit(a, blow, sheets, held, open) ==
  LET s == Struck(a, sheets[a], blow)
      lost == held[a].kind = "spell" /\ s.conc # "held"
      shaken == s.hp > 0 /\ s.conc # "none"
  IN  /\ shaken => ConcentrationWindow(a) \notin open
      /\ sheet' = [sheets EXCEPT ![a] = s]
      /\ readied' = IF lost THEN [held EXCEPT ![a] = Nothing] ELSE held
      /\ pending' = (IF lost THEN open \ {SpellWindow(a)} ELSE open)
                    \cup (IF shaken THEN {ConcentrationWindow(a)} ELSE {})
      /\ due' = (due /\ (a = turn => Dying(s)))
      /\ dying' = (dying /\ (a = turn => Dying(s)))

Damage(a, blow) ==
  /\ Unblocked /\ a \in present
  /\ Hit(a, blow, sheet, readied, pending)
  /\ UNCHANGED <<places, reaction, main, bonus, active, acted, reacted, saved>>

Mend(a, s) ==
  /\ sheet' = [sheet EXCEPT ![a] = s]
  /\ due' = (due /\ (a = turn => Dying(s)))
  /\ dying' = (dying /\ (a = turn => Dying(s)))
  /\ UNCHANGED <<places, reaction, main, bonus, readied, pending, active, acted, reacted, saved>>

Heal(a, amount) ==
  /\ Unblocked /\ a \in present /\ ~Dead(sheet[a])
  /\ Mend(a, Healed(a, sheet[a], amount))

Stabilize(a) ==
  /\ Unblocked /\ a \in present \cap Savers /\ Dying(sheet[a])
  /\ Mend(a, Stabilized(sheet[a]))

DeathSave(die) ==
  LET s == Rolled(sheet[turn], die)
  IN  /\ Unblocked /\ due /\ Dying(sheet[turn])
      /\ sheet' = [sheet EXCEPT ![turn] = s]
      /\ due' = FALSE
      /\ dying' = (dying /\ Dying(s))
      /\ saved' = IF saved = 2 THEN 2 ELSE saved + 1
      /\ UNCHANGED <<places, reaction, main, bonus, readied, pending, active, acted, reacted>>

(***************************************************************************)
(* Actions of the current actor.                                           *)
(***************************************************************************)
Acting(a) == Unblocked /\ a = turn /\ a \notin surprised /\ ~Incapacitated(sheet[a])

\* A concentration spell, by action or bonus action but not both in a turn;
\* it replaces what the caster concentrated on, a held spell too.
Cast(a, payment) ==
  /\ Acting(a) /\ a \in Casters
  /\ main = (IF payment = "main" THEN "free" ELSE main)
  /\ bonus /\ main # "cast"
  /\ main' = IF payment = "main" THEN "cast" ELSE main
  /\ bonus' = (payment = "main")
  /\ sheet' = [sheet EXCEPT ![a].conc = "spell"]
  /\ UNCHANGED <<places, reaction, due, readied, pending, active, history>>

\* A cantrip, cast into the hand.
ReadySpell(a) ==
  /\ Acting(a) /\ a \in Casters /\ main = "free"
  /\ readied[a] = Nothing
  /\ main' = "spent"
  /\ sheet' = [sheet EXCEPT ![a].conc = "held"]
  /\ readied' = [readied EXCEPT ![a] = [kind |-> "spell", status |-> "armed"]]
  /\ UNCHANGED <<places, reaction, bonus, due, pending, active, history>>

ReadyAction(a) ==
  /\ Acting(a) /\ a \in Watchers /\ main = "free"
  /\ readied[a] = Nothing
  /\ main' = "spent"
  /\ readied' = [readied EXCEPT ![a] = [kind |-> "action", status |-> "armed"]]
  /\ UNCHANGED <<sheet, places, reaction, bonus, due, pending, active, history>>

(***************************************************************************)
(* Readied responses and their windows.                                    *)
(***************************************************************************)
Trigger(a, window) ==
  /\ Unblocked /\ a \in present /\ readied[a].status = "armed"
  /\ readied' = [readied EXCEPT ![a].status = "triggered"]
  /\ pending' = pending \cup {window}
  /\ UNCHANGED <<sheet, places, reaction, main, bonus, due, active, history>>

TriggerSpell(a) ==
  readied[a].kind = "spell" /\ sheet[a].conc = "held" /\ Trigger(a, SpellWindow(a))

TriggerAction(a) == readied[a].kind = "action" /\ Trigger(a, ActionWindow(a))

\* A trigger or an answer that comes when the spell is no longer held.
Dissipate(a) ==
  /\ active /\ readied[a].kind = "spell" /\ sheet[a].conc # "held"
  /\ readied' = [readied EXCEPT ![a] = Nothing]
  /\ pending' = pending \ {SpellWindow(a)}
  /\ UNCHANGED <<sheet, places, reaction, main, bonus, due, active, history>>

CanReact(a) == reaction[a] > 0 /\ ~Incapacitated(sheet[a])

ReactFreely(a) ==
  reaction' = reaction /\ reacted' = [reacted EXCEPT ![a] = IF @ = 2 THEN 2 ELSE @ + 1]
React(a) ==
  /\ reaction' = [reaction EXCEPT ![a] = @ - 1]
  /\ reacted' = [reacted EXCEPT ![a] = IF @ = 2 THEN 2 ELSE @ + 1]

Decline(a, window) ==
  /\ active /\ window \in pending /\ readied[a].status = "triggered"
  /\ window = SpellWindow(a) => sheet[a].conc = "held"
  /\ readied' = [readied EXCEPT ![a].status = "armed"]
  /\ pending' = pending \ {window}
  /\ UNCHANGED <<sheet, places, reaction, main, bonus, due, active, history>>

\* The held spell goes off alone, into concentration of its own if it needs any,
\* and may strike a target.
ReleaseSpell(a, conc) ==
  LET freed == [sheet EXCEPT ![a].conc = conc]
      rest == [readied EXCEPT ![a] = Nothing]
  IN  /\ active /\ pending = {SpellWindow(a)} /\ CanReact(a)
      /\ readied[a] = [kind |-> "spell", status |-> "triggered"] /\ sheet[a].conc = "held"
      /\ React(a)
      /\ \/ /\ sheet' = freed /\ readied' = rest /\ pending' = {}
            /\ UNCHANGED <<due, dying>>
         \/ \E target \in present \ {a}, blow \in Blow :
              ~Dead(sheet[target]) /\ Hit(target, blow, freed, rest, {})
      /\ UNCHANGED <<places, main, bonus, active, acted, saved>>

\* A readied attack is settled as a reaction attack.
ReleaseAttack(a, target, blow) ==
  /\ active /\ ActionWindow(a) \in pending /\ CanReact(a)
  /\ readied[a].status = "triggered"
  /\ React(a)
  /\ target \in present \ {a} /\ ~Dead(sheet[target])
  /\ Hit(target, blow, sheet, [readied EXCEPT ![a] = Nothing], pending \ {ActionWindow(a)})
  /\ UNCHANGED <<places, main, bonus, active, acted, saved>>

\* Any other readied action, or an attack that misses.
ReleaseAction(a) ==
  /\ active /\ ActionWindow(a) \in pending /\ CanReact(a)
  /\ readied[a].status = "triggered"
  /\ React(a)
  /\ readied' = [readied EXCEPT ![a] = Nothing]
  /\ pending' = pending \ {ActionWindow(a)}
  /\ UNCHANGED <<sheet, places, main, bonus, due, active, acted, dying, saved>>

(***************************************************************************)
(* The save for concentration, and windows the DM opens.                   *)
(***************************************************************************)
ConcentrationCheck(a, success) ==
  LET s == IF success THEN sheet[a] ELSE [sheet[a] EXCEPT !.conc = "none"]
      lost == readied[a].kind = "spell" /\ s.conc # "held"
      closed == {ConcentrationWindow(a)} \cup (IF lost THEN {SpellWindow(a)} ELSE {})
  IN  /\ active /\ ConcentrationWindow(a) \in pending
      /\ sheet' = [sheet EXCEPT ![a] = s]
      /\ readied' = IF lost THEN [readied EXCEPT ![a] = Nothing] ELSE readied
      /\ pending' = pending \ closed
      /\ UNCHANGED <<places, reaction, main, bonus, due, active, history>>

\* Opened whatever else is pending.
ChoiceOpen(a) ==
  /\ active /\ a \in present
  /\ pending' = pending \cup {[kind |-> "reaction", actor |-> a]}
  /\ UNCHANGED <<sheet, places, reaction, main, bonus, due, readied, active, history>>

\* A selection spends the reaction a reaction window asks for; a readied
\* action's window is one too, and its entry stays triggered.  A window that
\* asks for none ends as one without a selection.
ChoiceResolve(window, selects) ==
  /\ active /\ window \in pending
  /\ window.kind \in {"reaction", "readied_action"}
  /\ pending' = pending \ {window}
  /\ IF selects THEN reaction[window.actor] > 0 /\ React(window.actor)
     ELSE UNCHANGED <<reaction, reacted>>
  /\ UNCHANGED <<sheet, places, main, bonus, due, readied, active, acted, dying, saved>>

(***************************************************************************)
(* Reinforcements and the end.                                             *)
(***************************************************************************)
Queue(a, joins) ==
  /\ Unblocked /\ a \in bench
  /\ joins > round
  /\ bench' = bench \ {a}
  /\ waits' = [waits EXCEPT ![a] = joins]
  /\ surprised' = surprised \cup ({a} \cap Ambushed)
  /\ UNCHANGED <<sheet, present, turn, round, reaction, main, bonus, due, readied,
                 pending, active, history>>

CombatEnd ==
  /\ Unblocked
  /\ active' = FALSE
  /\ readied' = [a \in Actor |-> Nothing]
  /\ sheet' = [a \in Actor |-> Lapsed(a, sheet[a])]
  /\ UNCHANGED <<places, reaction, main, bonus, due, pending, history>>

\* An encounter that was closed stays as it is.
Closed == ~active /\ UNCHANGED vars

Next ==
  \/ EndTurn
  \/ \E a \in present, blow \in Blow : Damage(a, blow)
  \/ \E a \in present, amount \in Cure : Heal(a, amount)
  \/ \E a \in present : Stabilize(a)
  \/ \E die \in {"twenty", "high", "low", "one"} : DeathSave(die)
  \/ \E a \in present, payment \in {"main", "bonus"} : Cast(a, payment)
  \/ \E a \in present : ReadySpell(a) \/ ReadyAction(a)
  \/ \E a \in present : TriggerSpell(a) \/ TriggerAction(a)
  \/ \E a \in present : Dissipate(a)
  \/ \E a \in present : Decline(a, SpellWindow(a)) \/ Decline(a, ActionWindow(a))
  \/ \E a \in present, conc \in {"none", "spell"} : ReleaseSpell(a, conc)
  \/ \E a, target \in present, blow \in Blow : ReleaseAttack(a, target, blow)
  \/ \E a \in present : ReleaseAction(a)
  \/ \E a \in present, success \in BOOLEAN : ConcentrationCheck(a, success)
  \/ \E a \in present \cap Prompted : ChoiceOpen(a)
  \/ \E window \in pending, selects \in BOOLEAN : ChoiceResolve(window, selects)
  \/ \E a \in bench, joins \in 2..MaxRound : Queue(a, joins)
  \/ CombatEnd
  \/ Closed

Spec == Init /\ [][Next]_vars

-----------------------------------------------------------------------------
(***************************************************************************)
(* Properties.                                                             *)
(***************************************************************************)
TurnStarts == turn' # turn \/ round' # round

\* A round ends when every combatant has had a turn in it or is dead, and
\* nobody has two: skipping the dead and seating the reinforcements at the
\* turn of the round never passes over the living or comes back to anybody.
OneTurnEachRound ==
  [][ /\ round' > round => \A a \in present : a \in acted \/ Dead(sheet'[a])
      /\ TurnStarts /\ round' = round => turn' \notin acted ]_vars

\* An actor concentrates on a held spell only while that spell is readied:
\* however the entry goes (released, lapsed at its turn, combat closed), the
\* held energy goes with it and does not occupy its concentration for ever.
HeldEnergyHasEntry ==
  \A a \in Actor : sheet[a].conc = "held" => readied[a].kind = "spell"

\* Open windows can be answered: a readied spell's is open exactly while the
\* spell is triggered, a readied action's only while it is, and a save for
\* concentration only for a conscious actor that still concentrates.
WindowsAreLive ==
  \A a \in Actor :
    /\ SpellWindow(a) \in pending <=> readied[a] = [kind |-> "spell", status |-> "triggered"]
    /\ ActionWindow(a) \in pending => readied[a] = [kind |-> "action", status |-> "triggered"]
    /\ ConcentrationWindow(a) \in pending => sheet[a].hp > 0 /\ sheet[a].conc # "none"

\* The parts of a sheet agree whatever order blows, heals and saves come in: a
\* tally is kept only while dying or dead, three failures are death, and the
\* conscious are exactly those with hit points.
TallyWhileDying ==
  \A a \in Actor : LET s == sheet[a] IN
    /\ s.succ + s.fail > 0 => s.hp = 0 /\ "stable" \notin s.cond
    /\ s.fail = 3 => Dead(s)
    /\ s.hp = 0 <=> Incapacitated(s)

\* An actor that was dying when its turn came and still is rolls exactly one
\* death save before the turn can be ended; one that fell, was healed or was
\* stabilized during the turn rolls none.
SaveEachTurn ==
  [][ /\ saved' <= 1
      /\ saved' > saved => dying
      /\ TurnStarts /\ dying /\ saved = 0 => Dead(sheet'[turn]) ]_vars

\* Nobody spends two reactions between two starts of its own turn, through
\* readied responses, generic windows and the surprise of the first round.
OneReaction == \A a \in Actor : reacted[a] <= 1

=============================================================================

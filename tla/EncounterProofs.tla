-------------------------- MODULE EncounterProofs --------------------------
(***************************************************************************)
(* Proofs about Encounter, for any actors, initiative, hit points, blows,  *)
(* reinforcements and number of rounds.                                    *)
(***************************************************************************)
EXTENDS Encounter, LeastElement, TLAPS

(***************************************************************************)
(* The inductive invariant.                                                *)
(***************************************************************************)
\* A sheet is typed and its parts agree.
Tidy(s) ==
  /\ s.succ + s.fail > 0 => s.hp = 0 /\ "stable" \notin s.cond
  /\ s.fail = 3 => Dead(s)
  /\ s.hp = 0 <=> Incapacitated(s)
Sound(a, s) == s \in SheetType /\ s.hp <= HP[a] /\ Tidy(s)

\* Sheets, entries and windows agree, and at most one window is open that is
\* not a reaction window of the DM's.
Triggered(r, kind) == r.kind = kind /\ r.status = "triggered"
SheetsSound(sh) == sh \in [Actor -> SheetType] /\ \A a \in Actor : Sound(a, sh[a])
Entered(sh, r) == \A a \in Actor : sh[a].conc = "held" => r[a].kind = "spell"
Live(sh, r, open) ==
  \A a \in Actor :
    /\ SpellWindow(a) \in open <=> Triggered(r[a], "spell")
    /\ ActionWindow(a) \in open => Triggered(r[a], "action")
    /\ ConcentrationWindow(a) \in open => sh[a].hp > 0 /\ sh[a].conc # "none"
Single(open) == \A v, w \in open : v.kind # "reaction" /\ w.kind # "reaction" => v = w
Consistent(sh, r, open) ==
  /\ SheetsSound(sh) /\ r \in [Actor -> ReadyType] /\ open \subseteq Window
  /\ Entered(sh, r) /\ Live(sh, r, open) /\ Single(open)

\* Everything in the type invariant that is not about sheets, entries and windows.
Frame ==
  /\ present \subseteq Actor /\ turn \in present
  /\ waits \in [Actor -> Nat] /\ bench \subseteq Actor
  /\ \A a \in Actor : a \in present => waits[a] = 0 /\ a \notin bench
  /\ round \in 1..MaxRound
  /\ surprised \subseteq Actor
  /\ reaction \in [Actor -> 0..1]
  /\ main \in {"free", "spent", "cast"} /\ bonus \in BOOLEAN /\ due \in BOOLEAN
  /\ active \in BOOLEAN
  /\ acted \subseteq Actor
  /\ reacted \in [Actor -> 0..2]
  /\ dying \in BOOLEAN /\ saved \in 0..2

\* Those that were not sent in yet do not wait for a round.
Benched == \A a \in bench : waits[a] = 0

\* A reaction is left or was spent, not both, and those that were surprised or
\* would be have neither.
Unspent ==
  \A a \in Actor :
    /\ reaction[a] + reacted[a] <= 1
    /\ a \in surprised \/ a \in bench \cap Ambushed => reaction[a] = 0 /\ reacted[a] = 0

\* Those who acted this round stand no later than the current actor, and of the
\* combatants up to it the others are dead.
TurnOrder ==
  /\ \A a \in acted : Rank[a] <= Rank[turn]
  /\ \A a \in present : Rank[a] <= Rank[turn] => a \in acted \/ Dead(sheet[a])

\* The save of this turn is due while the actor is dying and has not rolled it.
SavesDue ==
  /\ saved <= 1
  /\ due <=> dying /\ saved = 0
  /\ dying => turn \in Savers /\ Dying(sheet[turn])

IInv ==
  /\ Consistent(sheet, readied, pending) /\ Frame
  /\ Benched /\ Unspent /\ TurnOrder /\ SavesDue

(***************************************************************************)
(* What happens to a sheet.                                                *)
(***************************************************************************)
Blows == [amount : Nat \ {0}, crit : BOOLEAN, ko : BOOLEAN]

LEMMA SheetParts ==
  ASSUME NEW s \in SheetType
  PROVE  /\ s.hp \in Nat /\ s.succ \in 0..2 /\ s.fail \in 0..3
         /\ s.cond \subseteq {"unconscious", "stable", "dead"}
         /\ s.conc \in {"none", "spell", "held"}
BY DEF SheetType

LEMMA Conditions ==
  ASSUME NEW s
  PROVE  /\ Dead(s) <=> "dead" \in s.cond
         /\ Dying(s) <=> s.hp = 0 /\ "dead" \notin s.cond /\ "stable" \notin s.cond
         /\ Incapacitated(s) <=> "unconscious" \in s.cond \/ "dead" \in s.cond
BY DEF Dead, Dying, Incapacitated

With(s, hp, cond, succ, fail, conc) ==
  [s EXCEPT !.hp = hp, !.cond = cond, !.succ = succ, !.fail = fail, !.conc = conc]

LEMMA SheetChanged ==
  ASSUME NEW s \in SheetType, NEW hp \in Nat, NEW succ \in 0..2, NEW fail \in 0..3,
         NEW cond \in SUBSET {"unconscious", "stable", "dead"},
         NEW conc \in {"none", "spell", "held"}
  PROVE  LET t == With(s, hp, cond, succ, fail, conc)
         IN  /\ t \in SheetType /\ t.hp = hp /\ t.cond = cond
             /\ t.succ = succ /\ t.fail = fail /\ t.conc = conc
BY DEF SheetType, With

Reads(t, hp, cond, succ, fail, conc) ==
  t.hp = hp /\ t.cond = cond /\ t.succ = succ /\ t.fail = fail /\ t.conc = conc

\* A blow that leaves hit points, one that takes the last, one that hits a dying
\* or stable saver, and one that hits the dead or a creature at 0 without saves.
LEMMA StruckIs ==
  ASSUME NEW a \in Actor, NEW s \in SheetType, NEW blow \in Blows
  PROVE  LET t == Struck(a, s, blow) IN
         /\ t \in SheetType
         /\ \/ /\ s.hp > blow.amount
               /\ Reads(t, s.hp - blow.amount, s.cond, s.succ, s.fail, s.conc)
            \/ /\ s.hp > 0
               /\ \E cond \in {{"dead"}, {"unconscious"}, {"unconscious", "stable"}} :
                    Reads(t, 0, cond, s.succ, s.fail, "none")
            \/ /\ s.hp = 0 /\ ~Dead(s)
               /\ \E fail \in 0..3 : Reads(t, 0, {"dead"}, s.succ, fail, "none")
            \/ /\ s.hp = 0 /\ ~Dead(s)
               /\ \E fail \in 0..2 : Reads(t, 0, {"unconscious"}, s.succ, fail, "none")
            \/ /\ s.hp = 0
               /\ Reads(t, 0, s.cond, s.succ, s.fail, "none")
<1> DEFINE t == Struck(a, s, blow)
           hp == IF s.hp > blow.amount THEN s.hp - blow.amount ELSE 0
           felled == s.hp > 0 /\ hp = 0
           suffers == s.hp = 0 /\ a \in Savers /\ ~Dead(s)
           massive == blow.amount >= HP[a] + s.hp
           fail == IF suffers /\ ~massive THEN Failures(s, blow) ELSE s.fail
           killed == \/ felled /\ ~blow.ko /\ (massive \/ a \notin Savers)
                     \/ suffers /\ (massive \/ fail >= 3)
           out == {"unconscious"} \cup (IF blow.ko THEN {"stable"} ELSE {})
           cond == CASE killed -> {"dead"}
                     [] felled /\ ~killed -> out
                     [] suffers /\ ~killed -> {"unconscious"}
                     [] OTHER -> s.cond
           conc == IF hp = 0 THEN "none" ELSE s.conc
<1>0. s.hp \in Nat /\ s.fail \in 0..3 /\ blow.amount \in Nat /\ blow.amount > 0 /\ blow.crit \in BOOLEAN
  BY SheetParts DEF Blows
<1>1. t = [s EXCEPT !.hp = hp, !.fail = fail,
                    !.conc = IF hp = 0 THEN "none" ELSE @,
                    !.cond = CASE killed -> {"dead"}
                               [] felled /\ ~killed -> out
                               [] suffers /\ ~killed -> {"unconscious"}
                               [] OTHER -> @]
  BY Zenon DEF Struck
<1>2. hp \in Nat /\ fail \in 0..3
  BY <1>0 DEF Failures
<1>3. conc \in {"none", "spell", "held"}
  BY SheetParts
<1>4. out \in {{"unconscious"}, {"unconscious", "stable"}}
  OBVIOUS
<1>5. killed \in BOOLEAN /\ felled \in BOOLEAN /\ suffers \in BOOLEAN
  OBVIOUS
<1> HIDE DEF t, hp, fail, killed, felled, suffers, out
<1>6. cond \in SUBSET {"unconscious", "stable", "dead"}
  BY <1>4, <1>5, SheetParts
<1>7. /\ t.hp = hp /\ t.fail = fail /\ t.succ = s.succ /\ t.conc = conc /\ t.cond = cond
  BY <1>1, <1>5 DEF SheetType
<1>8. t \in SheetType
  BY <1>1, <1>2, <1>3, <1>4, <1>5 DEF SheetType
<1> HIDE DEF cond, conc
<1>9. Reads(t, hp, cond, s.succ, fail, conc)
  BY <1>7 DEF Reads
<1> USE DEF cond, conc
<1>10. CASE s.hp > blow.amount
  <2>1. hp = s.hp - blow.amount /\ hp # 0 /\ ~felled /\ ~suffers
    BY <1>0, <1>10 DEF hp, felled, suffers
  <2>2. ~killed /\ cond = s.cond /\ fail = s.fail /\ conc = s.conc
    BY <2>1 DEF killed, fail
  <2> QED BY <1>8, <1>9, <1>10, <2>1, <2>2 DEF t
<1>11. CASE s.hp > 0 /\ s.hp <= blow.amount
  <2>1. hp = 0 /\ felled /\ ~suffers
    BY <1>0, <1>11 DEF hp, felled, suffers
  <2>2. fail = s.fail /\ cond \in {{"dead"}, out} /\ conc = "none"
    BY <1>5, <2>1 DEF fail
  <2> HIDE DEF cond, conc
  <2>3. cond \in {{"dead"}, {"unconscious"}, {"unconscious", "stable"}}
    BY <1>4, <2>2
  <2> QED BY <1>8, <1>9, <1>11, <2>1, <2>2, <2>3 DEF t
<1>12. CASE suffers /\ killed
  <2>1. hp = 0 /\ cond = {"dead"} /\ conc = "none" /\ s.hp = 0 /\ ~Dead(s) /\ ~felled
    BY <1>0, <1>12 DEF hp, suffers, felled
  <2> HIDE DEF cond, conc
  <2> QED BY <1>2, <1>8, <1>9, <2>1 DEF t
<1>13. CASE suffers /\ ~killed
  <2>1. hp = 0 /\ ~felled /\ s.hp = 0 /\ ~Dead(s) /\ conc = "none"
    BY <1>0, <1>13 DEF hp, suffers, felled
  <2>2. cond = {"unconscious"}
    BY <1>13, <2>1
  <2>3. fail \in 0..2
    BY <1>2, <1>13 DEF killed
  <2> HIDE DEF cond, conc
  <2> QED BY <1>8, <1>9, <2>1, <2>2, <2>3 DEF t
<1>14. CASE s.hp = 0 /\ ~suffers
  <2>1. hp = 0 /\ ~felled /\ conc = "none"
    BY <1>0, <1>14 DEF hp, felled
  <2>2. ~killed /\ cond = s.cond /\ fail = s.fail
    BY <1>14, <2>1 DEF killed, fail
  <2> HIDE DEF cond, conc
  <2> QED BY <1>8, <1>9, <1>14, <2>1, <2>2 DEF t
<1>15. s.hp > blow.amount \/ (s.hp > 0 /\ s.hp <= blow.amount) \/ s.hp = 0
  BY <1>0
<1> QED BY <1>10, <1>11, <1>12, <1>13, <1>14, <1>15, Zenon

\* Sheets stay sound; a blow kills nobody twice and raises nobody, keeps the
\* dying dying or kills them, and lets go of concentration only at 0.
LEMMA StruckSound ==
  ASSUME NEW a \in Actor, NEW s, Sound(a, s), NEW blow \in Blows
  PROVE  LET t == Struck(a, s, blow) IN
         /\ Sound(a, t)
         /\ Dead(s) => Dead(t)
         /\ Dying(s) => Dying(t) \/ Dead(t)
         /\ t.conc = IF t.hp = 0 THEN "none" ELSE s.conc
<1> DEFINE t == Struck(a, s, blow)
<1>1. s \in SheetType /\ s.hp <= HP[a] /\ Tidy(s)
  BY DEF Sound
<1>2. HP[a] \in Nat /\ blow.amount \in Nat /\ blow.amount > 0
  BY HPAssumption DEF Blows
<1>3. /\ s.hp \in Nat /\ s.succ \in 0..2 /\ s.fail \in 0..3
      /\ s.cond \subseteq {"unconscious", "stable", "dead"}
  BY <1>1, SheetParts
<1>4. t \in SheetType
  BY <1>1, StruckIs
<1> DEFINE Goal == /\ Sound(a, t)
                   /\ Dead(s) => Dead(t)
                   /\ Dying(s) => Dying(t) \/ Dead(t)
                   /\ t.conc = IF t.hp = 0 THEN "none" ELSE s.conc
<1> HIDE DEF t
<1>5. ASSUME s.hp > blow.amount,
             Reads(t, s.hp - blow.amount, s.cond, s.succ, s.fail, s.conc)
      PROVE  Goal
  BY <1>1, <1>2, <1>3, <1>4, <1>5, Conditions DEF Reads, Sound, Tidy
<1>6. ASSUME s.hp > 0, NEW cond \in {{"dead"}, {"unconscious"}, {"unconscious", "stable"}},
             Reads(t, 0, cond, s.succ, s.fail, "none")
      PROVE  Goal
  BY <1>1, <1>2, <1>3, <1>4, <1>6, Conditions DEF Reads, Sound, Tidy
<1>7. ASSUME s.hp = 0, ~Dead(s), NEW fail \in 0..3, Reads(t, 0, {"dead"}, s.succ, fail, "none")
      PROVE  Goal
  BY <1>1, <1>2, <1>3, <1>4, <1>7, Conditions DEF Reads, Sound, Tidy
<1>8. ASSUME s.hp = 0, ~Dead(s), NEW fail \in 0..2,
             Reads(t, 0, {"unconscious"}, s.succ, fail, "none")
      PROVE  Goal
  BY <1>1, <1>2, <1>3, <1>4, <1>8, Conditions DEF Reads, Sound, Tidy
<1>9. ASSUME s.hp = 0, Reads(t, 0, s.cond, s.succ, s.fail, "none")
      PROVE  Goal
  BY <1>1, <1>2, <1>3, <1>4, <1>9, Conditions DEF Reads, Sound, Tidy
<1>10. Goal
  <2>1. s \in SheetType /\ t = Struck(a, s, blow)
    BY <1>1 DEF t
  <2> HIDE DEF Goal
  <2> QED BY <1>5, <1>6, <1>7, <1>8, <1>9, <2>1, StruckIs
<1> QED BY <1>10 DEF t

LEMMA HealedSound ==
  ASSUME NEW a \in Actor, NEW s, Sound(a, s), ~Dead(s), NEW amount \in Nat \ {0}
  PROVE  LET t == Healed(a, s, amount) IN Sound(a, t) /\ t.conc = s.conc /\ t.hp > 0
<1> DEFINE hp == IF s.hp + amount > HP[a] THEN HP[a] ELSE s.hp + amount
           cond == s.cond \ {"unconscious", "stable"}
           t == Healed(a, s, amount)
<1>1. s \in SheetType /\ s.hp <= HP[a] /\ Tidy(s)
  BY DEF Sound
<1>2. s.hp \in Nat /\ HP[a] \in Nat \ {0} /\ s.cond \subseteq {"unconscious", "stable", "dead"}
  BY <1>1, SheetParts, HPAssumption
<1>3. hp \in Nat /\ hp > 0 /\ hp <= HP[a]
  BY <1>2
<1>4. cond = {} /\ cond \in SUBSET {"unconscious", "stable", "dead"}
  BY <1>2, Conditions
<1>5. t = [s EXCEPT !.hp = IF @ + amount > HP[a] THEN HP[a] ELSE @ + amount,
                    !.cond = @ \ {"unconscious", "stable"}, !.succ = 0, !.fail = 0]
  BY Zenon DEF Healed
<1> HIDE DEF t
<1>6. t = With(s, hp, cond, 0, 0, s.conc)
  BY <1>1, <1>5 DEF SheetType, With
<1> HIDE DEF hp, cond
<1>7. /\ t \in SheetType /\ t.hp = hp /\ t.cond = cond
      /\ t.succ = 0 /\ t.fail = 0 /\ t.conc = s.conc
  BY <1>1, <1>3, <1>4, <1>6, SheetParts, SheetChanged
<1>8. Sound(a, t) /\ t.conc = s.conc /\ t.hp > 0
  BY <1>3, <1>4, <1>7, Conditions DEF Sound, Tidy
<1> QED BY <1>8 DEF t

LEMMA StabilizedSound ==
  ASSUME NEW a \in Actor, NEW s, Sound(a, s), Dying(s)
  PROVE  LET t == Stabilized(s) IN Sound(a, t) /\ t.conc = s.conc /\ ~Dead(t) /\ ~Dying(t)
<1> DEFINE t == Stabilized(s)
           cond == s.cond \cup {"stable", "unconscious"}
<1>1. s \in SheetType /\ s.hp <= HP[a] /\ Tidy(s)
  BY DEF Sound
<1>2. s.hp = 0 /\ s.cond \subseteq {"unconscious", "stable", "dead"} /\ "dead" \notin s.cond
  BY <1>1, SheetParts, Conditions
<1>3. t = [s EXCEPT !.cond = @ \cup {"stable", "unconscious"}, !.succ = 0, !.fail = 0]
  BY Zenon DEF Stabilized
<1> HIDE DEF t
<1>4. t = With(s, s.hp, cond, 0, 0, s.conc)
  BY <1>1, <1>3 DEF SheetType, With
<1>5. cond \in SUBSET {"unconscious", "stable", "dead"} /\ "stable" \in cond
      /\ "unconscious" \in cond /\ "dead" \notin cond
  BY <1>2
<1> HIDE DEF cond
<1>6. /\ t \in SheetType /\ t.hp = s.hp /\ t.cond = cond
      /\ t.succ = 0 /\ t.fail = 0 /\ t.conc = s.conc
  BY <1>1, <1>4, <1>5, SheetParts, SheetChanged
<1>7. Sound(a, t) /\ t.conc = s.conc /\ ~Dead(t) /\ ~Dying(t)
  BY <1>1, <1>2, <1>5, <1>6, Conditions DEF Sound, Tidy
<1> QED BY <1>7 DEF t

\* A death save leaves a sound sheet whatever the die shows.
LEMMA RolledSound ==
  ASSUME NEW a \in Actor, NEW s, Sound(a, s), Dying(s), NEW die \in {"twenty", "high", "low", "one"}
  PROVE  LET t == Rolled(s, die) IN Sound(a, t) /\ t.conc = s.conc
<1> DEFINE t == Rolled(s, die)
           fail == s.fail + (CASE die = "one" -> 2 [] die = "low" -> 1 [] OTHER -> 0)
           Goal == Sound(a, t) /\ t.conc = s.conc
<1>1. s \in SheetType /\ s.hp <= HP[a] /\ Tidy(s) /\ HP[a] \in Nat \ {0}
  BY HPAssumption DEF Sound
<1>2. /\ s.hp = 0 /\ s.cond \subseteq {"unconscious", "stable", "dead"}
      /\ "dead" \notin s.cond /\ "stable" \notin s.cond
      /\ s.succ \in 0..2 /\ s.fail \in 0..3
  BY <1>1, SheetParts, Conditions
<1>3. s.fail < 3 /\ "unconscious" \in s.cond
  BY <1>1, <1>2, Conditions DEF Tidy
<1>4. ASSUME die = "twenty" PROVE Goal
  <2>1. t = [s EXCEPT !.hp = 1, !.cond = @ \ {"unconscious"}, !.succ = 0, !.fail = 0]
    BY <1>4 DEF Rolled
  <2> DEFINE cond == s.cond \ {"unconscious"}
  <2> HIDE DEF t
  <2>2. t = With(s, 1, cond, 0, 0, s.conc)
    BY <1>1, <2>1 DEF SheetType, With
  <2>3. cond = {} /\ cond \in SUBSET {"unconscious", "stable", "dead"}
    BY <1>2
  <2> HIDE DEF cond
  <2>4. /\ t \in SheetType /\ t.hp = 1 /\ t.cond = cond
        /\ t.succ = 0 /\ t.fail = 0 /\ t.conc = s.conc
    BY <1>1, <2>2, <2>3, SheetParts, SheetChanged
  <2> QED BY <1>1, <1>2, <2>3, <2>4, Conditions DEF Sound, Tidy
<1>5. ASSUME die = "high", s.succ < 2 PROVE Goal
  <2>1. t = [s EXCEPT !.succ = @ + 1]
    BY <1>5 DEF Rolled
  <2> HIDE DEF t
  <2>2. /\ t \in SheetType /\ t.hp = s.hp /\ t.cond = s.cond
        /\ t.succ = s.succ + 1 /\ t.fail = s.fail /\ t.conc = s.conc
    BY <1>1, <1>2, <1>5, <2>1 DEF SheetType
  <2> QED BY <1>1, <1>2, <1>3, <2>2, Conditions DEF Sound, Tidy
<1>6. ASSUME die = "high", ~(s.succ < 2) PROVE Goal
  <2>1. t = Stabilized(s)
    BY <1>2, <1>6 DEF Rolled
  <2> QED BY <2>1, StabilizedSound
<1>7. ASSUME die \in {"one", "low"}, fail < 3 PROVE Goal
  <2>1. t = [s EXCEPT !.fail = fail]
    BY <1>7 DEF Rolled
  <2>2. fail \in 0..2
    BY <1>2, <1>7
  <2> HIDE DEF t, fail
  <2>3. /\ t \in SheetType /\ t.hp = s.hp /\ t.cond = s.cond
        /\ t.succ = s.succ /\ t.fail = fail /\ t.conc = s.conc
    BY <1>1, <1>2, <2>1, <2>2 DEF SheetType
  <2> QED BY <1>1, <1>2, <1>3, <2>2, <2>3, Conditions DEF Sound, Tidy
<1>8. ASSUME die \in {"one", "low"}, ~(fail < 3) PROVE Goal
  <2>1. t = [s EXCEPT !.fail = 3, !.cond = {"dead"}]
    BY <1>8 DEF Rolled
  <2> HIDE DEF t
  <2>2. PICK cond \in SUBSET {"unconscious", "stable", "dead"} : cond = {"dead"}
    OBVIOUS
  <2>3. t = With(s, s.hp, cond, s.succ, 3, s.conc)
    BY <1>1, <2>1, <2>2 DEF SheetType, With
  <2>4. /\ t \in SheetType /\ t.hp = s.hp /\ t.cond = cond
        /\ t.succ = s.succ /\ t.fail = 3 /\ t.conc = s.conc
    BY <1>1, <1>2, <2>2, <2>3, SheetParts, SheetChanged
  <2> QED BY <1>1, <1>2, <2>2, <2>4, Conditions DEF Sound, Tidy
<1>9. Goal
  <2> HIDE DEF Goal, fail
  <2> QED BY <1>4, <1>5, <1>6, <1>7, <1>8
<1> QED BY <1>9

\* A change of concentration is no other change.
SameBut(s, t, conc) == t = [s EXCEPT !.conc = conc]

LEMMA ConcSound ==
  ASSUME NEW a \in Actor, NEW s, Sound(a, s), NEW conc \in {"none", "spell", "held"},
         NEW t, SameBut(s, t, conc)
  PROVE  /\ Sound(a, t) /\ t.conc = conc /\ t.hp = s.hp
         /\ Dead(t) <=> Dead(s)
         /\ Dying(t) <=> Dying(s)
<1>1. s \in SheetType
  BY DEF Sound
<1>2. /\ t \in SheetType /\ t.hp = s.hp /\ t.cond = s.cond
      /\ t.succ = s.succ /\ t.fail = s.fail /\ t.conc = conc
  BY <1>1 DEF SheetType, SameBut
<1> QED BY <1>2 DEF Sound, Tidy, Dead, Dying, Incapacitated

LEMMA LapsedSound ==
  ASSUME NEW a \in Actor, NEW s, Sound(a, s)
  PROVE  LET t == Lapsed(a, s) IN
         /\ Sound(a, t)
         /\ t.conc = "held" => readied[a].kind # "spell" /\ s.conc = "held"
         /\ Dead(t) <=> Dead(s)
         /\ Dying(t) <=> Dying(s)
<1>1. CASE readied[a].kind = "spell" /\ s.conc = "held"
  <2>1. SameBut(s, Lapsed(a, s), "none")
    BY <1>1 DEF Lapsed, SameBut
  <2> QED BY <2>1, ConcSound
<1>2. CASE ~(readied[a].kind = "spell" /\ s.conc = "held")
  BY <1>2 DEF Lapsed
<1> QED BY <1>1, <1>2

(***************************************************************************)
(* The order of turns.                                                     *)
(***************************************************************************)
LEMMA FirstIsFirst ==
  ASSUME NEW S \in SUBSET Actor, S # {}
  PROVE  First(S) \in S /\ \A b \in S : Rank[First(S)] <= Rank[b]
<1>1. {Rank[a] : a \in S} \in SUBSET Nat /\ {Rank[a] : a \in S} # {}
  BY RankAssumption
<1>2. PICK n \in {Rank[a] : a \in S} : \A m \in {Rank[a] : a \in S} : n <= m
  BY <1>1, LeastOf
<1>3. \E a \in S : \A b \in S : Rank[a] <= Rank[b]
  BY <1>2
<1> QED BY <1>3, Zenon DEF First

\* A place in the order: who is up there is a combatant, all combatants of now
\* are, and nobody from the bench.
Places == [who : Actor, present : SUBSET Actor, round : Nat]
Placed(p) ==
  /\ p \in Places /\ p.who \in p.present
  /\ present \subseteq p.present /\ p.present \cap bench = {}
  /\ p.round >= round
Here == [who |-> turn, present |-> present, round |-> round]

\* Between here and the place p everybody is dead.
Reached(sh, p) ==
  \/ /\ p.round = round /\ p.present = present
     /\ Rank[p.who] > Rank[turn]
     /\ \A a \in present : Rank[turn] < Rank[a] /\ Rank[a] < Rank[p.who] => Dead(sh[a])
  \/ /\ p.round > round
     /\ \A a \in present : Rank[turn] < Rank[a] => Dead(sh[a])
     /\ \A a \in p.present : Rank[a] < Rank[p.who] => Dead(sh[a])

LEMMA HerePlaced ==
  ASSUME TypeOK
  PROVE  Placed(Here)
BY RoundAssumption DEF TypeOK, Placed, Places, Here

\* A round that is over gives way to the next, with those that join.
LEMMA NewRoundIs ==
  ASSUME TypeOK, Benched, NEW p, Placed(p)
  PROVE  LET q == NewRound(p) IN
         /\ Placed(q) /\ q.round = p.round + 1
         /\ \A a \in q.present : Rank[q.who] <= Rank[a]
<1> DEFINE all == p.present \cup {a \in Actor : waits[a] \in 1..(p.round + 1)}
           q == NewRound(p)
<1>1. /\ p.who \in p.present /\ p.present \subseteq Actor /\ p.round \in Nat
      /\ present \subseteq p.present /\ p.present \cap bench = {} /\ p.round >= round
  BY DEF Placed, Places
<1>2. all \in SUBSET Actor /\ all # {}
  BY <1>1
<1>3. \A a \in all : a \notin bench
  BY <1>1 DEF Benched
<1>4. q = [who |-> First(all), present |-> all, round |-> p.round + 1]
  BY DEF NewRound
<1> HIDE DEF all, q
<1>5. First(all) \in all /\ \A b \in all : Rank[First(all)] <= Rank[b]
  BY <1>2, FirstIsFirst
<1>6. q.who = First(all) /\ q.present = all /\ q.round = p.round + 1
  BY <1>4
<1>7. q \in Places
  BY <1>1, <1>2, <1>4, <1>5 DEF Places
<1>8. present \subseteq all
  BY <1>1 DEF all
<1>9. round \in Nat
  BY DEF TypeOK
<1>10. Placed(q) /\ q.round = p.round + 1 /\ \A a \in q.present : Rank[q.who] <= Rank[a]
  BY <1>1, <1>3, <1>5, <1>6, <1>7, <1>8, <1>9 DEF Placed
<1> QED BY <1>10 DEF q

\* Within a round the next in order is up.
LEMMA StepIs ==
  ASSUME TypeOK, Benched, NEW p, Placed(p)
  PROVE  LET q == Step(p) IN
         /\ Placed(q)
         /\ \/ /\ q.round = p.round /\ q.present = p.present
               /\ Rank[q.who] > Rank[p.who]
               /\ \A a \in p.present : Rank[a] > Rank[p.who] => Rank[q.who] <= Rank[a]
            \/ /\ q.round = p.round + 1
               /\ \A a \in p.present : Rank[a] <= Rank[p.who]
               /\ \A a \in q.present : Rank[q.who] <= Rank[a]
<1> DEFINE rest == Later(p.who, p.present)
           q == Step(p)
<1>1. p \in Places /\ p.who \in Actor /\ p.present \subseteq Actor
  BY DEF Placed, Places
<1>2. \A a \in Actor : Rank[a] \in Nat
  BY RankAssumption
<1>3. CASE rest = {}
  <2>1. q = NewRound(p)
    BY <1>3 DEF Step
  <2>2. \A a \in p.present : Rank[a] <= Rank[p.who]
    BY <1>1, <1>2, <1>3 DEF Later
  <2> HIDE DEF q
  <2> QED BY <2>1, <2>2, NewRoundIs DEF q
<1>4. CASE rest # {}
  <2>1. rest \subseteq p.present /\ \A a \in p.present : a \in rest <=> Rank[a] > Rank[p.who]
    BY DEF Later
  <2>2. q = [p EXCEPT !.who = First(rest)]
    BY <1>4 DEF Step
  <2> HIDE DEF q, rest
  <2>3. First(rest) \in rest /\ \A b \in rest : Rank[First(rest)] <= Rank[b]
    BY <1>1, <1>4, <2>1, FirstIsFirst
  <2>4. First(rest) \in Actor
    BY <1>1, <2>1, <2>3
  <2>5. q \in Places /\ q.who = First(rest) /\ q.present = p.present /\ q.round = p.round
    BY <1>1, <2>2, <2>4 DEF Places
  <2>6. Placed(q)
    BY <2>1, <2>3, <2>5 DEF Placed
  <2>7. Rank[q.who] > Rank[p.who] /\ \A a \in p.present : Rank[a] > Rank[p.who] => Rank[q.who] <= Rank[a]
    BY <2>1, <2>3, <2>5
  <2> QED BY <2>5, <2>6, <2>7 DEF q
<1> QED BY <1>3, <1>4

LEMMA FirstReached ==
  ASSUME TypeOK, Benched, NEW sh
  PROVE  Placed(Step(Here)) /\ Reached(sh, Step(Here))
<1> DEFINE q == Step(Here)
<1>1. Here.who = turn /\ Here.present = present /\ Here.round = round
  BY DEF Here
<1>2. /\ Placed(q)
      /\ \/ /\ q.round = round /\ q.present = present
            /\ Rank[q.who] > Rank[turn]
            /\ \A a \in present : Rank[a] > Rank[turn] => Rank[q.who] <= Rank[a]
         \/ /\ q.round = round + 1
            /\ \A a \in present : Rank[a] <= Rank[turn]
            /\ \A a \in q.present : Rank[q.who] <= Rank[a]
  BY <1>1, StepIs, HerePlaced
<1> HIDE DEF q
<1>3. \A a \in Actor : Rank[a] \in Nat
  BY RankAssumption
<1>4. turn \in Actor /\ q.who \in Actor /\ present \subseteq Actor /\ q.present \subseteq Actor
      /\ round \in Nat
  BY <1>2 DEF TypeOK, Placed, Places
<1>5. Reached(sh, q)
  BY <1>2, <1>3, <1>4 DEF Reached
<1> QED BY <1>2, <1>5 DEF q

LEMMA NextReached ==
  ASSUME TypeOK, Benched, NEW sh, NEW p, Placed(p), Reached(sh, p), Dead(sh[p.who])
  PROVE  Placed(Step(p)) /\ Reached(sh, Step(p))
<1> DEFINE q == Step(p)
<1>1. /\ Placed(q)
      /\ \/ /\ q.round = p.round /\ q.present = p.present
            /\ Rank[q.who] > Rank[p.who]
            /\ \A a \in p.present : Rank[a] > Rank[p.who] => Rank[q.who] <= Rank[a]
         \/ /\ q.round = p.round + 1
            /\ \A a \in p.present : Rank[a] <= Rank[p.who]
            /\ \A a \in q.present : Rank[q.who] <= Rank[a]
  BY StepIs
<1> HIDE DEF q
<1>2. \A a \in Actor : Rank[a] \in Nat
  BY RankAssumption
<1>3. /\ turn \in Actor /\ p.who \in Actor /\ q.who \in Actor
      /\ present \subseteq p.present /\ p.present \subseteq Actor /\ q.present \subseteq Actor
      /\ round \in Nat /\ p.round \in Nat /\ p.round >= round
  BY <1>1 DEF TypeOK, Placed, Places
<1>4. \A a \in Actor : Rank[a] = Rank[p.who] => Dead(sh[a])
  BY <1>3, RankAssumption
<1>5. ASSUME q.round = p.round, q.present = p.present PROVE Reached(sh, q)
  <2>1. Rank[q.who] > Rank[p.who]
    BY <1>1, <1>3, <1>5
  <2>2. \A a \in p.present : Rank[a] < Rank[q.who] => Rank[a] < Rank[p.who] \/ Dead(sh[a])
    BY <1>1, <1>2, <1>3, <1>4, <1>5
  <2> QED BY <1>2, <1>3, <1>5, <2>1, <2>2 DEF Reached
<1>6. ASSUME q.round = p.round + 1 PROVE Reached(sh, q)
  <2>1. /\ \A a \in p.present : Rank[a] <= Rank[p.who]
        /\ \A a \in q.present : Rank[q.who] <= Rank[a]
    BY <1>1, <1>3, <1>6
  <2>2. \A a \in present : Rank[turn] < Rank[a] => Dead(sh[a])
    BY <1>2, <1>3, <1>4, <2>1 DEF Reached
  <2> QED BY <1>2, <1>3, <1>6, <2>1, <2>2 DEF Reached
<1> QED BY <1>1, <1>5, <1>6 DEF q

\* Passing over one combatant more is one step more.
LEMMA PassedIs ==
  Passed = [k \in 0..Cardinality(Actor) |-> IF k = 0 THEN Step(Here) ELSE Step(Passed[k - 1])]
<1> DEFINE Walk(g, n) == g = [k \in 0..n |-> IF k = 0 THEN Step(Here) ELSE Step(g[k - 1])]
           Missing == {n \in Nat : ~\E g : Walk(g, n)}
<1>1. ASSUME Missing # {} PROVE FALSE
  <2>1. PICK n \in Missing : \A m \in Missing : n <= m
    BY <1>1, LeastOf
  <2>2. n \in Nat /\ ~\E g : Walk(g, n)
    OBVIOUS
  <2>3. ASSUME n = 0 PROVE FALSE
    <3>1. Walk([k \in 0..0 |-> Step(Here)], 0)
      OBVIOUS
    <3> QED BY <2>2, <2>3, <3>1
  <2>4. ASSUME n # 0 PROVE FALSE
    <3>1. n - 1 \in Nat /\ n - 1 \notin Missing
      BY <2>1, <2>2, <2>4
    <3>2. PICK f : Walk(f, n - 1)
      BY <3>1
    <3> DEFINE g == [k \in 0..n |-> IF k = n THEN Step(f[n - 1]) ELSE f[k]]
    <3>3. ASSUME NEW k \in 0..n
          PROVE  g[k] = IF k = 0 THEN Step(Here) ELSE Step(g[k - 1])
      <4>1. CASE k = n
        BY <2>4, <3>1, <4>1
      <4>2. CASE k # n
        <5>1. k \in 0..(n - 1) /\ g[k] = f[k]
          BY <3>1, <4>2
        <5>2. f[k] = IF k = 0 THEN Step(Here) ELSE Step(f[k - 1])
          BY <3>2, <5>1
        <5>3. k # 0 => g[k - 1] = f[k - 1]
          BY <3>1, <5>1
        <5> QED BY <5>1, <5>2, <5>3
      <4> QED BY <4>1, <4>2
    <3>4. Walk(g, n)
      <4>1. g = [k \in 0..n |-> g[k]]
        OBVIOUS
      <4> HIDE DEF g
      <4> QED BY <3>3, <4>1
    <3> QED BY <2>2, <3>4
  <2> QED BY <2>3, <2>4
<1>2. Cardinality(Actor) \in Nat
  BY ActorAssumption, FS_CardinalityType
<1>3. \E g : Walk(g, Cardinality(Actor))
  BY <1>1, <1>2
<1>4. Passed = CHOOSE g : Walk(g, Cardinality(Actor))
  BY Zenon DEF Passed, Here
<1> HIDE DEF Walk
<1>5. Walk(Passed, Cardinality(Actor))
  BY <1>3, <1>4
<1> QED BY <1>5 DEF Walk

\* After passing over k dead, everybody between here and there is dead.
LEMMA PassedReached ==
  ASSUME TypeOK, Benched, NEW sh, NEW n \in 0..Cardinality(Actor),
         \A j \in 0..(n - 1) : PassedOver(sh, j)
  PROVE  Placed(Passed[n]) /\ Reached(sh, Passed[n])
<1> DEFINE Good(k) == Placed(Passed[k]) /\ Reached(sh, Passed[k])
           Bad == {k \in 0..n : ~Good(k)}
<1>0. Cardinality(Actor) \in Nat
  BY ActorAssumption, FS_CardinalityType
<1>1. ASSUME Bad # {} PROVE FALSE
  <2>1. PICK k \in Bad : \A m \in Bad : k <= m
    <3>1. Bad \in SUBSET Nat
      BY <1>0
    <3> HIDE DEF Bad
    <3> QED BY <1>1, <3>1, LeastOf
  <2>2. k \in 0..n /\ ~Good(k) /\ k \in 0..Cardinality(Actor)
    BY <1>0, <2>1
  <2>3. ASSUME k = 0 PROVE FALSE
    <3>1. Passed[k] = Step(Here)
      BY <2>2, <2>3, PassedIs
    <3> QED BY <2>2, <3>1, FirstReached
  <2>4. ASSUME k # 0 PROVE FALSE
    <3>1. k - 1 \in 0..n /\ k - 1 \in 0..(n - 1) /\ k - 1 \notin Bad
      BY <1>0, <2>1, <2>2, <2>4
    <3>2. Good(k - 1) /\ Dead(sh[Passed[k - 1].who])
      BY <3>1 DEF PassedOver
    <3>3. Passed[k] = Step(Passed[k - 1])
      BY <2>2, <2>4, PassedIs
    <3> QED BY <2>2, <3>2, <3>3, NextReached
  <2> QED BY <2>3, <2>4
<1>2. n \in 0..n
  BY <1>0
<1>3. Good(n)
  BY <1>1, <1>2
<1> QED BY <1>3

\* The next actor is a combatant, nobody alive was passed over on the way to it,
\* and nobody of the bench came in.
LEMMA LandingReached ==
  ASSUME TypeOK, Benched, NEW sh
  PROVE  Placed(Landing(sh)) /\ Reached(sh, Landing(sh))
<1> DEFINE N == Cardinality(Actor)
           Stops(k) == ~PassedOver(sh, k) /\ \A j \in 0..(k - 1) : PassedOver(sh, j)
           Free == {k \in 0..N : ~PassedOver(sh, k)}
<1>1. N \in Nat
  BY ActorAssumption, FS_CardinalityType
<1>2. \E k \in 0..N : Stops(k)
  <2>1. CASE Free = {}
    <3>1. \A j \in 0..(N - 1) : PassedOver(sh, j)
      BY <1>1, <2>1
    <3>2. Placed(Passed[N])
      <4>1. N \in 0..Cardinality(Actor)
        BY <1>1
      <4> HIDE DEF N
      <4> QED BY <3>1, <4>1, PassedReached
    <3> DEFINE all == Passed[N].present
    <3>3. all \in SUBSET Actor /\ IsFiniteSet(Actor)
      BY <3>2, ActorAssumption DEF Placed, Places
    <3> HIDE DEF all
    <3>4. IsFiniteSet(all) /\ Cardinality(all) <= N
      BY <3>3, FS_Subset
    <3>5. Cardinality(all) \in Nat
      BY <3>4, FS_CardinalityType
    <3>6. ~PassedOver(sh, N)
      BY <1>1, <3>4, <3>5 DEF PassedOver, all
    <3> QED BY <1>1, <2>1, <3>6
  <2>2. CASE Free # {}
    <3>1. Free \in SUBSET Nat
      BY <1>1
    <3>2. PICK k \in Free : \A m \in Free : k <= m
      <4> HIDE DEF Free
      <4> QED BY <2>2, <3>1, LeastOf
    <3>3. \A j \in 0..(k - 1) : j \in 0..N /\ j \notin Free
      BY <1>1, <3>2
    <3> QED BY <3>2, <3>3
  <2> QED BY <2>1, <2>2
<1> DEFINE n == CHOOSE k \in 0..N : Stops(k)
<1>3. n \in 0..N /\ Stops(n)
  <2> HIDE DEF Stops, N
  <2> QED BY <1>2
<1>4. Landing(sh) = Passed[n]
  BY Zenon DEF Landing
<1> HIDE DEF n
<1> QED BY <1>3, <1>4, PassedReached

(***************************************************************************)
(* Windows and what is readied.                                            *)
(***************************************************************************)
LEMMA WindowFacts ==
  ASSUME NEW a, NEW b
  PROVE  /\ SpellWindow(a).kind = "readied_spell" /\ SpellWindow(a).actor = a
         /\ ActionWindow(a).kind = "readied_action" /\ ActionWindow(a).actor = a
         /\ ConcentrationWindow(a).kind = "concentration" /\ ConcentrationWindow(a).actor = a
         /\ a \in Actor => /\ SpellWindow(a) \in Window /\ ActionWindow(a) \in Window
                           /\ ConcentrationWindow(a) \in Window
                           /\ [kind |-> "reaction", actor |-> a] \in Window
         /\ SpellWindow(a) = SpellWindow(b) => a = b
         /\ ActionWindow(a) = ActionWindow(b) => a = b
         /\ ConcentrationWindow(a) = ConcentrationWindow(b) => a = b
         /\ SpellWindow(a) # ActionWindow(b) /\ SpellWindow(a) # ConcentrationWindow(b)
         /\ ActionWindow(a) # ConcentrationWindow(b)
BY DEF SpellWindow, ActionWindow, ConcentrationWindow, Window

LEMMA ReadyFacts ==
  /\ Nothing \in ReadyType /\ Nothing.kind = "none" /\ Nothing.status = "none"
  /\ \A r \in ReadyType, kind \in {"action", "spell"} :
       r = [kind |-> kind, status |-> "triggered"] <=> Triggered(r, kind)
  /\ \A kind \in {"action", "spell"}, status \in {"armed", "triggered"} :
       [kind |-> kind, status |-> status] \in ReadyType
BY DEF Nothing, ReadyType, Triggered

LEMMA StatusChanged ==
  ASSUME NEW r \in ReadyType, r.status \in {"armed", "triggered"},
         NEW status \in {"armed", "triggered"}
  PROVE  LET q == [r EXCEPT !.status = status]
         IN q \in ReadyType /\ q.kind = r.kind /\ q.status = status
BY DEF ReadyType, Nothing

LEMMA Parts ==
  ASSUME IInv
  PROVE  /\ TypeOK /\ TallyWhileDying /\ HeldEnergyHasEntry /\ WindowsAreLive /\ OneReaction
         /\ \A a \in Actor : Sound(a, sheet[a]) /\ sheet[a] \in SheetType
<1>1. /\ SheetsSound(sheet) /\ readied \in [Actor -> ReadyType] /\ pending \subseteq Window /\ Frame
      /\ Entered(sheet, readied) /\ Live(sheet, readied, pending)
  BY DEF IInv, Consistent
<1>2. \A a \in Actor : Sound(a, sheet[a]) /\ sheet[a] \in SheetType
  BY <1>1 DEF SheetsSound
<1>3. TallyWhileDying
  BY <1>2, Zenon DEF TallyWhileDying, Tidy, Sound
<1>4. TypeOK
  BY <1>1, <1>2, Zenon DEF TypeOK, Frame, SheetsSound, Sound
<1>5. HeldEnergyHasEntry
  BY <1>1, Zenon DEF HeldEnergyHasEntry, Entered
<1>6. WindowsAreLive
  <2>1. \A a \in Actor :
          /\ readied[a] = [kind |-> "spell", status |-> "triggered"] <=> Triggered(readied[a], "spell")
          /\ readied[a] = [kind |-> "action", status |-> "triggered"] <=> Triggered(readied[a], "action")
    BY <1>1, ReadyFacts
  <2> QED BY <1>1, <2>1, Zenon DEF WindowsAreLive, Live
<1>7. OneReaction
  BY <1>1 DEF IInv, Frame, Unspent, OneReaction
<1> QED BY <1>2, <1>3, <1>4, <1>5, <1>6, <1>7

(***************************************************************************)
(* A blow lands.                                                           *)
(***************************************************************************)
LEMMA HitKeeps ==
  ASSUME NEW a \in Actor, NEW blow \in Blow, NEW sh, NEW r, NEW open,
         Consistent(sh, r, open), \A w \in open : w.kind = "reaction",
         Hit(a, blow, sh, r, open)
  PROVE  /\ Consistent(sheet', readied', pending')
         /\ \A b \in Actor : Dead(sh[b]) => Dead(sheet'[b])
         /\ sheet'[a] = Struck(a, sh[a], blow)
         /\ \A b \in Actor : b # a => sheet'[b] = sh[b]
<1> DEFINE s == Struck(a, sh[a], blow)
           lost == r[a].kind = "spell" /\ s.conc # "held"
           shaken == s.hp > 0 /\ s.conc # "none"
<1>1. /\ sh \in [Actor -> SheetType] /\ \A b \in Actor : Sound(b, sh[b])
      /\ r \in [Actor -> ReadyType] /\ open \subseteq Window
      /\ \A b \in Actor : sh[b].conc = "held" => r[b].kind = "spell"
      /\ \A b \in Actor : /\ SpellWindow(b) \notin open /\ ActionWindow(b) \notin open
                          /\ ConcentrationWindow(b) \notin open
                          /\ ~Triggered(r[b], "spell")
  BY WindowFacts DEF Consistent, SheetsSound, Entered, Live
<1>2. /\ Sound(a, s) /\ (Dead(sh[a]) => Dead(s))
      /\ s.conc = IF s.hp = 0 THEN "none" ELSE sh[a].conc
  BY <1>1, StruckSound, BlowAssumption DEF Blows
<1>3. /\ sheet' = [sh EXCEPT ![a] = s]
      /\ readied' = IF lost THEN [r EXCEPT ![a] = Nothing] ELSE r
      /\ pending' = (IF lost THEN open \ {SpellWindow(a)} ELSE open)
                    \cup (IF shaken THEN {ConcentrationWindow(a)} ELSE {})
  BY Zenon DEF Hit
<1> HIDE DEF s
<1>4. s \in SheetType
  BY <1>2 DEF Sound
<1>5. \A b \in Actor : sheet'[b] = IF b = a THEN s ELSE sh[b]
  BY <1>1, <1>3
<1>6. SheetsSound(sheet')
  BY <1>1, <1>2, <1>3, <1>4, <1>5 DEF SheetsSound
<1>7. /\ readied' \in [Actor -> ReadyType]
      /\ \A b \in Actor : readied'[b] = IF b = a /\ lost THEN Nothing ELSE r[b]
  BY <1>1, <1>3, ReadyFacts
<1>8. Entered(sheet', readied')
  BY <1>1, <1>2, <1>5, <1>7 DEF Entered
<1>9. /\ pending' \subseteq open \cup {ConcentrationWindow(a)}
      /\ ConcentrationWindow(a) \in pending' => shaken
  BY <1>1, <1>3
<1>10. \A b \in Actor : ~Triggered(readied'[b], "spell")
  BY <1>1, <1>7, ReadyFacts DEF Triggered
<1>11. \A b \in Actor : /\ SpellWindow(b) \notin pending' /\ ActionWindow(b) \notin pending'
                        /\ ConcentrationWindow(b) \in pending' => b = a
  <2> TAKE b \in Actor
  <2>1. /\ SpellWindow(b) # ConcentrationWindow(a) /\ ActionWindow(b) # ConcentrationWindow(a)
        /\ ConcentrationWindow(b) = ConcentrationWindow(a) => b = a
    BY WindowFacts, Zenon
  <2> QED BY <1>1, <1>9, <2>1, Zenon
<1>12. Live(sheet', readied', pending')
  BY <1>5, <1>9, <1>10, <1>11 DEF Live
<1>13. Single(pending')
  BY <1>9 DEF Single
<1>14. pending' \subseteq Window
  <2>1. ConcentrationWindow(a) \in Window
    BY WindowFacts, Zenon
  <2> QED BY <1>1, <1>9, <2>1
<1>15. Consistent(sheet', readied', pending')
  BY <1>6, <1>7, <1>8, <1>12, <1>13, <1>14 DEF Consistent
<1> QED BY <1>2, <1>5, <1>15 DEF s

(***************************************************************************)
(* Changes that keep sheets, entries and windows in agreement.             *)
(***************************************************************************)
LEMMA SheetReplaced ==
  ASSUME NEW sh, NEW r, NEW open, Consistent(sh, r, open), NEW a \in Actor,
         ConcentrationWindow(a) \notin open,
         NEW s, Sound(a, s), s.conc = "held" => r[a].kind = "spell"
  PROVE  Consistent([sh EXCEPT ![a] = s], r, open)
<1> DEFINE new == [sh EXCEPT ![a] = s]
<1>1. /\ sh \in [Actor -> SheetType] /\ \A b \in Actor : Sound(b, sh[b])
      /\ r \in [Actor -> ReadyType] /\ open \subseteq Window
      /\ Entered(sh, r) /\ Live(sh, r, open) /\ Single(open)
  BY DEF Consistent, SheetsSound
<1>2. s \in SheetType
  BY DEF Sound
<1>3. new \in [Actor -> SheetType] /\ \A b \in Actor : new[b] = IF b = a THEN s ELSE sh[b]
  BY <1>1, <1>2
<1> HIDE DEF new
<1>4. SheetsSound(new)
  BY <1>1, <1>3 DEF SheetsSound
<1>5. Entered(new, r)
  BY <1>1, <1>3 DEF Entered
<1>6. Live(new, r, open)
  BY <1>1, <1>3 DEF Live
<1>7. Consistent(new, r, open)
  BY <1>1, <1>4, <1>5, <1>6 DEF Consistent
<1> QED BY <1>7 DEF new

\* An entry is replaced or withdrawn, and its windows are closed.
LEMMA EntryReplaced ==
  ASSUME NEW sh, NEW r, NEW open, Consistent(sh, r, open), NEW a \in Actor,
         NEW q \in ReadyType, ~Triggered(q, "spell"),
         sh[a].conc = "held" => q.kind = "spell",
         NEW less \in SUBSET open,
         SpellWindow(a) \notin less, ActionWindow(a) \notin less,
         \A w \in open : w \in less \/ w = SpellWindow(a) \/ w = ActionWindow(a)
  PROVE  Consistent(sh, [r EXCEPT ![a] = q], less)
<1> DEFINE new == [r EXCEPT ![a] = q]
<1>1. /\ SheetsSound(sh) /\ r \in [Actor -> ReadyType] /\ open \subseteq Window
      /\ Entered(sh, r) /\ Live(sh, r, open) /\ Single(open)
  BY DEF Consistent
<1>2. new \in [Actor -> ReadyType] /\ \A b \in Actor : new[b] = IF b = a THEN q ELSE r[b]
  BY <1>1
<1> HIDE DEF new
<1>3. Entered(sh, new)
  BY <1>1, <1>2 DEF Entered
<1>4. ASSUME NEW b \in Actor, b # a
      PROVE  SpellWindow(b) \in open => SpellWindow(b) \in less
  <2>1. SpellWindow(b) # SpellWindow(a) /\ SpellWindow(b) # ActionWindow(a)
    BY <1>4, WindowFacts, Zenon
  <2> QED BY <2>1
<1>5. Live(sh, new, less)
  BY <1>1, <1>2, <1>4 DEF Live
<1>6. Single(less)
  BY <1>1, Zenon DEF Single
<1>7. Consistent(sh, new, less)
  BY <1>1, <1>2, <1>3, <1>5, <1>6 DEF Consistent
<1> QED BY <1>7 DEF new

LEMMA EntryAlone ==
  ASSUME NEW sh, NEW r, Consistent(sh, r, {}), NEW a \in Actor,
         NEW q \in ReadyType, ~Triggered(q, "spell"),
         sh[a].conc = "held" => q.kind = "spell"
  PROVE  Consistent(sh, [r EXCEPT ![a] = q], {})
<1> DEFINE none == {}
<1>1. /\ none \in SUBSET none /\ SpellWindow(a) \notin none /\ ActionWindow(a) \notin none
      /\ \A w \in none : w \in none \/ w = SpellWindow(a) \/ w = ActionWindow(a)
      /\ Consistent(sh, r, none)
  OBVIOUS
<1> HIDE DEF none
<1>2. Consistent(sh, [r EXCEPT ![a] = q], none)
  BY <1>1, EntryReplaced
<1> QED BY <1>2 DEF none

LEMMA WindowClosed ==
  ASSUME NEW sh, NEW r, NEW open, Consistent(sh, r, open),
         NEW w, w.kind # "readied_spell"
  PROVE  Consistent(sh, r, open \ {w})
<1> DEFINE less == open \ {w}
<1>1. /\ SheetsSound(sh) /\ r \in [Actor -> ReadyType] /\ open \subseteq Window
      /\ Entered(sh, r) /\ Live(sh, r, open) /\ Single(open)
  BY DEF Consistent
<1>2. \A b \in Actor : SpellWindow(b) # w
  <2>1. \A b \in Actor : SpellWindow(b).kind = "readied_spell"
    BY WindowFacts, Zenon
  <2> QED BY <2>1
<1>3. less \subseteq open /\ \A b \in Actor : SpellWindow(b) \in open => SpellWindow(b) \in less
  BY <1>2
<1> HIDE DEF less
<1>4. Live(sh, r, less)
  BY <1>1, <1>3 DEF Live
<1>5. Single(less)
  BY <1>1, <1>3, Zenon DEF Single
<1>6. Consistent(sh, r, less)
  BY <1>1, <1>3, <1>4, <1>5 DEF Consistent
<1> QED BY <1>6 DEF less

LEMMA PromptOpened ==
  ASSUME NEW sh, NEW r, NEW open, Consistent(sh, r, open), NEW a \in Actor
  PROVE  Consistent(sh, r, open \cup {[kind |-> "reaction", actor |-> a]})
<1> DEFINE w == [kind |-> "reaction", actor |-> a]
           more == open \cup {w}
<1>1. /\ SheetsSound(sh) /\ r \in [Actor -> ReadyType] /\ open \subseteq Window
      /\ Entered(sh, r) /\ Live(sh, r, open) /\ Single(open)
  BY DEF Consistent
<1>2. w.kind = "reaction" /\ w \in Window
  BY WindowFacts
<1> HIDE DEF w
<1>3. \A b \in Actor : SpellWindow(b) # w /\ ActionWindow(b) # w /\ ConcentrationWindow(b) # w
  BY <1>2, WindowFacts
<1>4. more \subseteq Window
  BY <1>1, <1>2
<1>5. Live(sh, r, more)
  BY <1>1, <1>3 DEF Live
<1>6. Single(more)
  BY <1>1, <1>2 DEF Single
<1>7. Consistent(sh, r, more)
  BY <1>1, <1>4, <1>5, <1>6, Zenon DEF Consistent
<1> QED BY <1>7 DEF w

LEMMA EntryTriggered ==
  ASSUME NEW sh, NEW r, Consistent(sh, r, {}), NEW a \in Actor,
         r[a].status = "armed", NEW window,
         \/ window = SpellWindow(a) /\ r[a].kind = "spell"
         \/ window = ActionWindow(a) /\ r[a].kind = "action"
  PROVE  Consistent(sh, [r EXCEPT ![a].status = "triggered"], {window})
<1> DEFINE q == [r[a] EXCEPT !.status = "triggered"]
           new == [r EXCEPT ![a].status = "triggered"]
<1>1. /\ SheetsSound(sh) /\ r \in [Actor -> ReadyType]
      /\ Entered(sh, r) /\ Live(sh, r, {})
  BY DEF Consistent
<1>2. q \in ReadyType /\ q.kind = r[a].kind /\ q.status = "triggered"
  BY <1>1, StatusChanged
<1>3. new = [r EXCEPT ![a] = q]
  OBVIOUS
<1> HIDE DEF new, q
<1>4. new \in [Actor -> ReadyType] /\ \A b \in Actor : new[b] = IF b = a THEN q ELSE r[b]
  BY <1>1, <1>2, <1>3
<1>5. Entered(sh, new)
  BY <1>1, <1>2, <1>4 DEF Entered
<1>6. \A b \in Actor : ~Triggered(r[b], "spell")
  BY <1>1 DEF Live
<1>7. ASSUME NEW b \in Actor
      PROVE  /\ SpellWindow(b) = window <=> b = a /\ r[a].kind = "spell"
             /\ ActionWindow(b) = window <=> b = a /\ r[a].kind = "action"
             /\ ConcentrationWindow(b) # window
  <2>1. /\ SpellWindow(b) = SpellWindow(a) <=> b = a
        /\ ActionWindow(b) = ActionWindow(a) <=> b = a
        /\ SpellWindow(b) # ActionWindow(a) /\ ActionWindow(b) # SpellWindow(a)
        /\ ConcentrationWindow(b) # SpellWindow(a) /\ ConcentrationWindow(b) # ActionWindow(a)
    BY WindowFacts, Zenon
  <2> QED BY <2>1
<1>8. Live(sh, new, {window})
  BY <1>2, <1>4, <1>6, <1>7 DEF Live, Triggered
<1>9. Single({window})
  BY DEF Single
<1>10. window \in Window
  BY WindowFacts
<1>11. Consistent(sh, new, {window})
  BY <1>1, <1>4, <1>5, <1>8, <1>9, <1>10 DEF Consistent
<1> QED BY <1>11 DEF new

\* With no window open, entries may all be withdrawn with the energy they held.
LEMMA NoneOpen ==
  ASSUME NEW sh, NEW r, Consistent(sh, r, {}),
         NEW sh2, SheetsSound(sh2), NEW r2 \in [Actor -> ReadyType],
         \A a \in Actor : r2[a] \in {r[a], Nothing},
         \A a \in Actor : sh2[a].conc = "held" => r2[a].kind = "spell"
  PROVE  Consistent(sh2, r2, {})
<1>1. \A a \in Actor : ~Triggered(r[a], "spell")
  BY DEF Consistent, Live
<1>2. \A a \in Actor : ~Triggered(r2[a], "spell")
  BY <1>1, ReadyFacts DEF Triggered
<1>3. Live(sh2, r2, {})
  BY <1>2 DEF Live
<1> QED BY <1>3 DEF Consistent, Entered, Single

(***************************************************************************)
(* What most actions leave alone.                                          *)
(***************************************************************************)
LEMMA OrderKept ==
  ASSUME IInv, UNCHANGED <<places, acted>>,
         \A a \in Actor : Dead(sheet[a]) => Dead(sheet'[a])
  PROVE  Benched' /\ TurnOrder'
<1>1. present' = present /\ turn' = turn /\ bench' = bench /\ waits' = waits /\ acted' = acted
  BY DEF places
<1>2. present \subseteq Actor /\ Benched /\ TurnOrder
  BY DEF IInv, Frame
<1>3. Benched'
  BY <1>1, <1>2 DEF Benched
<1>4. TurnOrder'
  BY <1>1, <1>2 DEF TurnOrder
<1> QED BY <1>3, <1>4

LEMMA UnspentKept ==
  ASSUME IInv, surprised' = surprised, bench' = bench, reaction' = reaction, reacted' = reacted
  PROVE  Unspent'
BY DEF IInv, Unspent

LEMMA Reacts ==
  ASSUME IInv, surprised' = surprised, bench' = bench,
         NEW a \in Actor, reaction[a] > 0, React(a)
  PROVE  Unspent' /\ reaction' \in [Actor -> 0..1] /\ reacted' \in [Actor -> 0..2]
<1>1. reaction \in [Actor -> 0..1] /\ reacted \in [Actor -> 0..2] /\ Unspent
  BY DEF IInv, Frame
<1>2. reaction[a] = 1 /\ reacted[a] = 0
  BY <1>1 DEF Unspent
<1>3. reaction' = [reaction EXCEPT ![a] = 0] /\ reacted' = [reacted EXCEPT ![a] = 1]
  BY <1>1, <1>2 DEF React
<1>4. reaction' \in [Actor -> 0..1] /\ reacted' \in [Actor -> 0..2]
  BY <1>1, <1>3
<1>5. \A b \in Actor : /\ reaction'[b] = IF b = a THEN 0 ELSE reaction[b]
                       /\ reacted'[b] = IF b = a THEN 1 ELSE reacted[b]
  BY <1>1, <1>3
<1>6. Unspent'
  BY <1>1, <1>2, <1>5 DEF Unspent
<1> QED BY <1>4, <1>6

\* The save stays due as long as its actor is dying.
LEMMA SavesKept ==
  ASSUME IInv, turn' = turn, saved' = saved, NEW keeps \in BOOLEAN,
         due' = (due /\ keeps), dying' = (dying /\ keeps),
         dying /\ keeps => Dying(sheet'[turn])
  PROVE  SavesDue'
<1>1. SavesDue /\ due \in BOOLEAN /\ dying \in BOOLEAN
  BY DEF IInv, Frame
<1>2. (due => dying) /\ (due' => dying') /\ (due <=> dying /\ saved = 0)
  BY <1>1 DEF SavesDue
<1>3. due' <=> dying' /\ saved' = 0
  BY <1>2
<1>4. dying' => turn' \in Savers /\ Dying(sheet'[turn'])
  BY <1>1 DEF SavesDue
<1>5. saved' <= 1
  BY <1>1 DEF SavesDue
<1> QED BY <1>3, <1>4, <1>5 DEF SavesDue

LEMMA SavesUntouched ==
  ASSUME IInv, UNCHANGED <<turn, saved, due, dying>>,
         Dying(sheet[turn]) => Dying(sheet'[turn])
  PROVE  SavesDue'
<1>1. SavesDue
  BY DEF IInv
<1>2. due' = due /\ dying' = dying /\ saved' = saved /\ turn' = turn
  OBVIOUS
<1> QED BY <1>1, <1>2 DEF SavesDue

(***************************************************************************)
(* Blows, healing and death saves.                                         *)
(***************************************************************************)
\* The save an actor owes is due after a change of one sheet if it is dying still.
LEMMA SaveAfter ==
  ASSUME IInv, turn' = turn, saved' = saved, NEW a \in Actor, NEW s,
         due' = (due /\ (a = turn => Dying(s))), dying' = (dying /\ (a = turn => Dying(s))),
         sheet'[a] = s,
         a # turn /\ Dying(sheet[turn]) => Dying(sheet'[turn])
  PROVE  SavesDue'
<1> DEFINE keeps == (a = turn => Dying(s))
<1>1. keeps \in BOOLEAN
  BY DEF Dying
<1>2. dying => Dying(sheet[turn])
  BY DEF IInv, SavesDue
<1>3. dying /\ keeps => Dying(sheet'[turn])
  BY <1>2
<1> HIDE DEF keeps
<1>4. due' = (due /\ keeps) /\ dying' = (dying /\ keeps)
  BY DEF keeps
<1> QED BY <1>1, <1>3, <1>4, SavesKept

LEMMA DamageKeeps ==
  ASSUME IInv, NEW a \in present, NEW blow \in Blow, Damage(a, blow)
  PROVE  IInv'
<1>1. /\ Consistent(sheet, readied, {}) /\ pending = {} /\ a \in Actor /\ turn \in Actor
      /\ Hit(a, blow, sheet, readied, pending)
  BY DEF IInv, Frame, Damage, Unblocked
<1>2. /\ Consistent(sheet', readied', pending')
      /\ \A b \in Actor : Dead(sheet[b]) => Dead(sheet'[b])
      /\ sheet'[a] = Struck(a, sheet[a], blow)
      /\ \A b \in Actor : b # a => sheet'[b] = sheet[b]
  BY <1>1, HitKeeps
<1>3. UNCHANGED <<places, acted>> /\ UNCHANGED <<reaction, main, bonus, active, reacted, saved>>
  BY DEF Damage
<1>4. Benched' /\ TurnOrder'
  BY <1>2, <1>3, OrderKept
<1>5. Unspent'
  BY <1>3, UnspentKept DEF places
<1>6. /\ due' = (due /\ (a = turn => Dying(sheet'[a])))
      /\ dying' = (dying /\ (a = turn => Dying(sheet'[a])))
  BY <1>1, <1>2, Zenon DEF Hit
<1>7. SavesDue'
  BY <1>1, <1>2, <1>3, <1>6, SaveAfter DEF places
<1>8. due' \in BOOLEAN /\ dying' \in BOOLEAN
  BY <1>6 DEF IInv, Frame
<1>9. Frame'
  BY <1>3, <1>8 DEF IInv, Frame, places
<1> QED BY <1>2, <1>4, <1>5, <1>7, <1>9 DEF IInv

LEMMA MendKeeps ==
  ASSUME IInv, pending = {}, NEW a \in Actor, NEW s, Sound(a, s), s.conc = sheet[a].conc,
         ~Dead(sheet[a]), Mend(a, s)
  PROVE  IInv'
<1>1. Consistent(sheet, readied, {}) /\ turn \in Actor /\ sheet \in [Actor -> SheetType]
  BY DEF IInv, Frame, Consistent, SheetsSound
<1>2. s.conc = "held" => readied[a].kind = "spell"
  BY <1>1 DEF Consistent, Entered
<1>3. /\ sheet' = [sheet EXCEPT ![a] = s]
      /\ due' = (due /\ (a = turn => Dying(s))) /\ dying' = (dying /\ (a = turn => Dying(s)))
      /\ UNCHANGED <<places, reaction, main, bonus, readied, pending, active, acted, reacted, saved>>
  BY Zenon DEF Mend
<1>4. Consistent(sheet', readied', pending')
  BY <1>1, <1>2, <1>3, SheetReplaced
<1>5. sheet'[a] = s /\ \A b \in Actor : b # a => sheet'[b] = sheet[b]
  BY <1>1, <1>3
<1>6. Benched' /\ TurnOrder'
  BY <1>3, <1>5, OrderKept
<1>7. Unspent'
  BY <1>3, UnspentKept DEF places
<1>8. SavesDue'
  BY <1>1, <1>3, <1>5, SaveAfter DEF places
<1>9. due' \in BOOLEAN /\ dying' \in BOOLEAN
  BY <1>3 DEF IInv, Frame
<1>10. Frame'
  BY <1>3, <1>9 DEF IInv, Frame, places
<1> QED BY <1>4, <1>6, <1>7, <1>8, <1>10 DEF IInv

LEMMA HealKeeps ==
  ASSUME IInv, NEW a \in present, NEW amount \in Cure, Heal(a, amount)
  PROVE  IInv'
<1>1. a \in Actor /\ pending = {} /\ ~Dead(sheet[a]) /\ Mend(a, Healed(a, sheet[a], amount))
  BY DEF IInv, Frame, Heal, Unblocked
<1>2. Sound(a, sheet[a]) /\ amount \in Nat \ {0}
  BY <1>1, Parts, CureAssumption
<1> QED BY <1>1, <1>2, HealedSound, MendKeeps

LEMMA StabilizeKeeps ==
  ASSUME IInv, NEW a \in present, Stabilize(a)
  PROVE  IInv'
<1>1. a \in Actor /\ pending = {} /\ Dying(sheet[a]) /\ Mend(a, Stabilized(sheet[a]))
  BY DEF IInv, Frame, Stabilize, Unblocked
<1>2. Sound(a, sheet[a]) /\ ~Dead(sheet[a])
  BY <1>1, Parts, Conditions
<1> QED BY <1>1, <1>2, StabilizedSound, MendKeeps

LEMMA DeathSaveKeeps ==
  ASSUME IInv, NEW die \in {"twenty", "high", "low", "one"}, DeathSave(die)
  PROVE  IInv'
<1> DEFINE s == Rolled(sheet[turn], die)
<1>1. /\ pending = {} /\ due /\ Dying(sheet[turn])
      /\ sheet' = [sheet EXCEPT ![turn] = s]
      /\ due' = FALSE /\ dying' = (dying /\ Dying(s))
      /\ saved' = IF saved = 2 THEN 2 ELSE saved + 1
      /\ UNCHANGED <<places, reaction, main, bonus, readied, pending, active, acted, reacted>>
  BY Zenon DEF DeathSave, Unblocked
<1>2. /\ Consistent(sheet, readied, {}) /\ turn \in Actor /\ sheet \in [Actor -> SheetType]
      /\ Sound(turn, sheet[turn])
  BY <1>1 DEF IInv, Frame, Consistent, SheetsSound
<1>3. Sound(turn, s) /\ s.conc = sheet[turn].conc
  BY <1>1, <1>2, RolledSound
<1> HIDE DEF s
<1>4. s.conc = "held" => readied[turn].kind = "spell"
  BY <1>2, <1>3 DEF Consistent, Entered
<1>5. Consistent(sheet', readied', pending')
  BY <1>1, <1>2, <1>3, <1>4, SheetReplaced
<1>6. sheet'[turn] = s /\ \A b \in Actor : b # turn => sheet'[b] = sheet[b]
  BY <1>1, <1>2
<1>7. ~Dead(sheet[turn])
  BY <1>1, Conditions
<1>8. Benched' /\ TurnOrder'
  BY <1>1, <1>6, <1>7, OrderKept
<1>9. Unspent'
  BY <1>1, UnspentKept DEF places
<1>10. saved = 0 /\ dying /\ turn \in Savers
  BY <1>1 DEF IInv, SavesDue
<1>11. saved' = 1 /\ due' = FALSE
  BY <1>1, <1>10
<1>12. dying' \in BOOLEAN /\ (dying' => Dying(s)) /\ turn' = turn
  BY <1>1, Zenon DEF Dying, places
<1>13. SavesDue'
  BY <1>6, <1>10, <1>11, <1>12 DEF SavesDue
<1>14. Frame'
  <2>1. UNCHANGED <<places, reaction, main, bonus, active, acted, reacted>>
    BY <1>1
  <2>2. saved' \in 0..2
    BY <1>11, SMT
  <2>3. due' \in BOOLEAN
    BY <1>11, Zenon
  <2> QED BY <1>12, <2>1, <2>2, <2>3 DEF IInv, Frame, places
<1> QED BY <1>5, <1>8, <1>9, <1>13, <1>14 DEF IInv

(***************************************************************************)
(* Actions, readied responses and windows.                                 *)
(***************************************************************************)
LEMMA Together ==
  ASSUME IInv, Consistent(sheet', readied', pending'), UNCHANGED <<places, acted, saved>>,
         \A a \in Actor : Dead(sheet[a]) => Dead(sheet'[a]),
         Unspent', reaction' \in [Actor -> 0..1], reacted' \in [Actor -> 0..2], SavesDue',
         main' \in {"free", "spent", "cast"}, bonus' \in BOOLEAN, active' \in BOOLEAN,
         due' \in BOOLEAN, dying' \in BOOLEAN
  PROVE  IInv'
<1>1. Benched' /\ TurnOrder'
  BY OrderKept
<1>2. Frame'
  BY DEF IInv, Frame, places
<1> QED BY <1>1, <1>2 DEF IInv

LEMMA QuietKeeps ==
  ASSUME IInv, Consistent(sheet', readied', pending'),
         UNCHANGED <<places, history, reaction, due>>,
         \A a \in Actor : Dead(sheet[a]) => Dead(sheet'[a]),
         \A a \in Actor : Dying(sheet[a]) => Dying(sheet'[a]),
         main' \in {"free", "spent", "cast"}, bonus' \in BOOLEAN, active' \in BOOLEAN
  PROVE  IInv'
<1>1. UNCHANGED <<turn, saved, due, dying, acted>> /\ turn \in Actor
  BY DEF places, history, IInv, Frame
<1>2. SavesDue'
  BY <1>1, SavesUntouched
<1>3. Unspent'
  BY UnspentKept DEF places, history
<1>4. /\ reaction' \in [Actor -> 0..1] /\ reacted' \in [Actor -> 0..2]
      /\ due' \in BOOLEAN /\ dying' \in BOOLEAN
  BY DEF history, IInv, Frame
<1> QED BY <1>1, <1>2, <1>3, <1>4, Together

\* An actor's concentration becomes conc.
Turned(sh, a, conc) == [sh EXCEPT ![a].conc = conc]

LEMMA ConcReplaced ==
  ASSUME NEW sh, NEW r, NEW open, Consistent(sh, r, open), NEW a \in Actor,
         ConcentrationWindow(a) \notin open,
         NEW conc \in {"none", "spell", "held"}, conc = "held" => r[a].kind = "spell"
  PROVE  LET new == Turned(sh, a, conc) IN
         /\ Consistent(new, r, open)
         /\ \A b \in Actor : (Dead(new[b]) <=> Dead(sh[b])) /\ (Dying(new[b]) <=> Dying(sh[b]))
<1> DEFINE new == Turned(sh, a, conc)
           s == [sh[a] EXCEPT !.conc = conc]
<1>1. sh \in [Actor -> SheetType] /\ Sound(a, sh[a])
  BY DEF Consistent, SheetsSound
<1>2. SameBut(sh[a], s, conc)
  BY DEF SameBut
<1>3. new = [sh EXCEPT ![a] = s]
  BY <1>1 DEF Turned
<1> HIDE DEF new, s
<1>4. /\ Sound(a, s) /\ s.conc = conc
      /\ (Dead(s) <=> Dead(sh[a])) /\ (Dying(s) <=> Dying(sh[a]))
  BY <1>1, <1>2, ConcSound
<1>5. Consistent(new, r, open)
  BY <1>3, <1>4, SheetReplaced
<1>6. \A b \in Actor : new[b] = IF b = a THEN s ELSE sh[b]
  BY <1>1, <1>3
<1>7. \A b \in Actor : (Dead(new[b]) <=> Dead(sh[b])) /\ (Dying(new[b]) <=> Dying(sh[b]))
  BY <1>4, <1>6
<1> QED BY <1>5, <1>7 DEF new

LEMMA CastKeeps ==
  ASSUME IInv, NEW a \in present, NEW payment \in {"main", "bonus"}, Cast(a, payment)
  PROVE  IInv'
<1>1. /\ Consistent(sheet, readied, pending) /\ pending = {} /\ a \in Actor
      /\ main \in {"free", "spent", "cast"}
  BY DEF IInv, Frame, Cast, Acting, Unblocked
<1>2. /\ sheet' = Turned(sheet, a, "spell")
      /\ main' = (IF payment = "main" THEN "cast" ELSE main)
      /\ bonus' = (payment = "main")
      /\ UNCHANGED <<places, reaction, due, readied, pending, active, history>>
  BY DEF Cast, Turned
<1>3. /\ Consistent(sheet', readied, pending)
      /\ \A b \in Actor : (Dead(sheet'[b]) <=> Dead(sheet[b])) /\ (Dying(sheet'[b]) <=> Dying(sheet[b]))
  <2>1. ConcentrationWindow(a) \notin pending
    BY <1>1
  <2> QED BY <1>1, <1>2, <2>1, ConcReplaced
<1>4. Consistent(sheet', readied', pending')
  BY <1>2, <1>3
<1>5. main' \in {"free", "spent", "cast"} /\ active' \in BOOLEAN
  BY <1>1, <1>2 DEF IInv, Frame
<1>6. bonus' \in BOOLEAN
  BY <1>2, Zenon
<1> QED BY <1>2, <1>3, <1>4, <1>5, <1>6, QuietKeeps

LEMMA ReadySpellKeeps ==
  ASSUME IInv, NEW a \in present, ReadySpell(a)
  PROVE  IInv'
<1> DEFINE q == [kind |-> "spell", status |-> "armed"]
           r == [readied EXCEPT ![a] = q]
<1>1. /\ Consistent(sheet, readied, {}) /\ pending = {} /\ a \in Actor
      /\ readied \in [Actor -> ReadyType]
  BY DEF IInv, Frame, Consistent, ReadySpell, Acting, Unblocked
<1>2. /\ sheet' = Turned(sheet, a, "held") /\ readied' = r /\ main' = "spent"
      /\ UNCHANGED <<places, reaction, bonus, due, pending, active, history>>
  BY DEF ReadySpell, Turned
<1>3. q \in ReadyType /\ q.kind = "spell" /\ ~Triggered(q, "spell")
  BY ReadyFacts DEF Triggered
<1> HIDE DEF q
<1>4. Consistent(sheet, r, {})
  BY <1>1, <1>3, EntryAlone DEF r
<1>5. r[a] = q
  BY <1>1
<1> HIDE DEF r
<1>6. /\ Consistent(sheet', r, {})
      /\ \A b \in Actor : (Dead(sheet'[b]) <=> Dead(sheet[b])) /\ (Dying(sheet'[b]) <=> Dying(sheet[b]))
  <2>1. ConcentrationWindow(a) \notin {}
    OBVIOUS
  <2> QED BY <1>1, <1>2, <1>3, <1>4, <1>5, <2>1, ConcReplaced
<1>7. Consistent(sheet', readied', pending')
  BY <1>1, <1>2, <1>6
<1>8. main' \in {"free", "spent", "cast"} /\ bonus' \in BOOLEAN /\ active' \in BOOLEAN
  BY <1>2 DEF IInv, Frame
<1> QED BY <1>2, <1>6, <1>7, <1>8, QuietKeeps

LEMMA ReadyActionKeeps ==
  ASSUME IInv, NEW a \in present, ReadyAction(a)
  PROVE  IInv'
<1> DEFINE q == [kind |-> "action", status |-> "armed"]
<1>1. /\ Consistent(sheet, readied, {}) /\ pending = {} /\ a \in Actor
      /\ readied[a] = Nothing
  BY DEF IInv, Frame, ReadyAction, Acting, Unblocked
<1>2. /\ readied' = [readied EXCEPT ![a] = q] /\ main' = "spent"
      /\ UNCHANGED <<sheet, places, reaction, bonus, due, pending, active, history>>
  BY DEF ReadyAction
<1>3. q \in ReadyType /\ ~Triggered(q, "spell")
  BY ReadyFacts DEF Triggered
<1>4. sheet[a].conc # "held"
  BY <1>1, ReadyFacts DEF Consistent, Entered
<1> HIDE DEF q
<1>5. Consistent(sheet, readied', {})
  BY <1>1, <1>2, <1>3, <1>4, EntryAlone
<1>6. Consistent(sheet', readied', pending')
  BY <1>1, <1>2, <1>5
<1>7. main' \in {"free", "spent", "cast"} /\ bonus' \in BOOLEAN /\ active' \in BOOLEAN
  BY <1>2 DEF IInv, Frame
<1> QED BY <1>2, <1>6, <1>7, QuietKeeps

\* Steps that change neither sheets nor anything paid.
LEMMA WindowStepKeeps ==
  ASSUME IInv, Consistent(sheet, readied', pending'),
         UNCHANGED <<sheet, places, reaction, main, bonus, due, active, history>>
  PROVE  IInv'
<1>1. main' \in {"free", "spent", "cast"} /\ bonus' \in BOOLEAN /\ active' \in BOOLEAN
  BY DEF IInv, Frame
<1>2. Consistent(sheet', readied', pending')
  OBVIOUS
<1> QED BY <1>1, <1>2, QuietKeeps

LEMMA TriggerKeeps ==
  ASSUME IInv, NEW a \in present, TriggerSpell(a) \/ TriggerAction(a)
  PROVE  IInv'
<1>1. PICK window : /\ Trigger(a, window)
                    /\ \/ window = SpellWindow(a) /\ readied[a].kind = "spell"
                       \/ window = ActionWindow(a) /\ readied[a].kind = "action"
  BY DEF TriggerSpell, TriggerAction
<1>2. Consistent(sheet, readied, {}) /\ pending = {} /\ a \in Actor
  BY <1>1 DEF IInv, Frame, Trigger, Unblocked
<1>3. /\ readied[a].status = "armed"
      /\ readied' = [readied EXCEPT ![a].status = "triggered"] /\ pending' = {window}
      /\ UNCHANGED <<sheet, places, reaction, main, bonus, due, active, history>>
  BY <1>1, <1>2 DEF Trigger
<1>4. Consistent(sheet, readied', pending')
  BY <1>1, <1>2, <1>3, EntryTriggered
<1> QED BY <1>3, <1>4, WindowStepKeeps

LEMMA DissipateKeeps ==
  ASSUME IInv, NEW a \in present, Dissipate(a)
  PROVE  IInv'
<1> DEFINE less == pending \ {SpellWindow(a)}
<1>1. /\ Consistent(sheet, readied, pending) /\ a \in Actor
      /\ readied[a].kind = "spell" /\ sheet[a].conc # "held"
      /\ readied' = [readied EXCEPT ![a] = Nothing] /\ pending' = less
      /\ UNCHANGED <<sheet, places, reaction, main, bonus, due, active, history>>
  BY DEF IInv, Frame, Dissipate
<1>2. ActionWindow(a) \notin pending
  BY <1>1 DEF Consistent, Live, Triggered
<1>3. Nothing \in ReadyType /\ ~Triggered(Nothing, "spell")
  BY ReadyFacts DEF Triggered
<1>4. /\ less \in SUBSET pending /\ SpellWindow(a) \notin less /\ ActionWindow(a) \notin less
      /\ \A w \in pending : w \in less \/ w = SpellWindow(a) \/ w = ActionWindow(a)
  BY <1>2
<1> HIDE DEF less
<1>5. Consistent(sheet, readied', less)
  BY <1>1, <1>3, <1>4, EntryReplaced
<1> QED BY <1>1, <1>5, WindowStepKeeps

LEMMA DeclineKeeps ==
  ASSUME IInv, NEW a \in present, NEW window \in {SpellWindow(a), ActionWindow(a)},
         Decline(a, window)
  PROVE  IInv'
<1> DEFINE less == pending \ {window}
           q == [readied[a] EXCEPT !.status = "armed"]
<1>1. /\ Consistent(sheet, readied, pending) /\ a \in Actor /\ readied \in [Actor -> ReadyType]
      /\ window \in pending /\ readied[a].status = "triggered"
      /\ readied' = [readied EXCEPT ![a] = q] /\ pending' = less
      /\ UNCHANGED <<sheet, places, reaction, main, bonus, due, active, history>>
  BY DEF IInv, Frame, Consistent, Decline
<1>2. q \in ReadyType /\ q.kind = readied[a].kind /\ q.status = "armed"
  BY <1>1, StatusChanged
<1>3. /\ SpellWindow(a) \in pending => readied[a].kind = "spell"
      /\ ActionWindow(a) \in pending => readied[a].kind = "action"
      /\ sheet[a].conc = "held" => readied[a].kind = "spell"
  BY <1>1 DEF Consistent, Live, Entered, Triggered
<1>4. /\ less \in SUBSET pending /\ SpellWindow(a) \notin less /\ ActionWindow(a) \notin less
      /\ \A w \in pending : w \in less \/ w = SpellWindow(a) \/ w = ActionWindow(a)
  BY <1>1, <1>3
<1>5. ~Triggered(q, "spell")
  BY <1>2 DEF Triggered
<1> HIDE DEF less, q
<1>6. Consistent(sheet, readied', less)
  BY <1>1, <1>2, <1>3, <1>4, <1>5, EntryReplaced
<1> QED BY <1>1, <1>6, WindowStepKeeps

LEMMA ChoiceOpenKeeps ==
  ASSUME IInv, NEW a \in present, ChoiceOpen(a)
  PROVE  IInv'
<1>1. /\ Consistent(sheet, readied, pending) /\ a \in Actor
      /\ pending' = pending \cup {[kind |-> "reaction", actor |-> a]} /\ readied' = readied
      /\ UNCHANGED <<sheet, places, reaction, main, bonus, due, active, history>>
  BY DEF IInv, Frame, ChoiceOpen
<1>2. Consistent(sheet, readied', pending')
  BY <1>1, PromptOpened
<1> QED BY <1>1, <1>2, WindowStepKeeps

\* Steps that spend a reaction.
LEMMA ReactionKeeps ==
  ASSUME IInv, NEW a \in Actor, reaction[a] > 0, React(a),
         Consistent(sheet', readied', pending'),
         UNCHANGED <<places, main, bonus, active, acted, saved>>,
         \A b \in Actor : Dead(sheet[b]) => Dead(sheet'[b]),
         SavesDue', due' \in BOOLEAN, dying' \in BOOLEAN
  PROVE  IInv'
<1>1. surprised' = surprised /\ bench' = bench
  BY DEF places
<1>2. Unspent' /\ reaction' \in [Actor -> 0..1] /\ reacted' \in [Actor -> 0..2]
  BY <1>1, Reacts
<1>3. main' \in {"free", "spent", "cast"} /\ bonus' \in BOOLEAN /\ active' \in BOOLEAN
  BY DEF IInv, Frame
<1> QED BY <1>2, <1>3, Together

\* The same for a reaction that lands a blow.
LEMMA StrikeKeeps ==
  ASSUME IInv, NEW a \in Actor, reaction[a] > 0, React(a),
         UNCHANGED <<places, main, bonus, active, acted, saved>>,
         NEW sh, NEW r, NEW open, Consistent(sh, r, open), \A w \in open : w.kind = "reaction",
         \A b \in Actor : (Dead(sh[b]) <=> Dead(sheet[b])) /\ (Dying(sh[b]) <=> Dying(sheet[b])),
         NEW target \in Actor, NEW blow \in Blow, Hit(target, blow, sh, r, open)
  PROVE  IInv'
<1>1. /\ Consistent(sheet', readied', pending')
      /\ \A b \in Actor : Dead(sh[b]) => Dead(sheet'[b])
      /\ sheet'[target] = Struck(target, sh[target], blow)
      /\ \A b \in Actor : b # target => sheet'[b] = sh[b]
  BY HitKeeps
<1>2. /\ due' = (due /\ (target = turn => Dying(sheet'[target])))
      /\ dying' = (dying /\ (target = turn => Dying(sheet'[target])))
  BY <1>1, Zenon DEF Hit
<1>3. turn \in Actor /\ turn' = turn /\ saved' = saved
  BY DEF IInv, Frame, places
<1>4. target # turn /\ Dying(sheet[turn]) => Dying(sheet'[turn])
  BY <1>1, <1>3
<1>5. SavesDue'
  BY <1>2, <1>3, <1>4, SaveAfter
<1>6. due' \in BOOLEAN /\ dying' \in BOOLEAN
  BY <1>2 DEF IInv, Frame
<1> QED BY <1>1, <1>5, <1>6, ReactionKeeps

LEMMA ReleaseSpellKeeps ==
  ASSUME IInv, NEW a \in present, NEW conc \in {"none", "spell"}, ReleaseSpell(a, conc)
  PROVE  IInv'
<1> DEFINE freed == Turned(sheet, a, conc)
           rest == [readied EXCEPT ![a] = Nothing]
           none == {}
<1>1. /\ Consistent(sheet, readied, pending) /\ a \in Actor /\ present \subseteq Actor
      /\ turn \in Actor
      /\ pending = {SpellWindow(a)} /\ reaction[a] > 0 /\ React(a)
      /\ UNCHANGED <<places, main, bonus, active, acted, saved>>
  BY DEF IInv, Frame, ReleaseSpell, CanReact
<1>2. \/ sheet' = freed /\ readied' = rest /\ pending' = none /\ UNCHANGED <<due, dying>>
      \/ \E target \in present \ {a}, blow \in Blow : Hit(target, blow, freed, rest, none)
  BY Zenon DEF ReleaseSpell, Turned
<1>3. ConcentrationWindow(a) \notin pending /\ ActionWindow(a) \notin none /\ SpellWindow(a) \notin none
  <2>1. ConcentrationWindow(a) # SpellWindow(a)
    BY WindowFacts, Zenon
  <2> QED BY <1>1, <2>1
<1>4. /\ Consistent(freed, readied, pending)
      /\ \A b \in Actor : (Dead(freed[b]) <=> Dead(sheet[b])) /\ (Dying(freed[b]) <=> Dying(sheet[b]))
  BY <1>1, <1>3, ConcReplaced
<1>5. freed[a].conc # "held"
  BY <1>1 DEF Turned, Consistent, SheetsSound, SheetType
<1>6. Nothing \in ReadyType /\ ~Triggered(Nothing, "spell")
  BY ReadyFacts DEF Triggered
<1>7. none \in SUBSET pending /\ \A w \in pending : w \in none \/ w = SpellWindow(a) \/ w = ActionWindow(a)
  BY <1>1
<1>8. \A w \in none : w.kind = "reaction"
  OBVIOUS
<1> HIDE DEF freed, none
<1>9. Consistent(freed, rest, none)
  BY <1>1, <1>3, <1>4, <1>5, <1>6, <1>7, EntryReplaced
<1> HIDE DEF rest
<1>10. ASSUME sheet' = freed, readied' = rest, pending' = none, UNCHANGED <<due, dying>>
       PROVE  IInv'
  <2>1. Consistent(sheet', readied', pending')
    BY <1>9, <1>10
  <2>2. SavesDue'
    BY <1>1, <1>4, <1>10, SavesUntouched DEF places
  <2>3. due' \in BOOLEAN /\ dying' \in BOOLEAN
    BY <1>10 DEF IInv, Frame
  <2> QED BY <1>1, <1>4, <1>10, <2>1, <2>2, <2>3, ReactionKeeps
<1>11. ASSUME NEW target \in present \ {a}, NEW blow \in Blow, Hit(target, blow, freed, rest, none)
       PROVE  IInv'
  BY <1>1, <1>4, <1>8, <1>9, <1>11, StrikeKeeps
<1> QED BY <1>2, <1>10, <1>11

\* Whose readied action's window is open, has readied an action.
LEMMA ActionWindowIs ==
  ASSUME IInv, NEW a \in Actor, ActionWindow(a) \in pending
  PROVE  LET less == pending \ {ActionWindow(a)} IN
         /\ Consistent(sheet, [readied EXCEPT ![a] = Nothing], less)
         /\ \A w \in less : w.kind = "reaction"
<1> DEFINE less == pending \ {ActionWindow(a)}
<1>1. Consistent(sheet, readied, pending)
  BY DEF IInv
<1>2. /\ readied[a].kind = "action" /\ sheet[a].conc # "held" /\ SpellWindow(a) \notin pending
  BY <1>1 DEF Consistent, Live, Entered, Triggered
<1>3. Nothing \in ReadyType /\ ~Triggered(Nothing, "spell")
  BY ReadyFacts DEF Triggered
<1>4. /\ less \in SUBSET pending /\ SpellWindow(a) \notin less /\ ActionWindow(a) \notin less
      /\ \A w \in pending : w \in less \/ w = SpellWindow(a) \/ w = ActionWindow(a)
  BY <1>2
<1>5. \A w \in less : w.kind = "reaction"
  <2>1. ActionWindow(a).kind = "readied_action"
    BY WindowFacts, Zenon
  <2> QED BY <1>1, <2>1 DEF Consistent, Single
<1> HIDE DEF less
<1>6. Consistent(sheet, [readied EXCEPT ![a] = Nothing], less)
  BY <1>1, <1>2, <1>3, <1>4, EntryReplaced
<1> QED BY <1>5, <1>6 DEF less

LEMMA ReleaseAttackKeeps ==
  ASSUME IInv, NEW a \in present, NEW target \in present, NEW blow \in Blow,
         ReleaseAttack(a, target, blow)
  PROVE  IInv'
<1> DEFINE less == pending \ {ActionWindow(a)}
           rest == [readied EXCEPT ![a] = Nothing]
<1>1. /\ a \in Actor /\ target \in Actor /\ ActionWindow(a) \in pending
      /\ reaction[a] > 0 /\ React(a)
      /\ Hit(target, blow, sheet, rest, less)
      /\ UNCHANGED <<places, main, bonus, active, acted, saved>>
  BY DEF IInv, Frame, ReleaseAttack, CanReact
<1>2. Consistent(sheet, rest, less) /\ \A w \in less : w.kind = "reaction"
  BY <1>1, ActionWindowIs
<1> HIDE DEF rest, less
<1> QED BY <1>1, <1>2, StrikeKeeps

LEMMA ReleaseActionKeeps ==
  ASSUME IInv, NEW a \in present, ReleaseAction(a)
  PROVE  IInv'
<1>1. /\ a \in Actor /\ turn \in Actor /\ ActionWindow(a) \in pending
      /\ reaction[a] > 0 /\ React(a)
      /\ readied' = [readied EXCEPT ![a] = Nothing]
      /\ pending' = pending \ {ActionWindow(a)}
      /\ UNCHANGED <<sheet, places, main, bonus, due, active, acted, dying, saved>>
  BY DEF IInv, Frame, ReleaseAction, CanReact
<1>2. Consistent(sheet', readied', pending')
  BY <1>1, ActionWindowIs
<1>3. SavesDue'
  BY <1>1, SavesUntouched DEF places
<1>4. due' \in BOOLEAN /\ dying' \in BOOLEAN
  BY <1>1 DEF IInv, Frame
<1> QED BY <1>1, <1>2, <1>3, <1>4, ReactionKeeps

LEMMA ChoiceResolveKeeps ==
  ASSUME IInv, NEW window \in pending, NEW selects \in BOOLEAN, ChoiceResolve(window, selects)
  PROVE  IInv'
<1>1. /\ window.kind # "readied_spell" /\ pending' = pending \ {window} /\ readied' = readied
      /\ UNCHANGED <<sheet, places, main, bonus, due, active, acted, dying, saved>>
  BY DEF ChoiceResolve
<1>2. /\ Consistent(sheet, readied, pending) /\ window \in Window /\ turn \in Actor
  BY DEF IInv, Frame, Consistent
<1>3. window.actor \in Actor
  BY <1>2 DEF Window
<1>4. Consistent(sheet', readied', pending')
  BY <1>1, <1>2, WindowClosed
<1>5. CASE selects
  <2>1. reaction[window.actor] > 0 /\ React(window.actor)
    BY <1>5 DEF ChoiceResolve
  <2>2. SavesDue'
    BY <1>1, <1>2, SavesUntouched DEF places
  <2>3. due' \in BOOLEAN /\ dying' \in BOOLEAN
    BY <1>1 DEF IInv, Frame
  <2> QED BY <1>1, <1>3, <1>4, <2>1, <2>2, <2>3, ReactionKeeps
<1>6. CASE ~selects
  <2>1. reaction' = reaction /\ reacted' = reacted
    BY <1>6 DEF ChoiceResolve
  <2>2. UNCHANGED <<sheet, places, reaction, main, bonus, due, active, history>>
    BY <1>1, <2>1 DEF history
  <2>3. Consistent(sheet, readied', pending')
    BY <1>1, <1>4
  <2> QED BY <2>2, <2>3, WindowStepKeeps
<1> QED BY <1>5, <1>6

LEMMA ConcentrationCheckKeeps ==
  ASSUME IInv, NEW a \in present, NEW success \in BOOLEAN, ConcentrationCheck(a, success)
  PROVE  IInv'
<1> DEFINE conc == IF success THEN sheet[a].conc ELSE "none"
           s == IF success THEN sheet[a] ELSE [sheet[a] EXCEPT !.conc = "none"]
           lost == readied[a].kind = "spell" /\ s.conc # "held"
           w == ConcentrationWindow(a)
           open == pending \ {w}
           less == open \ {SpellWindow(a)}
<1>1. /\ Consistent(sheet, readied, pending) /\ a \in Actor
      /\ sheet' = [sheet EXCEPT ![a] = s]
      /\ readied' = IF lost THEN [readied EXCEPT ![a] = Nothing] ELSE readied
      /\ pending' = pending \ ({w} \cup (IF lost THEN {SpellWindow(a)} ELSE {}))
      /\ UNCHANGED <<places, reaction, main, bonus, due, active, history>>
  BY DEF IInv, Frame, ConcentrationCheck
<1>2. sheet \in [Actor -> SheetType] /\ Sound(a, sheet[a]) /\ sheet[a] \in SheetType
  BY <1>1 DEF Consistent, SheetsSound
<1>3. /\ Sound(a, s) /\ (s.conc = "held" => sheet[a].conc = "held")
      /\ (Dead(s) <=> Dead(sheet[a])) /\ (Dying(s) <=> Dying(sheet[a]))
  <2>1. s = sheet[a] \/ SameBut(sheet[a], s, "none")
    BY DEF SameBut
  <2> HIDE DEF s
  <2>2. SameBut(sheet[a], s, "none") =>
          /\ Sound(a, s) /\ s.conc = "none"
          /\ (Dead(s) <=> Dead(sheet[a])) /\ (Dying(s) <=> Dying(sheet[a]))
    BY <1>1, <1>2, ConcSound
  <2> QED BY <1>2, <2>1, <2>2
<1> HIDE DEF s
<1>4. w.kind = "concentration" /\ w # SpellWindow(a)
  BY WindowFacts, Zenon
<1> HIDE DEF w
<1>5. Consistent(sheet, readied, open)
  BY <1>1, <1>4, WindowClosed
<1>6. ConcentrationWindow(a) \notin open
  BY DEF w
<1>7. s.conc = "held" => readied[a].kind = "spell"
  BY <1>1, <1>3 DEF Consistent, Entered
<1> HIDE DEF open
<1>8. Consistent(sheet', readied, open)
  BY <1>1, <1>3, <1>5, <1>6, <1>7, SheetReplaced
<1>9. sheet'[a] = s /\ \A b \in Actor : b # a => sheet'[b] = sheet[b]
  BY <1>1, <1>2
<1>10. CASE ~lost
  <2>1. readied' = readied /\ pending' = open
    BY <1>1, <1>10 DEF open
  <2>2. Consistent(sheet', readied', pending')
    BY <1>8, <2>1
  <2>3. main' \in {"free", "spent", "cast"} /\ bonus' \in BOOLEAN /\ active' \in BOOLEAN
    BY <1>1 DEF IInv, Frame
  <2> QED BY <1>1, <1>3, <1>9, <2>2, <2>3, QuietKeeps
<1>11. CASE lost
  <2>1. readied' = [readied EXCEPT ![a] = Nothing] /\ pending' = less
    BY <1>1, <1>11 DEF open
  <2>2. ActionWindow(a) \notin open
    BY <1>1, <1>8, <1>11 DEF Consistent, Live, Triggered
  <2>3. Nothing \in ReadyType /\ ~Triggered(Nothing, "spell")
    BY ReadyFacts DEF Triggered
  <2>4. sheet'[a].conc # "held"
    BY <1>9, <1>11
  <2>5. /\ less \in SUBSET open /\ SpellWindow(a) \notin less /\ ActionWindow(a) \notin less
        /\ \A v \in open : v \in less \/ v = SpellWindow(a) \/ v = ActionWindow(a)
    BY <2>2
  <2>6. a \in Actor
    BY <1>1
  <2> HIDE DEF less, lost
  <2>7. Consistent(sheet', readied', pending')
    BY <1>8, <2>6, <2>1, <2>3, <2>4, <2>5, EntryReplaced
  <2>8. main' \in {"free", "spent", "cast"} /\ bonus' \in BOOLEAN /\ active' \in BOOLEAN
    BY <1>1 DEF IInv, Frame
  <2> QED BY <1>1, <1>3, <1>9, <2>7, <2>8, QuietKeeps
<1> QED BY <1>10, <1>11

(***************************************************************************)
(* Reinforcements and the end.                                             *)
(***************************************************************************)
LEMMA QueueKeeps ==
  ASSUME IInv, NEW a \in bench, NEW joins \in 2..MaxRound, Queue(a, joins)
  PROVE  IInv'
<1>1. /\ bench' = bench \ {a} /\ waits' = [waits EXCEPT ![a] = joins]
      /\ surprised' = surprised \cup ({a} \cap Ambushed)
      /\ UNCHANGED <<sheet, present, turn, round, reaction, main, bonus, due, readied,
                     pending, active, history>>
  BY DEF Queue
<1>2. Frame /\ a \in Actor /\ a \notin present /\ joins \in Nat
  BY RoundAssumption DEF IInv, Frame
<1>3. waits' \in [Actor -> Nat] /\ \A b \in Actor : waits'[b] = IF b = a THEN joins ELSE waits[b]
  BY <1>1, <1>2 DEF Frame
<1>4. Benched'
  BY <1>1, <1>2, <1>3 DEF IInv, Benched, Frame
<1>5. Frame'
  BY <1>1, <1>2, <1>3 DEF Frame, history
<1>6. Unspent'
  BY <1>1, <1>2 DEF IInv, Unspent, history
<1>7. TurnOrder' /\ SavesDue'
  BY <1>1 DEF IInv, TurnOrder, SavesDue, history
<1>8. Consistent(sheet', readied', pending')
  BY <1>1 DEF IInv
<1> QED BY <1>4, <1>5, <1>6, <1>7, <1>8 DEF IInv

LEMMA CombatEndKeeps ==
  ASSUME IInv, CombatEnd
  PROVE  IInv'
<1>1. /\ pending = {} /\ active' = FALSE
      /\ readied' = [a \in Actor |-> Nothing]
      /\ sheet' = [a \in Actor |-> Lapsed(a, sheet[a])]
      /\ UNCHANGED <<places, reaction, main, bonus, due, pending, history>>
  BY DEF CombatEnd, Unblocked
<1>2. Consistent(sheet, readied, {}) /\ \A a \in Actor : Sound(a, sheet[a])
  BY <1>1 DEF IInv, Consistent, SheetsSound
<1>3. \A a \in Actor : sheet'[a] = Lapsed(a, sheet[a])
  BY <1>1
<1>4. \A a \in Actor : /\ Sound(a, sheet'[a])
                       /\ sheet'[a].conc = "held" => readied[a].kind # "spell" /\ sheet[a].conc = "held"
                       /\ Dead(sheet'[a]) <=> Dead(sheet[a])
                       /\ Dying(sheet'[a]) <=> Dying(sheet[a])
  BY <1>2, <1>3, LapsedSound
<1>5. \A a \in Actor : sheet'[a].conc # "held"
  BY <1>2, <1>4 DEF Consistent, Entered
<1>6. SheetsSound(sheet')
  BY <1>1, <1>4 DEF SheetsSound, Sound
<1>7. readied' \in [Actor -> ReadyType] /\ \A a \in Actor : readied'[a] \in {readied[a], Nothing}
  BY <1>1, ReadyFacts
<1>8. Consistent(sheet', readied', {})
  BY <1>2, <1>5, <1>6, <1>7, NoneOpen
<1>9. Consistent(sheet', readied', pending')
  BY <1>1, <1>8
<1>10. main' \in {"free", "spent", "cast"} /\ bonus' \in BOOLEAN
  BY <1>1 DEF IInv, Frame
<1>11. active' \in BOOLEAN
  BY <1>1, Zenon
<1> QED BY <1>1, <1>4, <1>9, <1>10, <1>11, QuietKeeps

(***************************************************************************)
(* The end of a turn.                                                      *)
(***************************************************************************)
Burned(sh, a, burns) == IF burns THEN [sh EXCEPT ![a] = Struck(a, @, Ember)] ELSE sh

LEMMA BurnedSound ==
  ASSUME NEW sh, SheetsSound(sh), NEW a \in Actor, NEW burns
  PROVE  LET new == Burned(sh, a, burns) IN
         /\ SheetsSound(new)
         /\ \A b \in Actor : /\ Dead(sh[b]) => Dead(new[b])
                             /\ Dying(sh[b]) => Dying(new[b]) \/ Dead(new[b])
                             /\ new[b].conc = "held" => sh[b].conc = "held"
<1> DEFINE new == Burned(sh, a, burns)
           s == Struck(a, sh[a], Ember)
<1>1. sh \in [Actor -> SheetType] /\ \A b \in Actor : Sound(b, sh[b])
  BY DEF SheetsSound
<1>2. Ember \in Blows
  BY DEF Ember, Blows
<1>3. /\ Sound(a, s) /\ (Dead(sh[a]) => Dead(s)) /\ (Dying(sh[a]) => Dying(s) \/ Dead(s))
      /\ s.conc = IF s.hp = 0 THEN "none" ELSE sh[a].conc
  BY <1>1, <1>2, StruckSound
<1>4. CASE ~burns
  BY <1>4 DEF Burned
<1>5. CASE burns
  <2>1. new = [sh EXCEPT ![a] = s]
    BY <1>5 DEF Burned
  <2> HIDE DEF new, s
  <2>2. s \in SheetType
    BY <1>3 DEF Sound
  <2>3. new \in [Actor -> SheetType] /\ \A b \in Actor : new[b] = IF b = a THEN s ELSE sh[b]
    BY <1>1, <2>1, <2>2
  <2>4. SheetsSound(new)
    BY <1>1, <1>3, <2>3 DEF SheetsSound
  <2>5. \A b \in Actor : /\ Dead(sh[b]) => Dead(new[b])
                         /\ Dying(sh[b]) => Dying(new[b]) \/ Dead(new[b])
                         /\ new[b].conc = "held" => sh[b].conc = "held"
    BY <1>3, <2>3
  <2> QED BY <2>4, <2>5 DEF new
<1> QED BY <1>4, <1>5

\* What the step does, with its parts named: the sheets after oil, the next
\* place, the sheets after fire, and whether the next actor is still surprised.
TurnEnds(oil, fire, idle, singed, place, burnt, next) ==
  /\ singed = Burned(sheet, turn, oil) /\ place = Landing(singed)
  /\ next = place.who /\ burnt = Burned(singed, next, fire)
  /\ idle = (next \in surprised \ {turn})
  /\ ~(due /\ Dying(singed[turn])) /\ place.round <= MaxRound
  /\ sheet' = [burnt EXCEPT ![next] = Lapsed(next, @)]
  /\ present' = place.present
  /\ waits' = [a \in Actor |-> IF a \in place.present THEN 0 ELSE waits[a]]
  /\ turn' = next /\ round' = place.round
  /\ surprised' = surprised \ {turn}
  /\ reaction' = [a \in Actor |-> CASE a = next -> (IF idle THEN 0 ELSE 1)
                                    [] a # next /\ a = turn /\ a \in surprised -> 1
                                    [] OTHER -> reaction[a]]
  /\ main' = (IF idle THEN "spent" ELSE "free") /\ bonus' = ~idle
  /\ due' = Owes(next, burnt) /\ dying' = Owes(next, burnt) /\ saved' = 0
  /\ readied' = [readied EXCEPT ![next] = Nothing]
  /\ acted' = (IF place.round > round THEN {} ELSE acted) \cup {next}
  /\ reacted' = [reacted EXCEPT ![next] = 0]

LEMMA EndTurnIs ==
  ASSUME EndTurn
  PROVE  /\ pending = {} /\ UNCHANGED <<bench, pending, active>>
         /\ \E oil, fire, idle \in BOOLEAN : \E singed, place, burnt, next :
              TurnEnds(oil, fire, idle, singed, place, burnt, next)
<1>1. PICK oil \in (IF turn \in Oiled THEN BOOLEAN ELSE {FALSE}), fire \in BOOLEAN :
       LET singed == IF oil THEN [sheet EXCEPT ![turn] = Struck(turn, @, Ember)] ELSE sheet
           place == Landing(singed)
           next == place.who
           burnt == IF fire THEN [singed EXCEPT ![next] = Struck(next, @, Ember)] ELSE singed
           idle == next \in surprised \ {turn}
       IN  /\ oil => singed[turn].conc = "none"
           /\ ~(due /\ Dying(singed[turn]))
           /\ fire => next \in Aflame
           /\ place.round <= MaxRound
           /\ sheet' = [burnt EXCEPT ![next] = Lapsed(next, @)]
           /\ present' = place.present
           /\ waits' = [a \in Actor |-> IF a \in place.present THEN 0 ELSE waits[a]]
           /\ turn' = next
           /\ round' = place.round
           /\ surprised' = surprised \ {turn}
           /\ reaction' = [a \in Actor |-> CASE a = next -> (IF idle THEN 0 ELSE 1)
                                             [] a # next /\ a = turn /\ a \in surprised -> 1
                                             [] OTHER -> reaction[a]]
           /\ main' = IF idle THEN "spent" ELSE "free"
           /\ bonus' = ~idle
           /\ due' = Owes(next, burnt)
           /\ readied' = [readied EXCEPT ![next] = Nothing]
           /\ acted' = (IF place.round > round THEN {} ELSE acted) \cup {next}
           /\ reacted' = [reacted EXCEPT ![next] = 0]
           /\ dying' = (next \in Savers /\ Dying(sheet[next]) /\ Dying(burnt[next]))
           /\ saved' = 0
  BY Zenon DEF EndTurn
<1>2. pending = {} /\ UNCHANGED <<bench, pending, active>>
  BY Zenon DEF EndTurn, Unblocked
<1> DEFINE singed == IF oil THEN [sheet EXCEPT ![turn] = Struck(turn, @, Ember)] ELSE sheet
           place == Landing(singed)
           next == place.who
           burnt == IF fire THEN [singed EXCEPT ![next] = Struck(next, @, Ember)] ELSE singed
           idle == next \in surprised \ {turn}
<1>3. TurnEnds(oil, fire, idle, singed, place, burnt, next)
  BY <1>1, Zenon DEF TurnEnds, Burned, Owes
<1>4. oil \in BOOLEAN
  BY <1>1, Zenon
<1>5. idle \in BOOLEAN
  OBVIOUS
<1> HIDE DEF singed, place, next, burnt, idle
<1> QED BY <1>2, <1>3, <1>4, <1>5

\* What the end of a turn leaves behind, the step seen from the invariant.
LEMMA EndTurnKeeps ==
  ASSUME IInv, EndTurn
  PROVE  /\ IInv'
         /\ round' > round => \A a \in present : a \in acted \/ Dead(sheet'[a])
         /\ round' = round => turn' \notin acted
         /\ saved' <= 1 /\ saved' <= saved
         /\ dying /\ saved = 0 => Dead(sheet'[turn])
<1>1. /\ pending = {} /\ UNCHANGED <<bench, pending, active>>
      /\ \E oil, fire, idle \in BOOLEAN : \E singed, place, burnt, next :
           TurnEnds(oil, fire, idle, singed, place, burnt, next)
  BY EndTurnIs
<1>2. PICK oil, fire, idle, singed, place, burnt, next :
        /\ oil \in BOOLEAN /\ fire \in BOOLEAN /\ idle \in BOOLEAN
        /\ TurnEnds(oil, fire, idle, singed, place, burnt, next)
  BY <1>1
<1>3. /\ Consistent(sheet, readied, {}) /\ Frame /\ TypeOK /\ SheetsSound(sheet)
      /\ Benched /\ Unspent /\ TurnOrder /\ SavesDue /\ turn \in Actor /\ present \subseteq Actor
      /\ readied \in [Actor -> ReadyType]
  BY <1>1, Parts DEF IInv, Frame, Consistent
<1>4. /\ SheetsSound(singed)
      /\ \A b \in Actor : /\ Dead(sheet[b]) => Dead(singed[b])
                          /\ Dying(sheet[b]) => Dying(singed[b]) \/ Dead(singed[b])
                          /\ singed[b].conc = "held" => sheet[b].conc = "held"
  BY <1>2, <1>3, BurnedSound DEF TurnEnds
<1>5. /\ Placed(place) /\ Reached(singed, place)
  BY <1>2, <1>3, LandingReached DEF TurnEnds
<1>6. next = place.who /\ next \in Actor /\ next \in place.present /\ place.present \subseteq Actor
  BY <1>2, <1>5 DEF TurnEnds, Placed, Places
<1>7. /\ SheetsSound(burnt)
      /\ \A b \in Actor : /\ Dead(singed[b]) => Dead(burnt[b])
                          /\ burnt[b].conc = "held" => singed[b].conc = "held"
  BY <1>2, <1>4, <1>6, BurnedSound DEF TurnEnds
<1> DEFINE s == Lapsed(next, burnt[next])
<1>8. /\ Sound(next, s) /\ (s.conc = "held" => readied[next].kind # "spell" /\ burnt[next].conc = "held")
      /\ (Dead(s) <=> Dead(burnt[next])) /\ (Dying(s) <=> Dying(burnt[next]))
  BY <1>6, <1>7, LapsedSound DEF SheetsSound
<1>9. sheet' = [burnt EXCEPT ![next] = s]
  BY <1>2 DEF TurnEnds
<1> HIDE DEF s
<1>10. s \in SheetType /\ burnt \in [Actor -> SheetType]
  BY <1>7, <1>8 DEF Sound, SheetsSound
<1>11. \A b \in Actor : sheet'[b] = IF b = next THEN s ELSE burnt[b]
  BY <1>9, <1>10
<1>12. SheetsSound(sheet')
  BY <1>7, <1>8, <1>9, <1>10, <1>11 DEF SheetsSound
<1>13. \A b \in Actor : Dead(singed[b]) => Dead(sheet'[b])
  BY <1>7, <1>8, <1>11
<1>14. /\ readied' \in [Actor -> ReadyType]
       /\ \A b \in Actor : readied'[b] = IF b = next THEN Nothing ELSE readied[b]
  BY <1>2, <1>3, ReadyFacts DEF TurnEnds
<1>15. \A b \in Actor : sheet'[b].conc = "held" => readied'[b].kind = "spell"
  <2>1. \A b \in Actor : sheet[b].conc = "held" => readied[b].kind = "spell"
    BY <1>3 DEF Consistent, Entered
  <2> QED BY <1>4, <1>6, <1>7, <1>8, <1>11, <1>14, <2>1
<1>16. Consistent(sheet', readied', pending')
  <2>1. \A b \in Actor : readied'[b] \in {readied[b], Nothing}
    BY <1>14
  <2>2. Consistent(sheet', readied', {})
    BY <1>3, <1>12, <1>14, <1>15, <2>1, NoneOpen
  <2> QED BY <1>1, <2>2
<1>17. /\ present' = place.present /\ turn' = next /\ round' = place.round /\ bench' = bench
       /\ surprised' = surprised \ {turn} /\ saved' = 0 /\ active' = active
       /\ acted' = (IF place.round > round THEN {} ELSE acted) \cup {next}
       /\ idle = (next \in surprised \ {turn}) /\ place.round <= MaxRound
  BY <1>1, <1>2 DEF TurnEnds
<1>18. /\ waits' \in [Actor -> Nat]
       /\ \A a \in Actor : waits'[a] = IF a \in place.present THEN 0 ELSE waits[a]
  BY <1>2, <1>3 DEF TurnEnds, Frame
<1>19. /\ reaction' \in [Actor -> 0..1] /\ reacted' \in [Actor -> 0..2]
       /\ \A a \in Actor : /\ reacted'[a] = IF a = next THEN 0 ELSE reacted[a]
                           /\ reaction'[a] = IF a = next THEN (IF idle THEN 0 ELSE 1)
                                             ELSE IF a = turn /\ a \in surprised THEN 1
                                             ELSE reaction[a]
  BY <1>2, <1>3, <1>6 DEF TurnEnds, Frame
<1>20. Benched'
  BY <1>3, <1>17, <1>18 DEF Benched, Frame
<1>21. Unspent'
  <2> SUFFICES ASSUME NEW a \in Actor
               PROVE  /\ reaction'[a] + reacted'[a] <= 1
                      /\ a \in surprised' \/ a \in bench' \cap Ambushed =>
                           reaction'[a] = 0 /\ reacted'[a] = 0
    BY DEF Unspent
  <2>1. /\ reaction[a] + reacted[a] <= 1 /\ reaction[a] \in 0..1 /\ reacted[a] \in 0..2
        /\ a \in surprised \/ a \in bench \cap Ambushed => reaction[a] = 0 /\ reacted[a] = 0
    BY <1>3 DEF Unspent, Frame
  <2>2. next \notin bench /\ turn \notin bench
    BY <1>3, <1>5, <1>6 DEF Placed, Frame
  <2>3. CASE a = next
    <3>1. idle <=> next \in surprised \ {turn}
      BY <1>17, Zenon
    <3>2. surprised' = surprised \ {turn} /\ bench' = bench
      BY <1>17
    <3>3. ~idle => a \notin surprised'
      BY <2>3, <3>1, <3>2, Zenon
    <3>4. /\ reacted'[a] = 0 /\ reaction'[a] = (IF idle THEN 0 ELSE 1)
      BY <1>19, <2>3
    <3>5. a \notin bench' \cap Ambushed
      BY <2>2, <2>3, <3>2
    <3> QED BY <3>3, <3>4, <3>5
  <2>4. CASE a # next /\ a = turn /\ a \in surprised
    BY <1>17, <1>19, <2>1, <2>2, <2>4
  <2>5. CASE a # next /\ ~(a = turn /\ a \in surprised)
    BY <1>17, <1>19, <2>1, <2>5
  <2> QED BY <2>3, <2>4, <2>5
<1>22. \A a \in Actor : Rank[a] \in Nat
  BY RankAssumption
<1>23. round \in Nat /\ place.round \in Nat /\ place.round >= round
  BY <1>3, <1>5 DEF Frame, Placed, Places
<1>24. ASSUME place.round = round PROVE TurnOrder' /\ turn' \notin acted
  <2>1. /\ place.present = present /\ Rank[next] > Rank[turn]
        /\ \A a \in present : Rank[turn] < Rank[a] /\ Rank[a] < Rank[next] => Dead(singed[a])
    BY <1>5, <1>6, <1>23, <1>24 DEF Reached
  <2>2. acted' = acted \cup {next} /\ acted \subseteq Actor
    BY <1>3, <1>17, <1>23, <1>24 DEF Frame
  <2>3. \A a \in acted : Rank[a] <= Rank[turn]
    BY <1>3 DEF TurnOrder
  <2>4. next \notin acted
    BY <1>3, <1>6, <1>22, <2>1, <2>3
  <2>5. \A a \in acted' : Rank[a] <= Rank[turn']
    BY <1>3, <1>6, <1>17, <1>22, <2>1, <2>2, <2>3
  <2>6. \A a \in present' : Rank[a] <= Rank[turn'] => a \in acted' \/ Dead(sheet'[a])
    <3> TAKE a \in present'
    <3> HAVE Rank[a] <= Rank[turn']
    <3>1. a \in present /\ a \in Actor /\ Rank[a] <= Rank[next]
      BY <1>3, <1>17, <2>1
    <3>2. CASE Rank[a] <= Rank[turn]
      BY <1>3, <1>4, <1>13, <2>2, <3>1, <3>2 DEF TurnOrder
    <3>3. CASE Rank[turn] < Rank[a] /\ Rank[a] < Rank[next]
      BY <1>13, <2>1, <3>1, <3>3
    <3>4. CASE Rank[a] = Rank[next]
      BY <1>6, <2>2, <3>1, <3>4, RankAssumption
    <3> QED BY <1>3, <1>6, <1>22, <3>1, <3>2, <3>3, <3>4
  <2>7. TurnOrder'
    BY <2>5, <2>6 DEF TurnOrder
  <2> QED BY <1>17, <2>4, <2>7
<1>25. ASSUME place.round > round
       PROVE  TurnOrder' /\ \A a \in present : a \in acted \/ Dead(sheet'[a])
  <2>1. /\ \A a \in present : Rank[turn] < Rank[a] => Dead(singed[a])
        /\ \A a \in place.present : Rank[a] < Rank[next] => Dead(singed[a])
    BY <1>5, <1>6, <1>23, <1>25 DEF Reached
  <2>2. acted' = {next}
    BY <1>17, <1>25
  <2>3. \A a \in present : a \in acted \/ Dead(sheet'[a])
    <3> TAKE a \in present
    <3>1. a \in Actor
      BY <1>3
    <3>2. CASE Rank[a] <= Rank[turn]
      BY <1>3, <1>4, <1>13, <3>1, <3>2 DEF TurnOrder
    <3>3. CASE Rank[turn] < Rank[a]
      BY <1>13, <2>1, <3>1, <3>3
    <3> QED BY <1>3, <1>22, <3>1, <3>2, <3>3
  <2>4. \A a \in acted' : Rank[a] <= Rank[turn']
    BY <1>6, <1>17, <1>22, <2>2
  <2>5. \A a \in present' : Rank[a] <= Rank[turn'] => a \in acted' \/ Dead(sheet'[a])
    BY <1>6, <1>13, <1>17, <1>22, <2>1, <2>2, RankAssumption
  <2>6. TurnOrder'
    BY <2>4, <2>5 DEF TurnOrder
  <2> QED BY <2>3, <2>6
<1>26. /\ TurnOrder'
       /\ round' > round => \A a \in present : a \in acted \/ Dead(sheet'[a])
       /\ round' = round => turn' \notin acted
  BY <1>17, <1>23, <1>24, <1>25
<1>27. /\ due' = Owes(next, burnt) /\ dying' = Owes(next, burnt)
  BY <1>2 DEF TurnEnds
<1>28. due' \in BOOLEAN /\ dying' \in BOOLEAN /\ (due' <=> dying')
       /\ (dying' => next \in Savers /\ Dying(burnt[next]))
  BY <1>27, Zenon DEF Owes
<1>29. SavesDue'
  <2>1. dying' => Dying(sheet'[next])
    BY <1>6, <1>8, <1>11, <1>28
  <2> QED BY <1>17, <1>28, <2>1 DEF SavesDue
<1>30. main' \in {"free", "spent", "cast"} /\ bonus' \in BOOLEAN
  <2>1. main' = (IF idle THEN "spent" ELSE "free") /\ bonus' = ~idle
    BY <1>2, Zenon DEF TurnEnds
  <2>2. bonus' \in BOOLEAN
    BY <2>1, Zenon
  <2> QED BY <2>1, <2>2
<1>31. Frame'
  <2>1. /\ present' \subseteq Actor /\ turn' \in present' /\ bench' \subseteq Actor
        /\ surprised' \subseteq Actor /\ acted' \subseteq Actor /\ round' \in 1..MaxRound
    BY <1>3, <1>6, <1>17, <1>23, RoundAssumption DEF Frame
  <2>2. \A a \in Actor : a \in present' => waits'[a] = 0 /\ a \notin bench'
    BY <1>5, <1>17, <1>18 DEF Placed
  <2>3. active' \in BOOLEAN /\ saved' \in 0..2
    BY <1>3, <1>17 DEF Frame
  <2> QED BY <1>18, <1>19, <1>28, <1>30, <2>1, <2>2, <2>3 DEF Frame
<1>32. IInv'
  BY <1>16, <1>20, <1>21, <1>26, <1>29, <1>31 DEF IInv
<1>33. ASSUME dying, saved = 0 PROVE Dead(sheet'[turn])
  <2>1. due /\ Dying(sheet[turn])
    BY <1>3, <1>33 DEF SavesDue
  <2>2. ~Dying(singed[turn])
    BY <1>2, <2>1 DEF TurnEnds
  <2> QED BY <1>3, <1>4, <1>13, <2>1, <2>2
<1>34. saved' <= 1 /\ saved' <= saved
  BY <1>3, <1>17 DEF Frame
<1> QED BY <1>26, <1>32, <1>33, <1>34

(***************************************************************************)
(* The invariant holds at the start and every step keeps it.               *)
(***************************************************************************)
LEMMA InitInv == Init => IInv
<1> SUFFICES ASSUME Init PROVE IInv
  OBVIOUS
<1>1. PICK lineup \in LineUps :
        /\ sheet = [a \in Actor |-> [hp |-> HP[a], cond |-> {}, succ |-> 0, fail |-> 0, conc |-> "none"]]
        /\ present = lineup.start /\ bench = lineup.bench
        /\ waits = [a \in Actor |-> 0]
        /\ turn = First(lineup.start) /\ round = 1
        /\ surprised = Ambushed \cap lineup.start
        /\ reaction = [a \in Actor |-> IF a \in Ambushed THEN 0 ELSE 1]
        /\ main = (IF First(lineup.start) \in Ambushed THEN "spent" ELSE "free")
        /\ bonus = (First(lineup.start) \notin Ambushed)
        /\ due = FALSE /\ readied = [a \in Actor |-> Nothing] /\ pending = {} /\ active = TRUE
        /\ acted = {First(lineup.start)} /\ reacted = [a \in Actor |-> 0]
        /\ dying = FALSE /\ saved = 0
  BY Zenon DEF Init
<1>2. /\ lineup.start \in SUBSET Actor /\ lineup.start # {} /\ lineup.bench \subseteq Actor \ lineup.start
  BY LineUpAssumption
<1>3. /\ turn \in lineup.start /\ \A b \in lineup.start : Rank[turn] <= Rank[b]
  BY <1>1, <1>2, FirstIsFirst
<1>4. \A a \in Actor : /\ sheet[a] \in SheetType
                       /\ sheet[a].hp = HP[a] /\ sheet[a].cond = {} /\ sheet[a].conc = "none"
                       /\ sheet[a].succ = 0 /\ sheet[a].fail = 0
  <2> TAKE a \in Actor
  <2>1. sheet[a] = [hp |-> HP[a], cond |-> {}, succ |-> 0, fail |-> 0, conc |-> "none"]
    BY <1>1
  <2>2. HP[a] \in Nat
    BY HPAssumption
  <2> QED BY <2>1, <2>2 DEF SheetType
<1>5. SheetsSound(sheet)
  <2>1. ASSUME NEW a \in Actor PROVE Sound(a, sheet[a])
    <3>1. HP[a] \in Nat /\ HP[a] > 0
      BY HPAssumption
    <3> QED BY <1>4, <3>1, Conditions DEF Sound, Tidy
  <2>2. sheet \in [Actor -> SheetType]
    <3>1. sheet = [a \in Actor |-> sheet[a]]
      BY <1>1
    <3> QED BY <1>4, <3>1
  <2> QED BY <2>1, <2>2 DEF SheetsSound
<1>6. readied \in [Actor -> ReadyType] /\ \A a \in Actor : ~Triggered(readied[a], "spell")
  BY <1>1, ReadyFacts DEF Triggered
<1>7. Consistent(sheet, readied, pending)
  BY <1>1, <1>4, <1>5, <1>6 DEF Consistent, Entered, Live, Single
<1>8. Frame
  <2>1. /\ present \subseteq Actor /\ turn \in present /\ bench \subseteq Actor
        /\ surprised \subseteq Actor /\ acted \subseteq Actor /\ round \in 1..MaxRound
        /\ \A a \in Actor : a \in present => waits[a] = 0 /\ a \notin bench
    BY <1>1, <1>2, <1>3, RoundAssumption
  <2>2. /\ waits \in [Actor -> Nat] /\ reaction \in [Actor -> 0..1] /\ reacted \in [Actor -> 0..2]
        /\ main \in {"free", "spent", "cast"} /\ saved \in 0..2
    BY <1>1
  <2>3. bonus \in BOOLEAN /\ due \in BOOLEAN /\ active \in BOOLEAN /\ dying \in BOOLEAN
    BY <1>1, Zenon
  <2> QED BY <2>1, <2>2, <2>3 DEF Frame
<1>9. Benched
  BY <1>1, <1>2 DEF Benched
<1>10. Unspent
  BY <1>1 DEF Unspent
<1>11. TurnOrder
  <2>1. /\ present = lineup.start /\ present \subseteq Actor
        /\ turn \in present /\ acted = {turn}
    BY <1>1, <1>2, <1>3
  <2>2. Rank[turn] \in Nat
    BY <2>1, RankAssumption
  <2>3. ASSUME NEW a \in present, Rank[a] <= Rank[turn] PROVE a \in acted
    <3>1. a \in Actor /\ turn \in Actor /\ Rank[a] \in Nat /\ Rank[turn] <= Rank[a]
      BY <1>3, <2>1, RankAssumption
    <3>2. Rank[a] = Rank[turn]
      BY <2>2, <2>3, <3>1
    <3>3. a = turn
      BY <3>1, <3>2, RankAssumption
    <3> QED BY <2>1, <3>3
  <2> QED BY <2>1, <2>2, <2>3 DEF TurnOrder
<1>12. SavesDue
  BY <1>1 DEF SavesDue
<1> QED BY <1>7, <1>8, <1>9, <1>10, <1>11, <1>12 DEF IInv

\* Whoever takes a turn, and how its death save goes.
Fair ==
  /\ round' > round => \A a \in present : a \in acted \/ Dead(sheet'[a])
  /\ TurnStarts /\ round' = round => turn' \notin acted
Rolls ==
  /\ saved' > saved => dying
  /\ TurnStarts /\ dying /\ saved = 0 => Dead(sheet'[turn])

LEMMA InATurn ==
  ASSUME IInv, turn' = turn, round' = round, saved' > saved => dying
  PROVE  Fair /\ Rolls
<1>1. round \in Nat
  BY DEF IInv, Frame
<1> QED BY <1>1 DEF Fair, Rolls, TurnStarts

LEMMA NextKeeps ==
  ASSUME IInv, [Next]_vars
  PROVE  IInv' /\ Fair /\ Rolls
<1> DEFINE Calm == turn' = turn /\ round' = round /\ saved' = saved
           Kept == IInv' /\ Fair /\ Rolls
<1>0. saved \in Nat
  BY DEF IInv, Frame
<1>1. ASSUME IInv', Calm PROVE Kept
  BY <1>0, <1>1, InATurn
<1>2. ASSUME EndTurn PROVE Kept
  <2>1. round \in Nat /\ round' \in Nat /\ saved' <= saved /\ saved' \in Nat
    BY <1>2, EndTurnKeeps DEF IInv, Frame
  <2>2. Fair
    BY <1>2, EndTurnKeeps DEF Fair
  <2>3. Rolls
    BY <1>0, <1>2, <2>1, EndTurnKeeps DEF Rolls
  <2> QED BY <1>2, <2>2, <2>3, EndTurnKeeps
<1>3. ASSUME NEW a \in present, NEW blow \in Blow, Damage(a, blow) PROVE Kept
  BY <1>1, <1>3, DamageKeeps DEF Damage, places
<1>4. ASSUME NEW a \in present, NEW amount \in Cure, Heal(a, amount) PROVE Kept
  BY <1>1, <1>4, HealKeeps DEF Heal, Mend, places
<1>5. ASSUME NEW a \in present, Stabilize(a) PROVE Kept
  BY <1>1, <1>5, StabilizeKeeps DEF Stabilize, Mend, places
<1>6. ASSUME NEW die \in {"twenty", "high", "low", "one"}, DeathSave(die) PROVE Kept
  <2>1. turn' = turn /\ round' = round /\ due
    BY <1>6 DEF DeathSave, places
  <2>2. dying
    BY <2>1 DEF IInv, SavesDue
  <2> QED BY <1>6, <2>1, <2>2, DeathSaveKeeps, InATurn
<1>7. ASSUME NEW a \in present, NEW payment \in {"main", "bonus"}, Cast(a, payment) PROVE Kept
  BY <1>1, <1>7, CastKeeps DEF Cast, places, history
<1>8. ASSUME NEW a \in present, ReadySpell(a) PROVE Kept
  BY <1>1, <1>8, ReadySpellKeeps DEF ReadySpell, places, history
<1>9. ASSUME NEW a \in present, ReadyAction(a) PROVE Kept
  BY <1>1, <1>9, ReadyActionKeeps DEF ReadyAction, places, history
<1>10. ASSUME NEW a \in present, TriggerSpell(a) \/ TriggerAction(a) PROVE Kept
  BY <1>1, <1>10, TriggerKeeps DEF TriggerSpell, TriggerAction, Trigger, places, history
<1>11. ASSUME NEW a \in present, Dissipate(a) PROVE Kept
  BY <1>1, <1>11, DissipateKeeps DEF Dissipate, places, history
<1>12. ASSUME NEW a \in present, NEW window \in {SpellWindow(a), ActionWindow(a)}, Decline(a, window)
       PROVE  Kept
  BY <1>1, <1>12, DeclineKeeps DEF Decline, places, history
<1>13. ASSUME NEW a \in present, NEW conc \in {"none", "spell"}, ReleaseSpell(a, conc) PROVE Kept
  BY <1>1, <1>13, ReleaseSpellKeeps DEF ReleaseSpell, places
<1>14. ASSUME NEW a \in present, NEW target \in present, NEW blow \in Blow,
              ReleaseAttack(a, target, blow)
       PROVE  Kept
  BY <1>1, <1>14, ReleaseAttackKeeps DEF ReleaseAttack, places
<1>15. ASSUME NEW a \in present, ReleaseAction(a) PROVE Kept
  BY <1>1, <1>15, ReleaseActionKeeps DEF ReleaseAction, places
<1>16. ASSUME NEW a \in present, NEW success \in BOOLEAN, ConcentrationCheck(a, success) PROVE Kept
  BY <1>1, <1>16, ConcentrationCheckKeeps DEF ConcentrationCheck, places, history
<1>17. ASSUME NEW a \in present, ChoiceOpen(a) PROVE Kept
  BY <1>1, <1>17, ChoiceOpenKeeps DEF ChoiceOpen, places, history
<1>18. ASSUME NEW window \in pending, NEW selects \in BOOLEAN, ChoiceResolve(window, selects)
       PROVE  Kept
  BY <1>1, <1>18, ChoiceResolveKeeps DEF ChoiceResolve, places
<1>19. ASSUME NEW a \in bench, NEW joins \in 2..MaxRound, Queue(a, joins) PROVE Kept
  BY <1>1, <1>19, QueueKeeps DEF Queue, history
<1>20. ASSUME CombatEnd PROVE Kept
  BY <1>1, <1>20, CombatEndKeeps DEF CombatEnd, places, history
<1>21. ASSUME UNCHANGED vars PROVE Kept
  <2>1. IInv'
    BY <1>21 DEF vars, places, history, IInv, Frame, Benched, Unspent, TurnOrder, SavesDue
  <2> QED BY <1>1, <1>21, <2>1 DEF vars, places, history
<1> HIDE DEF Kept
<1>22. ASSUME Next PROVE Kept
  BY <1>2, <1>3, <1>4, <1>5, <1>6, <1>7, <1>8, <1>9, <1>10, <1>11, <1>12, <1>13, <1>14,
     <1>15, <1>16, <1>17, <1>18, <1>19, <1>20, <1>21, <1>22, Zenon DEF Next, Closed
<1> QED BY <1>21, <1>22 DEF Kept

LEMMA Invariance == Spec => []IInv
<1>1. IInv /\ [Next]_vars => IInv'
  BY NextKeeps
<1> QED BY InitInv, <1>1, PTL DEF Spec

(***************************************************************************)
(* The results.                                                            *)
(***************************************************************************)
\* Every reachable state is well formed; among other things the turn is always
\* a combatant's, through the dead passed over and the reinforcements.
THEOREM WellFormed == Spec => []TypeOK
<1>1. IInv => TypeOK
  BY Parts
<1> QED BY Invariance, <1>1, PTL

\* Blows, heals and death saves in any order leave a sheet whose tally, hit
\* points and conditions agree.
THEOREM SheetsAgree == Spec => []TallyWhileDying
<1>1. IInv => TallyWhileDying
  BY Parts
<1> QED BY Invariance, <1>1, PTL

\* Nobody concentrates on held energy without a readied spell.
THEOREM EnergyIsEntered == Spec => []HeldEnergyHasEntry
<1>1. IInv => HeldEnergyHasEntry
  BY Parts
<1> QED BY Invariance, <1>1, PTL

\* Every window that is open can still be answered.
THEOREM WindowsAnswerable == Spec => []WindowsAreLive
<1>1. IInv => WindowsAreLive
  BY Parts
<1> QED BY Invariance, <1>1, PTL

\* One reaction from turn to turn.
THEOREM ReactsOnce == Spec => []OneReaction
<1>1. IInv => OneReaction
  BY Parts
<1> QED BY Invariance, <1>1, PTL

\* A round gives each combatant that lives one turn.
THEOREM RoundsAreFair == Spec => OneTurnEachRound
<1>1. IInv /\ [Next]_vars => [Fair]_vars
  BY NextKeeps
<1> QED BY Invariance, <1>1, PTL DEF Spec, OneTurnEachRound, Fair

\* A turn that comes while dying takes one death save.
THEOREM SavesAreRolled == Spec => SaveEachTurn
<1>1. IInv /\ [Next]_vars => [saved' <= 1 /\ Rolls]_vars
  BY NextKeeps DEF IInv, SavesDue
<1> QED BY Invariance, <1>1, PTL DEF Spec, SaveEachTurn, Rolls

=============================================================================

---------------------------- MODULE MCEncounter ----------------------------
(***************************************************************************)
(* Two small encounters: a caster that makes death saves against one       *)
(* monster, with oil, fire and surprise; and three monsters that die, with *)
(* a reinforcement.                                                        *)
(***************************************************************************)
EXTENDS Encounter

CONSTANTS p, m, d1, d2, d3, r

MCActor == {p, m, d1, d2, d3, r}
MCRank == [a \in MCActor |-> CASE a = p -> 1 [] a = m -> 2 [] a = d1 -> 3
                              [] a = d2 -> 4 [] a = d3 -> 5 [] a = r -> 6]
MCHP == [a \in MCActor |-> IF a \in {p, m} THEN 2 ELSE 1]
MCSavers == {p}
MCWatchers == {p, m}
MCCure == {1}
MCAmbushed == {m, r}
Duel == [start |-> {p, m}, bench |-> {}]
Wave == [start |-> {d1, d2, d3}, bench |-> {r}]
MCLineUps == {Duel, Wave}
MCBlow == {[amount |-> 1, crit |-> FALSE, ko |-> FALSE],
           [amount |-> 1, crit |-> TRUE, ko |-> FALSE],
           [amount |-> 1, crit |-> FALSE, ko |-> TRUE],
           [amount |-> 4, crit |-> FALSE, ko |-> FALSE]}

=============================================================================

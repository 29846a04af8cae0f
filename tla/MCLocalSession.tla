--------------------------- MODULE MCLocalSession ---------------------------
(***************************************************************************)
(* A dragon with two uses of Legendary Resistance and a hero with a Bardic *)
(* Inspiration die, in front of the local session and a server process.    *)
(***************************************************************************)
EXTENDS LocalSession, TLC

CONSTANTS l, s, dragon, hero, fire, breath, back

MCSaver == {dragon, hero}
MCScript == [c \in Command |-> IF c = fire THEN <<hero, dragon>> ELSE <<dragon, Damage, dragon>>]
MCUses == dragon :> 2 @@ hero :> 0
\* The first decision of the fire is raced for: one accepts it, one declines.
MCChoice == [of : Command, at : 1 .. 2, yes : {TRUE}]
              \cup [of : {fire}, at : {1}, yes : {FALSE}]
MCHome == [k \in Request |-> IF k \in {fire} \/ (k \in Choice /\ ~k.yes) THEN s ELSE l]

\* All dice but one fail, so that both commands stop, or none does, so that the breath
\* commits with no decision.
MCStream == {[i \in 1 .. MaxDie |-> i \in S] : S \in {{2}, 1 .. MaxDie}}

\* A dragon whose uses are exhausted fails before the hero rolls.
StuckScript == fire :> <<dragon, hero>>
StuckUses == dragon :> 0 @@ hero :> 0
=============================================================================

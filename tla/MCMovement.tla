----------------------------- MODULE MCMovement -----------------------------
\* Two threats beside a short line; their reaches end at the same cell, and one
\* of them also carries a weapon with a longer reach.
EXTENDS Movement, TLC
CONSTANTS guard, ogre
MCThreats == {guard, ogre}
MCRank == guard :> 1 @@ ogre :> 2
MCCell == guard :> 0 @@ ogre :> 1
MCSide == guard :> 1 @@ ogre :> 0
MCReach == guard :> {1, 2} @@ ogre :> {1}
=============================================================================

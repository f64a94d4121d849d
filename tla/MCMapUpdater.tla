---------------------------- MODULE MCMapUpdater ----------------------------
(* MapUpdater for TLC: which instances belong to which instanced map.       *)
EXTENDS MapUpdater

CONSTANTS dungeon, raid, d1, d2, r1

\* Two instances of one dungeon, one of a raid; other maps have no instances.
MCMapOf == [i \in Instance |-> IF i = r1 THEN raid ELSE dungeon]
=============================================================================

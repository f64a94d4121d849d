----------------------------- MODULE TickBarrier -----------------------------
(***************************************************************************)
(* What MapManager::Update promises the rest of the server: the maps are   *)
(* updated in parallel, and only when all of these updates are over does   *)
(* the world thread go on, alone with every map.                           *)
(***************************************************************************)
CONSTANT AnyMap     \* maps and instances

VARIABLES
    mode,   \* "parallel" while updates may run, "exclusive" afterwards, "stopped"
    busy    \* maps with an update asked for and not finished

barrierVars == <<mode, busy>>

Init ==
    /\ mode = "exclusive"
    /\ busy = {}

Begin ==
    /\ mode = "exclusive"
    /\ mode' = "parallel"
    /\ UNCHANGED busy

Ask(m) ==
    /\ mode = "parallel"
    /\ m \notin busy
    /\ busy' = busy \union {m}
    /\ UNCHANGED mode

Finish(m) ==
    /\ m \in busy
    /\ busy' = busy \ {m}
    /\ UNCHANGED mode

End ==
    /\ mode = "parallel"
    /\ busy = {}
    /\ mode' = "exclusive"
    /\ UNCHANGED busy

Stop ==
    /\ mode = "exclusive"
    /\ mode' = "stopped"
    /\ UNCHANGED busy

Next ==
    \/ Begin
    \/ \E m \in AnyMap : Ask(m) \/ Finish(m)
    \/ End
    \/ Stop

Spec == Init /\ [][Next]_barrierVars
=============================================================================

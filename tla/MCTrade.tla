------------------------------ MODULE MCTrade ------------------------------
EXTENDS Trade

CONSTANTS p1, p2, sword, ring, ring2, seal, gem, orb, unique, category

Money == [p \in Player |-> IF p = p1 THEN 2 ELSE 3]
Slotcount == [p \in Player |-> IF p = p1 THEN 2 ELSE 4]
Owner == [i \in Item |-> CASE i \in {sword, ring} -> p1 [] i = ring2 -> None [] OTHER -> p2]
Clone == [i \in Item |-> IF i = ring THEN ring2 ELSE None]
\* The entry of the rings is unique, and of sword, rings and orb a player may have two.
Limits == [i \in Item |-> CASE i \in {seal, gem} -> {}
                             [] i \in {ring, ring2} -> {unique, category}
                             [] OTHER -> {category}]
Counts == [l \in {unique, category} |-> IF l = unique THEN 1 ELSE 2]
Slots == [i \in Item |-> CASE i \in {sword, seal} -> {1} [] i \in {ring, gem} -> {2}
                             [] i = orb -> {TRADE_SLOT_NONTRADED} [] i = ring2 -> {}]
Allowed == [i \in Item |-> IF i = sword THEN {p2} ELSE {}]

\* Two kinds of behaviour: in one nothing happens to the orb, so that there are no spells,
\* and what is tradeable remains so; in the other neither the gem nor money is offered.
VARIABLE scene

Aside == IF scene = "items" THEN orb ELSE gem

MCInit == Init /\ scene \in {"items", "spells"}
MCNext ==
    /\ Next
    /\ \A p \in Player :
          /\ trade'[p] # None => \A s \in TradeSlots : trade'[p].items[s] # Aside
          /\ Aside \notin removed'[p]
    /\ IF scene = "items" THEN bound' = {}
       ELSE bound' \subseteq {sword} /\ \A p \in Player : trade'[p] # None => trade'[p].money = 0
    /\ UNCHANGED scene
MCSpec == MCInit /\ [][MCNext]_<<vars, scene>>
=============================================================================

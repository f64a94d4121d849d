--------------------------- MODULE MCAuctionHouse ---------------------------
(***************************************************************************)
(* AuctionHouse for TLC: the items at the start, and bounds that keep the  *)
(* two kinds of behaviours small that have to be seen: either all three    *)
(* players trade, so that somebody is outbid by somebody else, or one of   *)
(* the buyers never shows up and the server may crash with more writes     *)
(* waiting.                                                                *)
(***************************************************************************)
EXTENDS AuctionHouse

CONSTANTS p1, p2, p3, sword

OneItem == sword :> p1

\* p2 and p3 start alike.
Buyers == Permutations({p2, p3})

VARIABLE acting     \* the players that log in at all

mcVars == <<vars, acting>>

MCInit == Init /\ acting \in {Player, Player \ {p2}, Player \ {p3}}

\* With all players the server stays up and the queue of writes is one shorter;
\* without one of them there is a mail less.
MCNext ==
    /\ Next
    /\ UNCHANGED acting
    /\ \A p \in Player \ acting : state'[p] = "offline"
    /\ acting = Player => crashes' = 0 /\ Len(dbQueue') < MaxQueue
    /\ acting # Player => FreshMailIds' # {}

MCSpec == MCInit /\ [][MCNext]_mcVars
=============================================================================

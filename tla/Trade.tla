-------------------------------- MODULE Trade --------------------------------
(***************************************************************************)
(* Trades between players (TradeHandler.cpp, TradeData in Player.cpp): who *)
(* trades with whom, what each side offers, the acceptance of both sides,  *)
(* the exchange and its transaction.  The packets of the players come in   *)
(* any order, items may leave the inventory while they are offered, and    *)
(* the server may crash while transactions wait for the worker of the      *)
(* database.                                                               *)
(*                                                                         *)
(* The handlers run in the world thread.  A cast bar ends, a duration runs *)
(* out and a player is saved in Map::Update, in a worker of the map, while *)
(* the world thread waits for the workers: no handler overlaps with these  *)
(* steps.  Those of the two players overlap only if one of them has been   *)
(* teleported to another map, which does not end the trade; that the one   *)
(* then reads the bags of the other while they change is left out, and     *)
(* each step is an action.                                                 *)
(*                                                                         *)
(* Items cannot be stacked and lie in the bags.                            *)
(***************************************************************************)
EXTENDS CharacterDatabase, FiniteSets, FiniteSetsExt

CONSTANTS
    TRADE_SLOT_TRADED_COUNT,
    MAX_MONEY_AMOUNT,
    Capacity,       \* slots in the bags of each player
    Gold,           \* amounts that clients send
    OfferSlots,     \* the slots into which clients put each item
    StartMoney,     \* of each player
    StartOwner,     \* of each item, None if it does not exist yet
    Copy,           \* the item that CloneItem makes of an item, None if no copy can
                    \* be made: the bound on the number of items
    LimitsOf,       \* of each item, the limits on how many a player may have: its entry
                    \* if that has a MaxCount, its ItemLimitCategory if the mode is "have"
    MaxCount,       \* of each limit
    Soulbound,      \* items bound to their owner, for now with ITEM_FLAG_BOP_TRADEABLE
    AccountWide,    \* items for which IsBoundAccountWide
    allowedGUIDs,   \* for each item, whom it may go to while it has that flag
    Perishable,     \* items that may be destroyed
    MaxCrashes

Limit == UNION {LimitsOf[i] : i \in Item}
Copies == {Copy[i] : i \in Item} \ {None}

ASSUME TradeAssumption ==
    /\ IsFiniteSet(Player) /\ IsFiniteSet(Item)
    /\ None \notin Player \union Item
    /\ TRADE_SLOT_TRADED_COUNT \in Nat /\ MAX_MONEY_AMOUNT \in Nat
    /\ Capacity \in [Player -> Nat]
    /\ Gold \subseteq Nat
    /\ OfferSlots \in [Item -> SUBSET (1..TRADE_SLOT_TRADED_COUNT + 1)]
    /\ StartMoney \in [Player -> 0..MAX_MONEY_AMOUNT]
    /\ StartOwner \in [Item -> Player \union {None}]
    /\ \A p \in Player : Cardinality({i \in Item : StartOwner[i] = p}) <= Capacity[p]
    /\ Copy \in [Item -> Item \union {None}]
    /\ \A i, j \in Item : Copy[i] = Copy[j] /\ Copy[i] # None => i = j
    /\ \A i \in Copies : StartOwner[i] = None
    /\ DOMAIN LimitsOf = Item
    /\ \A l \in Limit : MaxCount[l] \in Nat
    /\ Soulbound \subseteq Item /\ AccountWide \subseteq Item
    /\ \A i \in Item : Copy[i] # None =>
          /\ LimitsOf[Copy[i]] = LimitsOf[i]
          /\ Copy[i] \in Soulbound <=> i \in Soulbound
          /\ Copy[i] \in AccountWide <=> i \in AccountWide
    /\ allowedGUIDs \in [Item -> SUBSET Player]
    /\ Perishable \subseteq Item
    /\ MaxQueue \in Nat /\ MaxCrashes \in Nat

TradedSlots == 1..TRADE_SLOT_TRADED_COUNT
TRADE_SLOT_NONTRADED == TRADE_SLOT_TRADED_COUNT + 1
TradeSlots == 1..TRADE_SLOT_NONTRADED

\* What one side puts on the table, the side as a whole, and what a side has seen
\* of the table when it accepts
Offers == [money : Gold \union {0}, spell : BOOLEAN,
           items : [TradeSlots -> Item \union {None}]]
TradeDatas == [trader : Player, accepted : BOOLEAN, money : Gold \union {0},
               spell : BOOLEAN, items : [TradeSlots -> Item \union {None}]]
Agreements == [mine : Offers, his : Offers, refused : BOOLEAN]

ASSUME NoneAssumption == None \notin TradeDatas \union Agreements

VARIABLES
    state,      \* of each player: "offline", "login" while the query of the
                \* login waits, or "online"
    money,      \* of the players that are online
    bags,
    removed,    \* items a player has destroyed, until the next save
    mislaid,    \* items that no bag took back in an exchange, while the inventory
                \* table still has them
    bound,      \* soulbound items that do not have ITEM_FLAG_BOP_TRADEABLE any more
    trade,      \* m_trade
    agreed,     \* what lay on the table when a player accepted, until he or the
                \* server takes that back
    crashes

playerVars == <<state, money, bags, removed, mislaid, bound>>
tradeVars  == <<trade, agreed>>
vars == <<db, dbQueue, playerVars, tradeVars, crashes>>

Online == {p \in Player : state[p] = "online"}

-----------------------------------------------------------------------------
(* TradeData                                                               *)

TradeData(trader) ==
    [trader |-> trader, accepted |-> FALSE, money |-> 0, spell |-> FALSE,
     items |-> [s \in TradeSlots |-> None]]

\* GetItem: looked up in the inventory each time
GetItem(p, s) == IF trade[p].items[s] \in bags[p] THEN trade[p].items[s] ELSE None

\* What one side would give
Offer(p) == [money |-> trade[p].money, spell |-> trade[p].spell,
             items |-> [s \in TradeSlots |-> GetItem(p, s)]]

\* Faulty: a change of the offer takes back the own acceptance only.
OfferChangedOneSided(p, mine, his) ==
    /\ trade' = [trade EXCEPT ![p] = [mine EXCEPT !.accepted = FALSE], ![mine.trader] = his]
    /\ agreed' = [agreed EXCEPT ![p] = None]

\* SetItem, SetSpell and SetMoney: a change takes back the acceptance of both.
OfferChanged(p, mine, his) ==
    /\ trade' = [trade EXCEPT ![p] = [mine EXCEPT !.accepted = FALSE],
                              ![mine.trader] = [his EXCEPT !.accepted = FALSE]]
    /\ agreed' = [agreed EXCEPT ![p] = None, ![mine.trader] = None]

-----------------------------------------------------------------------------
(* Items                                                                   *)

IsSoulBound(i) == i \in Soulbound

\* CanBeTraded(false, true), as far as it is not a matter of the moment: an item
\* may also be impossible to unequip, being looted or a bag that is not empty.
CanBeTraded(i) == ~(IsSoulBound(i) /\ i \in bound)

\* Faulty: whoever was not there when it was looted may have it, too.
IsBindedNotWithAnyone(i, p) ==
    IsSoulBound(i) /\ i \notin bags[p] /\ i \in bound /\ i \notin AccountWide

IsBindedNotWith(i, p) ==
    /\ IsSoulBound(i)
    /\ i \notin bags[p]
    /\ i \in bound \/ p \notin allowedGUIDs[i]
    /\ i \notin AccountWide

\* CanTakeMoreSimilarItems, when the bags hold bag
CanTakeMoreSimilarItems(bag, i) ==
    \A l \in LimitsOf[i] : Cardinality({j \in bag \ {i} : l \in LimitsOf[j]}) < MaxCount[l]

\* Faulty: each item is looked at as if it came alone.
CanStoreItemsEach(p, out, in) ==
    /\ \A i \in in : ~IsBindedNotWith(i, p) /\ CanTakeMoreSimilarItems(bags[p], i)
    /\ in # {} => Cardinality(bags[p] \ out) < Capacity[p]

\* CanStoreItems: there is a slot for every item, those of items with the in-trade
\* flag included, but the limits are looked at for one item after the other, and
\* items with the flag still count.
CanStoreItems(p, out, in) ==
    /\ \A i \in in : ~IsBindedNotWith(i, p) /\ CanTakeMoreSimilarItems(bags[p], i)
    /\ Cardinality(bags[p] \ out) + Cardinality(in) <= Capacity[p]

\* CanStoreItem, when the bags hold bag and dest has a number of slots already
CanStoreItem(p, bag, i, dest) ==
    /\ ~IsBindedNotWith(i, p)
    /\ CanTakeMoreSimilarItems(bag, i)
    /\ Cardinality(bag) + dest < Capacity[p]

\* Items that one side would give
Given(p) == {GetItem(p, s) : s \in TradedSlots} \ {None}

\* MoveItemToInventory, if there is an item
Put(bag, i) == IF i = None THEN bag ELSE bag \union {i}

\* The item i goes back to p.  If a slot has been found for the item of the partner,
\* it is in dest still: StoreItem puts a clone of i there, and i into the next one.
TakeBack(p, bag, i, dest) ==
    IF i = None \/ ~CanStoreItem(p, bag, i, dest) THEN [bag |-> bag, cloned |-> {}]
    ELSE IF dest = 0 THEN [bag |-> bag \union {i}, cloned |-> {}]
    ELSE [bag |-> bag \union ({i, Copy[i]} \ {None}), cloned |-> {i}]

\* The items of one trade slot change hands if both fit, and go back otherwise.  An
\* item that does not fit into the bags it came from is in no bags at all.
StoreSlot(p, q, acc, s) ==
    LET mine  == GetItem(p, s)
        his   == GetItem(q, s)
        hisOk == mine = None \/ CanStoreItem(q, acc.his, mine, 0)
        myOk  == his = None \/ CanStoreItem(p, acc.mine, his, 0)
        myBack  == TakeBack(p, acc.mine, mine, IF his # None /\ myOk THEN 1 ELSE 0)
        hisBack == TakeBack(q, acc.his, his, IF mine # None /\ hisOk THEN 1 ELSE 0)
    IN  IF hisOk /\ myOk
        THEN [mine |-> Put(acc.mine, his), his |-> Put(acc.his, mine), cloned |-> acc.cloned]
        ELSE [mine |-> myBack.bag, his |-> hisBack.bag,
              cloned |-> acc.cloned \union myBack.cloned \union hisBack.cloned]

\* moveItems, slot by slot, once both sides have put away what they give
moveItems(p, q) ==
    LET moved[s \in 0..TRADE_SLOT_TRADED_COUNT] ==
            IF s = 0 THEN [mine |-> bags[p] \ Given(p), his |-> bags[q] \ Given(q),
                           cloned |-> {}]
                     ELSE StoreSlot(p, q, moved[s - 1], s)
    IN  moved[TRADE_SLOT_TRADED_COUNT]

\* ModifyMoney: nobody has less than nothing, and a gain that would reach the
\* maximum is not added.
Loss(amount, purse) == IF purse > amount THEN purse - amount ELSE 0
Gain(amount, purse) ==
    IF amount = 0 \/ purse < MAX_MONEY_AMOUNT - amount THEN purse + amount ELSE purse

-----------------------------------------------------------------------------
(* Handlers                                                                *)

Trading(p) == trade[p] # None

\* HandleInitiateTradeOpcode.  Its other conditions (both alive, near, of one
\* faction...) depend on the rest of the world and may hold or not.
InitiateTrade(p, q) ==
    /\ {p, q} \subseteq Online
    /\ p # q
    /\ ~Trading(p)
    /\ ~Trading(q)
    /\ trade' = [trade EXCEPT ![p] = TradeData(q), ![q] = TradeData(p)]
    /\ UNCHANGED <<db, dbQueue, playerVars, agreed, crashes>>

\* Faulty: the amount is added to the one on the table.
SetTradeGoldAdds(p, gold) ==
    /\ Trading(p)
    /\ gold # 0
    /\ OfferChanged(p, [trade[p] EXCEPT !.money = @ + gold], trade[trade[p].trader])
    /\ UNCHANGED <<db, dbQueue, playerVars, crashes>>

\* HandleSetTradeGoldOpcode: any amount, which is looked at when the trade ends
SetTradeGold(p, gold) ==
    /\ Trading(p)
    /\ trade[p].money # gold
    /\ OfferChanged(p, [trade[p] EXCEPT !.money = gold], trade[trade[p].trader])
    /\ UNCHANGED <<db, dbQueue, playerVars, crashes>>

\* SetItem: the player's own spell goes, and the partner's spell if the item it
\* was for is another one now.
SetItem(p, s, i) ==
    LET q == trade[p].trader
    IN  /\ trade[p].items[s] # i
        /\ OfferChanged(p, [trade[p] EXCEPT !.items[s] = i, !.spell = FALSE],
                           [trade[q] EXCEPT !.spell = @ /\ s # TRADE_SLOT_NONTRADED])

\* HandleSetTradeItemOpcode
SetTradeItem(p, s, i) ==
    /\ Trading(p)
    /\ i \in bags[p]
    /\ s # TRADE_SLOT_NONTRADED => CanBeTraded(i)
    /\ \A r \in TradeSlots : trade[p].items[r] # i
    /\ SetItem(p, s, i)
    /\ UNCHANGED <<db, dbQueue, playerVars, crashes>>

\* HandleClearTradeItemOpcode
ClearTradeItem(p, s) ==
    /\ Trading(p)
    /\ SetItem(p, s, None)
    /\ UNCHANGED <<db, dbQueue, playerVars, crashes>>

\* Spell::cast on the partner's item that is not traded, at the end of the cast
\* bar: the spell is remembered until the trade ends.
CastSpell(p) ==
    /\ Trading(p)
    /\ ~trade[p].spell
    /\ GetItem(trade[p].trader, TRADE_SLOT_NONTRADED) # None
    /\ OfferChanged(p, [trade[p] EXCEPT !.spell = TRUE], trade[trade[p].trader])
    /\ UNCHANGED <<db, dbQueue, playerVars, crashes>>

\* HandleUnacceptTradeOpcode
UnacceptTrade(p) ==
    /\ Trading(p)
    /\ trade' = [trade EXCEPT ![p].accepted = FALSE]
    /\ agreed' = [agreed EXCEPT ![p] = None]
    /\ UNCHANGED <<db, dbQueue, playerVars, crashes>>

\* Faulty TradeCancel: the partner keeps the trade.
TradeCancelOneSided(p) ==
    IF Trading(p)
    THEN /\ trade' = [trade EXCEPT ![p] = None]
         /\ agreed' = [agreed EXCEPT ![p] = None]
    ELSE UNCHANGED tradeVars

TradeCancel(p) ==
    IF Trading(p)
    THEN /\ trade' = [trade EXCEPT ![p] = None, ![trade[p].trader] = None]
         /\ agreed' = [agreed EXCEPT ![p] = None, ![trade[p].trader] = None]
    ELSE UNCHANGED tradeVars

\* HandleCancelTradeOpcode, or the player takes a taxi.
CancelTrade(p) ==
    /\ p \in Online
    /\ TradeCancel(p)
    /\ UNCHANGED <<db, dbQueue, playerVars, crashes>>

-----------------------------------------------------------------------------
(* HandleAcceptTradeOpcode, by its outcomes                                *)

\* Money is looked at first: the side whose acceptance is taken back because it
\* cannot pay, or would have too much, if any
WithoutMoney(p, q) ==
    IF money[p] < trade[p].money THEN p
    ELSE IF money[q] < trade[q].money THEN q
    ELSE IF money[p] >= MAX_MONEY_AMOUNT - trade[q].money THEN p
    ELSE IF money[q] >= MAX_MONEY_AMOUNT - trade[p].money THEN q
    ELSE None

\* Then the items: what is bound now, and the own items bound to others than q
TradeableNow(p, q) ==
    /\ \A i \in Given(p) \union Given(q) : CanBeTraded(i)
    /\ \A i \in Given(p) : ~IsBindedNotWith(i, q)

\* The acceptance of p is set before the checks.
Agreement(p, q, refused) == [mine |-> Offer(p), his |-> Offer(q), refused |-> refused]

AcceptWithoutMoney(p, q) ==
    LET poor == WithoutMoney(p, q)
    IN  /\ poor # None
        /\ trade' = [trade EXCEPT ![p].accepted = poor # p,
                                  ![q].accepted = @ /\ poor # q]
        /\ agreed' = [agreed EXCEPT ![p] = IF poor = p THEN None
                                           ELSE Agreement(p, q, FALSE),
                                    ![q] = IF poor = q THEN None ELSE @]
        /\ UNCHANGED <<db, dbQueue, playerVars, crashes>>

\* An item that may not be traded, or not at this moment: the client is told that
\* the trade is cancelled or has failed, and the acceptance stays.
AcceptRefused(p, q) ==
    /\ WithoutMoney(p, q) = None
    /\ Given(p) \union Given(q) # {}
    /\ trade' = [trade EXCEPT ![p].accepted = TRUE]
    /\ agreed' = [agreed EXCEPT ![p] = Agreement(p, q, TRUE)]
    /\ UNCHANGED <<db, dbQueue, playerVars, crashes>>

AcceptFirst(p, q) ==
    /\ WithoutMoney(p, q) = None
    /\ TradeableNow(p, q)
    /\ ~trade[q].accepted
    /\ trade' = [trade EXCEPT ![p].accepted = TRUE]
    /\ agreed' = [agreed EXCEPT ![p] = Agreement(p, q, FALSE)]
    /\ UNCHANGED <<db, dbQueue, playerVars, crashes>>

AcceptSecond(p, q) ==
    /\ WithoutMoney(p, q) = None
    /\ TradeableNow(p, q)
    /\ trade[q].accepted

\* The item for the spell is there.
SpellHasItem(p, q) == trade[p].spell => GetItem(q, TRADE_SLOT_NONTRADED) # None

\* CheckCast may fail for many reasons; the spell of p is looked at first.
AcceptSpellFails(p, q) ==
    /\ AcceptSecond(p, q)
    /\ \/ /\ trade[p].spell
          /\ OfferChanged(p, [trade[p] EXCEPT !.spell = FALSE], trade[q])
       \/ /\ SpellHasItem(p, q)
          /\ trade[q].spell
          /\ OfferChanged(q, [trade[q] EXCEPT !.spell = FALSE], trade[p])
    /\ UNCHANGED <<db, dbQueue, playerVars, crashes>>

RoomForBoth(p, q) ==
    CanStoreItems(p, Given(p), Given(q)) /\ CanStoreItems(q, Given(q), Given(p))

AcceptWithoutRoom(p, q) ==
    /\ AcceptSecond(p, q)
    /\ SpellHasItem(p, q) /\ SpellHasItem(q, p)
    /\ ~RoomForBoth(p, q)
    /\ trade' = [trade EXCEPT ![p].accepted = FALSE, ![q].accepted = FALSE]
    /\ agreed' = [agreed EXCEPT ![p] = None, ![q] = None]
    /\ UNCHANGED <<db, dbQueue, playerVars, crashes>>

\* _SaveInventory and SaveGoldToDB for some players, when the rows of the items over
\* have given way to others in the same slots
SavedRows(players, purse, bag, over) ==
    LET held == UNION {bag[p] : p \in players}
        gone == over \union UNION {removed[p] : p \in players}
    IN  [NoRows EXCEPT
            !.gold = [p \in players |-> purse[p]],
            !.inventory = [i \in held \union gone |->
                IF i \in held THEN CHOOSE p \in players : i \in bag[p] ELSE None]]

\* A slot of a player has one row: of the items in lost, which are in no slot, those
\* are overwritten into whose slots something else has come.
SaveInventoryAndGoldToDB(players, purse, bag, lost) ==
    \E over \in SUBSET (UNION {lost[p] : p \in players}) :
        /\ \A p \in players : Cardinality(bag[p] \union (lost[p] \ over)) <= Capacity[p]
        /\ CommitTransaction(SavedRows(players, purse, bag, over))
        /\ removed' = [p \in Player |-> IF p \in players THEN {} ELSE removed[p]]
        /\ mislaid' = [p \in Player |-> IF p \in players THEN lost[p] \ over ELSE mislaid[p]]

\* Faulty: only the player who accepts last is saved.
SaveTradersHalf(p, q, purse, bag, lost) == SaveInventoryAndGoldToDB({p}, purse, bag, lost)

\* One transaction for both
SaveTraders(p, q, purse, bag, lost) == SaveInventoryAndGoldToDB({p, q}, purse, bag, lost)

\* Not in the tables, nor on the way there: a guid that CloneItem may give
Unused(i) ==
    /\ db.inventory[i] = None
    /\ \A k \in 1..Len(dbQueue) : i \notin DOMAIN dbQueue[k].inventory

\* The exchange: the money changes hands whatever has become of the items.  The
\* spells are cast on the items that are not traded; what they do to them is not
\* modelled.
CompleteTrade(p, q) ==
    /\ AcceptSecond(p, q)
    /\ SpellHasItem(p, q) /\ SpellHasItem(q, p)
    /\ RoomForBoth(p, q)
    /\ LET moved == moveItems(p, q)
           stored == moved.mine \union moved.his
           lost == [mislaid EXCEPT ![p] = @ \union (Given(p) \ stored),
                                   ![q] = @ \union (Given(q) \ stored)]
       IN  /\ \A i \in moved.cloned : Copy[i] # None /\ Unused(Copy[i])
           /\ bags' = [bags EXCEPT ![p] = moved.mine, ![q] = moved.his]
           /\ money' = [money EXCEPT
                           ![p] = Gain(trade[q].money, Loss(trade[p].money, @)),
                           ![q] = Gain(trade[p].money, Loss(trade[q].money, @))]
           /\ SaveTraders(p, q, money', bags', lost)
    /\ trade' = [trade EXCEPT ![p] = None, ![q] = None]
    /\ agreed' = [agreed EXCEPT ![p] = None, ![q] = None]
    /\ UNCHANGED <<state, bound, crashes>>

AcceptTrade(p) ==
    /\ Trading(p)
    /\ LET q == trade[p].trader
       IN  \/ AcceptWithoutMoney(p, q)
           \/ AcceptRefused(p, q)
           \/ AcceptFirst(p, q)
           \/ AcceptSpellFails(p, q)
           \/ AcceptWithoutRoom(p, q)
           \/ CompleteTrade(p, q)

-----------------------------------------------------------------------------
(* What happens to the players meanwhile                                   *)

\* Player::DestroyItem: the duration of an item ends, or the client throws it away.
\* An item on offer is not held back.
DestroyItem(p, i) ==
    /\ p \in Online
    /\ i \in bags[p] \intersect Perishable
    /\ bags' = [bags EXCEPT ![p] = @ \ {i}]
    /\ removed' = [removed EXCEPT ![p] = @ \union {i}]
    /\ UNCHANGED <<db, dbQueue, state, money, mislaid, bound, tradeVars, crashes>>

\* UpdateSoulboundTradeItems
ClearSoulboundTradeable(i) ==
    /\ i \in Soulbound \ bound
    /\ \E p \in Online : i \in bags[p]
    /\ bound' = bound \union {i}
    /\ UNCHANGED <<db, dbQueue, state, money, bags, removed, mislaid, tradeVars, crashes>>

\* Player::Update saves now and then; the player may have moved his items around.
Save(p) ==
    /\ p \in Online
    /\ SaveInventoryAndGoldToDB({p}, money, bags, mislaid)
    /\ UNCHANGED <<state, money, bags, bound, tradeVars, crashes>>

\* LogoutPlayer saves the player; CleanupsBeforeDelete cancels the trade.
LogoutPlayer(p) ==
    /\ p \in Online
    /\ \E over \in SUBSET mislaid[p] :
          /\ Cardinality(bags[p] \union (mislaid[p] \ over)) <= Capacity[p]
          /\ CommitTransaction(SavedRows({p}, money, bags, over))
    /\ TradeCancel(p)
    /\ state' = [state EXCEPT ![p] = "offline"]
    /\ money' = [money EXCEPT ![p] = 0]
    /\ bags' = [bags EXCEPT ![p] = {}]
    /\ removed' = [removed EXCEPT ![p] = {}]
    /\ mislaid' = [mislaid EXCEPT ![p] = {}]
    /\ UNCHANGED <<bound, crashes>>

\* HandlePlayerLoginOpcode: the query of the login waits in the queue.
HandlePlayerLogin(p) ==
    /\ state[p] = "offline"
    /\ DelayQueryHolder(p)
    /\ state' = [state EXCEPT ![p] = "login"]
    /\ UNCHANGED <<money, bags, removed, mislaid, bound, tradeVars, crashes>>

\* _LoadInventory: what the limits allow, in whatever order the slots are
Loadable(rows) ==
    {load \in SUBSET rows :
        \A i \in rows : CanTakeMoreSimilarItems(load, i) <=> i \in load}

\* The other items are sent by mail, which is where this module leaves them.
LoadInventory(p) ==
    LET rows == {i \in Item : db.inventory[i] = p}
    IN  \E load \in Loadable(rows) :
            /\ bags' = [bags EXCEPT ![p] = load]
            /\ dbQueue' = IF load = rows THEN Tail(dbQueue)
                          ELSE Append(Tail(dbQueue),
                                  [NoRows EXCEPT !.inventory = [i \in rows \ load |-> None]])

\* DatabaseWorker::svc.  A login that has been answered is taken up by the world
\* thread; nothing can happen to the rows of the player in between.
Execute ==
    /\ dbQueue # <<>>
    /\ LET operation == Head(dbQueue)
           p == operation.login
       IN  IF p = None
           THEN /\ db' = ExecuteTransaction(operation)
                /\ dbQueue' = Tail(dbQueue)
                /\ UNCHANGED playerVars
           ELSE /\ state' = [state EXCEPT ![p] = "online"]
                /\ money' = [money EXCEPT ![p] = db.gold[p]]
                /\ LoadInventory(p)
                /\ UNCHANGED <<db, removed, mislaid, bound>>
    /\ UNCHANGED <<tradeVars, crashes>>

\* The process dies with its memory and its queue, and is started again.  Items
\* whose time as tradeable was up may have it back; clones never had it.
Crash ==
    /\ crashes < MaxCrashes
    /\ crashes' = crashes + 1
    /\ dbQueue' = <<>>
    /\ state' = [p \in Player |-> "offline"]
    /\ money' = [p \in Player |-> 0]
    /\ bags' = [p \in Player |-> {}]
    /\ removed' = [p \in Player |-> {}]
    /\ mislaid' = [p \in Player |-> {}]
    /\ bound' \in SUBSET bound
    /\ Soulbound \intersect Copies \subseteq bound'
    /\ trade' = [p \in Player |-> None]
    /\ agreed' = [p \in Player |-> None]
    /\ UNCHANGED db

-----------------------------------------------------------------------------
Init ==
    /\ db = [gold |-> StartMoney, inventory |-> StartOwner, mail |-> <<>>,
             auctionhouse |-> <<>>, fees |-> 0]
    /\ dbQueue = <<>>
    /\ state = [p \in Player |-> "offline"]
    /\ money = [p \in Player |-> 0]
    /\ bags = [p \in Player |-> {}]
    /\ removed = [p \in Player |-> {}]
    /\ mislaid = [p \in Player |-> {}]
    /\ bound = Soulbound \intersect Copies
    /\ trade = [p \in Player |-> None]
    /\ agreed = [p \in Player |-> None]
    /\ crashes = 0

Next ==
    \/ \E p, q \in Player : InitiateTrade(p, q)
    \/ \E p \in Player :
          \/ \E gold \in Gold : SetTradeGold(p, gold)
          \/ \E i \in Item : \E s \in OfferSlots[i] : SetTradeItem(p, s, i)
          \/ \E s \in TradeSlots : ClearTradeItem(p, s)
          \/ CastSpell(p)
          \/ UnacceptTrade(p)
          \/ CancelTrade(p)
          \/ AcceptTrade(p)
          \/ \E i \in Item : DestroyItem(p, i)
          \/ Save(p)
          \/ LogoutPlayer(p)
          \/ HandlePlayerLogin(p)
    \/ \E i \in Item : ClearSoulboundTradeable(i)
    \/ Execute
    \/ Crash

Spec == Init /\ [][Next]_vars

-----------------------------------------------------------------------------
(* Properties                                                              *)

TypeOK ==
    /\ state \in [Player -> {"offline", "login", "online"}]
    /\ money \in [Player -> 0..MAX_MONEY_AMOUNT]
    /\ bags \in [Player -> SUBSET Item]
    /\ \A p \in Player : Cardinality(bags[p]) <= Capacity[p]
    /\ removed \in [Player -> SUBSET Item]
    /\ mislaid \in [Player -> SUBSET Item]
    /\ bound \subseteq Soulbound
    /\ \A p \in Player : trade[p] = None \/ trade[p] \in TradeDatas
    /\ \A p \in Player :
          agreed[p] = None \/ agreed[p] \in Agreements
    /\ crashes \in 0..MaxCrashes

\* A trade has two sides, each of which refers to the other: GetTraderData() is
\* never null when a handler goes through it, and nobody trades with two others,
\* with himself or while he is offline.
TradesPaired ==
    \A p \in Player : Trading(p) =>
        LET q == trade[p].trader
        IN  q # p /\ Trading(q) /\ trade[q].trader = p /\ p \in Online

LastRow(i) ==
    LET writes == {k \in 1..Len(dbQueue) : i \in DOMAIN dbQueue[k].inventory}
    IN  IF writes = {} THEN db.inventory[i] ELSE dbQueue[Max(writes)].inventory[i]
LastGold(p) ==
    LET writes == {k \in 1..Len(dbQueue) : p \in DOMAIN dbQueue[k].gold}
    IN  IF writes = {} THEN db.gold[p] ELSE dbQueue[Max(writes)].gold[p]

\* Once the queue is written the tables hold what the players in memory have, and
\* items that an exchange has mislaid come back to who had them: no item is twice in
\* the tables or lost from them and no money made, also if the players log in again.
SavedAsHeld ==
    \A p \in Online :
        /\ money[p] = LastGold(p)
        /\ bags[p] \union removed[p] \union mislaid[p] = {i \in Item : LastRow(i) = p}

\* Whenever the server dies, the tables hold all of a trade or nothing of it: the
\* money of the players adds up.
MoneyInTables ==
    MapThenSumSet(LAMBDA p : db.gold[p], Player)
        = MapThenSumSet(LAMBDA p : StartMoney[p], Player)

\* The trade of p ends with an exchange in this step.
Completed(p) ==
    /\ Trading(p)
    /\ trade'[p] = None
    /\ {p, trade[p].trader} \subseteq Online'
    /\ dbQueue' # dbQueue

TradedItems(offer) == {offer.items[s] : s \in TradedSlots} \ {None}

\* An exchange moves the money that the first to accept has seen, whatever becomes of
\* the items.  Nobody loses what he has not offered, and nobody gets anything but what
\* he has seen, or a clone of what he has offered.
AsAgreed ==
    [][\A p \in Player : Completed(p) =>
        LET q == trade[p].trader
            a == agreed[p]
            Clones(offer) == {Copy[i] : i \in TradedItems(offer)}
        IN  /\ a # None \/ agreed[q] # None
            /\ a # None =>
                /\ money'[p] = money[p] - a.mine.money + a.his.money
                /\ money'[q] = money[q] - a.his.money + a.mine.money
                /\ bags[p] \ bags'[p] \subseteq TradedItems(a.mine)
                /\ bags[q] \ bags'[q] \subseteq TradedItems(a.his)
                /\ bags'[p] \ bags[p] \subseteq
                      (TradedItems(a.his) \intersect bags[q]) \union Clones(a.mine)
                /\ bags'[q] \ bags[q] \subseteq
                      (TradedItems(a.mine) \intersect bags[p]) \union Clones(a.his)
      ]_vars

\* Everything that the two sides give has changed hands.
Exchanged(p, q) ==
    /\ bags'[p] = (bags[p] \ Given(p)) \union Given(q)
    /\ bags'[q] = (bags[q] \ Given(q)) \union Given(p)

\* The limits allow p to have all that he gets with all that he keeps.
AllowedTogether(p, q) ==
    \A i \in Given(q) : CanTakeMoreSimilarItems((bags[p] \ Given(p)) \union Given(q), i)

\* What CanStoreItems has found room for is stored when moveItems goes through the
\* slots, unless a side gets more of a kind than it may have: that is all that can
\* go wrong after the check.
AllStored ==
    [][\A p \in Player : Completed(p) =>
        LET q == trade[p].trader
        IN  AllowedTogether(p, q) /\ AllowedTogether(q, p) => Exchanged(p, q)]_vars

\* "If we trade in both directions we had to check, if the trade will work before we
\* actually do it": an exchange moves everything or does not take place.
ExchangeComplete ==
    [][\A p \in Player : Completed(p) => Exchanged(p, trade[p].trader)]_vars

\* A soulbound item changes hands only while it is tradeable, and only to somebody
\* who was there when it was looted, unless it is bound to the account; the check of
\* the partner's items is commented out in HandleAcceptTradeOpcode, as "trade will
\* fail anyway later".
BindingRespected ==
    [][\A i \in Soulbound, p, q \in Player :
        p # q /\ i \in bags[p] /\ i \in bags'[q] =>
            i \notin bound /\ (q \in allowedGUIDs[i] \/ i \in AccountWide)]_vars

\* "set before checks for propertly undo at problems (it already set in to client)":
\* no exchange follows an acceptance that the server has answered with a refusal.
RefusalUndone ==
    [][\A p \in Player : Completed(p) /\ agreed[trade[p].trader] = None
                            => ~agreed[p].refused]_vars
=============================================================================

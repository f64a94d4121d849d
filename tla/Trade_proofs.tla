---------------------------- MODULE Trade_proofs ----------------------------
(***************************************************************************)
(* Proofs about Trade, for every set of players and items, every number of *)
(* slots, every limit on money and bags and on how many items of a kind a  *)
(* player may have, and every length of the queue of the database.         *)
(***************************************************************************)
EXTENDS Trade, QueueLemmas

-----------------------------------------------------------------------------
(* The invariant: the tables of the trades                                 *)

\* Functions of the right type, with the right domain
TableTypes ==
    /\ trade \in [Player -> TradeDatas \union {None}]
    /\ agreed \in [Player -> Agreements \union {None}]
    /\ bags \in [Player -> SUBSET Item]
    /\ state \in [Player -> {"offline", "login", "online"}]

\* HandleSetTradeItemOpcode refuses an item that is already in another slot.
OfferedOnce ==
    \A p \in Player : Trading(p) =>
        \A s, r \in TradeSlots :
            trade[p].items[s] = trade[p].items[r] /\ trade[p].items[s] # None => s = r

\* The offer is what lies on the table of p, but for items that had gone from the
\* bags when the offer was seen.
Seen(offer, p) ==
    /\ offer.money = trade[p].money
    /\ \A s \in TradeSlots :
          \/ offer.items[s] = trade[p].items[s]
          \/ offer.items[s] = None /\ trade[p].items[s] \notin bags[p]

\* What a side has accepted still lies on both tables; a side whose acceptance
\* stands has seen something.
AgreedSeen ==
    \A p \in Player :
        /\ agreed[p] # None =>
              /\ Trading(p)
              /\ Seen(agreed[p].mine, p)
              /\ Seen(agreed[p].his, trade[p].trader)
        /\ Trading(p) /\ trade[p].accepted => agreed[p] # None

TableInv == TableTypes /\ TradesPaired /\ OfferedOnce /\ AgreedSeen

-----------------------------------------------------------------------------
(* The invariant: the rows of the players                                  *)

\* The owner of item i, and the money of p, after the first k operations of a queue
RowOf(tables, queue, k, i) ==
    LastWrite(tables.inventory, [m \in 1..Len(queue) |-> queue[m].inventory], k, i)
GoldOf(tables, queue, k, p) ==
    LastWrite(tables.gold, [m \in 1..Len(queue) |-> queue[m].gold], k, p)

RowAfter(k, i) == RowOf(db, dbQueue, k, i)
GoldAfter(k, p) == GoldOf(db, dbQueue, k, p)
Held(k, p) == {i \in Item : RowAfter(k, i) = p}

\* The bags of p have room for the items.
Fits(p, items) == Cardinality(items) <= Capacity[p]

Purses == 0..MAX_MONEY_AMOUNT

\* Operations that the handlers of trades queue
Operations ==
    [gold : Partial(Player, Purses), inventory : Partial(Item, Player \union {None}),
     mail : {<<>>}, auctionhouse : {<<>>}, bid : {<<>>}, fees : {0},
     login : Player \union {None}]

RowTypes ==
    /\ money \in [Player -> Purses]
    /\ removed \in [Player -> SUBSET Item]
    /\ mislaid \in [Player -> SUBSET Item]
    /\ db.gold \in [Player -> Purses]
    /\ db.inventory \in [Item -> Player \union {None}]
    /\ dbQueue \in Seq(Operations)

\* Nobody has anything in memory while he is not online.
OfflineEmpty ==
    \A p \in Player \ Online :
        bags[p] = {} /\ removed[p] = {} /\ mislaid[p] = {} /\ money[p] = 0

\* What a player has, has destroyed and has mislaid are different items.
Apart ==
    \A p \in Player : /\ bags[p] \intersect (removed[p] \union mislaid[p]) = {}
                      /\ removed[p] \intersect mislaid[p] = {}

\* A login waits in the queue once, writes nothing, and loads rows that no operation
\* behind it touches.
LoginLoadsLast ==
    \A k \in 1..Len(dbQueue) : dbQueue[k].login # None =>
        LET p == dbQueue[k].login
        IN  /\ state[p] = "login"
            /\ DOMAIN dbQueue[k].gold = {} /\ DOMAIN dbQueue[k].inventory = {}
            /\ \A m \in 1..Len(dbQueue) : dbQueue[m].login = p => m = k
            /\ GoldAfter(k, p) = GoldAfter(Len(dbQueue), p)
            /\ Held(k, p) = Held(Len(dbQueue), p)

\* Wherever the process dies, what a player will find fits into his bags.
HeldFits == \A k \in 0..Len(dbQueue) : \A p \in Player : Fits(p, Held(k, p))

RowInv == RowTypes /\ OfflineEmpty /\ Apart /\ SavedAsHeld /\ LoginLoadsLast /\ HeldFits

TradeInv ==
    /\ TableInv
    /\ RowInv
    /\ bound \subseteq Soulbound /\ crashes \in 0..MaxCrashes

-----------------------------------------------------------------------------
(* moveItems                                                               *)

\* What one side gives in the first s slots
GivenUpto(p, s) == {GetItem(p, r) : r \in 1..s} \ {None}

\* What is put on one side of the accumulator of moveItems at the start
Base(p, q) == [mine |-> bags[p] \ Given(p), his |-> bags[q] \ Given(q), cloned |-> {}]

\* An item given is in the bags of the giver.
LEMMA GivenHeld ==
    ASSUME TableTypes, NEW p \in Player, Trading(p)
    PROVE  /\ Given(p) \subseteq bags[p] /\ bags[p] \subseteq Item
           /\ Given(p) = GivenUpto(p, TRADE_SLOT_TRADED_COUNT)
           /\ \A s \in TradeSlots : GetItem(p, s) = None \/ GetItem(p, s) \in bags[p]
  <1>1. \A s : GetItem(p, s) = None \/ GetItem(p, s) \in bags[p]
    BY DEF GetItem
  <1> QED  BY <1>1 DEF Given, GivenUpto, TradedSlots, TableTypes

\* The items of the slots are different.
LEMMA GivenOnce ==
    ASSUME TableTypes, OfferedOnce, NEW p \in Player, Trading(p),
           NEW s \in TradedSlots, GetItem(p, s) # None
    PROVE  /\ GetItem(p, s) \in Given(p) /\ GetItem(p, s) \in bags[p]
           /\ GetItem(p, s) \notin GivenUpto(p, s - 1)
           /\ GivenUpto(p, s) = GivenUpto(p, s - 1) \union {GetItem(p, s)}
           /\ GivenUpto(p, s) \subseteq Given(p)
  <1>t. TRADE_SLOT_TRADED_COUNT \in Nat
    BY TradeAssumption
  <1>1. s \in 1..TRADE_SLOT_TRADED_COUNT /\ s \in TradeSlots
    BY <1>t DEF TradedSlots, TradeSlots, TRADE_SLOT_NONTRADED
  <1>2. /\ GetItem(p, s) \in Given(p) /\ GetItem(p, s) \in bags[p]
        /\ GetItem(p, s) = trade[p].items[s]
    BY GivenHeld DEF Given, GetItem
  <1>3. GetItem(p, s) \notin GivenUpto(p, s - 1)
    <2> SUFFICES ASSUME NEW r \in 1..(s - 1), GetItem(p, r) = GetItem(p, s)  PROVE FALSE
      BY DEF GivenUpto
    <2>1. r \in TradeSlots /\ r # s
      BY <1>1, <1>t DEF TradeSlots, TRADE_SLOT_NONTRADED
    <2>2. trade[p].items[r] = GetItem(p, s)
      BY DEF GetItem
    <2> QED  BY <2>1, <2>2, <1>1, <1>2 DEF OfferedOnce
  <1>4. \A k \in 1..s : k = s \/ k \in 1..(s - 1)
    BY <1>1
  <1>5. s \in 1..s /\ \A k \in 1..(s - 1) : k \in 1..s
    BY <1>1
  <1>6. GivenUpto(p, s) = GivenUpto(p, s - 1) \union {GetItem(p, s)}
    BY <1>4, <1>5 DEF GivenUpto
  <1>7. \A k \in 1..s : k \in TradedSlots
    BY <1>1, <1>t DEF TradedSlots
  <1>8. GivenUpto(p, s) \subseteq Given(p)
    BY <1>7 DEF GivenUpto, Given
  <1> QED  BY <1>2, <1>3, <1>6, <1>8

\* A slot with nothing in it adds nothing.
LEMMA GivenNothing ==
    ASSUME NEW p, NEW s \in TradedSlots, GetItem(p, s) = None
    PROVE  GivenUpto(p, s) = GivenUpto(p, s - 1)
  <1>1. s \in 1..TRADE_SLOT_TRADED_COUNT /\ TRADE_SLOT_TRADED_COUNT \in Nat
    BY TradeAssumption DEF TradedSlots
  <1>2. \A k \in 1..s : k = s \/ k \in 1..(s - 1)
    BY <1>1
  <1>3. \A k \in 1..(s - 1) : k \in 1..s
    BY <1>1
  <1> QED  BY <1>2, <1>3 DEF GivenUpto

\* moveItems goes through the slots one after the other.
LEMMA MoveItemsLoop ==
    ASSUME NEW p, NEW q
    PROVE  \E moved : /\ moved[0] = Base(p, q)
                      /\ \A s \in TradedSlots : moved[s] = StoreSlot(p, q, moved[s - 1], s)
                      /\ moveItems(p, q) = moved[TRADE_SLOT_TRADED_COUNT]
  <1> DEFINE N       == TRADE_SLOT_TRADED_COUNT
             Loop(m) == m = [s \in 0..N |->
                                IF s = 0 THEN Base(p, q) ELSE StoreSlot(p, q, m[s - 1], s)]
             moved   == CHOOSE m : Loop(m)
             Upto(f, n) == /\ f[0] = Base(p, q)
                           /\ \A s \in 1..n : f[s] = StoreSlot(p, q, f[s - 1], s)
             T == {n \in 0..N : ~\E f : Upto(f, n)}
  <1>t. N \in Nat
    BY TradeAssumption
  <1>1. moveItems(p, q) = moved[N]
    BY DEF moveItems, Base
  <1>2. T = {}
    <2> SUFFICES ASSUME T # {}  PROVE FALSE
      OBVIOUS
    <2>1. T \subseteq Nat
      BY <1>t
    <2>2. PICK n \in T : \A k \in T : n <= k
      <3> HIDE DEF T
      <3> QED  BY <2>1, LeastNumber
    <2>3. n # 0
      <3>1. Upto([s \in {0} |-> Base(p, q)], 0)
        OBVIOUS
      <3> QED  BY <3>1
    <2>4. n - 1 \in 0..N /\ n - 1 \notin T /\ n \in 1..N
      BY <2>2, <2>3, <1>t
    <2>5. PICK f : Upto(f, n - 1)
      BY <2>4
    <2> DEFINE g == [s \in 0..n |-> IF s < n THEN f[s] ELSE StoreSlot(p, q, f[n - 1], n)]
    <2>6. g[0] = Base(p, q)
      BY <2>4, <2>5
    <2>7. ASSUME NEW s \in 1..n  PROVE g[s] = StoreSlot(p, q, g[s - 1], s)
      <3>1. s - 1 \in 0..n /\ s - 1 < n /\ s \in 0..n
        BY <2>4
      <3>2. g[s - 1] = f[s - 1]
        BY <3>1
      <3>3. CASE s = n
        BY <3>1, <3>2, <3>3
      <3>4. CASE s # n
        <4>1. s \in 1..(n - 1) /\ s < n
          BY <2>4, <3>4
        <4>2. g[s] = f[s]
          BY <3>1, <4>1
        <4> QED  BY <4>1, <4>2, <3>2, <2>5
      <3> QED  BY <3>3, <3>4
    <2> HIDE DEF g
    <2>8. Upto(g, n)
      BY <2>6, <2>7
    <2> QED  BY <2>2, <2>8
  <1>n. N \in 0..N
    BY <1>t
  <1>3. PICK f : Upto(f, N)
    <2> HIDE DEF Upto
    <2> QED  BY <1>2, <1>n
  <1> DEFINE h == [s \in 0..N |-> f[s]]
  <1>4. Loop(h)
    <2> DEFINE g == [s \in 0..N |-> IF s = 0 THEN Base(p, q) ELSE StoreSlot(p, q, h[s - 1], s)]
    <2>1. ASSUME NEW s \in 0..N  PROVE h[s] = g[s]
      <3>1. CASE s = 0
        BY <3>1, <1>3
      <3>2. CASE s # 0
        <4>1. s \in 1..N /\ s - 1 \in 0..N
          BY <3>2, <1>t
        <4>2. h[s - 1] = f[s - 1] /\ h[s] = f[s]
          BY <4>1
        <4> QED  BY <4>1, <4>2, <3>2, <1>3
      <3> QED  BY <3>1, <3>2
    <2>2. h = g
      BY <2>1
    <2> QED  BY <2>2
  <1> HIDE DEF Loop, h
  <1>5. Loop(moved)
    BY <1>4, Zenon
  <1> HIDE DEF moved
  <1>6. \A s \in 0..N :
            moved[s] = IF s = 0 THEN Base(p, q) ELSE StoreSlot(p, q, moved[s - 1], s)
    BY <1>5, Zenon DEF Loop
  <1>7. 0 \in 0..N /\ \A s \in TradedSlots : s \in 0..N /\ s # 0
    BY <1>t DEF TradedSlots
  <1> QED  BY <1>1, <1>6, <1>7

\* The clones of some items
ClonesOf(items) == {Copy[i] : i \in items} \ {None}

\* An item that goes back is in the bags again or not, and is cloned only if it is.
LEMMA TakeBackEffect ==
    ASSUME NEW p, NEW bag, NEW i, NEW dest
    PROVE  \E back \in SUBSET ({i} \ {None}) : \E cloned \in SUBSET back :
               /\ TakeBack(p, bag, i, dest).bag = bag \union back \union ClonesOf(cloned)
               /\ TakeBack(p, bag, i, dest).cloned = cloned
  <1>1. CASE i = None \/ ~CanStoreItem(p, bag, i, dest)
    <2>1. /\ TakeBack(p, bag, i, dest).bag = bag
          /\ TakeBack(p, bag, i, dest).cloned = {}
      BY <1>1 DEF TakeBack
    <2>2. bag = bag \union {} \union ClonesOf({})
      BY DEF ClonesOf
    <2> QED  BY <2>1, <2>2
  <1>2. CASE ~(i = None \/ ~CanStoreItem(p, bag, i, dest)) /\ dest = 0
    <2>1. /\ TakeBack(p, bag, i, dest).bag = bag \union {i}
          /\ TakeBack(p, bag, i, dest).cloned = {}
      BY <1>2 DEF TakeBack
    <2>2. bag \union {i} = bag \union {i} \union ClonesOf({})
      BY DEF ClonesOf
    <2> QED  BY <2>1, <2>2, <1>2
  <1>3. CASE ~(i = None \/ ~CanStoreItem(p, bag, i, dest)) /\ dest # 0
    <2>1. /\ TakeBack(p, bag, i, dest).bag = bag \union ({i, Copy[i]} \ {None})
          /\ TakeBack(p, bag, i, dest).cloned = {i}
      BY <1>3 DEF TakeBack
    <2>2. bag \union ({i, Copy[i]} \ {None}) = bag \union {i} \union ClonesOf({i})
      BY <1>3 DEF ClonesOf
    <2> QED  BY <2>1, <2>2, <1>3
  <1> QED  BY <1>1, <1>2, <1>3

\* The items of a slot change hands, ...
Swapped(next, acc, m, h) ==
    /\ next.mine = acc.mine \union h
    /\ next.his = acc.his \union m
    /\ next.cloned = acc.cloned

\* ... or go back, a and b of them, of which c and d are cloned.
WentBack(next, acc, m, h, a, b, c, d) ==
    /\ a \subseteq m /\ b \subseteq h /\ c \subseteq a /\ d \subseteq b
    /\ next.mine = acc.mine \union a \union ClonesOf(c)
    /\ next.his = acc.his \union b \union ClonesOf(d)
    /\ next.cloned = acc.cloned \union c \union d

LEMMA SlotEffect ==
    ASSUME NEW p, NEW q, NEW acc, NEW s, NEW m, m = {GetItem(p, s)} \ {None},
           NEW h, h = {GetItem(q, s)} \ {None}, NEW next, next = StoreSlot(p, q, acc, s)
    PROVE  \/ Swapped(next, acc, m, h)
           \/ \E a, b, c, d : WentBack(next, acc, m, h, a, b, c, d)
  <1> DEFINE mine  == GetItem(p, s)
             his   == GetItem(q, s)
             hisOk == mine = None \/ CanStoreItem(q, acc.his, mine, 0)
             myOk  == his = None \/ CanStoreItem(p, acc.mine, his, 0)
             e     == IF his # None /\ myOk THEN 1 ELSE 0
             f     == IF mine # None /\ hisOk THEN 1 ELSE 0
  <1>1. CASE hisOk /\ myOk
    <2>1. next = [mine |-> Put(acc.mine, his), his |-> Put(acc.his, mine), cloned |-> acc.cloned]
      BY <1>1 DEF StoreSlot
    <2> QED  BY <2>1 DEF Put, Swapped
  <1>2. CASE ~(hisOk /\ myOk)
    <2>1. next = [mine |-> TakeBack(p, acc.mine, mine, e).bag,
                  his |-> TakeBack(q, acc.his, his, f).bag,
                  cloned |-> acc.cloned \union TakeBack(p, acc.mine, mine, e).cloned
                                       \union TakeBack(q, acc.his, his, f).cloned]
      BY <1>2 DEF StoreSlot
    <2> HIDE DEF e, f
    <2>2. PICK a \in SUBSET ({mine} \ {None}) : \E c \in SUBSET a :
              /\ TakeBack(p, acc.mine, mine, e).bag = acc.mine \union a \union ClonesOf(c)
              /\ TakeBack(p, acc.mine, mine, e).cloned = c
      BY TakeBackEffect
    <2>c. PICK c \in SUBSET a :
              /\ TakeBack(p, acc.mine, mine, e).bag = acc.mine \union a \union ClonesOf(c)
              /\ TakeBack(p, acc.mine, mine, e).cloned = c
      BY <2>2
    <2>3. PICK b \in SUBSET ({his} \ {None}) : \E d \in SUBSET b :
              /\ TakeBack(q, acc.his, his, f).bag = acc.his \union b \union ClonesOf(d)
              /\ TakeBack(q, acc.his, his, f).cloned = d
      BY TakeBackEffect
    <2>d. PICK d \in SUBSET b :
              /\ TakeBack(q, acc.his, his, f).bag = acc.his \union b \union ClonesOf(d)
              /\ TakeBack(q, acc.his, his, f).cloned = d
      BY <2>3
    <2>4. WentBack(next, acc, m, h, a, b, c, d)
      BY <2>1, <2>2, <2>3, <2>c, <2>d DEF WentBack
    <2> QED  BY <2>4
  <1> QED  BY <1>1, <1>2


\* The bags of p after some slots: what he keeps, items of both sides, and clones of
\* what he gives.
Bounded(p, bag, given, cloned) ==
    /\ bags[p] \ Given(p) \subseteq bag /\ bag \subseteq Item
    /\ \A i \in bag : \/ i \in bags[p] \ Given(p)
                      \/ i \in given
                      \/ i \in ClonesOf(cloned \intersect Given(p))

\* What is in the bags of both sides after some slots is a clone.
Separate(mine, his, cloned) == mine \intersect his \subseteq ClonesOf(cloned)

\* One slot
LEMMA SlotBounds ==
    ASSUME TableTypes, OfferedOnce, NEW p \in Player, NEW q \in Player,
           Trading(p), Trading(q), bags[p] \intersect bags[q] = {},
           NEW s \in TradedSlots, NEW acc, NEW next, next = StoreSlot(p, q, acc, s),
           NEW given, given = GivenUpto(p, s - 1) \union GivenUpto(q, s - 1),
           NEW now, now = GivenUpto(p, s) \union GivenUpto(q, s),
           acc.cloned \subseteq given, given \subseteq Given(p) \union Given(q),
           Bounded(p, acc.mine, given, acc.cloned), Bounded(q, acc.his, given, acc.cloned),
           Separate(acc.mine, acc.his, acc.cloned)
    PROVE  /\ next.cloned \subseteq now /\ now \subseteq Given(p) \union Given(q)
           /\ Bounded(p, next.mine, now, next.cloned) /\ Bounded(q, next.his, now, next.cloned)
           /\ Separate(next.mine, next.his, next.cloned)
  <1> DEFINE m == {GetItem(p, s)} \ {None}
             h == {GetItem(q, s)} \ {None}
  <1>1. /\ Given(p) \subseteq bags[p] /\ bags[p] \subseteq Item
        /\ Given(q) \subseteq bags[q] /\ bags[q] \subseteq Item
    BY GivenHeld
  <1>2. /\ m \subseteq Given(p) /\ m \intersect GivenUpto(p, s - 1) = {}
        /\ GivenUpto(p, s) = GivenUpto(p, s - 1) \union m
    BY GivenOnce, GivenNothing
  <1>3. /\ h \subseteq Given(q) /\ h \intersect GivenUpto(q, s - 1) = {}
        /\ GivenUpto(q, s) = GivenUpto(q, s - 1) \union h
    BY GivenOnce, GivenNothing
  <1>4. /\ now = given \union m \union h
        /\ m \intersect (given \union h) = {} /\ h \intersect given = {}
    <2>1. GivenUpto(p, s - 1) \subseteq Given(p) /\ GivenUpto(q, s - 1) \subseteq Given(q)
      <3>1. \A r \in 1..(s - 1) : r \in TradedSlots
        BY TradeAssumption DEF TradedSlots
      <3> QED  BY <3>1 DEF GivenUpto, Given
    <2> QED  BY <2>1, <1>1, <1>2, <1>3
  <1>5. \A x \in acc.his : x \in m \union h => x \in ClonesOf(acc.cloned)
    BY <1>1, <1>2, <1>3, <1>4 DEF Bounded, ClonesOf
  <1>6. \A x \in acc.mine : x \in m \union h => x \in ClonesOf(acc.cloned)
    BY <1>1, <1>2, <1>3, <1>4 DEF Bounded, ClonesOf
  <1>c. \A items : items \subseteq Item => ClonesOf(items) \subseteq Item
    BY TradeAssumption DEF ClonesOf
  <1> HIDE DEF m, h
  <1>7. ASSUME next.mine = acc.mine \union h, next.his = acc.his \union m,
               next.cloned = acc.cloned
        PROVE  /\ next.cloned \subseteq now /\ now \subseteq Given(p) \union Given(q)
               /\ Bounded(p, next.mine, now, next.cloned)
               /\ Bounded(q, next.his, now, next.cloned)
               /\ Separate(next.mine, next.his, next.cloned)
    <2>1. next.cloned \subseteq now /\ now \subseteq Given(p) \union Given(q)
      BY <1>2, <1>3, <1>4, <1>7
    <2>2. Bounded(p, next.mine, now, next.cloned)
      BY <1>1, <1>3, <1>4, <1>7 DEF Bounded
    <2>3. Bounded(q, next.his, now, next.cloned)
      BY <1>1, <1>2, <1>4, <1>7 DEF Bounded
    <2>4. Separate(next.mine, next.his, next.cloned)
      <3> SUFFICES ASSUME NEW x \in next.mine, x \in next.his
                   PROVE  x \in ClonesOf(acc.cloned)
        BY <1>7 DEF Separate
      <3>1. (x \in acc.mine \/ x \in h) /\ (x \in acc.his \/ x \in m)
        BY <1>7
      <3>2. ~(x \in h /\ x \in m)
        BY <1>4
      <3>3. x \in acc.mine /\ x \in acc.his => x \in ClonesOf(acc.cloned)
        BY DEF Separate
      <3> QED  BY <3>1, <3>2, <3>3, <1>5, <1>6
    <2> QED  BY <2>1, <2>2, <2>3, <2>4
  <1>8. ASSUME NEW a, NEW b, NEW c, NEW d,
               a \subseteq m, b \subseteq h, c \subseteq a, d \subseteq b,
               next.mine = acc.mine \union a \union ClonesOf(c),
               next.his = acc.his \union b \union ClonesOf(d),
               next.cloned = acc.cloned \union c \union d
        PROVE  /\ next.cloned \subseteq now /\ now \subseteq Given(p) \union Given(q)
               /\ Bounded(p, next.mine, now, next.cloned)
               /\ Bounded(q, next.his, now, next.cloned)
               /\ Separate(next.mine, next.his, next.cloned)
    <2>1. next.cloned \subseteq now /\ now \subseteq Given(p) \union Given(q)
      BY <1>2, <1>3, <1>4, <1>8
    <2>2. /\ ClonesOf(c) \subseteq ClonesOf(next.cloned \intersect Given(p))
          /\ ClonesOf(d) \subseteq ClonesOf(next.cloned \intersect Given(q))
          /\ ClonesOf(acc.cloned \intersect Given(p))
                \subseteq ClonesOf(next.cloned \intersect Given(p))
          /\ ClonesOf(acc.cloned \intersect Given(q))
                \subseteq ClonesOf(next.cloned \intersect Given(q))
          /\ ClonesOf(acc.cloned) \subseteq ClonesOf(next.cloned)
          /\ ClonesOf(c) \subseteq ClonesOf(next.cloned)
          /\ ClonesOf(d) \subseteq ClonesOf(next.cloned)
      BY <1>2, <1>3, <1>8 DEF ClonesOf
    <2>3. /\ a \subseteq Item /\ ClonesOf(c) \subseteq Item
          /\ b \subseteq Item /\ ClonesOf(d) \subseteq Item
      <3>1. a \subseteq Item /\ c \subseteq Item /\ b \subseteq Item /\ d \subseteq Item
        BY <1>1, <1>2, <1>3, <1>8
      <3> QED  BY <3>1, <1>c
    <2>4. Bounded(p, next.mine, now, next.cloned)
      BY <2>2, <2>3, <1>4, <1>8 DEF Bounded
    <2>5. Bounded(q, next.his, now, next.cloned)
      BY <2>2, <2>3, <1>4, <1>8 DEF Bounded
    <2>6. Separate(next.mine, next.his, next.cloned)
      BY <2>2, <1>4, <1>5, <1>6, <1>8 DEF Separate
    <2> QED  BY <2>1, <2>4, <2>5, <2>6
  <1>9. \/ Swapped(next, acc, m, h)
        \/ \E a, b, c, d : WentBack(next, acc, m, h, a, b, c, d)
    BY SlotEffect DEF m, h
  <1>10. CASE Swapped(next, acc, m, h)
    BY <1>7, <1>10 DEF Swapped
  <1>11. ASSUME NEW a, NEW b, NEW c, NEW d, WentBack(next, acc, m, h, a, b, c, d)
         PROVE  /\ next.cloned \subseteq now /\ now \subseteq Given(p) \union Given(q)
                /\ Bounded(p, next.mine, now, next.cloned)
                /\ Bounded(q, next.his, now, next.cloned)
                /\ Separate(next.mine, next.his, next.cloned)
    BY <1>8, <1>11 DEF WentBack
  <1> QED  BY <1>9, <1>10, <1>11

\* All slots.  Nothing but clones can come into the bags of both sides, and those are
\* clones of what the one and of what the other gives.
LEMMA MoveItemsBounds ==
    ASSUME TableTypes, OfferedOnce, NEW p \in Player, NEW q \in Player,
           Trading(p), Trading(q), bags[p] \intersect bags[q] = {},
           NEW moved, moved = moveItems(p, q)
    PROVE  LET given == Given(p) \union Given(q)
           IN  /\ moved.cloned \subseteq given
               /\ Bounded(p, moved.mine, given, moved.cloned)
               /\ Bounded(q, moved.his, given, moved.cloned)
               /\ Separate(moved.mine, moved.his, moved.cloned)
  <1> DEFINE N == TRADE_SLOT_TRADED_COUNT
             Upto(s) == GivenUpto(p, s) \union GivenUpto(q, s)
             Good(acc, given) ==
                 /\ acc.cloned \subseteq given /\ given \subseteq Given(p) \union Given(q)
                 /\ Bounded(p, acc.mine, given, acc.cloned)
                 /\ Bounded(q, acc.his, given, acc.cloned)
                 /\ Separate(acc.mine, acc.his, acc.cloned)
  <1>t. N \in Nat
    BY TradeAssumption
  <1>1. PICK f : /\ f[0] = Base(p, q)
                 /\ \A s \in TradedSlots : f[s] = StoreSlot(p, q, f[s - 1], s)
                 /\ moveItems(p, q) = f[N]
    BY MoveItemsLoop
  <1>2. Good(f[0], Upto(0))
    <2>1. Upto(0) = {}
      BY DEF GivenUpto
    <2>2. f[0].mine = bags[p] \ Given(p) /\ f[0].his = bags[q] \ Given(q) /\ f[0].cloned = {}
      BY <1>1 DEF Base
    <2>3. bags[p] \subseteq Item /\ bags[q] \subseteq Item
      BY GivenHeld
    <2> QED  BY <2>1, <2>2, <2>3 DEF Bounded, Separate
  <1>3. ASSUME NEW s \in TradedSlots, Good(f[s - 1], Upto(s - 1))  PROVE Good(f[s], Upto(s))
    <2>1. PICK acc : acc = f[s - 1]
      OBVIOUS
    <2>2. PICK next : next = f[s] /\ next = StoreSlot(p, q, acc, s)
      BY <2>1, <1>1
    <2>3. PICK given : given = Upto(s - 1)
      OBVIOUS
    <2>4. PICK now : now = Upto(s)
      OBVIOUS
    <2>5. Good(acc, given)
      BY <1>3, <2>1, <2>3
    <2>6. Good(next, now)
      BY <2>2, <2>3, <2>4, <2>5, SlotBounds
    <2> QED  BY <2>2, <2>4, <2>6
  <1> HIDE DEF Good, Upto
  <1> DEFINE T == {s \in 0..N : ~Good(f[s], Upto(s))}
  <1>4. T = {}
    <2> SUFFICES ASSUME T # {}  PROVE FALSE
      OBVIOUS
    <2>1. T \subseteq Nat
      BY <1>t
    <2>2. PICK s \in T : \A r \in T : s <= r
      <3> HIDE DEF T
      <3> QED  BY <2>1, LeastNumber
    <2>3. s # 0
      BY <1>2, <2>2
    <2>4. s \in TradedSlots /\ s - 1 \in 0..N /\ s - 1 \notin T
      BY <2>2, <2>3, <1>t DEF TradedSlots
    <2> QED  BY <1>3, <2>2, <2>4
  <1>5. Good(f[N], Upto(N))
    BY <1>4, <1>t
  <1>6. Upto(N) = Given(p) \union Given(q)
    BY GivenHeld DEF Upto
  <1> QED  BY <1>1, <1>5, <1>6 DEF Good

\* If the limits allow each side to have all it gets, and CanStoreItems has found room,
\* the item of each slot fits when moveItems comes to it.
LEMMA SlotFits ==
    ASSUME TableTypes, OfferedOnce, NEW p \in Player, NEW q \in Player,
           Trading(p), Trading(q), bags[p] \intersect bags[q] = {},
           CanStoreItems(q, Given(q), Given(p)), AllowedTogether(q, p),
           NEW s \in TradedSlots, NEW i, i = GetItem(p, s), i # None
    PROVE  CanStoreItem(q, (bags[q] \ Given(q)) \union GivenUpto(p, s - 1), i, 0)
  <1> DEFINE kept == bags[q] \ Given(q)
             bag  == kept \union GivenUpto(p, s - 1)
             all  == kept \union Given(p)
  <1>t. IsFiniteSet(Item) /\ Capacity[q] \in Nat /\ \A l \in Limit : MaxCount[l] \in Nat
    BY TradeAssumption
  <1>1. /\ i \in Given(p) /\ i \notin bag /\ bag \union {i} \subseteq all
        /\ Given(p) \subseteq Item /\ kept \subseteq Item
        /\ kept \intersect Given(p) = {}
    BY GivenOnce, GivenHeld
  <1>f. \A set \in SUBSET Item : IsFiniteSet(set) /\ Cardinality(set) \in Nat
    BY <1>t, FS_Subset, FS_CardinalityType
  <1>2. ~IsBindedNotWith(i, q)
    BY <1>1 DEF CanStoreItems
  <1>3. CanTakeMoreSimilarItems(bag, i)
    <2> SUFFICES ASSUME NEW l \in LimitsOf[i]
                 PROVE  Cardinality({j \in bag \ {i} : l \in LimitsOf[j]}) < MaxCount[l]
      BY DEF CanTakeMoreSimilarItems
    <2> DEFINE few  == {j \in bag \ {i} : l \in LimitsOf[j]}
               many == {j \in all \ {i} : l \in LimitsOf[j]}
    <2>1. Cardinality(many) < MaxCount[l]
      BY <1>1 DEF AllowedTogether, CanTakeMoreSimilarItems
    <2>2. few \in SUBSET many /\ many \in SUBSET Item /\ few \in SUBSET Item
      BY <1>1
    <2>3. l \in Limit
      BY <1>1 DEF Limit
    <2> HIDE DEF few, many
    <2>4. Cardinality(few) <= Cardinality(many)
      BY <2>2, <1>f, FS_Subset
    <2>5. Cardinality(few) \in Nat /\ Cardinality(many) \in Nat /\ MaxCount[l] \in Nat
      BY <2>2, <2>3, <1>f, <1>t
    <2>6. Cardinality(few) < MaxCount[l]
      BY <2>1, <2>4, <2>5
    <2> QED  BY <2>6 DEF few
  <1>4. Cardinality(bag) + 0 < Capacity[q]
    <2>1. Cardinality(kept) + Cardinality(Given(p)) <= Capacity[q]
      BY DEF CanStoreItems
    <2>2. /\ IsFiniteSet(kept) /\ IsFiniteSet(Given(p))
          /\ Cardinality(kept) \in Nat /\ Cardinality(Given(p)) \in Nat
      BY <1>1, <1>f
    <2>3. Cardinality(kept \cap Given(p)) = 0
      BY <1>1, FS_EmptySet
    <2>4. /\ Cardinality(all) = Cardinality(kept) + Cardinality(Given(p))
                                 - Cardinality(kept \cap Given(p))
          /\ IsFiniteSet(all)
      BY <2>2, FS_Union
    <2>5. bag \union {i} \in SUBSET all /\ bag \in SUBSET Item /\ i \notin bag
      BY <1>1
    <2> HIDE DEF bag, all, kept
    <2>6. Cardinality(bag \union {i}) <= Cardinality(all)
      BY <2>4, <2>5, FS_Subset
    <2>7. Cardinality(bag \union {i}) = Cardinality(bag) + 1
      BY <2>5, <1>f, FS_AddElement
    <2>8. Cardinality(bag) \in Nat
      BY <2>5, <1>f
    <2> QED  BY <2>1, <2>2, <2>3, <2>4, <2>6, <2>7, <2>8, <1>t
  <1> QED  BY <1>2, <1>3, <1>4 DEF CanStoreItem

\* moveItems exchanges all that both sides give, if CanStoreItems has found room for it
\* on both sides and the limits allow each side to have it.
LEMMA MoveItemsMoves ==
    ASSUME TableTypes, OfferedOnce, NEW p \in Player, NEW q \in Player,
           Trading(p), Trading(q), bags[p] \intersect bags[q] = {},
           RoomForBoth(p, q), AllowedTogether(p, q), AllowedTogether(q, p)
    PROVE  moveItems(p, q) = [mine |-> (bags[p] \ Given(p)) \union Given(q),
                              his  |-> (bags[q] \ Given(q)) \union Given(p),
                              cloned |-> {}]
  <1> DEFINE N      == TRADE_SLOT_TRADED_COUNT
             now(s) == [mine |-> (bags[p] \ Given(p)) \union GivenUpto(q, s),
                        his  |-> (bags[q] \ Given(q)) \union GivenUpto(p, s),
                        cloned |-> {}]
  <1>t. N \in Nat
    BY TradeAssumption
  <1>1. PICK f : /\ f[0] = Base(p, q)
                 /\ \A s \in TradedSlots : f[s] = StoreSlot(p, q, f[s - 1], s)
                 /\ moveItems(p, q) = f[N]
    BY MoveItemsLoop
  <1>2. now(0) = Base(p, q)
    <2>1. \A r : GivenUpto(r, 0) = {}
      BY DEF GivenUpto
    <2> QED  BY <2>1 DEF Base
  <1>3. ASSUME NEW s \in TradedSlots  PROVE StoreSlot(p, q, now(s - 1), s) = now(s)
    <2>1. \/ GetItem(p, s) = None
          \/ CanStoreItem(q, (bags[q] \ Given(q)) \union GivenUpto(p, s - 1), GetItem(p, s), 0)
      BY SlotFits DEF RoomForBoth
    <2>2. \/ GetItem(q, s) = None
          \/ CanStoreItem(p, (bags[p] \ Given(p)) \union GivenUpto(q, s - 1), GetItem(q, s), 0)
      BY SlotFits DEF RoomForBoth
    <2>3. ASSUME NEW r \in Player, Trading(r), NEW rest
          PROVE  Put(rest \union GivenUpto(r, s - 1), GetItem(r, s))
                    = rest \union GivenUpto(r, s)
      BY <2>3, GivenOnce, GivenNothing DEF Put
    <2>4. /\ Put(now(s - 1).mine, GetItem(q, s)) = now(s).mine
          /\ Put(now(s - 1).his, GetItem(p, s)) = now(s).his
      BY <2>3
    <2> QED  BY <2>1, <2>2, <2>4 DEF StoreSlot
  <1> HIDE DEF now
  <1> DEFINE T == {s \in 0..N : f[s] # now(s)}
  <1>4. T = {}
    <2> SUFFICES ASSUME T # {}  PROVE FALSE
      OBVIOUS
    <2>1. T \subseteq Nat
      BY <1>t
    <2>2. PICK s \in T : \A r \in T : s <= r
      <3> HIDE DEF T
      <3> QED  BY <2>1, LeastNumber
    <2>3. s # 0
      BY <1>1, <1>2, <2>2
    <2>4. s \in TradedSlots /\ s - 1 \in 0..N /\ s - 1 \notin T
      BY <2>2, <2>3, <1>t DEF TradedSlots
    <2> QED  BY <1>1, <1>3, <2>2, <2>4
  <1>5. f[N] = now(N)
    BY <1>4, <1>t
  <1>6. GivenUpto(p, N) = Given(p) /\ GivenUpto(q, N) = Given(q)
    BY GivenHeld
  <1> QED  BY <1>1, <1>5, <1>6 DEF now

-----------------------------------------------------------------------------
(* The tables                                                              *)

\* Nothing happens to the tables, and no item comes into the bags of anybody who
\* trades.
LEMMA TableKept ==
    ASSUME TableInv, UNCHANGED tradeVars,
           bags' \in [Player -> SUBSET Item],
           state' \in [Player -> {"offline", "login", "online"}],
           \A r \in Player : Trading(r) => bags'[r] \subseteq bags[r] /\ state'[r] = "online"
    PROVE  TableInv'
  <1>1. trade' = trade /\ agreed' = agreed
    BY DEF tradeVars
  <1>2. \A r \in Player : Trading(r) => trade[r].trader \in Player /\ Trading(trade[r].trader)
    BY DEF TableInv, TableTypes, TradesPaired, Trading, TradeDatas
  <1>3. TableTypes'
    BY <1>1 DEF TableInv, TableTypes
  <1>4. TradesPaired'
    BY <1>1 DEF TableInv, TradesPaired, Trading, Online
  <1>5. OfferedOnce'
    BY <1>1 DEF TableInv, OfferedOnce, Trading
  <1>6. ASSUME NEW offer, NEW r \in Player, Trading(r), Seen(offer, r)
        PROVE  Seen(offer, r)'
    BY <1>1, <1>6 DEF Seen
  <1>7. AgreedSeen'
    <2> SUFFICES ASSUME NEW p \in Player
                 PROVE  (/\ agreed[p] # None =>
                               /\ Trading(p)
                               /\ Seen(agreed[p].mine, p)
                               /\ Seen(agreed[p].his, trade[p].trader)
                         /\ Trading(p) /\ trade[p].accepted => agreed[p] # None)'
      BY DEF AgreedSeen
    <2>1. CASE agreed[p] = None
      BY <2>1, <1>1 DEF TableInv, AgreedSeen, Trading
    <2>2. CASE agreed[p] # None
      <3>1. Trading(p) /\ Seen(agreed[p].mine, p) /\ Seen(agreed[p].his, trade[p].trader)
        BY <2>2 DEF TableInv, AgreedSeen
      <3>2. PICK q \in Player : q = trade[p].trader /\ Trading(q)
        BY <3>1, <1>2
      <3>3. PICK a : a = agreed[p] /\ a = agreed'[p]
        BY <1>1
      <3>4. Seen(a.mine, p)' /\ Seen(a.his, q)'
        BY <3>1, <3>2, <3>3, <1>6
      <3> QED  BY <3>1, <3>2, <3>3, <3>4, <2>2, <1>1 DEF Trading, Seen
    <2> QED  BY <2>1, <2>2
  <1> QED  BY <1>3, <1>4, <1>5, <1>7 DEF TableInv

\* Who trades, and with whom
LEMMA Partners ==
    ASSUME TableInv, NEW p \in Player, Trading(p)
    PROVE  LET q == trade[p].trader
           IN  /\ trade[p] \in TradeDatas /\ q \in Player /\ q # p
               /\ Trading(q) /\ trade[q] \in TradeDatas /\ trade[q].trader = p
               /\ p \in Online /\ q \in Online
               /\ \A r \in Player \ {p, q} : Trading(r) => trade[r].trader \notin {p, q}
  <1> DEFINE q == trade[p].trader
  <1>1. trade[p] \in TradeDatas
    BY DEF TableInv, TableTypes, Trading
  <1>2. q \in Player
    BY <1>1 DEF TradeDatas
  <1>3. q # p /\ Trading(q) /\ trade[q].trader = p /\ p \in Online
    BY DEF TableInv, TradesPaired
  <1>4. q \in Online
    BY <1>2, <1>3 DEF TableInv, TradesPaired
  <1>5. trade[q] \in TradeDatas
    BY <1>2, <1>3 DEF TableInv, TableTypes, Trading
  <1>6. ASSUME NEW r \in Player \ {p, q}, Trading(r)  PROVE trade[r].trader \notin {p, q}
    BY <1>3, <1>6 DEF TableInv, TradesPaired
  <1> QED  BY <1>1, <1>2, <1>3, <1>4, <1>5, <1>6

\* The trade of p ends, for both sides; for the other players see TableKept.
LEMMA TradeEnds ==
    ASSUME TableInv, NEW p \in Player, Trading(p),
           trade' = [trade EXCEPT ![p] = None, ![trade[p].trader] = None],
           agreed' = [agreed EXCEPT ![p] = None, ![trade[p].trader] = None],
           bags' \in [Player -> SUBSET Item],
           state' \in [Player -> {"offline", "login", "online"}],
           \A r \in Player \ {p, trade[p].trader} :
               Trading(r) => bags'[r] \subseteq bags[r] /\ state'[r] = "online"
    PROVE  TableInv'
  <1>1. PICK q \in Player :
            /\ q = trade[p].trader /\ q # p
            /\ \A r \in Player \ {p, q} : Trading(r) => trade[r].trader \notin {p, q}
    BY Partners
  <1>2. /\ trade' \in [Player -> TradeDatas \union {None}]
        /\ agreed' \in [Player -> Agreements \union {None}]
        /\ \A r \in Player : trade'[r] = IF r \in {p, q} THEN None ELSE trade[r]
        /\ \A r \in Player : agreed'[r] = IF r \in {p, q} THEN None ELSE agreed[r]
    BY <1>1 DEF TableInv, TableTypes
  <1>3. TableTypes'
    BY <1>2 DEF TableTypes
  <1>4. ASSUME NEW r \in Player, trade'[r] # None
        PROVE  /\ r \in Player \ {p, q} /\ Trading(r) /\ trade'[r] = trade[r]
               /\ trade[r].trader \in Player \ {p, q} /\ Trading(trade[r].trader)
    BY <1>1, <1>2, <1>4, Partners DEF Trading
  <1>5. TradesPaired'
    BY <1>1, <1>2, <1>4 DEF TableInv, TradesPaired, Trading, Online
  <1>6. OfferedOnce'
    BY <1>4 DEF TableInv, OfferedOnce, Trading
  <1>7. ASSUME NEW offer, NEW r \in Player \ {p, q}, Trading(r), Seen(offer, r)
        PROVE  Seen(offer, r)'
    BY <1>1, <1>2, <1>7 DEF Seen
  <1>8. AgreedSeen'
    <2> SUFFICES ASSUME NEW r \in Player
                 PROVE  (/\ agreed[r] # None =>
                               /\ Trading(r)
                               /\ Seen(agreed[r].mine, r)
                               /\ Seen(agreed[r].his, trade[r].trader)
                         /\ Trading(r) /\ trade[r].accepted => agreed[r] # None)'
      BY DEF AgreedSeen
    <2>1. CASE r \in {p, q}
      BY <2>1, <1>2 DEF Trading
    <2>2. CASE r \notin {p, q} /\ agreed[r] = None
      BY <2>2, <1>2 DEF TableInv, AgreedSeen, Trading
    <2>3. CASE r \notin {p, q} /\ agreed[r] # None
      <3>1. Trading(r) /\ Seen(agreed[r].mine, r) /\ Seen(agreed[r].his, trade[r].trader)
        BY <2>3 DEF TableInv, AgreedSeen
      <3>2. PICK t \in Player \ {p, q} : t = trade[r].trader /\ t = trade'[r].trader /\ Trading(t)
        BY <3>1, <2>3, <1>2, <1>4 DEF Trading
      <3>3. PICK a : a = agreed[r] /\ a = agreed'[r]
        BY <2>3, <1>2
      <3>4. Seen(a.mine, r)' /\ Seen(a.his, t)'
        BY <3>1, <3>2, <3>3, <2>3, <1>7
      <3>5. Seen(agreed[r].mine, r)' /\ Seen(agreed[r].his, trade[r].trader)'
        BY <3>2, <3>3, <3>4 DEF Seen
      <3>6. Trading(r)' /\ agreed'[r] # None
        BY <3>1, <2>3, <1>2 DEF Trading
      <3> QED  BY <3>5, <3>6
    <2> QED  BY <2>1, <2>2, <2>3
  <1> QED  BY <1>3, <1>5, <1>6, <1>8 DEF TableInv

\* In the slots of one side no item lies twice.
EachOnce(mine) ==
    \A s, r \in TradeSlots : mine.items[s] = mine.items[r] /\ mine.items[s] # None => s = r

\* SetItem, SetSpell and SetMoney
LEMMA OfferChangedTable ==
    ASSUME TableInv, UNCHANGED <<bags, state>>, NEW p \in Player, Trading(p),
           NEW mine \in TradeDatas, mine.trader = trade[p].trader, EachOnce(mine),
           NEW his \in TradeDatas, his.trader = p, EachOnce(his),
           OfferChanged(p, mine, his)
    PROVE  TableInv'
  <1>1. PICK q \in Player :
            /\ q = trade[p].trader /\ q = mine.trader /\ q # p
            /\ Trading(q) /\ p \in Online /\ q \in Online
            /\ \A r \in Player \ {p, q} : Trading(r) => trade[r].trader \notin {p, q}
    BY Partners
  <1> DEFINE m == [mine EXCEPT !.accepted = FALSE]
             h == [his EXCEPT !.accepted = FALSE]
  <1>2. /\ trade' = [trade EXCEPT ![p] = m, ![q] = h]
        /\ agreed' = [agreed EXCEPT ![p] = None, ![q] = None]
    BY <1>1 DEF OfferChanged
  <1>3. /\ m \in TradeDatas /\ h \in TradeDatas /\ m # None /\ h # None
        /\ m.trader = q /\ h.trader = p
        /\ m.accepted = FALSE /\ h.accepted = FALSE
        /\ m.items = mine.items /\ h.items = his.items
    BY <1>1, NoneAssumption DEF TradeDatas
  <1> HIDE DEF m, h
  <1>4. /\ trade' \in [Player -> TradeDatas \union {None}]
        /\ agreed' \in [Player -> Agreements \union {None}]
        /\ trade'[p] = m /\ trade'[q] = h /\ agreed'[p] = None /\ agreed'[q] = None
        /\ \A r \in Player \ {p, q} : trade'[r] = trade[r] /\ agreed'[r] = agreed[r]
    BY <1>1, <1>2, <1>3 DEF TableInv, TableTypes
  <1>5. TableTypes'
    BY <1>4 DEF TableInv, TableTypes
  <1>6. ASSUME NEW r \in Player \ {p, q}, Trading(r)
        PROVE  trade[r].trader \in Player \ {p, q} /\ Trading(trade[r].trader)
    BY <1>1, <1>6, Partners
  <1>7. TradesPaired'
    <2> SUFFICES ASSUME NEW r \in Player, Trading(r)'
                 PROVE  (LET t == trade[r].trader
                         IN  t # r /\ Trading(t) /\ trade[t].trader = r /\ r \in Online)'
      BY DEF TradesPaired
    <2>1. CASE r \in {p, q}
      BY <2>1, <1>1, <1>3, <1>4 DEF Trading, Online
    <2>2. CASE r \notin {p, q}
      BY <2>2, <1>4, <1>6 DEF TableInv, TradesPaired, Trading, Online
    <2> QED  BY <2>1, <2>2
  <1>8. OfferedOnce'
    <2> SUFFICES ASSUME NEW r \in Player, Trading(r)'  PROVE EachOnce(trade'[r])
      BY DEF OfferedOnce, EachOnce
    <2>1. CASE r \in {p, q}
      BY <2>1, <1>3, <1>4 DEF EachOnce
    <2>2. CASE r \notin {p, q}
      BY <2>2, <1>4 DEF TableInv, OfferedOnce, EachOnce, Trading
    <2> QED  BY <2>1, <2>2
  <1>9. AgreedSeen'
    <2> SUFFICES ASSUME NEW r \in Player
                 PROVE  (/\ agreed[r] # None =>
                               /\ Trading(r)
                               /\ Seen(agreed[r].mine, r)
                               /\ Seen(agreed[r].his, trade[r].trader)
                         /\ Trading(r) /\ trade[r].accepted => agreed[r] # None)'
      BY DEF AgreedSeen
    <2>1. CASE r \in {p, q}
      BY <2>1, <1>3, <1>4
    <2>2. CASE r \notin {p, q}
      BY <2>2, <1>4, <1>6 DEF TableInv, AgreedSeen, Trading, Seen
    <2> QED  BY <2>1, <2>2
  <1> QED  BY <1>5, <1>7, <1>8, <1>9 DEF TableInv

\* What p sees of the table when he accepts
LEMMA AgreementSeen ==
    ASSUME TableInv, NEW p \in Player, Trading(p), NEW refused \in BOOLEAN
    PROVE  LET a == Agreement(p, trade[p].trader, refused)
           IN  /\ a \in Agreements /\ a # None
               /\ Seen(a.mine, p) /\ Seen(a.his, trade[p].trader)
  <1>1. PICK q \in Player : q = trade[p].trader /\ Trading(q)
    BY Partners
  <1>2. ASSUME NEW r \in Player, Trading(r)  PROVE Offer(r) \in Offers /\ Seen(Offer(r), r)
    <2>1. trade[r] \in TradeDatas /\ bags[r] \subseteq Item
      BY <1>2 DEF TableInv, TableTypes, Trading
    <2>2. \A s \in TradeSlots : /\ GetItem(r, s) \in Item \union {None}
                                /\ \/ GetItem(r, s) = trade[r].items[s]
                                   \/ GetItem(r, s) = None /\ trade[r].items[s] \notin bags[r]
      BY <2>1 DEF GetItem
    <2>3. [s \in TradeSlots |-> GetItem(r, s)] \in [TradeSlots -> Item \union {None}]
      BY <2>2
    <2>4. trade[r].money \in Gold \union {0} /\ trade[r].spell \in BOOLEAN
      BY <2>1 DEF TradeDatas
    <2>5. Offer(r) \in Offers
      BY <2>3, <2>4 DEF Offer, Offers
    <2>6. /\ Offer(r).money = trade[r].money
          /\ \A s \in TradeSlots : Offer(r).items[s] = GetItem(r, s)
      BY DEF Offer
    <2>7. Seen(Offer(r), r)
      BY <2>2, <2>6 DEF Seen
    <2> QED  BY <2>5, <2>7
  <1> DEFINE a == Agreement(p, q, refused)
  <1>3. a.mine = Offer(p) /\ a.his = Offer(q) /\ a \in Agreements
    BY <1>1, <1>2 DEF Agreement, Agreements
  <1>4. a # None
    BY <1>3, NoneAssumption
  <1> QED  BY <1>1, <1>2, <1>3, <1>4

\* HandleAcceptTradeOpcode and HandleUnacceptTradeOpcode set or take back what
\* players have accepted, and leave the offers alone.
LEMMA AcceptanceTable ==
    ASSUME TableInv, UNCHANGED <<bags, state>>,
           trade' \in [Player -> TradeDatas \union {None}],
           agreed' \in [Player -> Agreements \union {None}],
           \A r \in Player : trade'[r] = None <=> trade[r] = None,
           \A r \in Player : Trading(r) =>
               /\ trade'[r].trader = trade[r].trader
               /\ trade'[r].money = trade[r].money
               /\ trade'[r].items = trade[r].items,
           \A r \in Player :
               \/ agreed'[r] \in {None, agreed[r]}
               \/ /\ Trading(r)
                  /\ \E refused \in BOOLEAN :
                        agreed'[r] = Agreement(r, trade[r].trader, refused),
           \A r \in Player : Trading(r) /\ trade'[r].accepted => agreed'[r] # None
    PROVE  TableInv'
  <1>1. TableTypes'
    BY DEF TableInv, TableTypes
  <1>2. TradesPaired'
    <2> SUFFICES ASSUME NEW r \in Player, Trading(r)'
                 PROVE  (LET t == trade[r].trader
                         IN  t # r /\ Trading(t) /\ trade[t].trader = r /\ r \in Online)'
      BY DEF TradesPaired
    <2>1. Trading(r)
      BY DEF Trading
    <2>2. PICK t \in Player : /\ t = trade[r].trader /\ t # r /\ Trading(t)
                              /\ trade[t].trader = r /\ r \in Online
      BY <2>1, Partners
    <2>3. trade'[r].trader = t /\ trade'[t] # None /\ trade'[t].trader = r
      BY <2>1, <2>2 DEF Trading
    <2> QED  BY <2>2, <2>3 DEF Trading, Online
  <1>3. OfferedOnce'
    BY DEF TableInv, OfferedOnce, Trading
  <1>4. ASSUME NEW offer, NEW r \in Player, Trading(r), Seen(offer, r)
        PROVE  Seen(offer, r)'
    BY <1>4 DEF Seen
  <1>5. AgreedSeen'
    <2> SUFFICES ASSUME NEW r \in Player, agreed'[r] # None
                 PROVE  Trading(r)' /\ Seen(agreed[r].mine, r)'
                            /\ Seen(agreed[r].his, trade[r].trader)'
      BY DEF AgreedSeen, Trading
    <2>1. /\ Trading(r)
          /\ Seen(agreed'[r].mine, r)
          /\ Seen(agreed'[r].his, trade[r].trader)
      <3>1. CASE agreed'[r] = agreed[r]
        BY <3>1 DEF TableInv, AgreedSeen
      <3>2. CASE Trading(r) /\ \E refused \in BOOLEAN :
                     agreed'[r] = Agreement(r, trade[r].trader, refused)
        BY <3>2, AgreementSeen
      <3> QED  BY <3>1, <3>2
    <2>2. PICK t \in Player : t = trade[r].trader /\ Trading(t)
      BY <2>1, Partners
    <2>3. PICK a : a = agreed'[r]
      OBVIOUS
    <2>4. Seen(a.mine, r)' /\ Seen(a.his, t)'
      BY <2>1, <2>2, <2>3, <1>4
    <2>5. trade'[r].trader = t /\ Trading(r)'
      BY <2>1, <2>2 DEF Trading
    <2> QED  BY <2>3, <2>4, <2>5 DEF Seen
  <1> QED  BY <1>1, <1>2, <1>3, <1>5 DEF TableInv

\* Steps that only change what lies on the tables or who accepts it
TableStep(p) ==
    \/ \E q \in Player : InitiateTrade(p, q)
    \/ \E gold \in Gold : SetTradeGold(p, gold)
    \/ \E i \in Item : \E s \in OfferSlots[i] : SetTradeItem(p, s, i)
    \/ \E s \in TradeSlots : ClearTradeItem(p, s)
    \/ CastSpell(p)
    \/ UnacceptTrade(p)
    \/ CancelTrade(p)
    \/ /\ Trading(p)
       /\ LET q == trade[p].trader
          IN  \/ AcceptWithoutMoney(p, q)
              \/ AcceptRefused(p, q)
              \/ AcceptFirst(p, q)
              \/ AcceptSpellFails(p, q)
              \/ AcceptWithoutRoom(p, q)

\* They keep the tables well formed.
LEMMA TableStepKeeps ==
    ASSUME TableInv, NEW p \in Player, TableStep(p)
    PROVE  TableInv' /\ UNCHANGED <<db, dbQueue, playerVars, crashes>>
  <1>0. UNCHANGED <<db, dbQueue, playerVars, crashes>>
    BY DEF TableStep, InitiateTrade, SetTradeGold, SetTradeItem, ClearTradeItem, CastSpell,
           UnacceptTrade, CancelTrade, AcceptWithoutMoney, AcceptRefused, AcceptFirst,
           AcceptSpellFails, AcceptWithoutRoom
  <1>u. UNCHANGED <<bags, state>>
    BY <1>0 DEF playerVars
  <1>t. /\ trade \in [Player -> TradeDatas \union {None}]
        /\ agreed \in [Player -> Agreements \union {None}]
        /\ \A r \in Player : Trading(r) => EachOnce(trade[r])
    BY DEF TableInv, TableTypes, OfferedOnce, EachOnce
  <1>1. ASSUME NEW q \in Player, InitiateTrade(p, q)  PROVE TableInv'
    <2>1. /\ p \in Online /\ q \in Online /\ p # q /\ ~Trading(p) /\ ~Trading(q)
          /\ trade' = [trade EXCEPT ![p] = TradeData(q), ![q] = TradeData(p)]
          /\ agreed' = agreed
      BY <1>1 DEF InitiateTrade
    <2>2. ASSUME NEW r \in Player
          PROVE  /\ TradeData(r) \in TradeDatas /\ TradeData(r) # None
                 /\ TradeData(r).trader = r /\ TradeData(r).accepted = FALSE
                 /\ \A s \in TradeSlots : TradeData(r).items[s] = None
      <3>1. [s \in TradeSlots |-> None] \in [TradeSlots -> Item \union {None}]
        OBVIOUS
      <3>2. TradeData(r) \in TradeDatas
        BY <3>1 DEF TradeData, TradeDatas
      <3> QED  BY <3>2, NoneAssumption DEF TradeData
    <2>3. /\ trade' \in [Player -> TradeDatas \union {None}]
          /\ trade'[p] = TradeData(q) /\ trade'[q] = TradeData(p)
          /\ \A r \in Player \ {p, q} : trade'[r] = trade[r]
      BY <2>1, <2>2, <1>t
    <2>4. ASSUME NEW r \in Player, Trading(r)
          PROVE  r \notin {p, q} /\ trade[r].trader \in Player \ {p, q}
      BY <2>1, <2>4, Partners
    <2>5. TableTypes'
      BY <2>1, <2>3, <1>u DEF TableInv, TableTypes
    <2>6. TradesPaired'
      <3> SUFFICES ASSUME NEW r \in Player, Trading(r)'
                   PROVE  (LET t == trade[r].trader
                           IN  t # r /\ Trading(t) /\ trade[t].trader = r /\ r \in Online)'
        BY DEF TradesPaired
      <3>1. CASE r \in {p, q}
        BY <3>1, <2>1, <2>2, <2>3, <1>u DEF Trading, Online
      <3>2. CASE r \notin {p, q}
        BY <3>2, <2>3, <2>4, <1>u DEF TableInv, TradesPaired, Trading, Online
      <3> QED  BY <3>1, <3>2
    <2>7. OfferedOnce'
      <3> SUFFICES ASSUME NEW r \in Player, Trading(r)'  PROVE EachOnce(trade'[r])
        BY DEF OfferedOnce, EachOnce
      <3>1. CASE r \in {p, q}
        <4>1. PICK t \in Player : trade'[r] = TradeData(t)
          BY <3>1, <2>3
        <4>2. \A s \in TradeSlots : TradeData(t).items[s] = None
          BY <2>2
        <4>3. EachOnce(TradeData(t))
          BY <4>2, Zenon DEF EachOnce
        <4> QED  BY <4>1, <4>3
      <3>2. CASE r \notin {p, q}
        BY <3>2, <2>3, <1>t DEF Trading
      <3> QED  BY <3>1, <3>2
    <2>8. AgreedSeen'
      <3> SUFFICES ASSUME NEW r \in Player
                   PROVE  (/\ agreed[r] # None =>
                                 /\ Trading(r)
                                 /\ Seen(agreed[r].mine, r)
                                 /\ Seen(agreed[r].his, trade[r].trader)
                           /\ Trading(r) /\ trade[r].accepted => agreed[r] # None)'
        BY DEF AgreedSeen
      <3>1. CASE r \in {p, q}
        <4>1. agreed[r] = None
          BY <3>1, <2>1 DEF TableInv, AgreedSeen
        <4> QED  BY <3>1, <4>1, <2>1, <2>2, <2>3
      <3>2. CASE r \notin {p, q}
        BY <3>2, <2>1, <2>3, <2>4, <1>u DEF TableInv, AgreedSeen, Trading, Seen
      <3> QED  BY <3>1, <3>2
    <2> QED  BY <2>5, <2>6, <2>7, <2>8 DEF TableInv
  <1>2. ASSUME NEW gold \in Gold, SetTradeGold(p, gold)  PROVE TableInv'
    <2>1. PICK q \in Player :
              /\ q = trade[p].trader /\ Trading(p) /\ Trading(q)
              /\ trade[p] \in TradeDatas /\ trade[q] \in TradeDatas /\ trade[q].trader = p
      BY <1>2, Partners DEF SetTradeGold
    <2> DEFINE mine == [trade[p] EXCEPT !.money = gold]
    <2>2. OfferChanged(p, mine, trade[q])
      BY <1>2, <2>1 DEF SetTradeGold
    <2>3. mine \in TradeDatas /\ mine.trader = q /\ mine.items = trade[p].items
      BY <2>1 DEF TradeDatas
    <2>4. EachOnce(mine) /\ EachOnce(trade[q])
      BY <2>1, <2>3, <1>t DEF EachOnce
    <2> HIDE DEF mine
    <2> QED  BY <2>1, <2>2, <2>3, <2>4, <1>u, OfferChangedTable
  <1>3. ASSUME Trading(p), NEW s \in TradeSlots, NEW i \in Item \union {None},
               i = None \/ \A r \in TradeSlots : trade[p].items[r] # i, SetItem(p, s, i)
        PROVE  TableInv'
    <2>1. PICK q \in Player :
              /\ q = trade[p].trader /\ Trading(p) /\ Trading(q)
              /\ trade[p] \in TradeDatas /\ trade[q] \in TradeDatas /\ trade[q].trader = p
      BY <1>3, Partners
    <2> DEFINE mine == [trade[p] EXCEPT !.items[s] = i, !.spell = FALSE]
               his  == [trade[q] EXCEPT !.spell = @ /\ s # TRADE_SLOT_NONTRADED]
    <2>2. OfferChanged(p, mine, his)
      BY <1>3, <2>1 DEF SetItem
    <2>3. /\ mine \in TradeDatas /\ mine.trader = q
          /\ mine.items = [trade[p].items EXCEPT ![s] = i]
          /\ trade[p].items \in [TradeSlots -> Item \union {None}]
      BY <2>1 DEF TradeDatas
    <2>4. his \in TradeDatas /\ his.trader = p /\ his.items = trade[q].items
      BY <2>1 DEF TradeDatas
    <2>5. EachOnce(his)
      BY <2>1, <2>4, <1>t DEF EachOnce
    <2>6. EachOnce(mine)
      <3> HIDE DEF mine
      <3> QED  BY <2>1, <2>3, <1>3, <1>t DEF EachOnce
    <2> HIDE DEF mine, his
    <2> QED  BY <2>1, <2>2, <2>3, <2>4, <2>5, <2>6, <1>u, OfferChangedTable
  <1>4. ASSUME NEW i \in Item, NEW s \in OfferSlots[i], SetTradeItem(p, s, i)  PROVE TableInv'
    <2>1. s \in TradeSlots
      BY TradeAssumption DEF TradeSlots, TRADE_SLOT_NONTRADED
    <2> QED  BY <2>1, <1>3, <1>4 DEF SetTradeItem
  <1>5. ASSUME NEW s \in TradeSlots, ClearTradeItem(p, s)  PROVE TableInv'
    BY <1>3, <1>5 DEF ClearTradeItem
  <1>6. ASSUME NEW r \in Player, Trading(r), NEW v \in BOOLEAN,
               OfferChanged(r, [trade[r] EXCEPT !.spell = v], trade[trade[r].trader])
        PROVE  TableInv'
    <2>1. PICK q \in Player :
              /\ q = trade[r].trader /\ Trading(q)
              /\ trade[r] \in TradeDatas /\ trade[q] \in TradeDatas /\ trade[q].trader = r
      BY <1>6, Partners
    <2> DEFINE mine == [trade[r] EXCEPT !.spell = v]
    <2>2. mine \in TradeDatas /\ mine.trader = q /\ mine.items = trade[r].items
      BY <2>1 DEF TradeDatas
    <2>3. EachOnce(mine) /\ EachOnce(trade[q])
      BY <2>1, <2>2, <1>6, <1>t DEF EachOnce
    <2>4. OfferChanged(r, mine, trade[q])
      BY <1>6, <2>1
    <2> HIDE DEF mine
    <2> QED  BY <2>1, <2>2, <2>3, <2>4, <1>6, <1>u, OfferChangedTable
  <1>7. ASSUME CastSpell(p)  PROVE TableInv'
    BY <1>6, <1>7 DEF CastSpell
  <1>8. ASSUME CancelTrade(p)  PROVE TableInv'
    <2>1. CASE ~Trading(p)
      <3>1. UNCHANGED tradeVars
        BY <1>8, <2>1 DEF CancelTrade, TradeCancel
      <3> QED  BY <3>1, <1>u, TableKept DEF TableInv, TableTypes, TradesPaired, Online
    <2>2. CASE Trading(p)
      <3>1. /\ trade' = [trade EXCEPT ![p] = None, ![trade[p].trader] = None]
            /\ agreed' = [agreed EXCEPT ![p] = None, ![trade[p].trader] = None]
        BY <1>8, <2>2 DEF CancelTrade, TradeCancel
      <3> QED
        BY <3>1, <2>2, <1>u, TradeEnds DEF TableInv, TableTypes, TradesPaired, Online
    <2> QED  BY <2>1, <2>2
  <1>9. ASSUME Trading(p), NEW q \in Player, q = trade[p].trader,
               trade' \in [Player -> TradeDatas \union {None}], trade'[p] # None, trade'[q] # None,
               \A r \in {p, q} : /\ trade'[r].trader = trade[r].trader
                                 /\ trade'[r].money = trade[r].money
                                 /\ trade'[r].items = trade[r].items,
               \A r \in Player \ {p, q} : trade'[r] = trade[r],
               \/ agreed'[p] = None
               \/ \E refused \in BOOLEAN : agreed'[p] = Agreement(p, q, refused),
               agreed'[q] \in {None, agreed[q]},
               agreed' = [agreed EXCEPT ![p] = agreed'[p], ![q] = agreed'[q]],
               \A r \in {p, q} : trade'[r].accepted => agreed'[r] # None
        PROVE  TableInv'
    <2>1. q # p /\ Trading(q) /\ trade[p].trader = q
      BY <1>9, Partners
    <2>2. agreed'[p] \in Agreements \union {None} /\ agreed'[q] \in Agreements \union {None}
      BY <1>9, <1>t, AgreementSeen
    <2>3. /\ agreed' \in [Player -> Agreements \union {None}]
          /\ \A r \in Player \ {p, q} : agreed'[r] = agreed[r]
      BY <1>9, <1>t, <2>1, <2>2
    <2>4. \A r \in Player : trade'[r] = None <=> trade[r] = None
      BY <1>9, <2>1 DEF Trading
    <2>5. \A r \in Player : Trading(r) =>
               /\ trade'[r].trader = trade[r].trader
               /\ trade'[r].money = trade[r].money
               /\ trade'[r].items = trade[r].items
      BY <1>9
    <2>6. \A r \in Player :
               \/ agreed'[r] \in {None, agreed[r]}
               \/ /\ Trading(r)
                  /\ \E refused \in BOOLEAN :
                        agreed'[r] = Agreement(r, trade[r].trader, refused)
      BY <1>9, <2>1, <2>3
    <2>7. \A r \in Player : Trading(r) /\ trade'[r].accepted => agreed'[r] # None
      <3> SUFFICES ASSUME NEW r \in Player, Trading(r), trade'[r].accepted
                   PROVE  agreed'[r] # None
        OBVIOUS
      <3>1. CASE r \in {p, q}
        BY <3>1, <1>9, <2>3
      <3>2. CASE r \notin {p, q}
        <4>1. trade[r].accepted /\ agreed'[r] = agreed[r]
          BY <3>2, <1>9, <2>3
        <4> QED  BY <4>1 DEF TableInv, AgreedSeen
      <3> QED  BY <3>1, <3>2
    <2> QED  BY <1>9, <2>3, <2>4, <2>5, <2>6, <2>7, <1>u, AcceptanceTable
  <1>10. ASSUME Trading(p), NEW q \in Player, q = trade[p].trader,
                NEW a \in BOOLEAN, NEW b \in BOOLEAN,
                trade' = [trade EXCEPT ![p].accepted = a, ![q].accepted = b],
                \/ agreed'[p] = None
                \/ \E refused \in BOOLEAN : agreed'[p] = Agreement(p, q, refused),
                agreed'[q] \in {None, agreed[q]},
                agreed' = [agreed EXCEPT ![p] = agreed'[p], ![q] = agreed'[q]],
                a => agreed'[p] # None, b => agreed'[q] # None
         PROVE  TableInv'
    <2>1. q # p /\ trade[p] \in TradeDatas /\ trade[q] \in TradeDatas
      BY <1>10, Partners
    <2> DEFINE tp == [trade[p] EXCEPT !.accepted = a]
               tq == [trade[q] EXCEPT !.accepted = b]
    <2>2. /\ tp \in TradeDatas /\ tp.trader = trade[p].trader /\ tp.money = trade[p].money
          /\ tp.items = trade[p].items /\ tp.accepted = a
      BY <2>1 DEF TradeDatas
    <2>3. /\ tq \in TradeDatas /\ tq.trader = trade[q].trader /\ tq.money = trade[q].money
          /\ tq.items = trade[q].items /\ tq.accepted = b
      BY <2>1 DEF TradeDatas
    <2>4. tp # None /\ tq # None
      BY <2>2, <2>3, NoneAssumption
    <2>5. trade' = [trade EXCEPT ![p] = tp, ![q] = tq]
      BY <1>10, <1>t, <2>1
    <2> HIDE DEF tp, tq
    <2>6. /\ trade' \in [Player -> TradeDatas \union {None}]
          /\ trade'[p] = tp /\ trade'[q] = tq
          /\ \A r \in Player \ {p, q} : trade'[r] = trade[r]
      BY <2>1, <2>2, <2>3, <2>5, <1>t
    <2>7. trade'[p] # None /\ trade'[q] # None
      BY <2>4, <2>6
    <2>8. \A r \in {p, q} : /\ trade'[r].trader = trade[r].trader
                            /\ trade'[r].money = trade[r].money
                            /\ trade'[r].items = trade[r].items
      BY <2>2, <2>3, <2>6
    <2>9. \A r \in {p, q} : trade'[r].accepted => agreed'[r] # None
      BY <1>10, <2>2, <2>3, <2>6
    <2> QED  BY <1>9, <1>10, <2>6, <2>7, <2>8, <2>9
  \* Only one side changes: the other keeps what it has.
  <1>11. ASSUME Trading(p), NEW q \in Player, q = trade[p].trader, NEW a \in BOOLEAN,
                trade' = [trade EXCEPT ![p].accepted = a],
                NEW x, x = None \/ \E refused \in BOOLEAN : x = Agreement(p, q, refused),
                agreed' = [agreed EXCEPT ![p] = x],
                a => x # None
         PROVE  TableInv'
    <2>1. q # p /\ trade[p] \in TradeDatas /\ trade[q] \in TradeDatas /\ Trading(q)
      BY <1>11, Partners
    <2> DEFINE b == trade[q].accepted
    <2>2. b \in BOOLEAN /\ (b => agreed[q] # None)
      BY <2>1, <1>11 DEF TradeDatas, TableInv, AgreedSeen
    <2>3. trade' = [trade EXCEPT ![p].accepted = a, ![q].accepted = b]
      <3>1. trade[q] = [trade[q] EXCEPT !.accepted = b]
        BY <2>1 DEF TradeDatas
      <3> QED  BY <3>1, <1>11, <1>t, <2>1
    <2>4. agreed'[p] = x /\ agreed'[q] = agreed[q]
      BY <1>11, <1>t, <2>1
    <2>5. agreed' = [agreed EXCEPT ![p] = agreed'[p], ![q] = agreed'[q]]
      BY <1>11, <1>t, <2>1, <2>4
    <2> HIDE DEF b
    <2> QED  BY <1>10, <1>11, <2>2, <2>3, <2>4, <2>5
  <1>12. ASSUME UnacceptTrade(p)  PROVE TableInv'
    <2>1. PICK q \in Player : q = trade[p].trader /\ Trading(p)
      BY <1>12, Partners DEF UnacceptTrade
    <2> QED  BY <2>1, <1>11, <1>12 DEF UnacceptTrade
  <1>13. ASSUME Trading(p), NEW q \in Player, q = trade[p].trader,
                AcceptRefused(p, q) \/ AcceptFirst(p, q)
         PROVE  TableInv'
    <2>1. PICK refused \in BOOLEAN :
              /\ trade' = [trade EXCEPT ![p].accepted = TRUE]
              /\ agreed' = [agreed EXCEPT ![p] = Agreement(p, q, refused)]
      BY <1>13 DEF AcceptRefused, AcceptFirst
    <2>2. Agreement(p, q, refused) # None
      BY <1>13, AgreementSeen
    <2> QED  BY <2>1, <2>2, <1>11, <1>13
  <1>14. ASSUME Trading(p), NEW q \in Player, q = trade[p].trader, AcceptWithoutRoom(p, q)
         PROVE  TableInv'
    <2>1. /\ trade' = [trade EXCEPT ![p].accepted = FALSE, ![q].accepted = FALSE]
          /\ agreed' = [agreed EXCEPT ![p] = None, ![q] = None]
      BY <1>14 DEF AcceptWithoutRoom
    <2>2. /\ agreed'[p] = None /\ agreed'[q] = None
          /\ agreed' = [agreed EXCEPT ![p] = agreed'[p], ![q] = agreed'[q]]
      BY <1>14, <2>1, <1>t
    <2> QED  BY <2>1, <2>2, <1>10, <1>14
  <1>15. ASSUME Trading(p), NEW q \in Player, q = trade[p].trader, AcceptSpellFails(p, q)
         PROVE  TableInv'
    <2>1. Trading(q) /\ trade[q].trader = p
      BY <1>15, Partners
    <2>2. \/ OfferChanged(p, [trade[p] EXCEPT !.spell = FALSE], trade[q])
          \/ OfferChanged(q, [trade[q] EXCEPT !.spell = FALSE], trade[p])
      BY <1>15 DEF AcceptSpellFails
    <2> QED  BY <2>1, <2>2, <1>6, <1>15
  <1>16. ASSUME Trading(p), NEW q \in Player, q = trade[p].trader, AcceptWithoutMoney(p, q)
         PROVE  TableInv'
    <2> DEFINE poor == WithoutMoney(p, q)
               x == IF poor = p THEN None ELSE Agreement(p, q, FALSE)
               y == IF poor = q THEN None ELSE agreed[q]
               b == trade[q].accepted /\ poor # q
    <2>1. q # p /\ Trading(q) /\ trade[q] \in TradeDatas /\ trade[p] \in TradeDatas
      BY <1>16, Partners
    <2>2. /\ trade' = [trade EXCEPT ![p].accepted = poor # p, ![q].accepted = @ /\ poor # q]
          /\ agreed' = [agreed EXCEPT ![p] = x, ![q] = IF poor = q THEN None ELSE @]
      BY <1>16 DEF AcceptWithoutMoney
    <2> HIDE DEF poor
    <2>3. agreed' = [agreed EXCEPT ![p] = x, ![q] = y]
      BY <2>1, <2>2, <1>t
    <2>4. trade' = [trade EXCEPT ![p].accepted = poor # p, ![q].accepted = b]
      BY <2>1, <2>2, <1>t
    <2>5. (poor # p => x # None) /\ (x = None \/ \E refused \in BOOLEAN : x = Agreement(p, q, refused))
      BY <1>16, AgreementSeen
    <2>6. b => y # None
      BY <2>1 DEF TableInv, AgreedSeen
    <2>7. y \in {None, agreed[q]} /\ b \in BOOLEAN /\ (poor # p) \in BOOLEAN
      OBVIOUS
    <2> HIDE DEF x, y, b
    <2>8. PICK c \in BOOLEAN : c = (poor # p)
      BY <2>7
    <2>9. trade' = [trade EXCEPT ![p].accepted = c, ![q].accepted = b] /\ (c => x # None)
      BY <2>4, <2>5, <2>8
    <2>10. /\ agreed'[p] = x /\ agreed'[q] = y
           /\ agreed' = [agreed EXCEPT ![p] = agreed'[p], ![q] = agreed'[q]]
      BY <1>16, <2>1, <2>3, <1>t
    <2> QED  BY <2>5, <2>6, <2>7, <2>9, <2>10, <1>10, <1>16
  <1>17. TableInv'
    <2>1. ASSUME Trading(p), LET q == trade[p].trader
                             IN  \/ AcceptWithoutMoney(p, q)
                                 \/ AcceptRefused(p, q)
                                 \/ AcceptFirst(p, q)
                                 \/ AcceptSpellFails(p, q)
                                 \/ AcceptWithoutRoom(p, q)
          PROVE  TableInv'
      <3>1. PICK q \in Player : q = trade[p].trader
        BY <2>1, Partners
      <3> QED  BY <2>1, <3>1, <1>13, <1>14, <1>15, <1>16
    <2> QED  BY <2>1, <1>1, <1>2, <1>4, <1>5, <1>7, <1>8, <1>12 DEF TableStep
  <1> QED  BY <1>0, <1>17

-----------------------------------------------------------------------------
(* The rows                                                                *)

\* LastRow and LastGold are the rows after the whole queue.
LEMMA LastRows ==
    RowTypes => /\ Len(dbQueue) \in Nat
                /\ \A i : LastRow(i) = RowAfter(Len(dbQueue), i)
                /\ \A p : LastGold(p) = GoldAfter(Len(dbQueue), p)
  <1> HAVE RowTypes
  <1> DEFINE n == Len(dbQueue)
             W == [m \in 1..n |-> dbQueue[m].inventory]
             G == [m \in 1..n |-> dbQueue[m].gold]
  <1>1. n \in Nat
    BY LenProperties DEF RowTypes
  <1>2. ASSUME NEW i  PROVE LastRow(i) = RowAfter(n, i)
    <2> DEFINE at == {k \in 1..n : i \in DOMAIN dbQueue[k].inventory}
    <2>1. at = {k \in 1..n : i \in DOMAIN W[k]}
      OBVIOUS
    <2>2. at # {} => Max(at) \in 1..n
      <3>1. at \subseteq 1..n /\ at \subseteq 0..n
        BY <1>1
      <3> HIDE DEF at, n
      <3> QED  BY <1>1, <3>1, GreatestNumber
    <2>3. at # {} => W[Max(at)][i] = dbQueue[Max(at)].inventory[i]
      <3> HIDE DEF at
      <3> QED  BY <2>2
    <2>4. LastRow(i) = IF at = {} THEN db.inventory[i] ELSE dbQueue[Max(at)].inventory[i]
      BY DEF LastRow
    <2>5. RowAfter(n, i) = IF at = {} THEN db.inventory[i] ELSE W[Max(at)][i]
      <3>1. RowAfter(n, i) = LastWrite(db.inventory, W, n, i)
        BY DEF RowAfter, RowOf
      <3> HIDE DEF at, W
      <3> QED  BY <2>1, <3>1 DEF LastWrite
    <2> HIDE DEF at, W
    <2> QED  BY <2>3, <2>4, <2>5
  <1>3. ASSUME NEW p  PROVE LastGold(p) = GoldAfter(n, p)
    <2> DEFINE at == {k \in 1..n : p \in DOMAIN dbQueue[k].gold}
    <2>1. at = {k \in 1..n : p \in DOMAIN G[k]}
      OBVIOUS
    <2>2. at # {} => Max(at) \in 1..n
      <3>1. at \subseteq 1..n /\ at \subseteq 0..n
        BY <1>1
      <3> HIDE DEF at, n
      <3> QED  BY <1>1, <3>1, GreatestNumber
    <2>3. at # {} => G[Max(at)][p] = dbQueue[Max(at)].gold[p]
      <3> HIDE DEF at
      <3> QED  BY <2>2
    <2>4. LastGold(p) = IF at = {} THEN db.gold[p] ELSE dbQueue[Max(at)].gold[p]
      BY DEF LastGold
    <2>5. GoldAfter(n, p) = IF at = {} THEN db.gold[p] ELSE G[Max(at)][p]
      <3>1. GoldAfter(n, p) = LastWrite(db.gold, G, n, p)
        BY DEF GoldAfter, GoldOf
      <3> HIDE DEF at, G
      <3> QED  BY <2>1, <3>1 DEF LastWrite
    <2> HIDE DEF at, G
    <2> QED  BY <2>3, <2>4, <2>5
  <1> QED  BY <1>1, <1>2, <1>3

\* The same after a step
LEMMA LastRowsNext ==
    ASSUME RowTypes', NEW n, n = Len(dbQueue')
    PROVE  /\ \A i : LastRow(i)' = RowAfter(n, i)'
           /\ \A p : LastGold(p)' = GoldAfter(n, p)'
  <1>1. (RowTypes => /\ Len(dbQueue) \in Nat
                     /\ \A i : LastRow(i) = RowAfter(Len(dbQueue), i)
                     /\ \A p : LastGold(p) = GoldAfter(Len(dbQueue), p))'
    BY LastRows, PTL
  <1> QED  BY <1>1

\* Nothing of the queue executed: the tables
LEMMA RowNow ==
    /\ \A i : RowAfter(0, i) = db.inventory[i]
    /\ \A p : GoldAfter(0, p) = db.gold[p]
  BY NoWrite DEF RowAfter, GoldAfter, RowOf, GoldOf

\* next is a queue of n operations with one more at its end: the rows up to that one
\* are as before.
OneMore(tables, queue, operation, next, n) ==
    /\ next \in Seq(Operations) /\ Len(next) = n + 1
    /\ next[n + 1] = operation /\ \A k \in 1..n : next[k] = queue[k]
    /\ \A k \in 0..n : \A i : RowOf(tables, next, k, i) = RowOf(tables, queue, k, i)
    /\ \A k \in 0..n : \A p : GoldOf(tables, next, k, p) = GoldOf(tables, queue, k, p)
    /\ \A i : RowOf(tables, next, n + 1, i)
                  = IF i \in DOMAIN operation.inventory
                    THEN operation.inventory[i] ELSE RowOf(tables, queue, n, i)
    /\ \A p : GoldOf(tables, next, n + 1, p)
                  = IF p \in DOMAIN operation.gold
                    THEN operation.gold[p] ELSE GoldOf(tables, queue, n, p)

\* An operation comes to the end of the queue.
LEMMA AppendedTo ==
    ASSUME NEW tables, NEW queue \in Seq(Operations), NEW operation \in Operations,
           NEW n \in Nat, n = Len(queue), NEW next, next = Append(queue, operation)
    PROVE  OneMore(tables, queue, operation, next, n)
  <1>1. /\ next \in Seq(Operations) /\ Len(next) = n + 1
        /\ next[n + 1] = operation /\ \A k \in 1..n : next[k] = queue[k]
    BY AppendLast
  <1> DEFINE W == [m \in 1..n |-> queue[m].inventory]
             V == [m \in 1..(n + 1) |-> next[m].inventory]
             G == [m \in 1..n |-> queue[m].gold]
             H == [m \in 1..(n + 1) |-> next[m].gold]
  <1>2. /\ \A k, i : RowOf(tables, queue, k, i) = LastWrite(tables.inventory, W, k, i)
        /\ \A k, i : RowOf(tables, next, k, i) = LastWrite(tables.inventory, V, k, i)
        /\ \A k, p : GoldOf(tables, queue, k, p) = LastWrite(tables.gold, G, k, p)
        /\ \A k, p : GoldOf(tables, next, k, p) = LastWrite(tables.gold, H, k, p)
    BY <1>1 DEF RowOf, GoldOf
  <1>3. /\ \A k \in 1..n : V[k] = W[k] /\ H[k] = G[k]
        /\ V[n + 1] = operation.inventory /\ H[n + 1] = operation.gold
    BY <1>1
  <1> HIDE DEF W, V, G, H
  <1>4. ASSUME NEW k \in 0..n, NEW x
        PROVE  /\ LastWrite(tables.inventory, V, k, x) = LastWrite(tables.inventory, W, k, x)
               /\ LastWrite(tables.gold, H, k, x) = LastWrite(tables.gold, G, k, x)
    <2>1. k \in Nat /\ \A m \in 1..k : V[m] = W[m] /\ H[m] = G[m]
      BY <1>3
    <2> QED  BY <2>1, LastWritePrefix
  <1>5. ASSUME NEW x
        PROVE  /\ LastWrite(tables.inventory, V, n + 1, x)
                    = IF x \in DOMAIN operation.inventory THEN operation.inventory[x]
                      ELSE LastWrite(tables.inventory, V, n, x)
               /\ LastWrite(tables.gold, H, n + 1, x)
                    = IF x \in DOMAIN operation.gold THEN operation.gold[x]
                      ELSE LastWrite(tables.gold, H, n, x)
    <2>1. n + 1 \in Nat \ {0} /\ (n + 1) - 1 = n
      OBVIOUS
    <2>2. /\ x \in DOMAIN V[n + 1] => LastWrite(tables.inventory, V, n + 1, x) = V[n + 1][x]
          /\ x \in DOMAIN H[n + 1] => LastWrite(tables.gold, H, n + 1, x) = H[n + 1][x]
      BY <2>1, LastWriteHits
    <2>3. /\ x \notin DOMAIN V[n + 1] =>
                 LastWrite(tables.inventory, V, n + 1, x) = LastWrite(tables.inventory, V, n, x)
          /\ x \notin DOMAIN H[n + 1] =>
                 LastWrite(tables.gold, H, n + 1, x) = LastWrite(tables.gold, H, n, x)
      <3>1. PICK k \in Nat \ {0} : k = n + 1 /\ k - 1 = n
        BY <2>1
      <3>2. ASSUME NEW table, NEW w, x \notin DOMAIN w[k]
            PROVE  LastWrite(table, w, k, x) = LastWrite(table, w, n, x)
        BY <3>1, <3>2, LastWriteMisses
      <3> QED  BY <3>1, <3>2
    <2> QED  BY <2>2, <2>3, <1>3
  <1>6. n \in 0..n
    OBVIOUS
  <1> QED  BY <1>1, <1>2, <1>4, <1>5, <1>6 DEF OneMore

LEMMA Appended ==
    ASSUME RowTypes, NEW operation \in Operations, NEW n \in Nat, n = Len(dbQueue),
           dbQueue' = Append(dbQueue, operation), UNCHANGED db
    PROVE  /\ dbQueue' \in Seq(Operations) /\ Len(dbQueue') = n + 1
           /\ dbQueue'[n + 1] = operation /\ \A k \in 1..n : dbQueue'[k] = dbQueue[k]
           /\ \A k \in 0..n : \A i : RowAfter(k, i)' = RowAfter(k, i)
           /\ \A k \in 0..n : \A p : GoldAfter(k, p)' = GoldAfter(k, p)
           /\ \A i : RowAfter(n + 1, i)' = IF i \in DOMAIN operation.inventory
                                           THEN operation.inventory[i] ELSE RowAfter(n, i)
           /\ \A p : GoldAfter(n + 1, p)' = IF p \in DOMAIN operation.gold
                                            THEN operation.gold[p] ELSE GoldAfter(n, p)
  <1>1. PICK next : next = dbQueue'
    OBVIOUS
  <1>2. /\ \A k, i : RowAfter(k, i)' = RowOf(db, next, k, i)
        /\ \A k, p : GoldAfter(k, p)' = GoldOf(db, next, k, p)
        /\ \A k, i : RowAfter(k, i) = RowOf(db, dbQueue, k, i)
        /\ \A k, p : GoldAfter(k, p) = GoldOf(db, dbQueue, k, p)
    BY <1>1 DEF RowAfter, GoldAfter, RowOf, GoldOf
  <1>3. dbQueue \in Seq(Operations) /\ next = Append(dbQueue, operation)
    BY <1>1 DEF RowTypes
  <1>4. OneMore(db, dbQueue, operation, next, n)
    BY <1>3, AppendedTo
  <1> QED  BY <1>1, <1>2, <1>4 DEF OneMore

\* rest is a queue of n operations without its first one, and next the tables with
\* it: the rows that the rest leads to are as before.
OneLess(tables, queue, next, rest, n) ==
    /\ Head(queue) \in Operations /\ Head(queue) = queue[1]
    /\ rest \in Seq(Operations) /\ n # 0 /\ Len(rest) = n - 1
    /\ \A k \in 1..(n - 1) : rest[k] = queue[k + 1]
    /\ \A k \in 0..(n - 1), i \in Item :
           RowOf(next, rest, k, i) = RowOf(tables, queue, k + 1, i)
    /\ \A k \in 0..(n - 1), p \in Player :
           GoldOf(next, rest, k, p) = GoldOf(tables, queue, k + 1, p)

\* The worker executes the first operation.
LEMMA ExecutedFirst ==
    ASSUME NEW tables, NEW queue \in Seq(Operations), queue # <<>>,
           NEW n \in Nat, n = Len(queue), NEW rest, rest = Tail(queue), NEW next,
           \A i \in Item : next.inventory[i] = IF i \in DOMAIN Head(queue).inventory
                                               THEN Head(queue).inventory[i] ELSE tables.inventory[i],
           \A p \in Player : next.gold[p] = IF p \in DOMAIN Head(queue).gold
                                            THEN Head(queue).gold[p] ELSE tables.gold[p]
    PROVE  OneLess(tables, queue, next, rest, n)
  <1>1. /\ Head(queue) \in Operations /\ Head(queue) = queue[1]
        /\ rest \in Seq(Operations) /\ n # 0 /\ Len(rest) = n - 1
        /\ \A k \in 1..(n - 1) : rest[k] = queue[k + 1]
    BY HeadTailProperties, EmptySeq
  <1> DEFINE W == [m \in 1..n |-> queue[m].inventory]
             V == [m \in 1..(n - 1) |-> rest[m].inventory]
             G == [m \in 1..n |-> queue[m].gold]
             H == [m \in 1..(n - 1) |-> rest[m].gold]
  <1>2. /\ \A k, i : RowOf(tables, queue, k, i) = LastWrite(tables.inventory, W, k, i)
        /\ \A k, i : RowOf(next, rest, k, i) = LastWrite(next.inventory, V, k, i)
        /\ \A k, p : GoldOf(tables, queue, k, p) = LastWrite(tables.gold, G, k, p)
        /\ \A k, p : GoldOf(next, rest, k, p) = LastWrite(next.gold, H, k, p)
    BY <1>1 DEF RowOf, GoldOf
  <1>3. /\ \A k \in 1..(n - 1) : V[k] = W[k + 1] /\ H[k] = G[k + 1]
        /\ W[1] = Head(queue).inventory /\ G[1] = Head(queue).gold
    BY <1>1
  <1> HIDE DEF W, V, G, H
  <1>4. ASSUME NEW k \in 0..(n - 1), NEW i \in Item
        PROVE  LastWrite(next.inventory, V, k, i) = LastWrite(tables.inventory, W, k + 1, i)
    <2>1. k \in Nat /\ \A m \in 1..k : V[m] = W[m + 1]
      BY <1>3
    <2>2. next.inventory[i] = IF i \in DOMAIN W[1] THEN W[1][i] ELSE tables.inventory[i]
      BY <1>3
    <2>3. PICK l : l = k + 1
      OBVIOUS
    <2>4. LastWrite(next.inventory, V, k, i) = LastWrite(tables.inventory, W, l, i)
      BY <2>1, <2>2, <2>3, FirstWrite
    <2> QED  BY <2>3, <2>4
  <1>5. ASSUME NEW k \in 0..(n - 1), NEW p \in Player
        PROVE  LastWrite(next.gold, H, k, p) = LastWrite(tables.gold, G, k + 1, p)
    <2>1. k \in Nat /\ \A m \in 1..k : H[m] = G[m + 1]
      BY <1>3
    <2>2. next.gold[p] = IF p \in DOMAIN G[1] THEN G[1][p] ELSE tables.gold[p]
      BY <1>3
    <2>3. PICK l : l = k + 1
      OBVIOUS
    <2>4. LastWrite(next.gold, H, k, p) = LastWrite(tables.gold, G, l, p)
      BY <2>1, <2>2, <2>3, FirstWrite
    <2> QED  BY <2>3, <2>4
  <1> QED  BY <1>1, <1>2, <1>4, <1>5 DEF OneLess

\* What the queue holds, and what its operations write
LEMMA OperationTypes ==
    /\ \A p \in Player :
          /\ [NoRows EXCEPT !.login = p] \in Operations
          /\ [NoRows EXCEPT !.login = p].login = p
          /\ DOMAIN [NoRows EXCEPT !.login = p].gold = {}
          /\ DOMAIN [NoRows EXCEPT !.login = p].inventory = {}
    /\ \A items \in SUBSET Item :
          /\ [NoRows EXCEPT !.inventory = [i \in items |-> None]] \in Operations
          /\ [NoRows EXCEPT !.inventory = [i \in items |-> None]].login = None
          /\ DOMAIN [NoRows EXCEPT !.inventory = [i \in items |-> None]].gold = {}
          /\ [NoRows EXCEPT !.inventory = [i \in items |-> None]].inventory
                 = [i \in items |-> None]
    /\ \A operation \in Operations :
          /\ operation.login \in Player \union {None}
          /\ DOMAIN operation.gold \subseteq Player
          /\ DOMAIN operation.inventory \subseteq Item
          /\ \A p \in DOMAIN operation.gold : operation.gold[p] \in Purses
          /\ \A i \in DOMAIN operation.inventory :
                operation.inventory[i] \in Player \union {None}
  <1>1. \A S, T : <<>> \in Partial(S, T) /\ DOMAIN <<>> = {}
    BY PartialFunctions
  <1>2. ASSUME NEW p \in Player
        PROVE  /\ [NoRows EXCEPT !.login = p] \in Operations
               /\ [NoRows EXCEPT !.login = p].login = p
               /\ DOMAIN [NoRows EXCEPT !.login = p].gold = {}
               /\ DOMAIN [NoRows EXCEPT !.login = p].inventory = {}
    BY <1>1 DEF NoRows, Operations
  <1>3. ASSUME NEW operation \in Operations
        PROVE  /\ operation.login \in Player \union {None}
               /\ DOMAIN operation.gold \subseteq Player
               /\ DOMAIN operation.inventory \subseteq Item
               /\ \A p \in DOMAIN operation.gold : operation.gold[p] \in Purses
               /\ \A i \in DOMAIN operation.inventory :
                     operation.inventory[i] \in Player \union {None}
    <2>1. /\ operation.login \in Player \union {None}
          /\ operation.gold \in Partial(Player, Purses)
          /\ operation.inventory \in Partial(Item, Player \union {None})
      BY DEF Operations
    <2> QED  BY <2>1, PartialFunctions
  <1>4. ASSUME NEW items \in SUBSET Item, NEW rows, rows = [i \in items |-> None]
        PROVE  /\ [NoRows EXCEPT !.inventory = rows] \in Operations
               /\ [NoRows EXCEPT !.inventory = rows].login = None
               /\ DOMAIN [NoRows EXCEPT !.inventory = rows].gold = {}
               /\ [NoRows EXCEPT !.inventory = rows].inventory = rows
    <2>1. rows \in [items -> Player \union {None}]
      BY <1>4
    <2>2. rows \in Partial(Item, Player \union {None})
      BY <2>1, PartialFunctions
    <2> QED  BY <2>2, <1>1 DEF NoRows, Operations
  <1> QED  BY <1>2, <1>3, <1>4

\* The items whose rows a save of some players writes
Written(players, bag, over) == over \union UNION {bag[p] \union removed[p] : p \in players}

\* An operation that writes purses and bags of some players
Writes(t, players, purse, bag, over) ==
    /\ t \in Operations /\ t.login = None
    /\ DOMAIN t.gold = players /\ \A p \in players : t.gold[p] = purse[p]
    /\ DOMAIN t.inventory = Written(players, bag, over)
    /\ \A i \in DOMAIN t.inventory :
          \/ t.inventory[i] = None /\ \A p \in players : i \notin bag[p]
          \/ t.inventory[i] \in players /\ i \in bag[t.inventory[i]]
    /\ \A p \in players : \A i \in bag[p] : t.inventory[i] = p

\* SavedRows is one, if no item is in the bags of two of the players.
LEMMA SavedRowsWrites ==
    ASSUME RowTypes, NEW players \in SUBSET Player, NEW over \in SUBSET Item,
           NEW purse \in [Player -> Purses], NEW bag \in [Player -> SUBSET Item],
           \A p, q \in players : p # q => bag[p] \intersect bag[q] = {}
    PROVE  Writes(SavedRows(players, purse, bag, over), players, purse, bag, over)
  <1> DEFINE held == UNION {bag[p] : p \in players}
             gone == over \union UNION {removed[p] : p \in players}
             own(i) == IF i \in held THEN CHOOSE p \in players : i \in bag[p] ELSE None
             gold == [p \in players |-> purse[p]]
             inventory == [i \in held \union gone |-> own(i)]
             t == [NoRows EXCEPT !.gold = gold, !.inventory = inventory]
  <1>1. t = SavedRows(players, purse, bag, over)
    BY DEF SavedRows
  <1>2. ASSUME NEW i \in held  PROVE own(i) \in players /\ i \in bag[own(i)]
    <2>1. \E p \in players : i \in bag[p]
      OBVIOUS
    <2>2. PICK p : p = CHOOSE r \in players : i \in bag[r]
      OBVIOUS
    <2>3. p \in players /\ i \in bag[p]
      BY <2>1, <2>2, Zenon
    <2> QED  BY <2>2, <2>3
  <1>3. \A i : i \notin held => own(i) = None
    OBVIOUS
  <1>4. \A p \in players : \A i \in bag[p] : own(i) = p
    <2> HIDE DEF own
    <2> QED  BY <1>2
  <1> HIDE DEF own
  <1>5. held \union gone \subseteq Item
    BY DEF RowTypes
  <1>6. \A i \in held \union gone : own(i) \in Player \union {None}
    <2> HIDE DEF held, gone
    <2> QED  BY <1>2, <1>3
  <1>7. /\ gold \in Partial(Player, Purses) /\ DOMAIN gold = players
        /\ \A p \in players : gold[p] = purse[p]
    <2>1. gold \in [players -> Purses]
      OBVIOUS
    <2> QED  BY <2>1, PartialFunctions
  <1>8. /\ inventory \in Partial(Item, Player \union {None})
        /\ DOMAIN inventory = held \union gone
        /\ \A i \in held \union gone : inventory[i] = own(i)
    <2> HIDE DEF held, gone
    <2>1. inventory \in [held \union gone -> Player \union {None}]
      BY <1>6
    <2>2. held \union gone \in SUBSET Item
      BY <1>5
    <2>3. [held \union gone -> Player \union {None}] \subseteq Partial(Item, Player \union {None})
      BY <2>2, PartialFunctions
    <2> QED  BY <2>1, <2>3
  <1> HIDE DEF gold, inventory
  <1>9. t \in Operations /\ t.login = None /\ t.gold = gold /\ t.inventory = inventory
    <2>1. gold \in Partial(Player, Purses) /\ inventory \in Partial(Item, Player \union {None})
      BY <1>7, <1>8
    <2>2. \A S, T : <<>> \in Partial(S, T)
      BY PartialFunctions
    <2> HIDE DEF held, gone
    <2> QED  BY <2>1, <2>2 DEF NoRows, Operations
  <1> HIDE DEF t
  <1>10. held \union gone = Written(players, bag, over)
    BY DEF Written
  <1>11. \A i \in held \union gone : \/ own(i) = None /\ \A p \in players : i \notin bag[p]
                                     \/ own(i) \in players /\ i \in bag[own(i)]
    <2>1. \A i : i \notin held => \A p \in players : i \notin bag[p]
      OBVIOUS
    <2> HIDE DEF held, gone
    <2> QED  BY <2>1, <1>2, <1>3
  <1>12. \A p \in players : \A i \in bag[p] : i \in held \union gone
    OBVIOUS
  <1> HIDE DEF held, gone
  <1>13. DOMAIN t.inventory = Written(players, bag, over)
    BY <1>8, <1>9, <1>10
  <1>14. \A i \in DOMAIN t.inventory :
             \/ t.inventory[i] = None /\ \A p \in players : i \notin bag[p]
             \/ t.inventory[i] \in players /\ i \in bag[t.inventory[i]]
    <2> SUFFICES ASSUME NEW i \in held \union gone
                 PROVE  \/ t.inventory[i] = None /\ \A p \in players : i \notin bag[p]
                        \/ t.inventory[i] \in players /\ i \in bag[t.inventory[i]]
      BY <1>8, <1>9
    <2>1. t.inventory[i] = own(i)
      BY <1>8, <1>9
    <2> QED  BY <2>1, <1>11
  <1>15. \A p \in players : \A i \in bag[p] : t.inventory[i] = p
    BY <1>4, <1>8, <1>9, <1>12
  <1> QED  BY <1>1, <1>7, <1>9, <1>13, <1>14, <1>15 DEF Writes

\* The players have these purses and bags; they are saved, and stay online or log
\* out.  Of what they had, they keep the rows of the items keep, and the rows of all
\* others are written, as those of new items may be.
SaveEffect(players, purse, bag, over, keep) ==
    /\ \A p, q \in players : p # q => bag[p] \intersect bag[q] = {}
    /\ \A p \in players :
          /\ Fits(p, bag[p] \union keep[p])
          /\ bags[p] \union removed[p] \union mislaid[p]
                \subseteq keep[p] \union Written(players, bag, over)
          /\ keep[p] \subseteq bags[p] \union mislaid[p]
          /\ keep[p] \intersect Written(players, bag, over) = {}
    /\ \A i \in Written(players, bag, over) :
          \/ LastRow(i) = None
          \/ \E p \in players : i \in bags[p] \union removed[p] \union mislaid[p]
    /\ CommitTransaction(SavedRows(players, purse, bag, over))
    /\ money' \in [Player -> Purses]
    /\ removed' \in [Player -> SUBSET Item] /\ mislaid' \in [Player -> SUBSET Item]
    /\ \A p \in players :
          \/ /\ state'[p] = "online" /\ money'[p] = purse[p]
             /\ bags'[p] = bag[p] /\ removed'[p] = {} /\ mislaid'[p] = keep[p]
          \/ /\ state'[p] = "offline" /\ money'[p] = 0
             /\ bags'[p] = {} /\ removed'[p] = {} /\ mislaid'[p] = {}
    /\ \A p \in Player \ players :
          /\ state'[p] = state[p] /\ money'[p] = money[p]
          /\ bags'[p] = bags[p] /\ removed'[p] = removed[p] /\ mislaid'[p] = mislaid[p]

\* Some players are saved in one transaction, _SaveInventory and SaveGoldToDB: the
\* rows they own in the end are what they have, whatever the queue held.
LEMMA PlayersSaved ==
    ASSUME RowInv, NEW players \in SUBSET Online,
           NEW purse \in [Player -> Purses], NEW bag \in [Player -> SUBSET Item],
           NEW over \in SUBSET Item, NEW keep, SaveEffect(players, purse, bag, over, keep)
    PROVE  RowInv'
  <1>0. /\ \A p, q \in players : p # q => bag[p] \intersect bag[q] = {}
        /\ \A p \in players :
              /\ Fits(p, bag[p] \union keep[p])
              /\ bags[p] \union removed[p] \union mislaid[p]
                    \subseteq keep[p] \union Written(players, bag, over)
              /\ keep[p] \subseteq bags[p] \union mislaid[p]
              /\ keep[p] \intersect Written(players, bag, over) = {}
        /\ \A i \in Written(players, bag, over) :
              \/ LastRow(i) = None
              \/ \E p \in players : i \in bags[p] \union removed[p] \union mislaid[p]
        /\ CommitTransaction(SavedRows(players, purse, bag, over))
        /\ money' \in [Player -> Purses]
        /\ removed' \in [Player -> SUBSET Item] /\ mislaid' \in [Player -> SUBSET Item]
        /\ \A p \in players :
              \/ /\ state'[p] = "online" /\ money'[p] = purse[p]
                 /\ bags'[p] = bag[p] /\ removed'[p] = {} /\ mislaid'[p] = keep[p]
              \/ /\ state'[p] = "offline" /\ money'[p] = 0
                 /\ bags'[p] = {} /\ removed'[p] = {} /\ mislaid'[p] = {}
        /\ \A p \in Player \ players :
              /\ state'[p] = state[p] /\ money'[p] = money[p]
              /\ bags'[p] = bags[p] /\ removed'[p] = removed[p] /\ mislaid'[p] = mislaid[p]
    BY DEF SaveEffect
  <1>1. PICK n \in Nat : n = Len(dbQueue)
    BY LenProperties DEF RowInv, RowTypes
  <1>2. PICK t : t = SavedRows(players, purse, bag, over)
    OBVIOUS
  <1>p. players \in SUBSET Player /\ RowTypes /\ None \notin Player
    BY TradeAssumption DEF Online, RowInv
  <1>3. /\ t \in Operations /\ t.login = None
        /\ DOMAIN t.gold = players /\ \A p \in players : t.gold[p] = purse[p]
        /\ DOMAIN t.inventory = Written(players, bag, over)
        /\ \A i \in DOMAIN t.inventory :
              \/ t.inventory[i] = None /\ \A p \in players : i \notin bag[p]
              \/ t.inventory[i] \in players /\ i \in bag[t.inventory[i]]
        /\ \A p \in players : \A i \in bag[p] : t.inventory[i] = p
    <2>1. Writes(t, players, purse, bag, over)
      BY <1>0, <1>2, <1>p, SavedRowsWrites
    <2> QED  BY <2>1 DEF Writes
  <1>4. dbQueue' = Append(dbQueue, t) /\ UNCHANGED db
    BY <1>0, <1>2 DEF CommitTransaction, Enqueue
  <1>5. /\ dbQueue' \in Seq(Operations) /\ Len(dbQueue') = n + 1
        /\ dbQueue'[n + 1] = t /\ \A k \in 1..n : dbQueue'[k] = dbQueue[k]
        /\ \A k \in 0..n : \A i : RowAfter(k, i)' = RowAfter(k, i)
        /\ \A k \in 0..n : \A p : GoldAfter(k, p)' = GoldAfter(k, p)
        /\ \A i : RowAfter(n + 1, i)' = IF i \in DOMAIN t.inventory
                                        THEN t.inventory[i] ELSE RowAfter(n, i)
        /\ \A p : GoldAfter(n + 1, p)' = IF p \in DOMAIN t.gold
                                         THEN t.gold[p] ELSE GoldAfter(n, p)
    BY <1>1, <1>3, <1>4, <1>p, Appended
  <1>6. /\ \A i : LastRow(i) = RowAfter(n, i)
        /\ \A p : LastGold(p) = GoldAfter(n, p)
    BY <1>1, <1>p, LastRows
  <1>7. \A p \in players, i \in Item :
            /\ RowAfter(n, i) = p => i \in keep[p] \/ i \in DOMAIN t.inventory
            /\ i \in keep[p] => RowAfter(n, i) = p /\ i \notin DOMAIN t.inventory
    <2>1. \A p \in players :
              bags[p] \union removed[p] \union mislaid[p] = {i \in Item : RowAfter(n, i) = p}
      BY <1>6 DEF RowInv, SavedAsHeld
    <2> TAKE p \in players, i \in Item
    <2>2. RowAfter(n, i) = p <=> i \in bags[p] \union removed[p] \union mislaid[p]
      BY <2>1
    <2>3. /\ bags[p] \union removed[p] \union mislaid[p] \subseteq keep[p] \union DOMAIN t.inventory
          /\ keep[p] \subseteq bags[p] \union mislaid[p]
          /\ keep[p] \intersect DOMAIN t.inventory = {}
      BY <1>0, <1>3
    <2> QED  BY <2>2, <2>3
  <1>w. \A i \in DOMAIN t.inventory : RowAfter(n, i) \in players \union {None}
    <2>1. \A p \in players :
              bags[p] \union removed[p] \union mislaid[p] = {i \in Item : RowAfter(n, i) = p}
      BY <1>6 DEF RowInv, SavedAsHeld
    <2> QED  BY <2>1, <1>0, <1>3, <1>6
  <1>8. ASSUME NEW p \in players
        PROVE  /\ GoldAfter(n + 1, p)' = purse[p]
               /\ Held(n + 1, p)' = bag[p] \union keep[p]
    <2>1. GoldAfter(n + 1, p)' = purse[p]
      BY <1>3, <1>5
    <2>2. /\ bag[p] \subseteq DOMAIN t.inventory /\ bag[p] \subseteq Item
          /\ keep[p] \subseteq Item
      <3>1. bag[p] \subseteq Written(players, bag, over)
        BY DEF Written
      <3>2. bags[p] \union removed[p] \union mislaid[p] \subseteq Item
        BY <1>6, <1>p DEF RowInv, SavedAsHeld
      <3> QED  BY <3>1, <3>2, <1>0, <1>3, <1>p
    <2>3. ASSUME NEW i \in Item  PROVE RowAfter(n + 1, i)' = p <=> i \in bag[p] \union keep[p]
      <3>1. CASE i \in DOMAIN t.inventory
        <4>1. RowAfter(n + 1, i)' = t.inventory[i]
          BY <3>1, <1>5
        <4> QED  BY <4>1, <3>1, <1>3, <1>7, <1>p
      <3>2. CASE i \notin DOMAIN t.inventory
        <4>1. RowAfter(n + 1, i)' = RowAfter(n, i)
          BY <3>2, <1>5
        <4> QED  BY <4>1, <3>2, <2>2, <1>7
      <3> QED  BY <3>1, <3>2
    <2>4. Held(n + 1, p)' = bag[p] \union keep[p]
      BY <2>2, <2>3 DEF Held
    <2> QED  BY <2>1, <2>4
  <1>9. ASSUME NEW p \in Player \ players
        PROVE  /\ GoldAfter(n + 1, p)' = GoldAfter(n, p)
               /\ Held(n + 1, p)' = Held(n, p)
    <2>1. GoldAfter(n + 1, p)' = GoldAfter(n, p)
      BY <1>3, <1>5
    <2>2. ASSUME NEW i \in Item  PROVE RowAfter(n + 1, i)' = p <=> RowAfter(n, i) = p
      <3>1. CASE i \in DOMAIN t.inventory
        <4>1. RowAfter(n + 1, i)' = t.inventory[i]
          BY <3>1, <1>5
        <4>2. t.inventory[i] \in players \union {None}
          BY <3>1, <1>3
        <4> QED  BY <4>1, <4>2, <3>1, <1>w, <1>p
      <3>2. CASE i \notin DOMAIN t.inventory
        BY <3>2, <1>5
      <3> QED  BY <3>1, <3>2
    <2> QED  BY <2>1, <2>2 DEF Held
  <1>10. \A k \in 0..n : \A p : Held(k, p)' = Held(k, p)
    BY <1>5 DEF Held
  <1>11. RowTypes'
    BY <1>0, <1>4, <1>5 DEF RowInv, RowTypes
  <1>12. OfflineEmpty'
    <2> SUFFICES ASSUME NEW p \in Player, state'[p] # "online"
                 PROVE  bags'[p] = {} /\ removed'[p] = {} /\ mislaid'[p] = {} /\ money'[p] = 0
      BY DEF OfflineEmpty, Online
    <2>1. CASE p \in players
      BY <2>1, <1>0
    <2>2. CASE p \notin players
      BY <2>2, <1>0 DEF RowInv, OfflineEmpty, Online
    <2> QED  BY <2>1, <2>2
  <1>13. SavedAsHeld'
    <2>1. /\ \A i : LastRow(i)' = RowAfter(n + 1, i)'
          /\ \A p : LastGold(p)' = GoldAfter(n + 1, p)'
      BY LastRowsNext, <1>5, <1>11
    <2> SUFFICES ASSUME NEW p \in Player, state'[p] = "online"
                 PROVE  /\ money'[p] = GoldAfter(n + 1, p)'
                        /\ bags'[p] \union removed'[p] \union mislaid'[p] = Held(n + 1, p)'
      BY <2>1 DEF SavedAsHeld, Online, Held
    <2>2. CASE p \in players
      BY <2>2, <1>0, <1>8
    <2>3. CASE p \notin players
      <3>1. p \in Online
        BY <2>3, <1>0 DEF Online
      <3>2. money[p] = GoldAfter(n, p) /\ bags[p] \union removed[p] \union mislaid[p] = Held(n, p)
        BY <3>1, <1>6 DEF RowInv, SavedAsHeld, Held
      <3> QED  BY <3>2, <2>3, <1>0, <1>9
    <2> QED  BY <2>2, <2>3
  <1>14. LoginLoadsLast'
    <2> SUFFICES ASSUME NEW k \in 1..(n + 1), dbQueue'[k].login # None,
                        NEW p, p = dbQueue'[k].login
                 PROVE  /\ state'[p] = "login"
                        /\ DOMAIN dbQueue'[k].gold = {} /\ DOMAIN dbQueue'[k].inventory = {}
                        /\ \A m \in 1..(n + 1) : dbQueue'[m].login = p => m = k
                        /\ GoldAfter(k, p)' = GoldAfter(n + 1, p)'
                        /\ Held(k, p)' = Held(n + 1, p)'
      BY <1>5 DEF LoginLoadsLast
    <2>1. k \in 1..n /\ dbQueue'[k] = dbQueue[k] /\ p = dbQueue[k].login
      BY <1>3, <1>5
    <2>2. /\ state[p] = "login"
          /\ DOMAIN dbQueue[k].gold = {} /\ DOMAIN dbQueue[k].inventory = {}
          /\ \A m \in 1..n : dbQueue[m].login = p => m = k
          /\ GoldAfter(k, p) = GoldAfter(n, p)
          /\ Held(k, p) = Held(n, p)
      BY <2>1, <1>1 DEF RowInv, LoginLoadsLast
    <2>3. p \in Player \ players
      <3>1. dbQueue[k] \in Operations
        BY <2>1, <1>1, <1>p, ElementOfSeq DEF RowTypes
      <3>2. p \in Player
        BY <3>1, <2>1, OperationTypes
      <3> QED  BY <3>2, <2>2 DEF Online
    <2>4. \A m \in 1..(n + 1) : dbQueue'[m].login = p => m = k
      BY <2>1, <2>2, <1>3, <1>5
    <2>5. state'[p] = "login"
      BY <2>2, <2>3, <1>0
    <2>6. GoldAfter(k, p)' = GoldAfter(n + 1, p)' /\ Held(k, p)' = Held(n + 1, p)'
      <3>1. k \in 0..n
        BY <2>1
      <3> QED  BY <3>1, <2>2, <2>3, <1>5, <1>9, <1>10
    <2> QED  BY <2>1, <2>2, <2>4, <2>5, <2>6
  <1>15. HeldFits'
    <2> SUFFICES ASSUME NEW k \in 0..(n + 1), NEW p \in Player  PROVE Fits(p, Held(k, p)')
      BY <1>5 DEF HeldFits, Fits
    <2>1. \A m \in 0..n : Fits(p, Held(m, p))
      BY <1>1 DEF RowInv, HeldFits
    <2>2. CASE k \in 0..n
      BY <2>1, <2>2, <1>10
    <2>3. CASE k \notin 0..n
      <3>1. k = n + 1 /\ n \in 0..n
        BY <2>3
      <3>2. CASE p \in players
        BY <3>1, <3>2, <1>0, <1>8
      <3>3. CASE p \notin players
        BY <3>1, <3>3, <1>9, <2>1
      <3> QED  BY <3>2, <3>3
    <2> QED  BY <2>2, <2>3
  <1>16. Apart'
    <2>1. \A p \in players : bag[p] \intersect keep[p] = {}
      <3> TAKE p \in players
      <3>1. bag[p] \subseteq Written(players, bag, over)
        BY DEF Written
      <3>2. keep[p] \intersect Written(players, bag, over) = {}
        BY <1>0
      <3> QED  BY <3>1, <3>2
    <2> SUFFICES ASSUME NEW p \in Player
                 PROVE  /\ bags'[p] \intersect (removed'[p] \union mislaid'[p]) = {}
                        /\ removed'[p] \intersect mislaid'[p] = {}
      BY DEF Apart
    <2>2. CASE p \in players
      BY <2>1, <2>2, <1>0
    <2>3. CASE p \notin players
      BY <2>3, <1>0 DEF RowInv, Apart
    <2> QED  BY <2>2, <2>3
  <1> QED  BY <1>11, <1>12, <1>13, <1>14, <1>15, <1>16 DEF RowInv

\* Part of what fits, fits.
LEMMA FewerFit ==
    ASSUME NEW p \in Player, NEW items \in SUBSET Item, Fits(p, items), NEW fewer \in SUBSET items
    PROVE  Fits(p, fewer)
  <1>1. IsFiniteSet(Item) /\ Capacity[p] \in Nat
    BY TradeAssumption
  <1>2. IsFiniteSet(items)
    BY <1>1, FS_Subset
  <1>3. IsFiniteSet(fewer) /\ Cardinality(fewer) <= Cardinality(items)
    BY <1>2, FS_Subset
  <1>4. Cardinality(fewer) \in Nat /\ Cardinality(items) \in Nat
    BY <1>2, <1>3, FS_CardinalityType
  <1>5. Cardinality(fewer) <= Capacity[p]
    BY <1>1, <1>3, <1>4 DEF Fits
  <1> QED  BY <1>5 DEF Fits

\* Memory follows the rows: what a player has fits, and nobody else has it.
LEMMA BagsHeld ==
    ASSUME TableTypes, RowInv
    PROVE  /\ \A p \in Player : Fits(p, bags[p])
           /\ \A p, q \in Player : p # q =>
                 (bags[p] \union removed[p] \union mislaid[p])
                     \intersect (bags[q] \union removed[q] \union mislaid[q]) = {}
           /\ \A p \in Player : \A i \in bags[p] \union removed[p] \union mislaid[p] :
                 i \in Item /\ LastRow(i) = p
  <1>1. PICK n \in Nat : n = Len(dbQueue)
    BY LenProperties DEF RowInv, RowTypes
  <1>2. ASSUME NEW p \in Player
        PROVE  /\ bags[p] \union removed[p] \union mislaid[p] \subseteq Held(n, p)
               /\ \A i \in bags[p] \union removed[p] \union mislaid[p] :
                     i \in Item /\ LastRow(i) = p
    <2>1. CASE p \in Online
      <3>1. bags[p] \union removed[p] \union mislaid[p] = {i \in Item : LastRow(i) = p}
        BY <2>1 DEF RowInv, SavedAsHeld
      <3>2. \A i : LastRow(i) = RowAfter(n, i)
        BY <1>1, LastRows DEF RowInv
      <3> QED  BY <3>1, <3>2 DEF Held
    <2>2. CASE p \notin Online
      BY <2>2 DEF RowInv, OfflineEmpty
    <2> QED  BY <2>1, <2>2
  <1>3. ASSUME NEW p \in Player  PROVE Fits(p, bags[p])
    <2>1. Fits(p, Held(n, p)) /\ Held(n, p) \in SUBSET Item
      BY <1>1 DEF RowInv, HeldFits, Held
    <2>2. bags[p] \in SUBSET Held(n, p)
      BY <1>2
    <2> QED  BY <2>1, <2>2, FewerFit
  <1>4. \A p, q \in Player : p # q => Held(n, p) \intersect Held(n, q) = {}
    BY DEF Held
  <1>5. ASSUME NEW p \in Player, NEW q \in Player, p # q
        PROVE  (bags[p] \union removed[p] \union mislaid[p])
                   \intersect (bags[q] \union removed[q] \union mislaid[q]) = {}
    <2>1. /\ bags[p] \union removed[p] \union mislaid[p] \subseteq Held(n, p)
          /\ bags[q] \union removed[q] \union mislaid[q] \subseteq Held(n, q)
          /\ Held(n, p) \intersect Held(n, q) = {}
      BY <1>2, <1>4, <1>5
    <2> QED  BY <2>1
  <1> QED  BY <1>2, <1>3, <1>5

\* A guid that may be given to a clone belongs to nobody.
LEMMA UnusedHeld ==
    ASSUME TableTypes, RowInv, NEW i, Unused(i)
    PROVE  /\ LastRow(i) = None
           /\ \A p \in Player : i \notin bags[p] \union removed[p] \union mislaid[p]
  <1>1. LastRow(i) = None
    <2>1. {k \in 1..Len(dbQueue) : i \in DOMAIN dbQueue[k].inventory} = {}
      BY DEF Unused
    <2> QED  BY <2>1 DEF Unused, LastRow
  <1>2. None \notin Player
    BY TradeAssumption
  <1> QED  BY <1>1, <1>2, BagsHeld

\* Rows and players stay as they are; items may be destroyed.
LEMMA RowsKept ==
    ASSUME RowInv, UNCHANGED <<db, dbQueue, state, money>>,
           removed' \in [Player -> SUBSET Item], mislaid' = mislaid, Apart',
           \A p \in Player : bags'[p] \union removed'[p] = bags[p] \union removed[p]
    PROVE  RowInv'
  <1>1. /\ \A k, i : RowAfter(k, i)' = RowAfter(k, i)
        /\ \A k, p : GoldAfter(k, p)' = GoldAfter(k, p)
        /\ \A k, p : Held(k, p)' = Held(k, p)
    BY DEF RowAfter, GoldAfter, RowOf, GoldOf, Held
  <1>2. \A i : LastRow(i)' = LastRow(i) /\ LastGold(i)' = LastGold(i)
    BY DEF LastRow, LastGold
  <1>3. RowTypes'
    BY DEF RowInv, RowTypes
  <1>4. OfflineEmpty'
    <2> SUFFICES ASSUME NEW p \in Player, state[p] # "online"
                 PROVE  bags'[p] = {} /\ removed'[p] = {} /\ mislaid[p] = {} /\ money[p] = 0
      BY DEF OfflineEmpty, Online
    <2>1. bags[p] = {} /\ removed[p] = {} /\ mislaid[p] = {} /\ money[p] = 0
      BY DEF RowInv, OfflineEmpty, Online
    <2> QED  BY <2>1
  <1>5. SavedAsHeld'
    <2> SUFFICES ASSUME NEW p \in Player, state[p] = "online"
                 PROVE  /\ money[p] = LastGold(p)
                        /\ bags'[p] \union removed'[p] \union mislaid[p]
                               = {i \in Item : LastRow(i) = p}
      BY <1>2 DEF SavedAsHeld, Online
    <2> QED  BY DEF RowInv, SavedAsHeld, Online
  <1>6. LoginLoadsLast'
    BY <1>1 DEF RowInv, LoginLoadsLast
  <1>7. HeldFits'
    <2> SUFFICES ASSUME NEW k \in 0..Len(dbQueue), NEW p \in Player  PROVE Fits(p, Held(k, p)')
      BY DEF HeldFits, Fits
    <2> QED  BY <1>1 DEF RowInv, HeldFits
  <1> QED  BY <1>3, <1>4, <1>5, <1>6, <1>7 DEF RowInv

\* The query of a login goes to the end of the queue: it writes nothing, and what
\* it will load is what the operations before it have written.
LEMMA LoginQueued ==
    ASSUME RowInv, NEW p \in Player, HandlePlayerLogin(p),
           state \in [Player -> {"offline", "login", "online"}]
    PROVE  RowInv'
  <1>1. PICK n \in Nat : n = Len(dbQueue)
    BY LenProperties DEF RowInv, RowTypes
  <1>2. PICK t \in Operations : /\ t.login = p /\ DOMAIN t.gold = {} /\ DOMAIN t.inventory = {}
                                /\ dbQueue' = Append(dbQueue, t) /\ UNCHANGED db
    BY OperationTypes, Zenon DEF HandlePlayerLogin, DelayQueryHolder, Enqueue
  <1>3. /\ state[p] = "offline" /\ state' = [state EXCEPT ![p] = "login"]
        /\ UNCHANGED <<money, bags, removed, mislaid>>
    BY DEF HandlePlayerLogin
  <1>p. RowTypes /\ None \notin Player
    BY TradeAssumption DEF RowInv
  <1>5. /\ dbQueue' \in Seq(Operations) /\ Len(dbQueue') = n + 1
        /\ dbQueue'[n + 1] = t /\ \A k \in 1..n : dbQueue'[k] = dbQueue[k]
        /\ \A k \in 0..n : \A i : RowAfter(k, i)' = RowAfter(k, i)
        /\ \A k \in 0..n : \A r : GoldAfter(k, r)' = GoldAfter(k, r)
        /\ \A i : RowAfter(n + 1, i)' = RowAfter(n, i)
        /\ \A r : GoldAfter(n + 1, r)' = GoldAfter(n, r)
    BY <1>1, <1>2, <1>p, Appended
  <1>6. /\ \A k \in 0..n : \A r : Held(k, r)' = Held(k, r)
        /\ \A r : Held(n + 1, r)' = Held(n, r)
    BY <1>5 DEF Held
  <1>7. RowTypes'
    BY <1>2, <1>3, <1>5 DEF RowInv, RowTypes
  <1>8. Online' = Online
    BY <1>3 DEF Online
  <1>9. OfflineEmpty' /\ Apart'
    BY <1>3, <1>8 DEF RowInv, OfflineEmpty, Apart
  <1>10. SavedAsHeld'
    <2>1. /\ \A i : LastRow(i) = RowAfter(n, i)
          /\ \A r : LastGold(r) = GoldAfter(n, r)
      BY <1>1, <1>p, LastRows
    <2>2. /\ \A i : LastRow(i)' = RowAfter(n + 1, i)'
          /\ \A r : LastGold(r)' = GoldAfter(n + 1, r)'
      BY LastRowsNext, <1>5, <1>7
    <2> QED  BY <2>1, <2>2, <1>3, <1>5, <1>8 DEF RowInv, SavedAsHeld
  <1>11. LoginLoadsLast'
    <2> SUFFICES ASSUME NEW k \in 1..(n + 1), dbQueue'[k].login # None,
                        NEW r, r = dbQueue'[k].login
                 PROVE  /\ state'[r] = "login"
                        /\ DOMAIN dbQueue'[k].gold = {} /\ DOMAIN dbQueue'[k].inventory = {}
                        /\ \A m \in 1..(n + 1) : dbQueue'[m].login = r => m = k
                        /\ GoldAfter(k, r)' = GoldAfter(n + 1, r)'
                        /\ Held(k, r)' = Held(n + 1, r)'
      BY <1>5 DEF LoginLoadsLast
    <2>1. ASSUME NEW m \in 1..n, dbQueue[m].login # None  PROVE dbQueue[m].login \in Player \ {p}
      <3>1. dbQueue[m] \in Operations
        BY <1>1, <1>p, ElementOfSeq DEF RowTypes
      <3>2. dbQueue[m].login \in Player
        BY <3>1, <2>1, OperationTypes
      <3>3. state[dbQueue[m].login] = "login"
        BY <2>1, <1>1 DEF RowInv, LoginLoadsLast
      <3> QED  BY <3>2, <3>3, <1>3
    <2>2. CASE k = n + 1
      <3>1. r = p /\ dbQueue'[k] = t
        BY <2>2, <1>2, <1>5
      <3>2. \A m \in 1..(n + 1) : dbQueue'[m].login = r => m = k
        <4>1. \A m \in 1..(n + 1) : m = k \/ (m \in 1..n /\ dbQueue'[m] = dbQueue[m])
          BY <2>2, <1>5
        <4>2. \A m \in 1..n : dbQueue[m].login # p
          BY <2>1, <1>p
        <4> QED  BY <4>1, <4>2, <3>1
      <3> QED  BY <3>1, <3>2, <2>2, <1>2, <1>3
    <2>3. CASE k \in 1..n
      <3>1. dbQueue'[k] = dbQueue[k] /\ r = dbQueue[k].login /\ r \in Player \ {p}
        BY <2>1, <2>3, <1>5
      <3>2. /\ state[r] = "login"
            /\ DOMAIN dbQueue[k].gold = {} /\ DOMAIN dbQueue[k].inventory = {}
            /\ \A m \in 1..n : dbQueue[m].login = r => m = k
            /\ GoldAfter(k, r) = GoldAfter(n, r)
            /\ Held(k, r) = Held(n, r)
        BY <3>1, <2>3, <1>1 DEF RowInv, LoginLoadsLast
      <3>3. \A m \in 1..(n + 1) : dbQueue'[m].login = r => m = k
        BY <3>1, <3>2, <1>2, <1>5
      <3>4. k \in 0..n
        BY <2>3
      <3> QED  BY <3>1, <3>2, <3>3, <3>4, <1>3, <1>5, <1>6
    <2> QED  BY <2>2, <2>3
  <1>12. HeldFits'
    <2> SUFFICES ASSUME NEW k \in 0..(n + 1), NEW r \in Player  PROVE Fits(r, Held(k, r)')
      BY <1>5 DEF HeldFits, Fits
    <2>1. \A m \in 0..n : Fits(r, Held(m, r))
      BY <1>1 DEF RowInv, HeldFits
    <2>2. k \in 0..n \/ (k = n + 1 /\ n \in 0..n)
      OBVIOUS
    <2> QED  BY <2>1, <2>2, <1>6
  <1> QED  BY <1>7, <1>9, <1>10, <1>11, <1>12 DEF RowInv

\* The process dies: the tables are all there is, whichever operations they have.
LEMMA CrashRows ==
    ASSUME RowInv, Crash
    PROVE  RowInv'
  <1>1. PICK n \in Nat : n = Len(dbQueue)
    BY LenProperties DEF RowInv, RowTypes
  <1>2. /\ dbQueue' = <<>> /\ db' = db
        /\ state' = [p \in Player |-> "offline"] /\ money' = [p \in Player |-> 0]
        /\ bags' = [p \in Player |-> {}] /\ removed' = [p \in Player |-> {}]
        /\ mislaid' = [p \in Player |-> {}]
    BY DEF Crash
  <1>3. Online' = {}
    BY <1>2 DEF Online
  <1>4. RowTypes'
    <2>1. 0 \in Purses
      BY TradeAssumption DEF Purses
    <2>2. <<>> \in Seq(Operations)
      OBVIOUS
    <2> QED  BY <1>2, <2>1, <2>2 DEF RowInv, RowTypes
  <1>5. OfflineEmpty' /\ Apart' /\ SavedAsHeld'
    BY <1>2, <1>3 DEF OfflineEmpty, Apart, SavedAsHeld
  <1>6. Len(dbQueue') = 0
    BY <1>2
  <1>7. LoginLoadsLast'
    BY <1>6 DEF LoginLoadsLast
  <1>8. \A p : Held(0, p)' = Held(0, p)
    <2>1. \A i : RowAfter(0, i)' = RowAfter(0, i)
      BY <1>2, NoWrite DEF RowAfter, RowOf
    <2> QED  BY <2>1 DEF Held
  <1>9. HeldFits'
    <2> SUFFICES ASSUME NEW p \in Player  PROVE Fits(p, Held(0, p)')
      BY <1>6 DEF HeldFits, Fits
    <2> QED  BY <1>1, <1>8 DEF RowInv, HeldFits
  <1> QED  BY <1>4, <1>5, <1>7, <1>9 DEF RowInv

\* A login that is answered finds some of the rows; a mail takes the others.
LEMMA InventoryLoaded ==
    ASSUME NEW p \in Player, bags \in [Player -> SUBSET Item], LoadInventory(p)
    PROVE  \E load \in SUBSET {i \in Item : db.inventory[i] = p} :
               /\ bags' = [bags EXCEPT ![p] = load]
               /\ \/ load = {i \in Item : db.inventory[i] = p} /\ dbQueue' = Tail(dbQueue)
                  \/ \E t \in Operations :
                        /\ t.login = None /\ DOMAIN t.gold = {}
                        /\ DOMAIN t.inventory = {i \in Item : db.inventory[i] = p} \ load
                        /\ \A i \in DOMAIN t.inventory : t.inventory[i] = None
                        /\ dbQueue' = Append(Tail(dbQueue), t)
  <1> DEFINE rows == {i \in Item : db.inventory[i] = p}
  <1>1. PICK load \in Loadable(rows) :
            /\ bags' = [bags EXCEPT ![p] = load]
            /\ dbQueue' = IF load = rows THEN Tail(dbQueue)
                          ELSE Append(Tail(dbQueue),
                                  [NoRows EXCEPT !.inventory = [i \in rows \ load |-> None]])
    BY Zenon DEF LoadInventory
  <1>2. load \in SUBSET rows
    BY DEF Loadable
  <1>3. rows \ load \in SUBSET Item
    OBVIOUS
  <1> HIDE DEF rows
  <1>4. PICK t : t = [NoRows EXCEPT !.inventory = [i \in rows \ load |-> None]]
    OBVIOUS
  <1>5. t \in Operations /\ t.login = None /\ DOMAIN t.gold = {}
            /\ t.inventory = [i \in rows \ load |-> None]
    BY <1>3, <1>4, OperationTypes, Zenon
  <1>6. /\ DOMAIN t.inventory = rows \ load
        /\ \A i \in DOMAIN t.inventory : t.inventory[i] = None
    BY <1>5
  <1>7. dbQueue' = IF load = rows THEN Tail(dbQueue) ELSE Append(Tail(dbQueue), t)
    BY <1>1, <1>4
  <1>8. \/ load = rows /\ dbQueue' = Tail(dbQueue)
        \/ \E u \in Operations :
              /\ u.login = None /\ DOMAIN u.gold = {}
              /\ DOMAIN u.inventory = rows \ load
              /\ \A i \in DOMAIN u.inventory : u.inventory[i] = None
              /\ dbQueue' = Append(Tail(dbQueue), u)
    BY <1>5, <1>6, <1>7
  <1>9. /\ bags' = [bags EXCEPT ![p] = load]
    BY <1>1
  <1> QED  BY <1>2, <1>8, <1>9 DEF rows

\* The worker takes the first operation.  A login that is answered finds the rows
\* that are its last ones.
LEMMA ExecuteRows ==
    ASSUME TableTypes, RowInv, Execute
    PROVE  /\ RowInv'
           /\ state' \in [Player -> {"offline", "login", "online"}]
           /\ bags' \in [Player -> SUBSET Item]
           /\ \A r \in Online : bags'[r] = bags[r] /\ state'[r] = "online"
           /\ \A r \in Player \ Online, p \in Online : bags'[r] \intersect bags[p] = {}
           /\ \A k \in 0..Len(dbQueue') : \E m \in 0..Len(dbQueue) :
                 \A r \in Player : GoldAfter(k, r)' = GoldAfter(m, r)
  <1>1. PICK n \in Nat : n = Len(dbQueue)
    BY LenProperties DEF RowInv, RowTypes
  <1>2. dbQueue # <<>>
    BY DEF Execute
  <1>3. PICK t : t = Head(dbQueue) /\ t = dbQueue[1] /\ t \in Operations /\ n # 0
    BY <1>1, <1>2, HeadTailProperties, EmptySeq DEF RowInv, RowTypes
  <1>4. PICK p : p = t.login
    OBVIOUS
  <1>s. p \in Player \union {None} /\ RowTypes /\ None \notin Player /\ 1 \in 1..n
    BY <1>3, <1>4, OperationTypes, TradeAssumption DEF RowInv
  <1>5. \/ /\ p = None /\ db' = ExecuteTransaction(t) /\ dbQueue' = Tail(dbQueue)
           /\ UNCHANGED playerVars
        \/ /\ p \in Player
           /\ state' = [state EXCEPT ![p] = "online"]
           /\ money' = [money EXCEPT ![p] = db.gold[p]]
           /\ LoadInventory(p)
           /\ UNCHANGED <<db, removed, mislaid, bound>>
    BY <1>3, <1>4, <1>s DEF Execute
  \* What the login knows of its rows
  <1>6. p \in Player =>
            /\ state[p] = "login" /\ DOMAIN t.gold = {} /\ DOMAIN t.inventory = {}
            /\ \A m \in 1..n : dbQueue[m].login = p => m = 1
            /\ GoldAfter(1, p) = GoldAfter(n, p)
            /\ Held(1, p) = Held(n, p)
    BY <1>1, <1>3, <1>4, <1>s DEF RowInv, LoginLoadsLast
  <1>7. /\ db'.gold \in [Player -> Purses]
        /\ db'.inventory \in [Item -> Player \union {None}]
        /\ \A i \in Item : db'.inventory[i] = IF i \in DOMAIN t.inventory
                                              THEN t.inventory[i] ELSE db.inventory[i]
        /\ \A r \in Player : db'.gold[r] = IF r \in DOMAIN t.gold
                                           THEN t.gold[r] ELSE db.gold[r]
    <2>1. /\ \A r \in DOMAIN t.gold : t.gold[r] \in Purses
          /\ \A i \in DOMAIN t.inventory : t.inventory[i] \in Player \union {None}
      BY <1>3, OperationTypes
    <2>2. /\ db.gold \in [Player -> Purses]
          /\ db.inventory \in [Item -> Player \union {None}]
      BY <1>s DEF RowTypes
    <2>3. CASE p = None
      <3>1. /\ db'.gold = [r \in Player |-> IF r \in DOMAIN t.gold THEN t.gold[r] ELSE db.gold[r]]
            /\ db'.inventory = [i \in Item |-> IF i \in DOMAIN t.inventory
                                               THEN t.inventory[i] ELSE db.inventory[i]]
        BY <2>2, <2>3, <1>5, <1>s DEF ExecuteTransaction, Override
      <3> QED  BY <3>1, <2>1, <2>2
    <2>4. CASE p # None
      BY <2>2, <2>4, <1>5, <1>6
    <2> QED  BY <2>3, <2>4
  <1>8. PICK rest : rest = Tail(dbQueue)
    OBVIOUS
  <1>9. PICK next : next = db'
    OBVIOUS
  <1>10. OneLess(db, dbQueue, next, rest, n)
    <2>1. dbQueue \in Seq(Operations)
      BY <1>s DEF RowTypes
    <2> QED  BY <2>1, <1>1, <1>2, <1>3, <1>7, <1>8, <1>9, ExecutedFirst
  <1>11. /\ rest \in Seq(Operations) /\ n - 1 \in Nat /\ Len(rest) = n - 1
         /\ \A k \in 1..(n - 1) : rest[k] = dbQueue[k + 1]
         /\ \A k \in 0..(n - 1), i \in Item : RowOf(next, rest, k, i) = RowAfter(k + 1, i)
         /\ \A k \in 0..(n - 1), r \in Player : GoldOf(next, rest, k, r) = GoldAfter(k + 1, r)
    BY <1>3, <1>10 DEF OneLess, RowAfter, GoldAfter
  <1>12. /\ n - 1 \in 0..(n - 1) /\ (n - 1) + 1 = n /\ 0 \in 0..(n - 1) /\ 0 + 1 = 1
    BY <1>3
  <1>13. /\ \A i \in Item : RowOf(next, rest, n - 1, i) = RowAfter(n, i)
         /\ \A r \in Player : GoldOf(next, rest, n - 1, r) = GoldAfter(n, r)
    BY <1>11, <1>12
  \* What a login finds are the last rows.
  <1>14. p \in Player => db.gold[p] = GoldAfter(n, p)
                            /\ {i \in Item : db.inventory[i] = p} = Held(n, p)
    <2> SUFFICES ASSUME p \in Player
                 PROVE  db.gold[p] = GoldAfter(n, p)
                            /\ {i \in Item : db.inventory[i] = p} = Held(n, p)
      OBVIOUS
    <2>1. next = db
      BY <1>5, <1>9, <1>s
    <2>2. /\ \A i : RowOf(next, rest, 0, i) = next.inventory[i]
          /\ \A r : GoldOf(next, rest, 0, r) = next.gold[r]
      BY NoWrite DEF RowOf, GoldOf
    <2>3. /\ \A i \in Item : RowAfter(1, i) = db.inventory[i]
          /\ GoldAfter(1, p) = db.gold[p]
      BY <2>1, <2>2, <1>11, <1>12
    <2>4. Held(1, p) = {i \in Item : db.inventory[i] = p}
      BY <2>3 DEF Held
    <2> QED  BY <2>3, <2>4, <1>6
  <1>15. /\ \A k, i : RowAfter(k, i)' = RowOf(next, dbQueue', k, i)
         /\ \A k, r : GoldAfter(k, r)' = GoldOf(next, dbQueue', k, r)
    BY <1>9 DEF RowAfter, GoldAfter
  <1>16. bags \in [Player -> SUBSET Item]
    BY DEF TableTypes
  \* The queue has lost its first operation, and may have got a mail.
  <1>17. \E l \in Nat :
            /\ l = Len(dbQueue') /\ (l = n - 1 \/ l = n) /\ dbQueue' \in Seq(Operations)
            /\ l = n => dbQueue'[l].login = None
            /\ \A k \in 1..(n - 1) : dbQueue'[k] = dbQueue[k + 1]
            /\ \A k \in 0..(n - 1), i \in Item : RowAfter(k, i)' = RowAfter(k + 1, i)
            /\ \A k \in 0..(n - 1), r \in Player : GoldAfter(k, r)' = GoldAfter(k + 1, r)
            /\ \A r \in Player : GoldAfter(l, r)' = GoldAfter(n, r)
            /\ \A r \in Player \ {p} : Held(l, r)' = Held(n, r) /\ bags'[r] = bags[r]
            /\ p \in Player => Held(l, p)' = bags'[p] /\ bags'[p] \subseteq Held(n, p)
            /\ bags' \in [Player -> SUBSET Item]
    <2>1. CASE /\ dbQueue' = rest
               /\ \/ p = None /\ bags' = bags
                  \/ p \in Player /\ bags' = [bags EXCEPT ![p] = Held(n, p)]
      <3>1. \A r : Held(n - 1, r)' = Held(n, r)
        BY <2>1, <1>13, <1>15 DEF Held
      <3>2. Held(n, p) \subseteq Item
        BY DEF Held
      <3>3. n - 1 = Len(dbQueue') /\ n - 1 # n
        BY <2>1, <1>11
      <3>4. /\ \A r \in Player \ {p} : bags'[r] = bags[r]
            /\ p \in Player => bags'[p] = Held(n, p)
            /\ bags' \in [Player -> SUBSET Item]
        BY <2>1, <3>2, <1>16, <1>s
      <3>5. /\ \A k \in 1..(n - 1) : dbQueue'[k] = dbQueue[k + 1]
            /\ \A k \in 0..(n - 1), i \in Item : RowAfter(k, i)' = RowAfter(k + 1, i)
            /\ \A k \in 0..(n - 1), r \in Player : GoldAfter(k, r)' = GoldAfter(k + 1, r)
            /\ \A r \in Player : GoldAfter(n - 1, r)' = GoldAfter(n, r)
            /\ dbQueue' \in Seq(Operations)
        BY <2>1, <1>11, <1>13, <1>15
      <3> WITNESS n - 1 \in Nat
      <3> QED  BY <3>1, <3>3, <3>4, <3>5
    <2>2. ASSUME p \in Player, NEW load \in SUBSET Held(n, p), NEW u \in Operations,
                 bags' = [bags EXCEPT ![p] = load],
                 u.login = None, DOMAIN u.gold = {}, DOMAIN u.inventory = Held(n, p) \ load,
                 \A i \in DOMAIN u.inventory : u.inventory[i] = None,
                 dbQueue' = Append(rest, u)
          PROVE  /\ n = Len(dbQueue') /\ dbQueue' \in Seq(Operations)
                 /\ dbQueue'[n].login = None
                 /\ \A k \in 1..(n - 1) : dbQueue'[k] = dbQueue[k + 1]
                 /\ \A k \in 0..(n - 1), i \in Item : RowAfter(k, i)' = RowAfter(k + 1, i)
                 /\ \A k \in 0..(n - 1), r \in Player : GoldAfter(k, r)' = GoldAfter(k + 1, r)
                 /\ \A r \in Player : GoldAfter(n, r)' = GoldAfter(n, r)
                 /\ \A r \in Player \ {p} : Held(n, r)' = Held(n, r) /\ bags'[r] = bags[r]
                 /\ Held(n, p)' = bags'[p] /\ bags'[p] \subseteq Held(n, p)
                 /\ bags' \in [Player -> SUBSET Item]
      <3>1. PICK queue : queue = dbQueue'
        OBVIOUS
      <3>2. PICK l \in Nat : l = n - 1 /\ l = Len(rest)
        BY <1>11
      <3>3. OneMore(next, rest, u, queue, l)
        BY <2>2, <3>1, <3>2, <1>11, AppendedTo
      <3>4. /\ queue \in Seq(Operations) /\ Len(queue) = l + 1
            /\ queue[l + 1] = u /\ \A k \in 1..l : queue[k] = rest[k]
            /\ \A k \in 0..l : \A i : RowOf(next, queue, k, i) = RowOf(next, rest, k, i)
            /\ \A k \in 0..l : \A r : GoldOf(next, queue, k, r) = GoldOf(next, rest, k, r)
            /\ \A i : RowOf(next, queue, l + 1, i)
                          = IF i \in DOMAIN u.inventory
                            THEN u.inventory[i] ELSE RowOf(next, rest, l, i)
            /\ \A r : GoldOf(next, queue, l + 1, r)
                          = IF r \in DOMAIN u.gold
                            THEN u.gold[r] ELSE GoldOf(next, rest, l, r)
        BY <3>3 DEF OneMore
      <3>5. l + 1 = n
        BY <3>2
      <3>6. /\ \A i \in Item : RowAfter(n, i)' = IF i \in Held(n, p) \ load
                                                THEN None ELSE RowAfter(n, i)
            /\ \A r \in Player : GoldAfter(n, r)' = GoldAfter(n, r)
        BY <2>2, <3>1, <3>2, <3>4, <3>5, <1>13, <1>15
      <3>7. /\ \A k \in 0..(n - 1), i \in Item : RowAfter(k, i)' = RowAfter(k + 1, i)
            /\ \A k \in 0..(n - 1), r \in Player : GoldAfter(k, r)' = GoldAfter(k + 1, r)
            /\ \A k \in 1..(n - 1) : dbQueue'[k] = dbQueue[k + 1]
        BY <3>1, <3>2, <3>4, <1>11, <1>15
      <3>8. ASSUME NEW r \in Player \ {p}  PROVE Held(n, r)' = Held(n, r)
        <4>1. \A i \in Item : RowAfter(n, i)' = r <=> RowAfter(n, i) = r
          BY <3>6, <1>s DEF Held
        <4> QED  BY <4>1 DEF Held
      <3>9. Held(n, p)' = load
        <4>1. \A i \in Item : RowAfter(n, i)' = p <=> i \in load
          BY <2>2, <3>6, <1>s DEF Held
        <4>2. load \subseteq Item
          BY DEF Held
        <4> QED  BY <4>1, <4>2 DEF Held
      <3>10. load \subseteq Item
        BY DEF Held
      <3>11. /\ bags'[p] = load /\ \A r \in Player \ {p} : bags'[r] = bags[r]
             /\ bags' \in [Player -> SUBSET Item]
        BY <2>2, <3>10, <1>16
      <3>12. n = Len(dbQueue') /\ dbQueue' \in Seq(Operations) /\ dbQueue'[n].login = None
        BY <2>2, <3>1, <3>4, <3>5
      <3> QED  BY <3>6, <3>7, <3>8, <3>9, <3>11, <3>12
    <2>3. CASE p = None
      <3>1. dbQueue' = rest /\ bags' = bags
        BY <2>3, <1>5, <1>8, <1>s DEF playerVars
      <3> QED  BY <2>1, <2>3, <3>1
    <2>4. CASE p \in Player
      <3>1. PICK load \in SUBSET {i \in Item : db.inventory[i] = p} :
               /\ bags' = [bags EXCEPT ![p] = load]
               /\ \/ load = {i \in Item : db.inventory[i] = p} /\ dbQueue' = Tail(dbQueue)
                  \/ \E u \in Operations :
                        /\ u.login = None /\ DOMAIN u.gold = {}
                        /\ DOMAIN u.inventory = {i \in Item : db.inventory[i] = p} \ load
                        /\ \A i \in DOMAIN u.inventory : u.inventory[i] = None
                        /\ dbQueue' = Append(Tail(dbQueue), u)
        <4>1. LoadInventory(p)
          BY <2>4, <1>5, <1>s
        <4> QED  BY <4>1, <2>4, <1>16, InventoryLoaded
      <3>2. /\ load \in SUBSET Held(n, p) /\ bags' = [bags EXCEPT ![p] = load]
            /\ \/ load = Held(n, p) /\ dbQueue' = rest
               \/ \E u \in Operations :
                     /\ u.login = None /\ DOMAIN u.gold = {}
                     /\ DOMAIN u.inventory = Held(n, p) \ load
                     /\ \A i \in DOMAIN u.inventory : u.inventory[i] = None
                     /\ dbQueue' = Append(rest, u)
        BY <2>4, <3>1, <1>8, <1>14
      <3>3. CASE load = Held(n, p) /\ dbQueue' = rest
        BY <2>1, <2>4, <3>2, <3>3
      <3>4. CASE \E u \in Operations :
                     /\ u.login = None /\ DOMAIN u.gold = {}
                     /\ DOMAIN u.inventory = Held(n, p) \ load
                     /\ \A i \in DOMAIN u.inventory : u.inventory[i] = None
                     /\ dbQueue' = Append(rest, u)
        <4>1. PICK u \in Operations :
                     /\ u.login = None /\ DOMAIN u.gold = {}
                     /\ DOMAIN u.inventory = Held(n, p) \ load
                     /\ \A i \in DOMAIN u.inventory : u.inventory[i] = None
                     /\ dbQueue' = Append(rest, u)
          BY <3>4
        <4>2. /\ n = Len(dbQueue') /\ dbQueue' \in Seq(Operations)
              /\ dbQueue'[n].login = None
              /\ \A k \in 1..(n - 1) : dbQueue'[k] = dbQueue[k + 1]
              /\ \A k \in 0..(n - 1), i \in Item : RowAfter(k, i)' = RowAfter(k + 1, i)
              /\ \A k \in 0..(n - 1), r \in Player : GoldAfter(k, r)' = GoldAfter(k + 1, r)
              /\ \A r \in Player : GoldAfter(n, r)' = GoldAfter(n, r)
              /\ \A r \in Player \ {p} : Held(n, r)' = Held(n, r) /\ bags'[r] = bags[r]
              /\ Held(n, p)' = bags'[p] /\ bags'[p] \subseteq Held(n, p)
              /\ bags' \in [Player -> SUBSET Item]
          BY <2>2, <2>4, <3>2, <4>1
        <4> WITNESS n \in Nat
        <4> QED  BY <4>2
      <3> QED  BY <3>2, <3>3, <3>4
    <2> QED  BY <2>3, <2>4, <1>s
  <1>18. PICK l \in Nat :
            /\ l = Len(dbQueue') /\ (l = n - 1 \/ l = n) /\ dbQueue' \in Seq(Operations)
            /\ l = n => dbQueue'[l].login = None
            /\ \A k \in 1..(n - 1) : dbQueue'[k] = dbQueue[k + 1]
            /\ \A k \in 0..(n - 1), i \in Item : RowAfter(k, i)' = RowAfter(k + 1, i)
            /\ \A k \in 0..(n - 1), r \in Player : GoldAfter(k, r)' = GoldAfter(k + 1, r)
            /\ \A r \in Player : GoldAfter(l, r)' = GoldAfter(n, r)
            /\ \A r \in Player \ {p} : Held(l, r)' = Held(n, r) /\ bags'[r] = bags[r]
            /\ p \in Player => Held(l, p)' = bags'[p] /\ bags'[p] \subseteq Held(n, p)
            /\ bags' \in [Player -> SUBSET Item]
    BY <1>17
  <1>19. \A k \in 0..(n - 1) : \A r : Held(k, r)' = Held(k + 1, r)
    BY <1>18 DEF Held
  <1>20. /\ money \in [Player -> Purses] /\ db.gold \in [Player -> Purses]
         /\ state \in [Player -> {"offline", "login", "online"}]
         /\ removed \in [Player -> SUBSET Item] /\ mislaid \in [Player -> SUBSET Item]
    BY <1>s DEF RowTypes, TableTypes
  <1>21. /\ state' \in [Player -> {"offline", "login", "online"}]
         /\ money' \in [Player -> Purses]
         /\ removed' = removed /\ mislaid' = mislaid
         /\ \A r \in Player \ {p} : state'[r] = state[r] /\ money'[r] = money[r]
         /\ p \in Player => state'[p] = "online" /\ money'[p] = GoldAfter(n, p)
    <2>1. CASE p = None
      BY <2>1, <1>5, <1>20, <1>s DEF playerVars
    <2>2. CASE p # None
      BY <2>2, <1>5, <1>14, <1>20, <1>s
    <2> QED  BY <2>1, <2>2
  <1>22. p \in Player => removed[p] = {} /\ mislaid[p] = {}
    BY <1>6 DEF RowInv, OfflineEmpty, Online
  <1>23. RowTypes'
    BY <1>7, <1>18, <1>20, <1>21 DEF RowTypes
  <1>24. OfflineEmpty'
    <2> SUFFICES ASSUME NEW r \in Player, state'[r] # "online"
                 PROVE  /\ bags'[r] = {} /\ removed'[r] = {}
                        /\ mislaid'[r] = {} /\ money'[r] = 0
      BY DEF OfflineEmpty, Online
    <2>1. r # p
      BY <1>21
    <2>2. /\ bags'[r] = bags[r] /\ state'[r] = state[r] /\ money'[r] = money[r]
          /\ removed'[r] = removed[r] /\ mislaid'[r] = mislaid[r]
      BY <2>1, <1>18, <1>21
    <2> QED  BY <2>2 DEF RowInv, OfflineEmpty, Online
  <1>25. Apart'
    <2> SUFFICES ASSUME NEW r \in Player
                 PROVE  /\ bags'[r] \intersect (removed'[r] \union mislaid'[r]) = {}
                        /\ removed'[r] \intersect mislaid'[r] = {}
      BY DEF Apart
    <2>1. CASE r = p
      BY <2>1, <1>21, <1>22
    <2>2. CASE r # p
      BY <2>2, <1>18, <1>21 DEF RowInv, Apart
    <2> QED  BY <2>1, <2>2
  <1>26. SavedAsHeld'
    <2>1. /\ \A i : LastRow(i) = RowAfter(n, i)
          /\ \A r : LastGold(r) = GoldAfter(n, r)
      BY <1>1, <1>s, LastRows
    <2>2. /\ \A i : LastRow(i)' = RowAfter(l, i)'
          /\ \A r : LastGold(r)' = GoldAfter(l, r)'
      BY LastRowsNext, <1>18, <1>23
    <2> SUFFICES ASSUME NEW r \in Player, state'[r] = "online"
                 PROVE  /\ money'[r] = GoldAfter(n, r)
                        /\ bags'[r] \union removed'[r] \union mislaid'[r] = Held(l, r)'
      BY <2>2, <1>18 DEF SavedAsHeld, Online, Held
    <2>3. CASE r = p
      BY <2>3, <1>18, <1>21, <1>22
    <2>4. CASE r # p
      <3>1. /\ r \in Online /\ bags'[r] = bags[r] /\ money'[r] = money[r]
            /\ removed'[r] = removed[r] /\ mislaid'[r] = mislaid[r]
            /\ Held(l, r)' = Held(n, r)
        BY <2>4, <1>18, <1>21 DEF Online
      <3>2. money[r] = GoldAfter(n, r) /\ bags[r] \union removed[r] \union mislaid[r] = Held(n, r)
        BY <3>1, <2>1 DEF RowInv, SavedAsHeld, Held
      <3> QED  BY <3>1, <3>2
    <2> QED  BY <2>3, <2>4
  <1>27. LoginLoadsLast'
    <2> SUFFICES ASSUME NEW k \in 1..l, dbQueue'[k].login # None,
                        NEW r, r = dbQueue'[k].login
                 PROVE  /\ state'[r] = "login"
                        /\ DOMAIN dbQueue'[k].gold = {} /\ DOMAIN dbQueue'[k].inventory = {}
                        /\ \A m \in 1..l : dbQueue'[m].login = r => m = k
                        /\ GoldAfter(k, r)' = GoldAfter(l, r)'
                        /\ Held(k, r)' = Held(l, r)'
      BY <1>18 DEF LoginLoadsLast
    <2>0. k \in 1..(n - 1) /\ k \in 0..(n - 1)
      BY <1>18
    <2>1. PICK j \in 1..n : j = k + 1 /\ j # 1 /\ dbQueue'[k] = dbQueue[j] /\ r = dbQueue[j].login
      BY <2>0, <1>18
    <2>2. r \in Player
      <3>1. dbQueue[j] \in Operations
        BY <2>1, <1>1, <1>s, ElementOfSeq DEF RowTypes
      <3> QED  BY <3>1, <2>1, OperationTypes
    <2>3. /\ state[r] = "login"
          /\ DOMAIN dbQueue[j].gold = {} /\ DOMAIN dbQueue[j].inventory = {}
          /\ \A m \in 1..n : dbQueue[m].login = r => m = j
          /\ GoldAfter(j, r) = GoldAfter(n, r)
          /\ Held(j, r) = Held(n, r)
      BY <2>1, <1>1 DEF RowInv, LoginLoadsLast
    <2>4. r # p
      BY <2>1, <2>2, <2>3, <1>6
    <2>5. ASSUME NEW m \in 1..l, dbQueue'[m].login = r  PROVE m = k
      <3>0. m \in 1..(n - 1)
        BY <2>2, <2>5, <1>18, <1>s
      <3>1. m + 1 \in 1..n /\ dbQueue[m + 1].login = r
        BY <2>5, <3>0, <1>18
      <3>2. m + 1 = j
        BY <3>1, <2>3
      <3> QED  BY <3>2, <2>1
    <2>6. GoldAfter(k, r)' = GoldAfter(j, r) /\ Held(k, r)' = Held(j, r)
      BY <2>0, <2>1, <2>2, <1>18, <1>19
    <2>7. GoldAfter(l, r)' = GoldAfter(n, r) /\ Held(l, r)' = Held(n, r) /\ state'[r] = state[r]
      BY <2>2, <2>4, <1>18, <1>21
    <2> QED  BY <2>1, <2>3, <2>5, <2>6, <2>7
  <1>28. HeldFits'
    <2> SUFFICES ASSUME NEW k \in 0..l, NEW r \in Player  PROVE Fits(r, Held(k, r)')
      BY <1>18 DEF HeldFits, Fits
    <2>1. \A m \in 0..n : Fits(r, Held(m, r))
      BY <1>1 DEF RowInv, HeldFits
    <2>2. CASE k \in 0..(n - 1)
      <3>1. k + 1 \in 0..n
        BY <2>2
      <3> QED  BY <2>1, <2>2, <3>1, <1>19
    <2>3. CASE k \notin 0..(n - 1)
      <3>1. k = l /\ n \in 0..n
        BY <2>3, <1>18
      <3>2. Held(l, r)' \in SUBSET Held(n, r) /\ Held(n, r) \in SUBSET Item
        <4>1. Held(n, r) \in SUBSET Item
          BY DEF Held
        <4> QED  BY <4>1, <1>18
      <3> QED  BY <3>1, <3>2, <2>1, FewerFit
    <2> QED  BY <2>2, <2>3
  <1>29. RowInv'
    BY <1>23, <1>24, <1>25, <1>26, <1>27, <1>28 DEF RowInv
  <1>30. \A r \in Online : bags'[r] = bags[r] /\ state'[r] = "online"
    BY <1>6, <1>18, <1>21 DEF Online
  <1>31. \A r \in Player \ Online, q \in Online : bags'[r] \intersect bags[q] = {}
    <2> SUFFICES ASSUME NEW r \in Player \ Online, NEW i \in bags'[r],
                        NEW q \in Online, i \in bags[q]
                 PROVE  FALSE
      OBVIOUS
    <2>1. r = p
      BY <1>18 DEF RowInv, OfflineEmpty
    <2>2. i \in Held(n, p) /\ p # q
      BY <2>1, <1>18
    <2>3. i \in Item /\ LastRow(i) = q
      BY BagsHeld DEF Online
    <2>4. LastRow(i) = RowAfter(n, i)
      BY <1>1, <1>s, LastRows
    <2> QED  BY <2>2, <2>3, <2>4 DEF Held
  <1>32. ASSUME NEW k \in 0..l
         PROVE  \E m \in 0..n : \A r \in Player : GoldAfter(k, r)' = GoldAfter(m, r)
    <2>1. CASE k \in 0..(n - 1)
      <3>1. k + 1 \in 0..n /\ \A r \in Player : GoldAfter(k, r)' = GoldAfter(k + 1, r)
        BY <2>1, <1>18
      <3> QED  BY <3>1
    <2>2. CASE k \notin 0..(n - 1)
      <3>1. k = l /\ n \in 0..n
        BY <2>2, <1>18
      <3> QED  BY <3>1, <1>18
    <2> QED  BY <2>1, <2>2
  <1> QED  BY <1>1, <1>18, <1>21, <1>29, <1>30, <1>31, <1>32

-----------------------------------------------------------------------------
(* The exchange                                                            *)

\* The checks of HandleAcceptTradeOpcode make ModifyMoney exact.
LEMMA ExactMoney ==
    ASSUME NEW mine \in Purses, NEW give \in Nat, NEW take \in Nat,
           ~(mine < give), ~(mine >= MAX_MONEY_AMOUNT - take)
    PROVE  /\ Gain(take, Loss(give, mine)) = mine - give + take
           /\ mine - give + take \in Purses
  <1>1. MAX_MONEY_AMOUNT \in Nat
    BY TradeAssumption
  <1>2. mine \in 0..MAX_MONEY_AMOUNT
    BY DEF Purses
  <1>3. Loss(give, mine) = mine - give
    BY <1>2 DEF Loss
  <1>4. Gain(take, mine - give) = mine - give + take
    BY <1>1, <1>2 DEF Gain
  <1> QED  BY <1>1, <1>2, <1>3, <1>4 DEF Purses

\* A new clone of an item that p gives
NewClone(p, i) == Unused(i) /\ \E j \in Given(p) : i = Copy[j] /\ i # None

\* What p may find in his bags after an exchange with q
Gets(p, q, bag) ==
    /\ bags[p] \ Given(p) \subseteq bag /\ bag \subseteq Item
    /\ \A i \in bag : i \in bags[p] \/ i \in Given(q) \/ NewClone(p, i)

\* The bags of the two sides after an exchange
LEMMA ExchangedBags ==
    ASSUME TradeInv, NEW p \in Player, Trading(p), NEW q, q = trade[p].trader,
           CompleteTrade(p, q)
    PROVE  /\ bags' \in [Player -> SUBSET Item]
           /\ \A r \in Player \ {p, q} : bags'[r] = bags[r]
           /\ Gets(p, q, bags'[p]) /\ Gets(q, p, bags'[q])
           /\ bags'[p] \intersect bags'[q] = {}
           /\ AllowedTogether(p, q) /\ AllowedTogether(q, p) =>
                 /\ bags'[p] = (bags[p] \ Given(p)) \union Given(q)
                 /\ bags'[q] = (bags[q] \ Given(q)) \union Given(p)
  <1>1. /\ q \in Player /\ q # p /\ Trading(q)
    BY Partners DEF TradeInv
  <1>2. TableTypes /\ OfferedOnce /\ RowInv /\ bags \in [Player -> SUBSET Item]
    BY DEF TradeInv, TableInv, TableTypes
  <1>3. bags[p] \intersect bags[q] = {}
    BY <1>1, <1>2, BagsHeld
  <1>4. Given(p) \subseteq bags[p] /\ Given(q) \subseteq bags[q]
    BY <1>1, <1>2, GivenHeld
  <1>5. PICK moved : moved = moveItems(p, q)
    OBVIOUS
  <1>6. /\ bags' = [bags EXCEPT ![p] = moved.mine, ![q] = moved.his]
        /\ \A i \in moved.cloned : Copy[i] # None /\ Unused(Copy[i])
        /\ RoomForBoth(p, q)
    BY <1>5 DEF CompleteTrade
  <1>7. /\ moved.cloned \subseteq Given(p) \union Given(q)
        /\ Bounded(p, moved.mine, Given(p) \union Given(q), moved.cloned)
        /\ Bounded(q, moved.his, Given(p) \union Given(q), moved.cloned)
        /\ Separate(moved.mine, moved.his, moved.cloned)
    BY <1>1, <1>2, <1>3, <1>5, MoveItemsBounds
  <1>8. Gets(p, q, moved.mine)
    <2>1. /\ bags[p] \ Given(p) \subseteq moved.mine /\ moved.mine \subseteq Item
          /\ \A i \in moved.mine : \/ i \in bags[p] \ Given(p)
                                   \/ i \in Given(p) \union Given(q)
                                   \/ i \in ClonesOf(moved.cloned \intersect Given(p))
      BY <1>7 DEF Bounded
    <2>2. ASSUME NEW i \in ClonesOf(moved.cloned \intersect Given(p))  PROVE NewClone(p, i)
      BY <1>6 DEF ClonesOf, NewClone
    <2> QED  BY <2>1, <2>2, <1>4 DEF Gets
  <1>9. Gets(q, p, moved.his)
    <2>1. /\ bags[q] \ Given(q) \subseteq moved.his /\ moved.his \subseteq Item
          /\ \A i \in moved.his : \/ i \in bags[q] \ Given(q)
                                  \/ i \in Given(p) \union Given(q)
                                  \/ i \in ClonesOf(moved.cloned \intersect Given(q))
      BY <1>7 DEF Bounded
    <2>2. ASSUME NEW i \in ClonesOf(moved.cloned \intersect Given(q))  PROVE NewClone(q, i)
      BY <1>6 DEF ClonesOf, NewClone
    <2> QED  BY <2>1, <2>2, <1>4 DEF Gets
  <1>10. moved.mine \subseteq Item /\ moved.his \subseteq Item
    BY <1>8, <1>9 DEF Gets
  <1>11. /\ bags' \in [Player -> SUBSET Item]
         /\ bags'[p] = moved.mine /\ bags'[q] = moved.his
         /\ \A r \in Player \ {p, q} : bags'[r] = bags[r]
    BY <1>1, <1>2, <1>6, <1>10
  <1>12. ASSUME NEW i \in moved.mine \intersect moved.his  PROVE FALSE
    <2>1. Unused(i)
      BY <1>6, <1>7 DEF Separate, ClonesOf
    <2>2. i \notin bags[p] /\ i \notin bags[q]
      BY <2>1, <1>1, <1>2, UnusedHeld
    <2>3. NewClone(p, i) /\ NewClone(q, i)
      BY <2>2, <1>4, <1>8, <1>9 DEF Gets
    <2>4. PICK j \in Given(p) : i = Copy[j] /\ i # None
      BY <2>3 DEF NewClone
    <2>5. PICK k \in Given(q) : i = Copy[k]
      BY <2>3 DEF NewClone
    <2>6. j \in Item /\ k \in Item
      BY <1>1, <1>2, <1>4
    <2>7. j = k
      BY <2>4, <2>5, <2>6, TradeAssumption
    <2> QED  BY <2>4, <2>5, <2>7, <1>3, <1>4
  <1>13. ASSUME AllowedTogether(p, q), AllowedTogether(q, p)
         PROVE  /\ bags'[p] = (bags[p] \ Given(p)) \union Given(q)
                /\ bags'[q] = (bags[q] \ Given(q)) \union Given(p)
    <2>1. moved = [mine |-> (bags[p] \ Given(p)) \union Given(q),
                   his  |-> (bags[q] \ Given(q)) \union Given(p),
                   cloned |-> {}]
      BY <1>1, <1>2, <1>3, <1>5, <1>6, <1>13, MoveItemsMoves
    <2>2. /\ moved.mine = (bags[p] \ Given(p)) \union Given(q)
          /\ moved.his = (bags[q] \ Given(q)) \union Given(p)
      BY <2>1
    <2> QED  BY <2>2, <1>11
  <1> QED  BY <1>8, <1>9, <1>11, <1>12, <1>13

\* The money of the two sides after an exchange
LEMMA ExchangedMoney ==
    ASSUME TradeInv, NEW p \in Player, Trading(p), NEW q, q = trade[p].trader,
           CompleteTrade(p, q)
    PROVE  /\ money' = [money EXCEPT ![p] = money[p] - trade[p].money + trade[q].money,
                                     ![q] = money[q] - trade[q].money + trade[p].money]
           /\ money' \in [Player -> Purses]
  <1>1. /\ q \in Player /\ q # p /\ trade[p] \in TradeDatas /\ trade[q] \in TradeDatas
    BY Partners DEF TradeInv
  <1>2. money \in [Player -> Purses]
    BY DEF TradeInv, RowInv, RowTypes
  <1>10. /\ trade[p].money \in Nat /\ trade[q].money \in Nat
         /\ money[p] \in Purses /\ money[q] \in Purses
    <2>1. trade[p].money \in Gold \union {0} /\ trade[q].money \in Gold \union {0}
      BY <1>1 DEF TradeDatas
    <2>2. \A amount \in Gold \union {0} : amount \in Nat
      BY TradeAssumption
    <2>3. trade[p].money \in Nat /\ trade[q].money \in Nat
      BY <2>1, <2>2, Zenon
    <2> QED  BY <2>3, <1>1, <1>2
  <1>11. /\ ~(money[p] < trade[p].money) /\ ~(money[q] < trade[q].money)
         /\ ~(money[p] >= MAX_MONEY_AMOUNT - trade[q].money)
         /\ ~(money[q] >= MAX_MONEY_AMOUNT - trade[p].money)
    <2>1. WithoutMoney(p, q) = None
      BY DEF CompleteTrade, AcceptSecond
    <2>2. None \notin Player
      BY TradeAssumption
    <2>3. p # None /\ q # None
      BY <2>2, <1>1
    <2> QED  BY <2>1, <2>3 DEF WithoutMoney
  <1>12. /\ Gain(trade[q].money, Loss(trade[p].money, money[p]))
                = money[p] - trade[p].money + trade[q].money
         /\ money[p] - trade[p].money + trade[q].money \in Purses
         /\ Gain(trade[p].money, Loss(trade[q].money, money[q]))
                = money[q] - trade[q].money + trade[p].money
         /\ money[q] - trade[q].money + trade[p].money \in Purses
    BY <1>10, <1>11, ExactMoney
  <1>13. money' = [money EXCEPT ![p] = money[p] - trade[p].money + trade[q].money,
                                ![q] = money[q] - trade[q].money + trade[p].money]
    <2>1. money' = [money EXCEPT
                       ![p] = Gain(trade[q].money, Loss(trade[p].money, money[p])),
                       ![q] = Gain(trade[p].money, Loss(trade[q].money, money[q]))]
      BY <1>1, <1>2 DEF CompleteTrade
    <2> QED  BY <2>1, <1>12
  <1>14. money' \in [Player -> Purses]
    BY <1>1, <1>2, <1>12, <1>13
  <1> QED  BY <1>13, <1>14

\* What the save of an exchange does: items that nobody has got lose their rows, or
\* keep them until they do.
LEMMA TradersSaved ==
    ASSUME NEW p, NEW q, CompleteTrade(p, q)
    PROVE  LET stored == bags'[p] \union bags'[q]
               lost == [mislaid EXCEPT ![p] = @ \union (Given(p) \ stored),
                                       ![q] = @ \union (Given(q) \ stored)]
           IN  p \in Player /\ q \in Player /\ bags \in [Player -> SUBSET Item] /\ p # q =>
                   SaveInventoryAndGoldToDB({p, q}, money', bags', lost)
  <1> SUFFICES ASSUME p \in Player, q \in Player, bags \in [Player -> SUBSET Item], p # q
               PROVE  SaveInventoryAndGoldToDB({p, q}, money', bags',
                          [mislaid EXCEPT
                              ![p] = @ \union (Given(p) \ (bags'[p] \union bags'[q])),
                              ![q] = @ \union (Given(q) \ (bags'[p] \union bags'[q]))])
    OBVIOUS
  <1>1. PICK moved : moved = moveItems(p, q)
    OBVIOUS
  <1>2. /\ bags' = [bags EXCEPT ![p] = moved.mine, ![q] = moved.his]
        /\ SaveTraders(p, q, money', bags',
               [mislaid EXCEPT ![p] = @ \union (Given(p) \ (moved.mine \union moved.his)),
                               ![q] = @ \union (Given(q) \ (moved.mine \union moved.his))])
    BY <1>1, Zenon DEF CompleteTrade
  <1>3. moved.mine = bags'[p] /\ moved.his = bags'[q]
    BY <1>2
  <1> QED  BY <1>2, <1>3, Zenon DEF SaveTraders

\* The exchange and its transaction keep the invariant.
LEMMA CompleteTradeKeeps ==
    ASSUME TradeInv, NEW p \in Player, Trading(p), NEW q, q = trade[p].trader,
           CompleteTrade(p, q)
    PROVE  TableInv' /\ RowInv'
  <1>1. /\ q \in Player /\ q # p /\ p \in Online /\ q \in Online /\ Trading(q)
    BY Partners DEF TradeInv
  <1>2. /\ TableInv /\ TableTypes /\ RowInv
        /\ bags \in [Player -> SUBSET Item]
        /\ state \in [Player -> {"offline", "login", "online"}]
        /\ removed \in [Player -> SUBSET Item] /\ mislaid \in [Player -> SUBSET Item]
    BY DEF TradeInv, TableInv, TableTypes, RowInv, RowTypes
  <1>3. /\ trade' = [trade EXCEPT ![p] = None, ![q] = None]
        /\ agreed' = [agreed EXCEPT ![p] = None, ![q] = None]
        /\ state' = state
    BY DEF CompleteTrade
  <1>4. /\ bags' \in [Player -> SUBSET Item]
        /\ \A r \in Player \ {p, q} : bags'[r] = bags[r]
        /\ Gets(p, q, bags'[p]) /\ Gets(q, p, bags'[q])
        /\ bags'[p] \intersect bags'[q] = {}
    BY ExchangedBags
  <1>5. /\ money' \in [Player -> Purses]
        /\ \A r \in Player \ {p, q} : money'[r] = money[r]
    <2>1. money \in [Player -> Purses]
      BY <1>2 DEF RowInv, RowTypes
    <2>2. money' = [money EXCEPT ![p] = money[p] - trade[p].money + trade[q].money,
                                 ![q] = money[q] - trade[q].money + trade[p].money]
      BY ExchangedMoney
    <2>3. \A r \in Player \ {p, q} : money'[r] = money[r]
      BY <2>1, <2>2
    <2> QED  BY <2>3, ExchangedMoney
  <1>6. TableInv'
    <2>1. \A r \in Player \ {p, trade[p].trader} :
              Trading(r) => bags'[r] \subseteq bags[r] /\ state'[r] = "online"
      BY <1>2, <1>3, <1>4 DEF TableInv, TradesPaired, Online
    <2>2. state' \in [Player -> {"offline", "login", "online"}]
      BY <1>2, <1>3
    <2> QED  BY <2>1, <2>2, <1>2, <1>3, <1>4, TradeEnds
  <1>7. PICK lost : /\ lost \in [Player -> SUBSET Item]
                    /\ lost[p] = mislaid[p] \union (Given(p) \ (bags'[p] \union bags'[q]))
                    /\ lost[q] = mislaid[q] \union (Given(q) \ (bags'[p] \union bags'[q]))
                    /\ SaveInventoryAndGoldToDB({p, q}, money', bags', lost)
    <2> DEFINE losses == [mislaid EXCEPT
                              ![p] = @ \union (Given(p) \ (bags'[p] \union bags'[q])),
                              ![q] = @ \union (Given(q) \ (bags'[p] \union bags'[q]))]
    <2>1. SaveInventoryAndGoldToDB({p, q}, money', bags', losses)
      BY <1>1, <1>2, TradersSaved
    <2>2. Given(p) \subseteq Item /\ Given(q) \subseteq Item
      BY <1>1, <1>2, GivenHeld
    <2>3. /\ losses \in [Player -> SUBSET Item]
          /\ losses[p] = mislaid[p] \union (Given(p) \ (bags'[p] \union bags'[q]))
          /\ losses[q] = mislaid[q] \union (Given(q) \ (bags'[p] \union bags'[q]))
      BY <2>2, <1>1, <1>2
    <2> HIDE DEF losses
    <2> QED  BY <2>1, <2>3
  <1>8. PICK players : players = {p, q}
    OBVIOUS
  <1>9. PICK purse : purse = money'
    OBVIOUS
  <1>10. PICK bag : bag = bags'
    OBVIOUS
  <1>11. PICK over \in SUBSET (UNION {lost[r] : r \in players}) :
            /\ \A r \in players : Cardinality(bag[r] \union (lost[r] \ over)) <= Capacity[r]
            /\ CommitTransaction(SavedRows(players, purse, bag, over))
            /\ removed' = [r \in Player |-> IF r \in players THEN {} ELSE removed[r]]
            /\ mislaid' = [r \in Player |-> IF r \in players THEN lost[r] \ over ELSE mislaid[r]]
    <2>1. SaveInventoryAndGoldToDB(players, purse, bag, lost)
      BY <1>7, <1>8, <1>9, <1>10
    <2> QED  BY <2>1, Zenon DEF SaveInventoryAndGoldToDB
  <1>12. PICK keep : keep = [r \in Player |-> lost[r] \ over]
    OBVIOUS
  <1>13. /\ players \in SUBSET Online /\ players \subseteq Player
         /\ purse \in [Player -> Purses] /\ bag \in [Player -> SUBSET Item]
         /\ over \subseteq lost[p] \union lost[q] /\ over \in SUBSET Item
    BY <1>1, <1>4, <1>5, <1>7, <1>8, <1>9, <1>10, <1>11
  \* Where everything was and is
  <1>14. /\ Given(p) \subseteq bags[p] /\ Given(q) \subseteq bags[q]
         /\ bags[p] \intersect (removed[p] \union mislaid[p]) = {}
         /\ bags[q] \intersect (removed[q] \union mislaid[q]) = {}
         /\ removed[p] \intersect mislaid[p] = {} /\ removed[q] \intersect mislaid[q] = {}
         /\ (bags[p] \union removed[p] \union mislaid[p])
                \intersect (bags[q] \union removed[q] \union mislaid[q]) = {}
    BY <1>1, <1>2, GivenHeld, BagsHeld DEF RowInv, Apart
  <1>15. ASSUME NEW i \in bag[p] \union bag[q]
         PROVE  \/ i \in bags[p] \union bags[q]
                \/ /\ LastRow(i) = None
                   /\ i \notin bags[p] \union removed[p] \union mislaid[p]
                   /\ i \notin bags[q] \union removed[q] \union mislaid[q]
    <2>1. i \in bags[p] \union bags[q] \/ Unused(i)
      BY <1>4, <1>10, <1>14 DEF Gets, NewClone
    <2> QED  BY <2>1, <1>1, <1>2, UnusedHeld
  <1>16. PICK written : /\ written = Written(players, bag, over)
                        /\ written = over \union bag[p] \union removed[p]
                                         \union bag[q] \union removed[q]
    <2>1. UNION {bag[r] \union removed[r] : r \in {p, q}}
              = bag[p] \union removed[p] \union bag[q] \union removed[q]
      OBVIOUS
    <2> QED  BY <2>1, <1>8 DEF Written
  <1>17. /\ keep[p] = lost[p] \ over /\ keep[q] = lost[q] \ over
         /\ lost[p] = mislaid[p] \union (Given(p) \ (bag[p] \union bag[q]))
         /\ lost[q] = mislaid[q] \union (Given(q) \ (bag[p] \union bag[q]))
         /\ bags[p] \ Given(p) \subseteq bag[p] /\ bags[q] \ Given(q) \subseteq bag[q]
    BY <1>1, <1>4, <1>7, <1>10, <1>12 DEF Gets
  <1>18. /\ mislaid[p] \intersect (bag[p] \union bag[q]) = {}
         /\ mislaid[q] \intersect (bag[p] \union bag[q]) = {}
    BY <1>14, <1>15
  <1>19. /\ bags[p] \union removed[p] \union mislaid[p] \subseteq keep[p] \union written
         /\ bags[q] \union removed[q] \union mislaid[q] \subseteq keep[q] \union written
    BY <1>16, <1>17
  <1>20. /\ keep[p] \subseteq bags[p] \union mislaid[p]
         /\ keep[q] \subseteq bags[q] \union mislaid[q]
    BY <1>14, <1>17
  <1>21. keep[p] \intersect written = {} /\ keep[q] \intersect written = {}
    <2>1. /\ keep[p] \intersect over = {} /\ keep[q] \intersect over = {}
          /\ keep[p] \intersect (bag[p] \union bag[q]) = {}
          /\ keep[q] \intersect (bag[p] \union bag[q]) = {}
      BY <1>17, <1>18
    <2>2. /\ keep[p] \intersect (removed[p] \union removed[q]) = {}
          /\ keep[q] \intersect (removed[p] \union removed[q]) = {}
      BY <1>14, <1>20
    <2> QED  BY <2>1, <2>2, <1>16
  <1>22. ASSUME NEW i \in written
         PROVE  \/ LastRow(i) = None
                \/ i \in bags[p] \union removed[p] \union mislaid[p]
                \/ i \in bags[q] \union removed[q] \union mislaid[q]
    BY <1>13, <1>14, <1>15, <1>16, <1>17
  <1>23. SaveEffect(players, purse, bag, over, keep)
    <2>1. \A r, t \in players : r # t => bag[r] \intersect bag[t] = {}
      BY <1>4, <1>8, <1>10
    <2>2. \A r \in players :
             /\ Fits(r, bag[r] \union keep[r])
             /\ bags[r] \union removed[r] \union mislaid[r] \subseteq keep[r] \union written
             /\ keep[r] \subseteq bags[r] \union mislaid[r]
             /\ keep[r] \intersect written = {}
      <3>1. \A r \in players : Fits(r, bag[r] \union keep[r])
        BY <1>8, <1>11, <1>17 DEF Fits
      <3> QED  BY <3>1, <1>8, <1>19, <1>20, <1>21
    <2>3. \A i \in written :
             \/ LastRow(i) = None
             \/ \E r \in players : i \in bags[r] \union removed[r] \union mislaid[r]
      BY <1>8, <1>22
    <2>4. /\ removed' \in [Player -> SUBSET Item] /\ mislaid' \in [Player -> SUBSET Item]
      BY <1>2, <1>7, <1>11
    <2>5. \A r \in players :
             /\ state'[r] = "online" /\ money'[r] = purse[r]
             /\ bags'[r] = bag[r] /\ removed'[r] = {} /\ mislaid'[r] = keep[r]
      BY <1>1, <1>3, <1>9, <1>10, <1>11, <1>12, <1>13 DEF Online
    <2>6. \A r \in Player \ players :
             /\ state'[r] = state[r] /\ money'[r] = money[r]
             /\ bags'[r] = bags[r] /\ removed'[r] = removed[r] /\ mislaid'[r] = mislaid[r]
      BY <1>3, <1>4, <1>5, <1>8, <1>11
    <2> QED  BY <2>1, <2>2, <2>3, <2>4, <2>5, <2>6, <1>5, <1>11, <1>16 DEF SaveEffect
  <1>24. RowInv'
    BY <1>2, <1>13, <1>23, PlayersSaved
  <1> QED  BY <1>6, <1>24

-----------------------------------------------------------------------------
(* The invariant holds                                                     *)

LEMMA TradeInit == Init => TradeInv
  <1> SUFFICES ASSUME Init  PROVE TradeInv
    OBVIOUS
  <1>t. /\ None \notin Player /\ 0 \in Purses /\ MaxCrashes \in Nat
        /\ StartMoney \in [Player -> Purses] /\ StartOwner \in [Item -> Player \union {None}]
        /\ Soulbound \intersect Copies \subseteq Soulbound
    BY TradeAssumption DEF Purses
  <1>i. /\ db = [gold |-> StartMoney, inventory |-> StartOwner, mail |-> <<>>,
                 auctionhouse |-> <<>>, fees |-> 0]
        /\ dbQueue = <<>> /\ state = [p \in Player |-> "offline"]
        /\ money = [p \in Player |-> 0] /\ bags = [p \in Player |-> {}]
        /\ removed = [p \in Player |-> {}] /\ mislaid = [p \in Player |-> {}]
        /\ bound = Soulbound \intersect Copies
        /\ trade = [p \in Player |-> None] /\ agreed = [p \in Player |-> None]
        /\ crashes = 0
    BY DEF Init
  <1>1. Online = {} /\ Len(dbQueue) = 0
    BY <1>i DEF Online
  <1>2. TableTypes
    BY <1>i DEF TableTypes
  <1>3. TradesPaired /\ OfferedOnce /\ AgreedSeen
    BY <1>i DEF TradesPaired, OfferedOnce, AgreedSeen, Trading
  <1>4. RowTypes
    <2>1. <<>> \in Seq(Operations)
      OBVIOUS
    <2> QED  BY <2>1, <1>i, <1>t DEF RowTypes
  <1>5. OfflineEmpty /\ Apart /\ SavedAsHeld /\ LoginLoadsLast
    BY <1>i, <1>1 DEF OfflineEmpty, Apart, SavedAsHeld, LoginLoadsLast
  <1>6. HeldFits
    <2>0. \A k \in 0..Len(dbQueue) : k = 0
      BY <1>1
    <2> SUFFICES ASSUME NEW p \in Player  PROVE Fits(p, Held(0, p))
      BY <2>0, Zenon DEF HeldFits
    <2>1. Held(0, p) = {i \in Item : StartOwner[i] = p}
      <3>1. db.inventory = StartOwner
        BY <1>i
      <3>2. \A i : RowAfter(0, i) = StartOwner[i]
        BY <3>1, RowNow
      <3> QED  BY <3>2 DEF Held
    <2>2. Cardinality({i \in Item : StartOwner[i] = p}) <= Capacity[p]
      BY TradeAssumption
    <2> QED  BY <2>1, <2>2 DEF Fits
  <1> QED  BY <1>i, <1>t, <1>2, <1>3, <1>4, <1>5, <1>6 DEF TradeInv, TableInv, RowInv

\* The steps of Next, sorted by what they touch
LEMMA Steps ==
    ASSUME Next
    PROVE  \/ \E p \in Player : TableStep(p)
           \/ \E p \in Player : Trading(p) /\ CompleteTrade(p, trade[p].trader)
           \/ \E p \in Player, i \in Item : DestroyItem(p, i)
           \/ \E p \in Player : Save(p)
           \/ \E p \in Player : LogoutPlayer(p)
           \/ \E p \in Player : HandlePlayerLogin(p)
           \/ \E i \in Item : ClearSoulboundTradeable(i)
           \/ Execute
           \/ Crash
  BY DEF Next, TableStep, AcceptTrade

LEMMA TradeStep == TradeInv /\ [Next]_vars => TradeInv'
  <1> SUFFICES ASSUME TradeInv, [Next]_vars  PROVE TradeInv'
    OBVIOUS
  <1>t. /\ TableInv /\ TableTypes /\ TradesPaired /\ RowInv
        /\ bags \in [Player -> SUBSET Item] /\ removed \in [Player -> SUBSET Item]
        /\ mislaid \in [Player -> SUBSET Item] /\ Apart
        /\ money \in [Player -> Purses]
        /\ state \in [Player -> {"offline", "login", "online"}]
        /\ bound \subseteq Soulbound /\ crashes \in 0..MaxCrashes
    BY DEF TradeInv, TableInv, TableTypes, RowInv, RowTypes
  <1>o. \A r \in Player : Trading(r) => state[r] = "online"
    BY <1>t DEF TradesPaired, Online
  <1>f. 0 \in Purses
    BY TradeAssumption DEF Purses
  <1>1. ASSUME NEW p \in Player, TableStep(p)  PROVE TradeInv'
    <2>1. TableInv' /\ UNCHANGED <<db, dbQueue, playerVars, crashes>>
      BY <1>1, <1>t, TableStepKeeps
    <2>2. UNCHANGED <<db, dbQueue, state, money, bags, removed, mislaid, bound, crashes>>
      BY <2>1 DEF playerVars
    <2>3. RowInv'
      <3>1. Apart'
        BY <2>2, <1>t DEF Apart
      <3> QED  BY <2>2, <3>1, <1>t, RowsKept
    <2> QED  BY <2>1, <2>2, <2>3, <1>t DEF TradeInv
  <1>2. ASSUME NEW p \in Player, Trading(p), CompleteTrade(p, trade[p].trader)  PROVE TradeInv'
    <2>1. TableInv' /\ RowInv'
      BY <1>2, CompleteTradeKeeps
    <2>2. UNCHANGED <<bound, crashes>>
      BY <1>2 DEF CompleteTrade
    <2> QED  BY <2>1, <2>2, <1>t DEF TradeInv
  <1>3. ASSUME NEW p \in Player, NEW i \in Item, DestroyItem(p, i)  PROVE TradeInv'
    <2>1. /\ i \in bags[p]
          /\ bags' = [bags EXCEPT ![p] = @ \ {i}]
          /\ removed' = [removed EXCEPT ![p] = @ \union {i}]
          /\ UNCHANGED <<db, dbQueue, state, money, mislaid, bound, tradeVars, crashes>>
      BY <1>3 DEF DestroyItem
    <2>2. /\ bags' \in [Player -> SUBSET Item] /\ removed' \in [Player -> SUBSET Item]
          /\ \A r \in Player : /\ bags'[r] \subseteq bags[r]
                               /\ bags'[r] \union removed'[r] = bags[r] \union removed[r]
      BY <2>1, <1>t
    <2>3. TableInv'
      BY <2>1, <2>2, <1>t, <1>o, TableKept
    <2>4. RowInv'
      <3>1. Apart'
        BY <2>1, <1>t DEF Apart
      <3> QED  BY <2>1, <2>2, <3>1, <1>t, RowsKept
    <2> QED  BY <2>1, <2>3, <2>4, <1>t DEF TradeInv
  <1>4. ASSUME NEW p \in Player, p \in Online, NEW over \in SUBSET mislaid[p],
               Fits(p, bags[p] \union (mislaid[p] \ over)),
               CommitTransaction(SavedRows({p}, money, bags, over)),
               removed' \in [Player -> SUBSET Item], removed'[p] = {},
               mislaid' \in [Player -> SUBSET Item],
               \A r \in Player \ {p} : removed'[r] = removed[r] /\ mislaid'[r] = mislaid[r],
               \/ UNCHANGED <<state, money, bags>> /\ mislaid'[p] = mislaid[p] \ over
               \/ /\ state' = [state EXCEPT ![p] = "offline"]
                  /\ money' = [money EXCEPT ![p] = 0]
                  /\ bags' = [bags EXCEPT ![p] = {}] /\ mislaid'[p] = {}
        PROVE  RowInv'
    <2>1. PICK purse, bag : purse = money /\ bag = bags
      OBVIOUS
    <2>2. PICK players : players = {p}
      OBVIOUS
    <2>3. PICK keep : keep = [r \in Player |-> mislaid[r] \ over]
      OBVIOUS
    <2>4. /\ players \in SUBSET Online /\ players \subseteq Player
          /\ purse \in [Player -> Purses] /\ bag \in [Player -> SUBSET Item]
          /\ over \in SUBSET Item /\ keep[p] = mislaid[p] \ over
      BY <1>4, <1>t, <2>1, <2>2, <2>3
    <2>5. PICK written : /\ written = Written(players, bag, over)
                         /\ written = over \union bags[p] \union removed[p]
      <3>1. UNION {bag[r] \union removed[r] : r \in {p}} = bags[p] \union removed[p]
        BY <2>1
      <3> QED  BY <3>1, <2>2 DEF Written
    <2>6. /\ \A r, t \in players : r # t => bag[r] \intersect bag[t] = {}
          /\ \A r \in players :
                /\ Fits(r, bag[r] \union keep[r])
                /\ bags[r] \union removed[r] \union mislaid[r] \subseteq keep[r] \union written
                /\ keep[r] \subseteq bags[r] \union mislaid[r]
                /\ keep[r] \intersect written = {}
      <3>1. /\ bags[p] \intersect (removed[p] \union mislaid[p]) = {}
            /\ removed[p] \intersect mislaid[p] = {}
        BY <1>t DEF Apart
      <3> QED  BY <3>1, <1>4, <2>1, <2>2, <2>4, <2>5
    <2>7. \A i \in written :
             \/ LastRow(i) = None
             \/ \E r \in players : i \in bags[r] \union removed[r] \union mislaid[r]
      BY <1>4, <2>2, <2>5
    <2>8. /\ money' \in [Player -> Purses]
          /\ \A r \in players :
                \/ /\ state'[r] = "online" /\ money'[r] = purse[r]
                   /\ bags'[r] = bag[r] /\ removed'[r] = {} /\ mislaid'[r] = keep[r]
                \/ /\ state'[r] = "offline" /\ money'[r] = 0
                   /\ bags'[r] = {} /\ removed'[r] = {} /\ mislaid'[r] = {}
          /\ \A r \in Player \ players :
                /\ state'[r] = state[r] /\ money'[r] = money[r]
                /\ bags'[r] = bags[r] /\ removed'[r] = removed[r] /\ mislaid'[r] = mislaid[r]
      <3>1. CASE UNCHANGED <<state, money, bags>> /\ mislaid'[p] = mislaid[p] \ over
        BY <3>1, <1>4, <1>t, <2>1, <2>2, <2>4 DEF Online
      <3>2. CASE /\ state' = [state EXCEPT ![p] = "offline"]
                 /\ money' = [money EXCEPT ![p] = 0]
                 /\ bags' = [bags EXCEPT ![p] = {}] /\ mislaid'[p] = {}
        BY <3>2, <1>4, <1>f, <1>t, <2>2
      <3> QED  BY <3>1, <3>2, <1>4
    <2>9. CommitTransaction(SavedRows(players, purse, bag, over))
      BY <1>4, <2>1, <2>2
    <2>10. SaveEffect(players, purse, bag, over, keep)
      BY <1>4, <2>5, <2>6, <2>7, <2>8, <2>9 DEF SaveEffect
    <2> QED  BY <2>4, <2>10, <1>t, PlayersSaved
  <1>5. ASSUME NEW p \in Player, Save(p)  PROVE TradeInv'
    <2>1. /\ p \in Online /\ SaveInventoryAndGoldToDB({p}, money, bags, mislaid)
          /\ UNCHANGED <<state, money, bags, bound, tradeVars, crashes>>
      BY <1>5 DEF Save
    <2>2. PICK over \in SUBSET (UNION {mislaid[r] : r \in {p}}) :
            /\ \A r \in {p} : Cardinality(bags[r] \union (mislaid[r] \ over)) <= Capacity[r]
            /\ CommitTransaction(SavedRows({p}, money, bags, over))
            /\ removed' = [r \in Player |-> IF r \in {p} THEN {} ELSE removed[r]]
            /\ mislaid' = [r \in Player |-> IF r \in {p} THEN mislaid[r] \ over ELSE mislaid[r]]
      BY <2>1, Zenon DEF SaveInventoryAndGoldToDB
    <2>3. /\ over \in SUBSET mislaid[p] /\ Fits(p, bags[p] \union (mislaid[p] \ over))
          /\ removed' \in [Player -> SUBSET Item] /\ removed'[p] = {}
          /\ mislaid' \in [Player -> SUBSET Item] /\ mislaid'[p] = mislaid[p] \ over
          /\ \A r \in Player \ {p} : removed'[r] = removed[r] /\ mislaid'[r] = mislaid[r]
      BY <2>2, <1>t DEF Fits
    <2>4. RowInv'
      BY <2>1, <2>2, <2>3, <1>4
    <2>5. TableInv'
      BY <2>1, <1>t, <1>o, TableKept
    <2> QED  BY <2>1, <2>4, <2>5, <1>t DEF TradeInv
  <1>6. ASSUME NEW p \in Player, LogoutPlayer(p)  PROVE TradeInv'
    <2>1. /\ p \in Online /\ TradeCancel(p)
          /\ state' = [state EXCEPT ![p] = "offline"]
          /\ money' = [money EXCEPT ![p] = 0]
          /\ bags' = [bags EXCEPT ![p] = {}]
          /\ removed' = [removed EXCEPT ![p] = {}]
          /\ mislaid' = [mislaid EXCEPT ![p] = {}]
          /\ UNCHANGED <<bound, crashes>>
      BY <1>6 DEF LogoutPlayer
    <2>2. RowInv'
      <3>1. PICK over \in SUBSET mislaid[p] :
                /\ Fits(p, bags[p] \union (mislaid[p] \ over))
                /\ CommitTransaction(SavedRows({p}, money, bags, over))
        BY <1>6 DEF LogoutPlayer, Fits
      <3>2. /\ removed' \in [Player -> SUBSET Item] /\ removed'[p] = {}
            /\ mislaid' \in [Player -> SUBSET Item] /\ mislaid'[p] = {}
            /\ \A r \in Player \ {p} : removed'[r] = removed[r] /\ mislaid'[r] = mislaid[r]
        BY <2>1, <1>t
      <3> QED  BY <2>1, <3>1, <3>2, <1>4
    <2>3. /\ bags' \in [Player -> SUBSET Item]
          /\ state' \in [Player -> {"offline", "login", "online"}]
          /\ \A r \in Player \ {p} : bags'[r] = bags[r] /\ state'[r] = state[r]
      BY <2>1, <1>t
    <2>4. TableInv'
      <3>1. CASE Trading(p)
        <4>1. /\ trade' = [trade EXCEPT ![p] = None, ![trade[p].trader] = None]
              /\ agreed' = [agreed EXCEPT ![p] = None, ![trade[p].trader] = None]
          BY <3>1, <2>1 DEF TradeCancel
        <4>2. \A r \in Player \ {p, trade[p].trader} :
                  Trading(r) => bags'[r] \subseteq bags[r] /\ state'[r] = "online"
          BY <2>3, <1>o
        <4> QED  BY <3>1, <4>1, <4>2, <2>3, <1>t, TradeEnds
      <3>2. CASE ~Trading(p)
        <4>1. UNCHANGED tradeVars
          BY <3>2, <2>1 DEF TradeCancel
        <4>2. \A r \in Player : Trading(r) => bags'[r] \subseteq bags[r] /\ state'[r] = "online"
          BY <3>2, <2>3, <1>o
        <4> QED  BY <4>1, <4>2, <2>3, <1>t, TableKept
      <3> QED  BY <3>1, <3>2
    <2> QED  BY <2>1, <2>2, <2>4, <1>t DEF TradeInv
  <1>7. ASSUME NEW p \in Player, HandlePlayerLogin(p)  PROVE TradeInv'
    <2>1. /\ state[p] = "offline" /\ state' = [state EXCEPT ![p] = "login"]
          /\ UNCHANGED <<bags, bound, tradeVars, crashes>>
      BY <1>7 DEF HandlePlayerLogin
    <2>2. /\ state' \in [Player -> {"offline", "login", "online"}]
          /\ \A r \in Player : Trading(r) => bags'[r] \subseteq bags[r] /\ state'[r] = "online"
      BY <2>1, <1>o, <1>t
    <2>3. TableInv'
      BY <2>1, <2>2, <1>t, TableKept
    <2>4. RowInv'
      BY <1>7, <1>t, LoginQueued
    <2> QED  BY <2>1, <2>3, <2>4, <1>t DEF TradeInv
  <1>8. ASSUME NEW i \in Item, ClearSoulboundTradeable(i)  PROVE TradeInv'
    <2>1. /\ i \in Soulbound /\ bound' = bound \union {i}
          /\ UNCHANGED <<db, dbQueue, state, money, bags, removed, mislaid, tradeVars, crashes>>
      BY <1>8 DEF ClearSoulboundTradeable
    <2>2. TableInv'
      BY <2>1, <1>t, <1>o, TableKept
    <2>3. RowInv'
      <3>1. Apart'
        BY <2>1, <1>t DEF Apart
      <3> QED  BY <2>1, <3>1, <1>t, RowsKept
    <2> QED  BY <2>1, <2>2, <2>3, <1>t DEF TradeInv
  <1>9. ASSUME Execute  PROVE TradeInv'
    <2>1. /\ RowInv'
          /\ state' \in [Player -> {"offline", "login", "online"}]
          /\ bags' \in [Player -> SUBSET Item]
          /\ \A r \in Online : bags'[r] = bags[r] /\ state'[r] = "online"
      BY <1>9, <1>t, ExecuteRows
    <2>2. UNCHANGED <<tradeVars, bound, crashes>>
      BY <1>9 DEF Execute, playerVars
    <2>3. \A r \in Player : Trading(r) => bags'[r] \subseteq bags[r] /\ state'[r] = "online"
      BY <2>1, <1>o DEF Online
    <2>4. TableInv'
      BY <2>1, <2>2, <2>3, <1>t, TableKept
    <2> QED  BY <2>1, <2>2, <2>4, <1>t DEF TradeInv
  <1>10. ASSUME Crash  PROVE TradeInv'
    <2>1. /\ crashes < MaxCrashes /\ crashes' = crashes + 1
          /\ bound' \subseteq bound
          /\ state' = [p \in Player |-> "offline"] /\ bags' = [p \in Player |-> {}]
          /\ trade' = [p \in Player |-> None] /\ agreed' = [p \in Player |-> None]
      BY <1>10 DEF Crash
    <2>2. TableInv'
      BY <2>1 DEF TableInv, TableTypes, TradesPaired, OfferedOnce, AgreedSeen, Trading
    <2>3. RowInv'
      BY <1>10, <1>t, CrashRows
    <2>4. crashes' \in 0..MaxCrashes /\ bound' \subseteq Soulbound
      BY <2>1, <1>t, TradeAssumption
    <2> QED  BY <2>1, <2>2, <2>3, <2>4, <1>t DEF TradeInv
  <1>11. CASE UNCHANGED vars
    <2>1. UNCHANGED <<db, dbQueue, state, money, bags, removed, mislaid, bound, trade,
                     agreed, crashes>>
      BY <1>11 DEF vars, playerVars, tradeVars
    <2>2. TableInv'
      BY <2>1, <1>t, <1>o, TableKept DEF tradeVars
    <2>3. RowInv'
      <3>1. Apart'
        BY <2>1, <1>t DEF Apart
      <3> QED  BY <2>1, <3>1, <1>t, RowsKept
    <2> QED  BY <2>1, <2>2, <2>3, <1>t DEF TradeInv
  <1>12. CASE Next
    BY <1>12, <1>1, <1>2, <1>3, <1>5, <1>6, <1>7, <1>8, <1>9, <1>10, Steps
  <1> QED  BY <1>11, <1>12

\* The inductive invariant of the trades.
THEOREM TradeInvariant == Spec => []TradeInv
  BY TradeInit, TradeStep, PTL DEF Spec

\* Trades are between two players who are online and refer to each other; purses and
\* bags stay within their limits; and once the queue is written the tables hold what
\* players in memory have, whenever they log in and out, trade, are saved, and the
\* server dies, and also if moveItems gives items back, clones or mislays them.
THEOREM TradesSafe == Spec => [](TypeOK /\ TradesPaired /\ SavedAsHeld)
  <1>1. TradeInv => TypeOK /\ TradesPaired /\ SavedAsHeld
    <2> SUFFICES ASSUME TradeInv  PROVE TypeOK /\ TradesPaired /\ SavedAsHeld
      OBVIOUS
    <2>1. /\ TableTypes /\ TradesPaired /\ RowInv /\ RowTypes /\ SavedAsHeld
          /\ bound \subseteq Soulbound /\ crashes \in 0..MaxCrashes
      BY DEF TradeInv, TableInv, RowInv
    <2>2. \A p \in Player : Cardinality(bags[p]) <= Capacity[p]
      BY <2>1, BagsHeld DEF Fits
    <2>3. /\ \A p \in Player : trade[p] = None \/ trade[p] \in TradeDatas
          /\ \A p \in Player : agreed[p] = None \/ agreed[p] \in Agreements
      BY <2>1 DEF TableTypes
    <2>4. TypeOK
      BY <2>1, <2>2, <2>3 DEF TypeOK, TableTypes, RowTypes, Purses
    <2> QED  BY <2>1, <2>4
  <1> QED  BY <1>1, TradeInvariant, PTL

-----------------------------------------------------------------------------
(* What a step may do                                                      *)

\* A trade ends with an exchange only when one of the two sides accepts.
LEMMA CompletedBy ==
    ASSUME TradeInv, Next, NEW p \in Player, Completed(p)
    PROVE  \E q \in Player : /\ q = trade[p].trader /\ Trading(p) /\ Trading(q)
                             /\ q # p /\ trade[q].trader = p
                             /\ CompleteTrade(p, q) \/ CompleteTrade(q, p)
  <1>1. /\ Trading(p) /\ trade'[p] = None /\ dbQueue' # dbQueue
        /\ p \in Online' /\ trade[p].trader \in Online'
    BY DEF Completed
  <1>2. PICK q \in Player : /\ q = trade[p].trader /\ q # p /\ Trading(q) /\ trade[q].trader = p
    BY <1>1, Partners DEF TradeInv
  <1>t. trade \in [Player -> TradeDatas \union {None}] /\ TableInv
    BY DEF TradeInv, TableInv, TableTypes
  \* A step that leaves the trade of p alone, or the queue, is none of these.
  <1>3. ASSUME trade'[p] = trade[p] \/ dbQueue' = dbQueue \/ p \notin Online' \/ q \notin Online'
        PROVE  FALSE
    BY <1>1, <1>2, <1>3 DEF Trading
  <1>4. CompleteTrade(p, q) \/ CompleteTrade(q, p)
    <2>1. ASSUME NEW r \in Player, TableStep(r)  PROVE FALSE
      BY <2>1, <1>t, <1>3, TableStepKeeps
    <2>2. ASSUME NEW r \in Player, Trading(r), CompleteTrade(r, trade[r].trader)
          PROVE  CompleteTrade(p, q) \/ CompleteTrade(q, p)
      <3>1. CASE r \in {p, q}
        BY <3>1, <2>2, <1>2
      <3>2. CASE r \notin {p, q}
        <4>1. trade[r].trader \notin {p, q}
          BY <3>2, <2>2, <1>1, <1>2, <1>t, Partners
        <4>2. trade' = [trade EXCEPT ![r] = None, ![trade[r].trader] = None]
          BY <2>2 DEF CompleteTrade
        <4>3. trade'[p] = trade[p]
          BY <3>2, <4>1, <4>2, <1>t
        <4> QED  BY <4>3, <1>3
      <3> QED  BY <3>1, <3>2
    <2>3. ASSUME NEW r \in Player, LogoutPlayer(r)  PROVE FALSE
      <3>1. state \in [Player -> {"offline", "login", "online"}]
        BY <1>t DEF TableInv, TableTypes
      <3>2. state' = [state EXCEPT ![r] = "offline"] /\ TradeCancel(r)
        BY <2>3 DEF LogoutPlayer
      <3>3. CASE r \in {p, q}
        <4>1. r \notin Online'
          BY <3>1, <3>2 DEF Online
        <4> QED  BY <3>3, <4>1, <1>3
      <3>4. CASE r \notin {p, q} /\ Trading(r)
        <4>1. trade[r].trader \notin {p, q}
          BY <3>4, <1>1, <1>2, <1>t, Partners
        <4>2. trade' = [trade EXCEPT ![r] = None, ![trade[r].trader] = None]
          BY <3>2, <3>4 DEF TradeCancel
        <4>3. trade'[p] = trade[p]
          BY <3>4, <4>1, <4>2, <1>t
        <4> QED  BY <4>3, <1>3
      <3>5. CASE ~Trading(r)
        BY <3>2, <3>5, <1>3 DEF TradeCancel, tradeVars
      <3> QED  BY <3>3, <3>4, <3>5
    <2>4. ASSUME NEW r \in Player, \/ Save(r) \/ HandlePlayerLogin(r)
                                   \/ \E i \in Item : DestroyItem(r, i)
          PROVE  FALSE
      BY <2>4, <1>3 DEF Save, HandlePlayerLogin, DestroyItem, tradeVars
    <2>5. ASSUME Execute \/ \E i \in Item : ClearSoulboundTradeable(i)  PROVE FALSE
      BY <2>5, <1>3 DEF Execute, ClearSoulboundTradeable, tradeVars
    <2>6. ASSUME Crash  PROVE FALSE
      BY <2>6, <1>3 DEF Crash, Online
    <2> QED  BY <2>1, <2>2, <2>3, <2>4, <2>5, <2>6, Steps
  <1> QED  BY <1>1, <1>2, <1>4

\* An exchange gives both sides the money that was agreed, and of the items nothing
\* else.
LEMMA ExchangeAsAgreed ==
    ASSUME TradeInv, NEW p \in Player, Trading(p), NEW q, q = trade[p].trader,
           \/ CompleteTrade(p, q)
           \/ CompleteTrade(q, p)
    PROVE  LET a == agreed[p]
               Clones(offer) == {Copy[i] : i \in TradedItems(offer)}
           IN  /\ a # None \/ agreed[q] # None
               /\ a # None =>
                    /\ money'[p] = money[p] - a.mine.money + a.his.money
                    /\ money'[q] = money[q] - a.his.money + a.mine.money
                    /\ bags[p] \ bags'[p] \subseteq TradedItems(a.mine)
                    /\ bags[q] \ bags'[q] \subseteq TradedItems(a.his)
                    /\ bags'[p] \ bags[p] \subseteq
                          (TradedItems(a.his) \intersect bags[q]) \union Clones(a.mine)
                    /\ bags'[q] \ bags[q] \subseteq
                          (TradedItems(a.mine) \intersect bags[p]) \union Clones(a.his)
  <1>1. /\ q \in Player /\ q # p /\ Trading(q) /\ trade[q].trader = p
        /\ trade[p] \in TradeDatas /\ trade[q] \in TradeDatas
    BY Partners DEF TradeInv
  <1>2. /\ money \in [Player -> Purses] /\ bags \in [Player -> SUBSET Item]
        /\ AgreedSeen /\ TableTypes
    BY DEF TradeInv, TableInv, TableTypes, RowInv, RowTypes
  <1>3. /\ Gets(p, q, bags'[p]) /\ Gets(q, p, bags'[q])
        /\ money' = [money EXCEPT ![p] = money[p] - trade[p].money + trade[q].money,
                                  ![q] = money[q] - trade[q].money + trade[p].money]
    <2>1. CASE CompleteTrade(p, q)
      BY <2>1, ExchangedBags, ExchangedMoney
    <2>2. CASE CompleteTrade(q, p)
      <3>1. /\ Gets(q, p, bags'[q]) /\ Gets(p, q, bags'[p])
            /\ money' = [money EXCEPT ![q] = money[q] - trade[q].money + trade[p].money,
                                      ![p] = money[p] - trade[p].money + trade[q].money]
        BY <2>2, <1>1, ExchangedBags, ExchangedMoney
      <3> QED  BY <3>1, <1>1, <1>2
    <2> QED  BY <2>1, <2>2
  <1>4. agreed[p] # None \/ agreed[q] # None
    <2>1. trade[p].accepted \/ trade[q].accepted
      BY DEF CompleteTrade, AcceptSecond
    <2> QED  BY <2>1, <1>1, <1>2 DEF AgreedSeen
  <1>5. ASSUME NEW offer, NEW r \in Player, Trading(r), Seen(offer, r)
        PROVE  /\ offer.money = trade[r].money
               /\ TradedItems(offer) \intersect bags[r] = Given(r)
    <2>1. \A s \in TradedSlots : s \in TradeSlots
      BY TradeAssumption DEF TradedSlots, TradeSlots, TRADE_SLOT_NONTRADED
    <2>2. None \notin bags[r]
      BY <1>2, TradeAssumption
    <2>3. ASSUME NEW i \in bags[r], NEW s \in TradedSlots
          PROVE  offer.items[s] = i <=> GetItem(r, s) = i
      BY <1>5, <2>1, <2>2, <2>3 DEF Seen, GetItem
    <2>4. Given(r) \subseteq bags[r]
      BY <1>5, <1>2, GivenHeld
    <2>5. TradedItems(offer) \intersect bags[r] = Given(r)
      BY <2>2, <2>3, <2>4 DEF TradedItems, Given
    <2> QED  BY <2>5, <1>5 DEF Seen
  <1>6. ASSUME agreed[p] # None
        PROVE  /\ agreed[p].mine.money = trade[p].money /\ agreed[p].his.money = trade[q].money
               /\ TradedItems(agreed[p].mine) \intersect bags[p] = Given(p)
               /\ TradedItems(agreed[p].his) \intersect bags[q] = Given(q)
    <2>1. Seen(agreed[p].mine, p) /\ Seen(agreed[p].his, q)
      BY <1>6, <1>2 DEF AgreedSeen
    <2> QED  BY <2>1, <1>1, <1>5
  <1>7. /\ money'[p] = money[p] - trade[p].money + trade[q].money
        /\ money'[q] = money[q] - trade[q].money + trade[p].money
    BY <1>1, <1>2, <1>3
  <1>8. /\ bags[p] \ Given(p) \subseteq bags'[p] /\ bags[q] \ Given(q) \subseteq bags'[q]
        /\ \A i \in bags'[p] : i \in bags[p] \/ i \in Given(q) \/ NewClone(p, i)
        /\ \A i \in bags'[q] : i \in bags[q] \/ i \in Given(p) \/ NewClone(q, i)
    BY <1>3 DEF Gets
  <1>10. ASSUME agreed[p] # None
         PROVE  /\ bags[p] \ bags'[p] \subseteq TradedItems(agreed[p].mine)
                /\ bags[q] \ bags'[q] \subseteq TradedItems(agreed[p].his)
                /\ bags'[p] \ bags[p] \subseteq
                      (TradedItems(agreed[p].his) \intersect bags[q])
                          \union {Copy[i] : i \in TradedItems(agreed[p].mine)}
                /\ bags'[q] \ bags[q] \subseteq
                      (TradedItems(agreed[p].mine) \intersect bags[p])
                          \union {Copy[i] : i \in TradedItems(agreed[p].his)}
    <2>1. PICK mine, his : mine = TradedItems(agreed[p].mine) /\ his = TradedItems(agreed[p].his)
      OBVIOUS
    <2>2. mine \intersect bags[p] = Given(p) /\ his \intersect bags[q] = Given(q)
      BY <1>6, <1>10, <2>1
    <2>3. /\ \A i : NewClone(p, i) => i \in {Copy[j] : j \in mine}
          /\ \A i : NewClone(q, i) => i \in {Copy[j] : j \in his}
      BY <2>2 DEF NewClone
    <2>4. /\ bags[p] \ bags'[p] \subseteq mine /\ bags[q] \ bags'[q] \subseteq his
      BY <2>2, <1>8
    <2>5. /\ bags'[p] \ bags[p] \subseteq (his \intersect bags[q]) \union {Copy[j] : j \in mine}
          /\ bags'[q] \ bags[q] \subseteq (mine \intersect bags[p]) \union {Copy[j] : j \in his}
      BY <2>2, <2>3, <1>8
    <2> QED  BY <2>1, <2>4, <2>5
  <1> QED  BY <1>4, <1>6, <1>7, <1>10

\* An exchange moves the money that the first side to accept has seen on the table,
\* and no item that he has not: HandleAcceptTradeOpcode cannot be made to exchange
\* anything else by any order of packets, although moveItems may move less.
THEOREM AgreementKept == Spec => AsAgreed
  <1>1. ASSUME TradeInv, Next, NEW p \in Player, Completed(p)
        PROVE  LET q == trade[p].trader
                   a == agreed[p]
                   Clones(offer) == {Copy[i] : i \in TradedItems(offer)}
               IN  /\ a # None \/ agreed[q] # None
                   /\ a # None =>
                        /\ money'[p] = money[p] - a.mine.money + a.his.money
                        /\ money'[q] = money[q] - a.his.money + a.mine.money
                        /\ bags[p] \ bags'[p] \subseteq TradedItems(a.mine)
                        /\ bags[q] \ bags'[q] \subseteq TradedItems(a.his)
                        /\ bags'[p] \ bags[p] \subseteq
                              (TradedItems(a.his) \intersect bags[q]) \union Clones(a.mine)
                        /\ bags'[q] \ bags[q] \subseteq
                              (TradedItems(a.mine) \intersect bags[p]) \union Clones(a.his)
    <2>1. PICK q : q = trade[p].trader
      OBVIOUS
    <2>2. Trading(p) /\ (CompleteTrade(p, q) \/ CompleteTrade(q, p))
      BY <1>1, <2>1, CompletedBy
    <2> QED  BY <1>1, <2>1, <2>2, ExchangeAsAgreed
  <1>2. ASSUME TradeInv, [Next]_vars
        PROVE  [\A p \in Player : Completed(p) =>
                  LET q == trade[p].trader
                      a == agreed[p]
                      Clones(offer) == {Copy[i] : i \in TradedItems(offer)}
                  IN  /\ a # None \/ agreed[q] # None
                      /\ a # None =>
                        /\ money'[p] = money[p] - a.mine.money + a.his.money
                        /\ money'[q] = money[q] - a.his.money + a.mine.money
                        /\ bags[p] \ bags'[p] \subseteq TradedItems(a.mine)
                        /\ bags[q] \ bags'[q] \subseteq TradedItems(a.his)
                        /\ bags'[p] \ bags[p] \subseteq
                              (TradedItems(a.his) \intersect bags[q]) \union Clones(a.mine)
                        /\ bags'[q] \ bags[q] \subseteq
                              (TradedItems(a.mine) \intersect bags[p]) \union Clones(a.his)]_vars
    BY <1>1, <1>2
  <1> QED  BY <1>2, TradeInvariant, PTL DEF Spec, AsAgreed

\* Whatever CanStoreItems has let pass changes hands, all of it, if the limits allow
\* each side to have what it keeps and what it gets: there is room in the bags for
\* every order of the slots, and nothing else can make moveItems give items back.
THEOREM ExchangesWhole == Spec => AllStored
  <1>1. ASSUME TradeInv, Next, NEW p \in Player, Completed(p), NEW q, q = trade[p].trader,
               AllowedTogether(p, q), AllowedTogether(q, p)
        PROVE  /\ bags'[p] = (bags[p] \ Given(p)) \union Given(q)
               /\ bags'[q] = (bags[q] \ Given(q)) \union Given(p)
    <2>1. /\ q \in Player /\ Trading(p) /\ Trading(q) /\ p = trade[q].trader
          /\ CompleteTrade(p, q) \/ CompleteTrade(q, p)
      BY <1>1, CompletedBy
    <2>2. ASSUME NEW r \in Player, Trading(r), NEW t, t = trade[r].trader, CompleteTrade(r, t),
                 AllowedTogether(r, t), AllowedTogether(t, r)
          PROVE  /\ bags'[r] = (bags[r] \ Given(r)) \union Given(t)
                 /\ bags'[t] = (bags[t] \ Given(t)) \union Given(r)
      <3>1. TradeInv
        BY <1>1
      <3> QED  BY ONLY <3>1, r \in Player, <2>2, ExchangedBags
    <2>3. CASE CompleteTrade(p, q)
      BY <1>1, <2>1, <2>2, <2>3
    <2>4. CASE CompleteTrade(q, p)
      BY <1>1, <2>1, <2>2, <2>4
    <2> QED  BY <2>1, <2>3, <2>4
  <1>2. ASSUME TradeInv, [Next]_vars
        PROVE  [\A p \in Player : Completed(p) =>
                  LET q == trade[p].trader
                  IN  AllowedTogether(p, q) /\ AllowedTogether(q, p) => Exchanged(p, q)]_vars
    BY <1>1, <1>2 DEF Exchanged
  <1> QED  BY <1>2, TradeInvariant, PTL DEF Spec, AllStored

\* A soulbound item goes to another player only while it may be traded, and unless it
\* is bound to the account only to one of those who were there when it was looted,
\* although HandleAcceptTradeOpcode does not look at the partner's items itself:
\* CanStoreItems does.
THEOREM BindingKept == Spec => BindingRespected
  <1>1. ASSUME TradeInv, Next, NEW i \in Soulbound, NEW p \in Player, NEW q \in Player,
               p # q, i \in bags[p], i \in bags'[q]
        PROVE  i \notin bound /\ (q \in allowedGUIDs[i] \/ i \in AccountWide)
    <2>1. /\ bags \in [Player -> SUBSET Item] /\ TableInv /\ TableTypes /\ RowInv
      BY <1>1 DEF TradeInv, TableInv, TableTypes
    <2>2. i \notin bags[q] /\ p \in Online
      <3>1. i \notin bags[q]
        BY <1>1, <2>1, BagsHeld
      <3>2. p \in Online
        BY <1>1, <2>1 DEF RowInv, OfflineEmpty
      <3> QED  BY <3>1, <3>2
    <2>3. ASSUME bags'[q] \subseteq bags[q]  PROVE FALSE
      BY <1>1, <2>2, <2>3
    <2>4. ASSUME NEW r \in Player, TableStep(r)  PROVE FALSE
      <3>1. UNCHANGED playerVars
        BY <2>4, <2>1, TableStepKeeps
      <3> QED  BY <3>1, <2>3 DEF playerVars
    <2>5. ASSUME NEW r \in Player, Trading(r), NEW t, t = trade[r].trader, CompleteTrade(r, t)
          PROVE  i \notin bound /\ (q \in allowedGUIDs[i] \/ i \in AccountWide)
      <3>1. TradeInv /\ Trading(r) /\ t = trade[r].trader /\ CompleteTrade(r, t)
        BY <1>1, <2>5
      <3>2. /\ \A x \in bags'[r] : x \in bags[r] \/ x \in Given(t) \/ Unused(x)
            /\ \A x \in bags'[t] : x \in bags[t] \/ x \in Given(r) \/ Unused(x)
            /\ \A x \in Player \ {r, t} : bags'[x] = bags[x]
        BY <3>1, ExchangedBags DEF Gets, NewClone
      <3>u. ~Unused(i)
        BY <1>1, <2>1, UnusedHeld
      <3>3. \/ q = r /\ i \in Given(t)
            \/ q = t /\ i \in Given(r)
        <4>1. CASE q = r
          BY <4>1, <1>1, <2>2, <3>2, <3>u
        <4>2. CASE q = t
          BY <4>2, <1>1, <2>2, <3>2, <3>u
        <4>3. CASE q \notin {r, t}
          BY <4>3, <1>1, <2>2, <3>2
        <4> QED  BY <4>1, <4>2, <4>3
      <3>4. /\ \A x \in Given(r) \union Given(t) : CanBeTraded(x)
            /\ \A x \in Given(r) : ~IsBindedNotWith(x, t)
            /\ \A x \in Given(t) : ~IsBindedNotWith(x, r)
        BY <2>5 DEF CompleteTrade, AcceptSecond, TradeableNow, RoomForBoth, CanStoreItems
      <3>5. CanBeTraded(i) /\ ~IsBindedNotWith(i, q)
        BY <3>3, <3>4
      <3> QED  BY <3>5, <2>2 DEF CanBeTraded, IsBindedNotWith, IsSoulBound
    <2>6. ASSUME NEW r \in Player, NEW j \in Item, DestroyItem(r, j)  PROVE FALSE
      <3>1. bags' = [bags EXCEPT ![r] = bags[r] \ {j}]
        BY <2>6 DEF DestroyItem
      <3> QED  BY <3>1, <2>1, <2>3
    <2>7. ASSUME NEW r \in Player, LogoutPlayer(r)  PROVE FALSE
      <3>1. bags' = [bags EXCEPT ![r] = {}]
        BY <2>7 DEF LogoutPlayer
      <3> QED  BY <3>1, <2>1, <2>3
    <2>8. ASSUME NEW r \in Player, Save(r) \/ HandlePlayerLogin(r)  PROVE FALSE
      BY <2>8, <2>3 DEF Save, HandlePlayerLogin
    <2>9. ASSUME NEW j \in Item, ClearSoulboundTradeable(j)  PROVE FALSE
      BY <2>9, <2>3 DEF ClearSoulboundTradeable
    <2>10. ASSUME Execute  PROVE FALSE
      <3>1. /\ \A r \in Online : bags'[r] = bags[r]
            /\ \A r \in Player \ Online, x \in Online : bags'[r] \intersect bags[x] = {}
        BY <2>10, <2>1, ExecuteRows
      <3> QED  BY <3>1, <1>1, <2>2
    <2>11. ASSUME Crash  PROVE FALSE
      BY <2>11, <2>3 DEF Crash
    <2> QED
      BY <1>1, <2>4, <2>5, <2>6, <2>7, <2>8, <2>9, <2>10, <2>11, Steps
  <1>2. ASSUME TradeInv, [Next]_vars
        PROVE  [\A i \in Soulbound, p, q \in Player :
                   p # q /\ i \in bags[p] /\ i \in bags'[q]
                       => i \notin bound /\ (q \in allowedGUIDs[i] \/ i \in AccountWide)]_vars
    BY <1>1, <1>2
  <1> QED  BY <1>2, TradeInvariant, PTL DEF Spec, BindingRespected

-----------------------------------------------------------------------------
(* The money                                                               *)

\* The purses that the first k operations of the queue lead to
PursesAfter(k) == [p \in Player |-> GoldAfter(k, p)]

\* Purses in which there is as much money as at the start
Balanced ==
    {purse \in [Player -> Nat] : Total(purse, Player) = Total(StartMoney, Player)}

\* Wherever the process dies, the money of the players adds up.
MoneyInQueue == \A k \in 0..Len(dbQueue) : PursesAfter(k) \in Balanced

\* An operation comes to the end of the queue that leaves the sum as it was.
LEMMA MoneyAppended ==
    ASSUME RowTypes, MoneyInQueue, NEW operation \in Operations, NEW n \in Nat, n = Len(dbQueue),
           dbQueue' = Append(dbQueue, operation), UNCHANGED db,
           [p \in Player |-> IF p \in DOMAIN operation.gold
                             THEN operation.gold[p] ELSE GoldAfter(n, p)] \in Balanced
    PROVE  MoneyInQueue'
  <1>1. /\ Len(dbQueue') = n + 1
        /\ \A k \in 0..n : \A p : GoldAfter(k, p)' = GoldAfter(k, p)
        /\ \A p : GoldAfter(n + 1, p)' = IF p \in DOMAIN operation.gold
                                         THEN operation.gold[p] ELSE GoldAfter(n, p)
    BY Appended
  <1>2. \A k \in 0..n : PursesAfter(k)' = PursesAfter(k)
    BY <1>1 DEF PursesAfter
  <1>3. PursesAfter(n + 1)' = [p \in Player |-> IF p \in DOMAIN operation.gold
                                                THEN operation.gold[p] ELSE GoldAfter(n, p)]
    BY <1>1 DEF PursesAfter
  <1>4. \A k \in 0..n : PursesAfter(k) \in Balanced
    BY DEF MoneyInQueue
  <1>5. \A k \in 0..(n + 1) : k \in 0..n \/ k = n + 1
    OBVIOUS
  <1>6. \A k \in 0..(n + 1) : PursesAfter(k)' \in Balanced
    BY <1>2, <1>3, <1>4, <1>5
  <1> QED  BY <1>1, <1>6 DEF MoneyInQueue

\* Players are saved with what they have.
LEMMA MoneySaved ==
    ASSUME TradeInv, MoneyInQueue, NEW p \in Online, NEW over \in SUBSET Item,
           CommitTransaction(SavedRows({p}, money, bags, over))
    PROVE  MoneyInQueue'
  <1>1. PICK n \in Nat : n = Len(dbQueue)
    BY LenProperties DEF TradeInv, RowInv, RowTypes
  <1>2. /\ RowTypes /\ p \in Player /\ IsFiniteSet(Player)
        /\ money \in [Player -> Purses] /\ bags \in [Player -> SUBSET Item]
    BY TradeAssumption DEF TradeInv, RowInv, RowTypes, TableInv, TableTypes, Online
  <1>3. PICK t : t = SavedRows({p}, money, bags, over)
    OBVIOUS
  <1>4. t \in Operations /\ DOMAIN t.gold = {p} /\ t.gold[p] = money[p]
    <2> DEFINE players == {p}
    <2>1. players \in SUBSET Player /\ \A r, s \in players : r # s => bags[r] \intersect bags[s] = {}
      BY <1>2
    <2> HIDE DEF players
    <2>2. Writes(SavedRows(players, money, bags, over), players, money, bags, over)
      BY <1>2, <2>1, SavedRowsWrites
    <2> QED  BY <1>3, <2>2 DEF Writes, players
  <1>5. dbQueue' = Append(dbQueue, t) /\ UNCHANGED db
    BY <1>3 DEF CommitTransaction, Enqueue
  <1>6. t.gold[p] = GoldAfter(n, p)
    BY <1>1, <1>2, <1>4, LastRows DEF TradeInv, RowInv, SavedAsHeld
  <1>7. [r \in Player |-> IF r \in DOMAIN t.gold THEN t.gold[r] ELSE GoldAfter(n, r)]
            = PursesAfter(n)
    BY <1>4, <1>6 DEF PursesAfter
  <1>8. PursesAfter(n) \in Balanced
    BY <1>1 DEF MoneyInQueue
  <1> QED  BY <1>1, <1>2, <1>4, <1>5, <1>7, <1>8, MoneyAppended

\* The money of an exchange goes from one side to the other.
LEMMA MoneyExchanged ==
    ASSUME TradeInv, MoneyInQueue, NEW p \in Player, Trading(p), NEW q, q = trade[p].trader,
           CompleteTrade(p, q)
    PROVE  MoneyInQueue'
  <1>1. PICK n \in Nat : n = Len(dbQueue)
    BY LenProperties DEF TradeInv, RowInv, RowTypes
  <1>2. /\ RowTypes /\ IsFiniteSet(Player)
        /\ money \in [Player -> Purses] /\ bags \in [Player -> SUBSET Item]
        /\ trade \in [Player -> TradeDatas \union {None}] /\ Purses \subseteq Nat
    BY TradeAssumption DEF TradeInv, RowInv, RowTypes, TableInv, TableTypes, Purses
  <1>3. /\ q \in Player /\ q # p /\ p \in Online /\ q \in Online
        /\ money' = [money EXCEPT ![p] = money[p] - trade[p].money + trade[q].money,
                                  ![q] = money[q] - trade[q].money + trade[p].money]
        /\ money' \in [Player -> Purses]
    BY Partners, ExchangedMoney DEF TradeInv
  <1>4. /\ bags' \in [Player -> SUBSET Item]
        /\ bags'[p] \intersect bags'[q] = {} /\ bags'[q] \intersect bags'[p] = {}
    BY ExchangedBags
  <1>5. PICK purse : purse = money'
    OBVIOUS
  <1>6. PICK bag : bag = bags'
    OBVIOUS
  <1>l. PICK lost : /\ lost \in [Player -> SUBSET Item]
                    /\ SaveInventoryAndGoldToDB({p, q}, purse, bag, lost)
    <2> DEFINE losses == [mislaid EXCEPT
                              ![p] = @ \union (Given(p) \ (bags'[p] \union bags'[q])),
                              ![q] = @ \union (Given(q) \ (bags'[p] \union bags'[q]))]
    <2>1. SaveInventoryAndGoldToDB({p, q}, money', bags', losses)
      BY <1>2, <1>3, TradersSaved
    <2>2. Given(p) \subseteq Item /\ Given(q) \subseteq Item
      BY <1>3, GivenHeld, Partners DEF TradeInv, TableInv
    <2>3. losses \in [Player -> SUBSET Item]
      BY <2>2, <1>2 DEF RowTypes
    <2> HIDE DEF losses
    <2> QED  BY <2>1, <2>3, <1>5, <1>6
  <1>d. PICK players : players = {p, q}
    OBVIOUS
  <1>o. PICK over \in SUBSET (UNION {lost[r] : r \in players}) :
            /\ \A r \in players : Cardinality(bag[r] \union (lost[r] \ over)) <= Capacity[r]
            /\ CommitTransaction(SavedRows(players, purse, bag, over))
            /\ removed' = [r \in Player |-> IF r \in players THEN {} ELSE removed[r]]
            /\ mislaid' = [r \in Player |-> IF r \in players THEN lost[r] \ over ELSE mislaid[r]]
    <2>1. SaveInventoryAndGoldToDB(players, purse, bag, lost)
      BY <1>l, <1>d
    <2> QED  BY <2>1, Zenon DEF SaveInventoryAndGoldToDB
  <1>i. over \in SUBSET Item
    <2>1. lost[p] \subseteq Item /\ lost[q] \subseteq Item
      BY <1>3, <1>l
    <2>2. UNION {lost[r] : r \in players} = lost[p] \union lost[q]
      BY <1>d
    <2> QED  BY <1>o, <2>1, <2>2
  <1>7. PICK t : t = SavedRows(players, purse, bag, over)
    OBVIOUS
  <1>8. dbQueue' = Append(dbQueue, t) /\ UNCHANGED db
    BY <1>o, <1>7 DEF CommitTransaction, Enqueue
  <1>9. t \in Operations /\ DOMAIN t.gold = {p, q} /\ t.gold[p] = purse[p] /\ t.gold[q] = purse[q]
    <2>1. /\ players \in SUBSET Player
          /\ \A r, s \in players : r # s => bag[r] \intersect bag[s] = {}
      BY <1>3, <1>4, <1>6, <1>d
    <2>2. purse \in [Player -> Purses] /\ bag \in [Player -> SUBSET Item]
      BY <1>3, <1>4, <1>5, <1>6
    <2>3. p \in players /\ q \in players
      BY <1>d
    <2>4. Writes(SavedRows(players, purse, bag, over), players, purse, bag, over)
      BY <1>2, <1>i, <2>1, <2>2, SavedRowsWrites
    <2> QED  BY <1>7, <1>d, <2>3, <2>4 DEF Writes
  <1>10. money[p] = GoldAfter(n, p) /\ money[q] = GoldAfter(n, q)
    BY <1>1, <1>2, <1>3, LastRows DEF TradeInv, RowInv, SavedAsHeld
  <1>11. trade[p].money \in Nat /\ trade[q].money \in Nat
    <2>1. trade[p] \in TradeDatas /\ trade[q] \in TradeDatas
      BY Partners DEF TradeInv
    <2>2. trade[p].money \in Gold \union {0} /\ trade[q].money \in Gold \union {0}
      BY <2>1 DEF TradeDatas
    <2>3. \A amount \in Gold \union {0} : amount \in Nat
      BY TradeAssumption
    <2> QED  BY <2>2, <2>3, Zenon
  <1> DEFINE other == [r \in Player |-> IF r \in DOMAIN t.gold THEN t.gold[r] ELSE GoldAfter(n, r)]
             table == PursesAfter(n)
  <1>12. /\ purse[p] = money[p] - trade[p].money + trade[q].money
         /\ purse[q] = money[q] - trade[q].money + trade[p].money
         /\ purse[p] \in Nat /\ purse[q] \in Nat /\ money[p] \in Nat /\ money[q] \in Nat
    BY <1>2, <1>3, <1>5
  <1>13. table \in Balanced /\ \A r \in Player : table[r] \in Nat
    <2>1. PursesAfter(n) \in Balanced
      BY <1>1 DEF MoneyInQueue
    <2> QED  BY <2>1 DEF Balanced
  <1>14. /\ \A r \in Player \ {p, q} : other[r] = table[r]
         /\ other[p] = purse[p] /\ other[q] = purse[q]
         /\ table[p] = money[p] /\ table[q] = money[q]
         /\ other = [r \in Player |-> other[r]]
    BY <1>3, <1>9, <1>10 DEF PursesAfter
  <1> HIDE DEF other, table
  <1>15. other[p] + other[q] = table[p] + table[q]
    BY <1>11, <1>12, <1>14
  <1>16. \A r \in Player : table[r] \in Nat /\ other[r] \in Nat
    BY <1>12, <1>13, <1>14
  <1>17. Total(table, Player) = Total(other, Player)
    <2>1. IsFiniteSet(Player) /\ q \in Player /\ p # q
      BY <1>2, <1>3
    <2>2. \A r \in Player \ {p, q} : other[r] = table[r]
      BY <1>14
    <2> QED  BY ONLY <2>1, <2>2, <1>15, <1>16, p \in Player, Payment
  <1>18. other \in Balanced
    BY <1>13, <1>14, <1>16, <1>17 DEF Balanced
  <1> QED  BY <1>1, <1>2, <1>8, <1>9, <1>18, MoneyAppended DEF other

LEMMA MoneyStep == TradeInv /\ MoneyInQueue /\ [Next]_vars => MoneyInQueue'
  <1> SUFFICES ASSUME TradeInv, MoneyInQueue, [Next]_vars  PROVE MoneyInQueue'
    OBVIOUS
  <1>1. PICK n \in Nat : n = Len(dbQueue)
    BY LenProperties DEF TradeInv, RowInv, RowTypes
  <1>2. ASSUME UNCHANGED <<db, dbQueue>>  PROVE MoneyInQueue'
    BY <1>2 DEF MoneyInQueue, PursesAfter, GoldAfter, GoldOf
  <1>3. ASSUME NEW p \in Player, TableStep(p)  PROVE MoneyInQueue'
    <2>1. TableInv
      BY DEF TradeInv
    <2> QED  BY <2>1, <1>2, <1>3, TableStepKeeps
  <1>4. ASSUME NEW p \in Player, Trading(p), CompleteTrade(p, trade[p].trader)
        PROVE  MoneyInQueue'
    BY <1>4, MoneyExchanged
  <1>5. ASSUME NEW p \in Player, NEW i \in Item, DestroyItem(p, i)  PROVE MoneyInQueue'
    BY <1>2, <1>5 DEF DestroyItem
  <1>6. ASSUME NEW p \in Player, Save(p)  PROVE MoneyInQueue'
    <2>1. p \in Online /\ SaveInventoryAndGoldToDB({p}, money, bags, mislaid)
      BY <1>6 DEF Save
    <2>2. PICK over \in SUBSET (UNION {mislaid[r] : r \in {p}}) :
              CommitTransaction(SavedRows({p}, money, bags, over))
      BY <2>1, Zenon DEF SaveInventoryAndGoldToDB
    <2>3. over \in SUBSET Item
      BY DEF TradeInv, RowInv, RowTypes
    <2> QED  BY <2>1, <2>2, <2>3, MoneySaved
  <1>7. ASSUME NEW p \in Player, LogoutPlayer(p)  PROVE MoneyInQueue'
    <2>1. PICK over \in SUBSET mislaid[p] : CommitTransaction(SavedRows({p}, money, bags, over))
      BY <1>7 DEF LogoutPlayer
    <2>2. over \in SUBSET Item /\ p \in Online
      BY <1>7 DEF LogoutPlayer, TradeInv, RowInv, RowTypes
    <2> QED  BY <2>1, <2>2, MoneySaved
  <1>8. ASSUME NEW p \in Player, HandlePlayerLogin(p)  PROVE MoneyInQueue'
    <2>1. PICK t \in Operations : DOMAIN t.gold = {} /\ dbQueue' = Append(dbQueue, t) /\ UNCHANGED db
      BY <1>8, OperationTypes, Zenon DEF HandlePlayerLogin, DelayQueryHolder, Enqueue
    <2>2. RowTypes
      BY DEF TradeInv, RowInv
    <2>3. [r \in Player |-> IF r \in DOMAIN t.gold THEN t.gold[r] ELSE GoldAfter(n, r)]
              = PursesAfter(n)
      BY <2>1 DEF PursesAfter
    <2>4. PursesAfter(n) \in Balanced
      BY <1>1 DEF MoneyInQueue
    <2> QED  BY <1>1, <2>1, <2>2, <2>3, <2>4, MoneyAppended
  <1>9. ASSUME NEW i \in Item, ClearSoulboundTradeable(i)  PROVE MoneyInQueue'
    BY <1>2, <1>9 DEF ClearSoulboundTradeable
  <1>10. ASSUME Execute  PROVE MoneyInQueue'
    <2>1. \A k \in 0..Len(dbQueue') : \E m \in 0..n :
              \A r \in Player : GoldAfter(k, r)' = GoldAfter(m, r)
      BY <1>1, <1>10, ExecuteRows DEF TradeInv, TableInv
    <2>2. \A m \in 0..n : PursesAfter(m) \in Balanced
      BY <1>1 DEF MoneyInQueue
    <2>3. ASSUME NEW k \in 0..Len(dbQueue')  PROVE PursesAfter(k)' \in Balanced
      <3>1. PICK m \in 0..n : \A r \in Player : GoldAfter(k, r)' = GoldAfter(m, r)
        BY <2>1
      <3>2. PursesAfter(k)' = PursesAfter(m)
        BY <3>1 DEF PursesAfter
      <3> QED  BY <3>2, <2>2
    <2> QED  BY <2>3 DEF MoneyInQueue
  <1>11. ASSUME Crash  PROVE MoneyInQueue'
    <2>1. dbQueue' = <<>> /\ Len(dbQueue') = 0 /\ db' = db
      BY <1>11 DEF Crash
    <2>2. \A p : GoldAfter(0, p)' = GoldAfter(0, p)
      BY <2>1, NoWrite DEF GoldAfter, GoldOf
    <2>3. PursesAfter(0)' = PursesAfter(0)
      BY <2>2 DEF PursesAfter
    <2>4. PursesAfter(0) \in Balanced
      BY <1>1 DEF MoneyInQueue
    <2> QED  BY <2>1, <2>3, <2>4 DEF MoneyInQueue
  <1>12. CASE UNCHANGED vars
    BY <1>2, <1>12 DEF vars
  <1>13. CASE Next
    BY <1>13, <1>3, <1>4, <1>5, <1>6, <1>7, <1>8, <1>9, <1>10, <1>11, Steps
  <1> QED  BY <1>12, <1>13

\* Whenever the server dies, the tables hold all of a trade or nothing of it: the
\* money of the players adds up.
THEOREM MoneyKept == Spec => []MoneyInTables
  <1>1. Init => MoneyInQueue
    <2> SUFFICES ASSUME Init  PROVE MoneyInQueue
      OBVIOUS
    <2>1. db.gold = StartMoney /\ Len(dbQueue) = 0
      BY DEF Init
    <2>2. PursesAfter(0) = StartMoney
      BY <2>1, RowNow, TradeAssumption DEF PursesAfter
    <2>3. StartMoney \in Balanced
      BY TradeAssumption DEF Balanced
    <2> QED  BY <2>1, <2>2, <2>3 DEF MoneyInQueue
  <1>2. TradeInv /\ MoneyInQueue => MoneyInTables
    <2> SUFFICES ASSUME TradeInv, MoneyInQueue  PROVE MoneyInTables
      OBVIOUS
    <2>1. PICK n \in Nat : n = Len(dbQueue)
      BY LenProperties DEF TradeInv, RowInv, RowTypes
    <2>2. PursesAfter(0) = db.gold
      BY RowNow DEF PursesAfter, TradeInv, RowInv, RowTypes
    <2>3. Total(db.gold, Player) = Total(StartMoney, Player)
      BY <2>1, <2>2 DEF MoneyInQueue, Balanced
    <2>4. MapThenSumSet(LAMBDA p : db.gold[p], Player) = Total(db.gold, Player)
      BY DEF MapThenSumSet, MapThenFoldSet, Total, SumLoop, SumFrom, AnyOf
    <2>5. MapThenSumSet(LAMBDA p : StartMoney[p], Player) = Total(StartMoney, Player)
      BY DEF MapThenSumSet, MapThenFoldSet, Total, SumLoop, SumFrom, AnyOf
    <2> QED  BY <2>3, <2>4, <2>5 DEF MoneyInTables
  <1> QED  BY <1>1, <1>2, TradeInvariant, MoneyStep, PTL DEF Spec
=============================================================================

------------------------ MODULE AuctionHouse_proofs ------------------------
(***************************************************************************)
(* Proofs about AuctionHouse, for every set of players, items, auctions and *)
(* mails, every price, deposit and cut, and every length of the queue of   *)
(* the database.                                                           *)
(***************************************************************************)
EXTENDS AuctionHouse, QueueLemmas

-----------------------------------------------------------------------------
(* Tables                                                                  *)

Tables == [gold : [Player -> Nat], inventory : [Item -> Player \union {None}],
           mail : [MailId -> Mail \union {None}],
           auctionhouse : [AuctionId -> Auction \union {None}], fees : Nat]

\* The tables after an operation: ExecuteTransaction for any tables
Applied(tables, t) ==
    [gold         |-> Override(tables.gold, t.gold),
     inventory    |-> Override(tables.inventory, t.inventory),
     mail         |-> Override(tables.mail, t.mail),
     auctionhouse |-> UpdateBids(Override(tables.auctionhouse, t.auctionhouse), t.bid),
     fees         |-> tables.fees + t.fees]

Carries(mails, m, i) == mails[m] # None /\ mails[m].item = i
Offers(auctions, id, i) == auctions[id] # None /\ auctions[id].item = i

\* An item is in one place.
PlacedOnce(tables, i) ==
    \/ /\ tables.inventory[i] # None
       /\ \A m \in MailId : ~Carries(tables.mail, m, i)
       /\ \A id \in AuctionId : ~Offers(tables.auctionhouse, id, i)
    \/ /\ tables.inventory[i] = None
       /\ \E m \in MailId :
             /\ Carries(tables.mail, m, i)
             /\ \A x \in MailId : Carries(tables.mail, x, i) => x = m
       /\ \A id \in AuctionId : ~Offers(tables.auctionhouse, id, i)
    \/ /\ tables.inventory[i] = None
       /\ \A m \in MailId : ~Carries(tables.mail, m, i)
       /\ \E id \in AuctionId :
             /\ Offers(tables.auctionhouse, id, i)
             /\ \A x \in AuctionId : Offers(tables.auctionhouse, x, i) => x = id

\* Every item is in one place: ItemsOnce for any tables, without counting
OnePlace(tables) == \A i \in Item : PlacedOnce(tables, i)

ItemsOf(tables, p) == {i \in Item : tables.inventory[i] = p}

-----------------------------------------------------------------------------
(* The invariant                                                           *)

\* Operations that the handlers queue
Bids == [bidder : Player, bid : Nat]
Operations ==
    [gold : Partial(Player, Nat), inventory : Partial(Item, Player \union {None}),
     mail : Partial(MailId, Mail \union {None}),
     auctionhouse : Partial(AuctionId, Auction \union {None}),
     bid : Partial(AuctionId, Bids), fees : Nat,
     login : Player \union {None}]

\* path[k] is what the tables are when k operations of the queue have been executed.
PathFrom(path) ==
    /\ path[0] = db
    /\ \A k \in 1..Len(dbQueue) : path[k] = Applied(path[k - 1], dbQueue[k])

\* From k on no mail to p is deleted.
MailsStay(path, k, p) ==
    \A j \in k..Len(dbQueue), m \in MailId :
        path[j].mail[m] # None /\ path[j].mail[m].to = p =>
            path[Len(dbQueue)].mail[m] = path[j].mail[m]

\* A login waits in the queue once, and loads rows that no operation behind it touches.
LoginLoadsLast(path) ==
    \A k \in 1..Len(dbQueue) : dbQueue[k].login # None =>
        LET p == dbQueue[k].login
            last == path[Len(dbQueue)]
        IN  /\ state[p] = "login" /\ holder[p] = None
            /\ path[k] = path[k - 1]
            /\ \A l \in 1..Len(dbQueue) : dbQueue[l].login = p => l = k
            /\ path[k].gold[p] = last.gold[p]
            /\ ItemsOf(path[k], p) = ItemsOf(last, p)
            /\ MailsStay(path, k, p)

\* The answer to a login stays true until it is taken up.
AnswerHolds(path) ==
    \A p \in Player : holder[p] # None =>
        /\ state[p] = "login"
        /\ holder[p] = [gold  |-> path[Len(dbQueue)].gold[p],
                        items |-> ItemsOf(path[Len(dbQueue)], p)]

\* Mails that are not loaded yet can be.
MailsWait(path) ==
    \A p \in Player : (holder[p] # None \/ state[p] = "online") /\ p \notin m_mailsLoaded
                          => MailsStay(path, 0, p)

\* A mail that has no row gets one from the queue only.
NoRowFromNowhere(path) ==
    \A j \in 0..Len(dbQueue), m \in MailId :
        /\ path[j].mail[m] = None
        /\ \A k \in 1..Len(dbQueue) : k > j => m \notin DOMAIN dbQueue[k].mail
        => path[Len(dbQueue)].mail[m] = None

PathInv(path) ==
    /\ PathFrom(path)
    /\ \A k \in 0..Len(dbQueue) : OnePlace(path[k])
    /\ LoginLoadsLast(path)
    /\ AnswerHolds(path)
    /\ MailsWait(path)
    /\ NoRowFromNowhere(path)

\* What is in memory is what the tables will be, but for deposits.
PlayersAgree(last) ==
    \A p \in Online :
        /\ bags[p] = ItemsOf(last, p)
        /\ money[p] \in {last.gold[p], last.gold[p] - Deposit}

MailsAgree(last) ==
    \A m \in MailId : m_mail[m] # None =>
        m_mail[m] = last.mail[m] /\ m_mail[m].to \in m_mailsLoaded

MemoryAgrees(last) ==
    /\ server = "up" => AuctionsMap = last.auctionhouse
    /\ PlayersAgree(last)
    /\ MailsAgree(last)

\* Nobody has anything in memory while he is not online, or while the server is not up.
OfflineEmpty ==
    /\ \A p \in Player \ Online : bags[p] = {} /\ money[p] = 0
    /\ server # "up" =>
          /\ dbQueue = <<>>
          /\ \A p \in Player : state[p] = "offline"
          /\ \A id \in AuctionId : AuctionsMap[id] = None

MemoryTypes ==
    /\ state \in [Player -> {"offline", "login", "online"}]
    /\ holder \in [Player -> LoginQueryHolder \union {None}]
    /\ money \in [Player -> Nat]
    /\ bags \in [Player -> SUBSET Item]
    /\ m_mailsLoaded \subseteq Online
    /\ m_mail \in [MailId -> Mail \union {None}]
    /\ AuctionsMap \in [AuctionId -> Auction \union {None}]
    /\ dbQueue \in Seq(Operations)

ItemInv ==
    /\ ~ExpireWhileDown
    /\ MemoryTypes
    /\ OfflineEmpty
    /\ \E path \in [Nat -> Tables] : PathInv(path) /\ MemoryAgrees(path[Len(dbQueue)])

-----------------------------------------------------------------------------
(* Operations and what they do to the tables                               *)

\* A row that is not in a table stays out of it by an empty operation.
LEMMA EmptyRows ==
    /\ DOMAIN <<>> = {}
    /\ \A S, T : <<>> \in Partial(S, T)
BY PartialFunctions

\* A single row
LEMMA OneRow ==
    ASSUME NEW S, NEW T, NEW key \in S, NEW value \in T
    PROVE  /\ Row(key, value) \in Partial(S, T)
           /\ DOMAIN Row(key, value) = {key}
           /\ Row(key, value)[key] = value
  <1>1. Row(key, value) \in [{key} -> T]
    BY DEF Row
  <1> QED  BY <1>1, PartialFunctions DEF Row

\* What an operation leaves in each table
LEMMA AppliedRows ==
    ASSUME NEW tables \in Tables, NEW t \in Operations
    PROVE  /\ Applied(tables, t) \in Tables
           /\ \A p \in Player : Applied(tables, t).gold[p] =
                 IF p \in DOMAIN t.gold THEN t.gold[p] ELSE tables.gold[p]
           /\ \A i \in Item : Applied(tables, t).inventory[i] =
                 IF i \in DOMAIN t.inventory THEN t.inventory[i] ELSE tables.inventory[i]
           /\ \A m \in MailId : Applied(tables, t).mail[m] =
                 IF m \in DOMAIN t.mail THEN t.mail[m] ELSE tables.mail[m]
           /\ \A id \in AuctionId : id \notin DOMAIN t.bid => Applied(tables, t).auctionhouse[id] =
                 IF id \in DOMAIN t.auctionhouse THEN t.auctionhouse[id]
                 ELSE tables.auctionhouse[id]
  <1>1. \A S, T : \A table \in [S -> T], rows \in Partial(S, T) :
           /\ Override(table, rows) \in [S -> T]
           /\ \A x \in S : Override(table, rows)[x] =
                 IF x \in DOMAIN rows THEN rows[x] ELSE table[x]
    BY PartialFunctions DEF Override
  <1>2. /\ t.gold \in Partial(Player, Nat)
        /\ t.inventory \in Partial(Item, Player \union {None})
        /\ t.mail \in Partial(MailId, Mail \union {None})
        /\ t.auctionhouse \in Partial(AuctionId, Auction \union {None})
        /\ t.bid \in Partial(AuctionId, Bids)
        /\ t.fees \in Nat
    BY DEF Operations
  <1>3. /\ tables.gold \in [Player -> Nat]
        /\ tables.inventory \in [Item -> Player \union {None}]
        /\ tables.mail \in [MailId -> Mail \union {None}]
        /\ tables.auctionhouse \in [AuctionId -> Auction \union {None}]
        /\ tables.fees \in Nat
    BY DEF Tables
  <1>4. \A table \in [AuctionId -> Auction \union {None}] :
           /\ UpdateBids(table, t.bid) \in [AuctionId -> Auction \union {None}]
           /\ \A id \in AuctionId :
                 id \notin DOMAIN t.bid => UpdateBids(table, t.bid)[id] = table[id]
    <2>1. \A x \in DOMAIN t.bid : t.bid[x].bidder \in Player /\ t.bid[x].bid \in Nat
      <3>1. \A x \in DOMAIN t.bid : t.bid[x] \in Bids
        BY <1>2, PartialFunctions
      <3> QED  BY ONLY <3>1 DEF Bids
    <2>2. ASSUME NEW table \in [AuctionId -> Auction \union {None}], NEW id \in AuctionId
          PROVE  /\ UpdateBids(table, t.bid)[id] \in Auction \union {None}
                 /\ id \notin DOMAIN t.bid => UpdateBids(table, t.bid)[id] = table[id]
      <3>1. UpdateBids(table, t.bid)[id] =
               IF id \in DOMAIN t.bid /\ table[id] # None
               THEN [table[id] EXCEPT !.bidder = t.bid[id].bidder, !.bid = t.bid[id].bid]
               ELSE table[id]
        BY DEF UpdateBids
      <3>2. \A auction \in Auction, p \in Player, n \in Nat :
               [auction EXCEPT !.bidder = p, !.bid = n] \in Auction
        BY DEF Auction
      <3>3. id \in DOMAIN t.bid /\ table[id] # None =>
               [table[id] EXCEPT !.bidder = t.bid[id].bidder, !.bid = t.bid[id].bid] \in Auction
        BY <2>1, <3>2
      <3> QED  BY ONLY <3>1, <3>3, table \in [AuctionId -> Auction \union {None}], id \in AuctionId
    <2>3. \A table \in [AuctionId -> Auction \union {None}] :
             UpdateBids(table, t.bid) \in [AuctionId -> Auction \union {None}]
      <3> SUFFICES ASSUME NEW table \in [AuctionId -> Auction \union {None}]
                   PROVE  UpdateBids(table, t.bid) \in [AuctionId -> Auction \union {None}]
        OBVIOUS
      <3>1. \A id \in AuctionId : UpdateBids(table, t.bid)[id] \in Auction \union {None}
        BY <2>2
      <3>2. UpdateBids(table, t.bid) = [id \in AuctionId |-> UpdateBids(table, t.bid)[id]]
        BY DEF UpdateBids
      <3> QED  BY ONLY <3>1, <3>2
    <2> QED  BY <2>2, <2>3
  <1>5. /\ Override(tables.gold, t.gold) \in [Player -> Nat]
        /\ Override(tables.inventory, t.inventory) \in [Item -> Player \union {None}]
        /\ Override(tables.mail, t.mail) \in [MailId -> Mail \union {None}]
        /\ Override(tables.auctionhouse, t.auctionhouse) \in [AuctionId -> Auction \union {None}]
    BY <1>1, <1>2, <1>3
  <1>6. Applied(tables, t) \in Tables
    <2>1. UpdateBids(Override(tables.auctionhouse, t.auctionhouse), t.bid)
             \in [AuctionId -> Auction \union {None}]
      BY <1>4, <1>5
    <2>2. tables.fees + t.fees \in Nat
      BY <1>2, <1>3
    <2> QED  BY ONLY <1>5, <2>1, <2>2 DEF Applied, Tables
  <1>7. /\ Applied(tables, t).gold = Override(tables.gold, t.gold)
        /\ Applied(tables, t).inventory = Override(tables.inventory, t.inventory)
        /\ Applied(tables, t).mail = Override(tables.mail, t.mail)
        /\ Applied(tables, t).auctionhouse =
              UpdateBids(Override(tables.auctionhouse, t.auctionhouse), t.bid)
    BY DEF Applied
  <1>8. \A id \in AuctionId : Override(tables.auctionhouse, t.auctionhouse)[id] =
           IF id \in DOMAIN t.auctionhouse THEN t.auctionhouse[id] ELSE tables.auctionhouse[id]
    BY <1>1, <1>2, <1>3
  <1>9. \A p \in Player : Override(tables.gold, t.gold)[p] =
           IF p \in DOMAIN t.gold THEN t.gold[p] ELSE tables.gold[p]
    BY <1>1, <1>2, <1>3
  <1>10. \A i \in Item : Override(tables.inventory, t.inventory)[i] =
           IF i \in DOMAIN t.inventory THEN t.inventory[i] ELSE tables.inventory[i]
    BY <1>1, <1>2, <1>3
  <1>11. \A m \in MailId : Override(tables.mail, t.mail)[m] =
           IF m \in DOMAIN t.mail THEN t.mail[m] ELSE tables.mail[m]
    BY <1>1, <1>2, <1>3
  <1>12. \A id \in AuctionId : id \notin DOMAIN t.bid => Applied(tables, t).auctionhouse[id] =
           IF id \in DOMAIN t.auctionhouse THEN t.auctionhouse[id] ELSE tables.auctionhouse[id]
    <2> DEFINE over == Override(tables.auctionhouse, t.auctionhouse)
    <2>1. /\ over \in [AuctionId -> Auction \union {None}]
          /\ Applied(tables, t).auctionhouse = UpdateBids(over, t.bid)
          /\ \A id \in AuctionId : over[id] =
                IF id \in DOMAIN t.auctionhouse THEN t.auctionhouse[id]
                ELSE tables.auctionhouse[id]
      BY <1>5, <1>7, <1>8
    <2> HIDE DEF over
    <2>2. \A id \in AuctionId : id \notin DOMAIN t.bid => UpdateBids(over, t.bid)[id] = over[id]
      BY <1>4, <2>1
    <2> QED  BY ONLY <2>1, <2>2
  <1> QED  BY ONLY <1>6, <1>7, <1>9, <1>10, <1>11, <1>12

WithBid(auction, bid) == [auction EXCEPT !.bidder = bid.bidder, !.bid = bid.bid]

\* A bid is written into the row of its auction.
LEMMA BidRow ==
    ASSUME NEW tables \in Tables, NEW t \in Operations, NEW id \in AuctionId,
           id \in DOMAIN t.bid, id \notin DOMAIN t.auctionhouse, tables.auctionhouse[id] # None
    PROVE  Applied(tables, t).auctionhouse[id] = WithBid(tables.auctionhouse[id], t.bid[id])
  <1>1. DOMAIN tables.auctionhouse = AuctionId
    BY DEF Tables
  <1>2. PICK over : over = Override(tables.auctionhouse, t.auctionhouse)
    OBVIOUS
  <1>3. DOMAIN over = AuctionId /\ over[id] = tables.auctionhouse[id]
    BY <1>1, <1>2 DEF Override
  <1>4. UpdateBids(over, t.bid)[id] = WithBid(over[id], t.bid[id])
    BY <1>3 DEF UpdateBids, WithBid
  <1>5. Applied(tables, t).auctionhouse = UpdateBids(over, t.bid)
    BY <1>2 DEF Applied
  <1> QED  BY ONLY <1>3, <1>4, <1>5

\* The same, for tables that have a name
LEMMA NextRows ==
    ASSUME NEW last \in Tables, NEW t \in Operations, NEW next, next = Applied(last, t)
    PROVE  /\ next \in Tables
           /\ \A p \in Player : next.gold[p] =
                 IF p \in DOMAIN t.gold THEN t.gold[p] ELSE last.gold[p]
           /\ \A i \in Item : next.inventory[i] =
                 IF i \in DOMAIN t.inventory THEN t.inventory[i] ELSE last.inventory[i]
           /\ \A m \in MailId : next.mail[m] =
                 IF m \in DOMAIN t.mail THEN t.mail[m] ELSE last.mail[m]
           /\ \A id \in AuctionId : id \notin DOMAIN t.bid => next.auctionhouse[id] =
                 IF id \in DOMAIN t.auctionhouse THEN t.auctionhouse[id]
                 ELSE last.auctionhouse[id]
  <1>1. \A p \in Player : Applied(last, t).gold[p] =
           IF p \in DOMAIN t.gold THEN t.gold[p] ELSE last.gold[p]
    BY AppliedRows
  <1>2. \A i \in Item : Applied(last, t).inventory[i] =
           IF i \in DOMAIN t.inventory THEN t.inventory[i] ELSE last.inventory[i]
    BY AppliedRows
  <1>3. \A m \in MailId : Applied(last, t).mail[m] =
           IF m \in DOMAIN t.mail THEN t.mail[m] ELSE last.mail[m]
    BY AppliedRows
  <1>4. \A id \in AuctionId : id \notin DOMAIN t.bid => Applied(last, t).auctionhouse[id] =
           IF id \in DOMAIN t.auctionhouse THEN t.auctionhouse[id] ELSE last.auctionhouse[id]
    BY AppliedRows
  <1>5. Applied(last, t) \in Tables
    BY AppliedRows
  <1> QED  BY <1>1, <1>2, <1>3, <1>4, <1>5

\* The tables do not change by the query of a login.
LEMMA LoginChangesNothing ==
    ASSUME NEW tables \in Tables, NEW p \in Player
    PROVE  /\ [NoRows EXCEPT !.login = p] \in Operations
           /\ Applied(tables, [NoRows EXCEPT !.login = p]) = tables
  <1> DEFINE t == [NoRows EXCEPT !.login = p]
  <1>1. t \in Operations
    BY EmptyRows DEF NoRows, Operations
  <1>2. /\ DOMAIN t.gold = {} /\ DOMAIN t.inventory = {} /\ DOMAIN t.mail = {}
        /\ DOMAIN t.auctionhouse = {} /\ DOMAIN t.bid = {} /\ t.fees = 0
    BY EmptyRows DEF NoRows
  <1>3. \A S, T : \A table \in [S -> T] : Override(table, <<>>) = table
    BY EmptyRows DEF Override
  <1>4. \A table \in [AuctionId -> Auction \union {None}] : UpdateBids(table, <<>>) = table
    BY EmptyRows DEF UpdateBids
  <1>5. tables = [gold |-> tables.gold, inventory |-> tables.inventory, mail |-> tables.mail,
                  auctionhouse |-> tables.auctionhouse, fees |-> tables.fees]
    BY DEF Tables
  <1>6. /\ tables.gold \in [Player -> Nat]
        /\ tables.inventory \in [Item -> Player \union {None}]
        /\ tables.mail \in [MailId -> Mail \union {None}]
        /\ tables.auctionhouse \in [AuctionId -> Auction \union {None}]
        /\ tables.fees \in Nat
    BY DEF Tables
  <1>7. Applied(tables, t) =
           [gold |-> Override(tables.gold, <<>>), inventory |-> Override(tables.inventory, <<>>),
            mail |-> Override(tables.mail, <<>>),
            auctionhouse |-> UpdateBids(Override(tables.auctionhouse, <<>>), <<>>),
            fees |-> tables.fees + 0]
    BY DEF Applied, NoRows
  <1>8. /\ Override(tables.gold, <<>>) = tables.gold
        /\ Override(tables.inventory, <<>>) = tables.inventory
        /\ Override(tables.mail, <<>>) = tables.mail
        /\ Override(tables.auctionhouse, <<>>) = tables.auctionhouse
    BY <1>3, <1>6
  <1>9. UpdateBids(tables.auctionhouse, <<>>) = tables.auctionhouse /\ tables.fees + 0 = tables.fees
    BY <1>4, <1>6
  <1> QED  BY <1>1, <1>5, <1>7, <1>8, <1>9

-----------------------------------------------------------------------------
(* The path from the tables through the queue                              *)

\* The step that queues t leaves alone what is on its way to or from the tables:
\* what a login will load, and mails that nobody has loaded.
Undisturbed(last, t) ==
    /\ \A p \in Player : state[p] = "login" =>
          /\ state'[p] = "login"
          /\ p \notin DOMAIN t.gold
          /\ ItemsOf(Applied(last, t), p) = ItemsOf(last, p)
    /\ \A p \in Player : state'[p] = "online" =>
          /\ state[p] = "online"
          /\ p \in m_mailsLoaded => p \in m_mailsLoaded'
    /\ \A m \in DOMAIN t.mail : last.mail[m] # None => last.mail[m].to \in m_mailsLoaded
    /\ t.login # None =>
          /\ state[t.login] = "offline" /\ state'[t.login] = "login"
          /\ Applied(last, t) = last

\* The path goes on with the operation that is queued.
LEMMA Appended ==
    ASSUME NEW path \in [Nat -> Tables], NEW t \in Operations, MemoryTypes, PathInv(path),
           OnePlace(Applied(path[Len(dbQueue)], t)), Undisturbed(path[Len(dbQueue)], t),
           dbQueue' = Append(dbQueue, t), db' = db, holder' = holder
    PROVE  \E new \in [Nat -> Tables] :
              PathInv(new)' /\ new[Len(dbQueue')] = Applied(path[Len(dbQueue)], t)
  <1> DEFINE n == Len(dbQueue)
             next == Applied(path[n], t)
  <1>1. n \in Nat /\ dbQueue \in Seq(Operations)
    BY DEF MemoryTypes
  <1>2. /\ path[n] \in Tables
        /\ next \in Tables
        /\ \A m \in MailId : m \notin DOMAIN t.mail => next.mail[m] = path[n].mail[m]
        /\ \A p \in Player : p \notin DOMAIN t.gold => next.gold[p] = path[n].gold[p]
    <2>1. path[n] \in Tables
      BY <1>1
    <2> HIDE DEF n
    <2>2. next \in Tables
      BY <2>1, AppliedRows
    <2>3. \A m \in MailId : next.mail[m] =
             IF m \in DOMAIN t.mail THEN t.mail[m] ELSE path[n].mail[m]
      BY <2>1, AppliedRows
    <2>4. \A p \in Player : next.gold[p] =
             IF p \in DOMAIN t.gold THEN t.gold[p] ELSE path[n].gold[p]
      BY <2>1, AppliedRows
    <2> QED  BY <2>1, <2>2, <2>3, <2>4
  <1>3. /\ Len(dbQueue') = n + 1
        /\ \A k \in 1..n : dbQueue'[k] = dbQueue[k]
        /\ dbQueue'[n + 1] = t
    BY <1>1
  <1>4. PICK new \in [Nat -> Tables] : /\ \A k \in 0..n : new[k] = path[k]
                                       /\ new[n + 1] = next
    <2>1. [path EXCEPT ![n + 1] = next] \in [Nat -> Tables]
      BY <1>1, <1>2
    <2> HIDE DEF next
    <2>2. /\ \A k \in 0..n : [path EXCEPT ![n + 1] = next][k] = path[k]
          /\ [path EXCEPT ![n + 1] = next][n + 1] = next
      BY <1>1
    <2> QED  BY <2>1, <2>2
  <1> HIDE DEF n, next
  <1>5. PathFrom(new)'
    <2>1. new[0] = db'
      BY <1>1, <1>4 DEF PathInv, PathFrom
    <2>2. \A k \in 1..(n + 1) : new[k] = Applied(new[k - 1], dbQueue'[k])
      <3> TAKE k \in 1..(n + 1)
      <3>1. CASE k = n + 1
        BY <1>1, <1>3, <1>4, <3>1 DEF next
      <3>2. CASE k # n + 1
        <4>1. k \in 1..n /\ k \in 0..n /\ k - 1 \in 0..n
          BY <1>1, <3>2
        <4>2. path[k] = Applied(path[k - 1], dbQueue[k])
          BY <4>1 DEF PathInv, PathFrom, n
        <4> QED  BY <1>3, <1>4, <4>1, <4>2
      <3> QED  BY <3>1, <3>2
    <2> QED  BY <1>3, <2>1, <2>2 DEF PathFrom
  <1>6. \A k \in 0..(n + 1) : OnePlace(new[k])
    <2> TAKE k \in 0..(n + 1)
    <2>1. CASE k = n + 1
      BY <1>4, <2>1 DEF next, n
    <2>2. CASE k # n + 1
      BY <1>1, <1>4, <2>2 DEF PathInv, n
    <2> QED  BY <2>1, <2>2
  <1>7. ASSUME NEW p \in Player, NEW k \in 0..n, p \notin m_mailsLoaded, MailsStay(path, k, p)
        PROVE  MailsStay(new, k, p)'
    <2> SUFFICES ASSUME NEW j \in k..(n + 1), NEW m \in MailId,
                        new[j].mail[m] # None, new[j].mail[m].to = p
                 PROVE  next.mail[m] = new[j].mail[m]
      BY <1>3, <1>4 DEF MailsStay
    <2>1. CASE j = n + 1
      BY <1>4, <2>1
    <2>2. CASE j # n + 1
      <3>1. j \in k..n /\ j \in 0..n
        BY <1>1, <2>2
      <3>2. path[n].mail[m] = path[j].mail[m]
        BY <1>4, <1>7, <3>1 DEF MailsStay, n
      <3>3. m \notin DOMAIN t.mail
        BY <1>4, <1>7, <3>1, <3>2 DEF Undisturbed, n
      <3> QED  BY <1>2, <1>4, <3>1, <3>2, <3>3
    <2> QED  BY <2>1, <2>2
  <1>8. \A p \in Player : state[p] = "login" => p \notin m_mailsLoaded
    BY DEF MemoryTypes, Online
  <1>9. LoginLoadsLast(new)'
    <2> SUFFICES ASSUME NEW k \in 1..(n + 1), NEW p, p = dbQueue'[k].login, p # None
                 PROVE  /\ state'[p] = "login" /\ holder'[p] = None
                        /\ new[k] = new[k - 1]
                        /\ \A l \in 1..(n + 1) : dbQueue'[l].login = p => l = k
                        /\ new[k].gold[p] = next.gold[p]
                        /\ ItemsOf(new[k], p) = ItemsOf(next, p)
                        /\ MailsStay(new, k, p)'
      BY <1>3, <1>4 DEF LoginLoadsLast
    <2>1. CASE k = n + 1
      <3>1. p = t.login /\ p \in Player
        BY <1>3, <2>1 DEF Operations
      <3>2. state[p] = "offline" /\ state'[p] = "login" /\ next = path[n]
        BY <3>1 DEF Undisturbed, n, next
      <3>3. holder'[p] = None
        BY <3>1, <3>2 DEF PathInv, AnswerHolds
      <3>4. new[k] = new[k - 1]
        BY <1>1, <1>4, <2>1, <3>2
      <3>5. \A l \in 1..n : dbQueue[l].login # p
        BY <3>1, <3>2 DEF PathInv, LoginLoadsLast, n
      <3>6. \A l \in 1..(n + 1) : dbQueue'[l].login = p => l = k
        BY <1>1, <1>3, <2>1, <3>5
      <3>7. MailsStay(new, k, p)'
        BY <1>1, <1>3, <2>1 DEF MailsStay
      <3> QED  BY <1>4, <2>1, <3>2, <3>3, <3>4, <3>6, <3>7
    <2>2. CASE k # n + 1
      <3>1. k \in 1..n /\ k \in 0..n /\ k - 1 \in 0..n
        BY <1>1, <2>2
      <3>2. p = dbQueue[k].login /\ p \in Player
        <4>1. dbQueue[k] \in Operations
          BY <1>1, <3>1 DEF n
        <4> QED  BY <1>3, <3>1, <4>1 DEF Operations
      <3>3. /\ state[p] = "login" /\ holder[p] = None
            /\ path[k] = path[k - 1]
            /\ \A l \in 1..n : dbQueue[l].login = p => l = k
            /\ path[k].gold[p] = path[n].gold[p]
            /\ ItemsOf(path[k], p) = ItemsOf(path[n], p)
            /\ MailsStay(path, k, p)
        BY <3>1, <3>2 DEF PathInv, LoginLoadsLast, n
      <3>4. /\ state'[p] = "login" /\ holder'[p] = None
            /\ next.gold[p] = path[n].gold[p]
            /\ ItemsOf(next, p) = ItemsOf(path[n], p)
        BY <1>2, <3>2, <3>3 DEF Undisturbed, n, next
      <3>5. t.login # p
        BY <3>3 DEF Undisturbed
      <3>6. \A l \in 1..(n + 1) : dbQueue'[l].login = p => l = k
        BY <1>1, <1>3, <3>3, <3>5
      <3>7. MailsStay(new, k, p)'
        BY <1>7, <1>8, <3>1, <3>2, <3>3
      <3> QED  BY <1>4, <3>1, <3>3, <3>4, <3>6, <3>7
    <2> QED  BY <2>1, <2>2
  <1>10. AnswerHolds(new)'
    <2> SUFFICES ASSUME NEW p \in Player, holder'[p] # None
                 PROVE  /\ state'[p] = "login"
                        /\ holder'[p] = [gold |-> next.gold[p], items |-> ItemsOf(next, p)]
      BY <1>3, <1>4 DEF AnswerHolds
    <2>1. /\ state[p] = "login"
          /\ holder[p] = [gold |-> path[n].gold[p], items |-> ItemsOf(path[n], p)]
      BY DEF PathInv, AnswerHolds, n
    <2>2. /\ state'[p] = "login"
          /\ next.gold[p] = path[n].gold[p]
          /\ ItemsOf(next, p) = ItemsOf(path[n], p)
      BY <1>2, <2>1 DEF Undisturbed, n, next
    <2> QED  BY <2>1, <2>2
  <1>11. MailsWait(new)'
    <2> SUFFICES ASSUME NEW p \in Player, holder'[p] # None \/ state'[p] = "online",
                        p \notin m_mailsLoaded'
                 PROVE  MailsStay(new, 0, p)'
      BY DEF MailsWait
    <2>1. /\ holder[p] # None \/ state[p] = "online"
          /\ p \notin m_mailsLoaded
      BY <1>8 DEF Undisturbed, PathInv, AnswerHolds
    <2>2. MailsStay(path, 0, p)
      BY <2>1 DEF PathInv, MailsWait
    <2> QED  BY <1>1, <1>7, <2>1, <2>2
  <1>12. NoRowFromNowhere(new)'
    <2> SUFFICES ASSUME NEW j \in 0..(n + 1), NEW m \in MailId, new[j].mail[m] = None,
                        \A k \in 1..(n + 1) : k > j => m \notin DOMAIN dbQueue'[k].mail
                 PROVE  next.mail[m] = None
      BY <1>3, <1>4 DEF NoRowFromNowhere
    <2>1. CASE j = n + 1
      BY <1>4, <2>1
    <2>2. CASE j # n + 1
      <3>1. j \in 0..n /\ n + 1 > j /\ n + 1 \in 1..(n + 1)
        BY <1>1, <2>2
      <3>2. \A k \in 1..n : k > j => m \notin DOMAIN dbQueue[k].mail
        <4> TAKE k \in 1..n
        <4> k \in 1..(n + 1)
          BY <1>1
        <4> QED  BY <1>3
      <3>3. path[n].mail[m] = None
        BY <1>4, <3>1, <3>2 DEF PathInv, NoRowFromNowhere, n
      <3>4. m \notin DOMAIN t.mail
        BY <1>3, <3>1
      <3> QED  BY <1>2, <3>3, <3>4
    <2> QED  BY <2>1, <2>2
  <1> QED  BY <1>3, <1>4, <1>5, <1>6, <1>9, <1>10, <1>11, <1>12 DEF PathInv, n, next

\* The worker takes the path's first step.
LEMMA Executed ==
    ASSUME NEW path \in [Nat -> Tables], MemoryTypes, PathInv(path), Execute
    PROVE  \E new \in [Nat -> Tables] :
              PathInv(new)' /\ new[Len(dbQueue')] = path[Len(dbQueue)]
  <1> DEFINE n == Len(dbQueue)
             t == dbQueue[1]
  <1>1. n \in Nat \ {0} /\ dbQueue \in Seq(Operations) /\ t = Head(dbQueue) /\ t \in Operations
    BY DEF MemoryTypes, Execute
  <1>2. /\ Len(dbQueue') = n - 1
        /\ \A k \in 1..(n - 1) : dbQueue'[k] = dbQueue[k + 1]
    BY <1>1 DEF Execute
  <1>3. PICK new \in [Nat -> Tables] : \A k \in Nat : new[k] = path[k + 1]
    <2>1. [k \in Nat |-> path[k + 1]] \in [Nat -> Tables]
      OBVIOUS
    <2> QED  BY <2>1
  <1>4. path[0] = db /\ path[1] = Applied(db, t)
    BY <1>1 DEF PathInv, PathFrom
  <1>5. t.login # None => path[1] = db /\ t.login \in Player
    <2> HAVE t.login # None
    <2>1. path[1] = path[1 - 1]
      BY <1>1 DEF PathInv, LoginLoadsLast
    <2> QED  BY <1>1, <1>4, <2>1 DEF Operations
  <1>6. path[1] = db'
    BY <1>1, <1>4, <1>5 DEF Execute, ExecuteTransaction, Applied
  <1>7. /\ state' = state /\ m_mailsLoaded' = m_mailsLoaded
        /\ \A p \in Player : p # t.login => holder'[p] = holder[p]
        /\ t.login # None =>
              holder'[t.login] = [gold |-> db.gold[t.login], items |-> ItemsOf(db, t.login)]
    BY <1>1, <1>5 DEF Execute, mailVars, ItemsOf, MemoryTypes
  <1> HIDE DEF n, t
  <1>8. new[n - 1] = path[n] /\ new[0] = db'
    BY <1>1, <1>3, <1>6
  <1>9. PathFrom(new)'
    <2>1. \A k \in 1..(n - 1) : new[k] = Applied(new[k - 1], dbQueue'[k])
      <3> TAKE k \in 1..(n - 1)
      <3>1. k + 1 \in 1..n /\ (k + 1) - 1 = k /\ (k - 1) + 1 = k /\ k \in Nat /\ k - 1 \in Nat
        BY <1>1
      <3>2. path[k + 1] = Applied(path[k], dbQueue[k + 1])
        BY <3>1 DEF PathInv, PathFrom, n
      <3> QED  BY <1>2, <1>3, <3>1, <3>2
    <2> QED  BY <1>2, <1>8, <2>1 DEF PathFrom
  <1>10. \A k \in 0..(n - 1) : OnePlace(new[k])
    <2> TAKE k \in 0..(n - 1)
    <2>1. k \in Nat /\ k + 1 \in 0..n
      BY <1>1
    <2> QED  BY <1>3, <2>1 DEF PathInv, n
  <1>11. ASSUME NEW p, NEW k \in 0..n, NEW l \in 0..(n - 1), k <= l + 1, MailsStay(path, k, p)
         PROVE  MailsStay(new, l, p)'
    <2> SUFFICES ASSUME NEW j \in l..(n - 1), NEW m \in MailId,
                        new[j].mail[m] # None, new[j].mail[m].to = p
                 PROVE  new[n - 1].mail[m] = new[j].mail[m]
      BY <1>2 DEF MailsStay
    <2>1. j + 1 \in k..n /\ j \in Nat
      BY <1>1, <1>11
    <2> QED  BY <1>3, <1>8, <1>11, <2>1 DEF MailsStay, n
  <1>12. ASSUME NEW k \in 1..n, NEW p, p = dbQueue[k].login, p # None
         PROVE  /\ state[p] = "login" /\ holder[p] = None /\ p \in Player
                /\ path[k] = path[k - 1]
                /\ \A l \in 1..n : dbQueue[l].login = p => l = k
                /\ path[k].gold[p] = path[n].gold[p]
                /\ ItemsOf(path[k], p) = ItemsOf(path[n], p)
                /\ MailsStay(path, k, p)
    <2>1. p \in Player
      <3>1. dbQueue[k] \in Operations
        BY <1>1 DEF n
      <3> QED  BY <1>12, <3>1 DEF Operations
    <2> QED  BY <1>12, <2>1 DEF PathInv, LoginLoadsLast, n
  <1>13. LoginLoadsLast(new)'
    <2> SUFFICES ASSUME NEW k \in 1..(n - 1), NEW p, p = dbQueue'[k].login, p # None
                 PROVE  /\ state'[p] = "login" /\ holder'[p] = None
                        /\ new[k] = new[k - 1]
                        /\ \A l \in 1..(n - 1) : dbQueue'[l].login = p => l = k
                        /\ new[k].gold[p] = new[n - 1].gold[p]
                        /\ ItemsOf(new[k], p) = ItemsOf(new[n - 1], p)
                        /\ MailsStay(new, k, p)'
      BY <1>2 DEF LoginLoadsLast
    <2>1. /\ k + 1 \in 1..n /\ k + 1 \in 0..n /\ (k + 1) - 1 = k /\ (k - 1) + 1 = k
          /\ k \in Nat /\ k - 1 \in Nat
          /\ k \in 0..(n - 1) /\ k + 1 <= k + 1 /\ k + 1 # 1 /\ 1 \in 1..n
      BY <1>1
    <2>2. /\ state[p] = "login" /\ holder[p] = None /\ p \in Player
          /\ path[k + 1] = path[k]
          /\ \A l \in 1..n : dbQueue[l].login = p => l = k + 1
          /\ path[k + 1].gold[p] = path[n].gold[p]
          /\ ItemsOf(path[k + 1], p) = ItemsOf(path[n], p)
          /\ MailsStay(path, k + 1, p)
      BY <1>2, <1>12, <2>1
    <2>3. p # t.login
      BY <2>1, <2>2 DEF t
    <2>4. \A l \in 1..(n - 1) : dbQueue'[l].login = p => l = k
      <3> SUFFICES ASSUME NEW l \in 1..(n - 1), dbQueue'[l].login = p
                   PROVE  l = k
        OBVIOUS
      <3>1. l + 1 \in 1..n /\ dbQueue[l + 1].login = p
        BY <1>1, <1>2
      <3>2. l + 1 = k + 1
        BY <2>2, <3>1
      <3> QED  BY <3>2
    <2>5. MailsStay(new, k, p)'
      BY <1>11, <2>1, <2>2
    <2> QED  BY <1>3, <1>7, <1>8, <2>1, <2>2, <2>3, <2>4, <2>5
  <1>14. t.login # None =>
            /\ state[t.login] = "login"
            /\ path[1].gold[t.login] = path[n].gold[t.login]
            /\ ItemsOf(path[1], t.login) = ItemsOf(path[n], t.login)
            /\ MailsStay(path, 1, t.login)
    <2>1. 1 \in 1..n /\ t = dbQueue[1]
      BY <1>1 DEF t
    <2> QED  BY <1>12, <2>1
  <1>15. AnswerHolds(new)'
    <2> SUFFICES ASSUME NEW p \in Player, holder'[p] # None
                 PROVE  /\ state'[p] = "login"
                        /\ holder'[p] = [gold |-> path[n].gold[p], items |-> ItemsOf(path[n], p)]
      BY <1>2, <1>8 DEF AnswerHolds
    <2>1. CASE p = t.login /\ t.login # None
      BY <1>5, <1>7, <1>14, <2>1
    <2>2. CASE p # t.login
      BY <1>7, <2>2 DEF PathInv, AnswerHolds, n
    <2>3. p # None
      BY AuctionHouseAssumption
    <2> QED  BY <2>1, <2>2, <2>3
  <1>16. MailsWait(new)'
    <2> SUFFICES ASSUME NEW p \in Player, holder'[p] # None \/ state'[p] = "online",
                        p \notin m_mailsLoaded'
                 PROVE  MailsStay(new, 0, p)'
      BY DEF MailsWait
    <2>0. 0 \in 0..n /\ 1 \in 0..n /\ 0 \in 0..(n - 1) /\ 0 <= 0 + 1 /\ 1 <= 0 + 1
      BY <1>1
    <2>1. CASE p = t.login /\ t.login # None
      BY <1>11, <1>14, <2>0, <2>1
    <2>2. CASE p # t.login
      <3>1. MailsStay(path, 0, p)
        BY <1>7, <2>2 DEF PathInv, MailsWait
      <3> QED  BY <1>11, <2>0, <3>1
    <2>3. p # None
      BY AuctionHouseAssumption
    <2> QED  BY <2>1, <2>2, <2>3
  <1>17. NoRowFromNowhere(new)'
    <2> SUFFICES ASSUME NEW j \in 0..(n - 1), NEW m \in MailId, new[j].mail[m] = None,
                        \A k \in 1..(n - 1) : k > j => m \notin DOMAIN dbQueue'[k].mail
                 PROVE  path[n].mail[m] = None
      BY <1>2, <1>8 DEF NoRowFromNowhere
    <2>1. j + 1 \in 0..n /\ j \in Nat
      BY <1>1
    <2>2. \A k \in 1..n : k > j + 1 => m \notin DOMAIN dbQueue[k].mail
      <3> SUFFICES ASSUME NEW k \in 1..n, k > j + 1
                   PROVE  m \notin DOMAIN dbQueue[k].mail
        OBVIOUS
      <3>1. k - 1 \in 1..(n - 1) /\ k - 1 > j /\ (k - 1) + 1 = k
        BY <1>1
      <3> QED  BY <1>2, <3>1
    <2>3. path[j + 1].mail[m] = None
      BY <1>3, <2>1
    <2> QED  BY <2>1, <2>2, <2>3 DEF PathInv, NoRowFromNowhere, n
  <1> QED  BY <1>2, <1>8, <1>9, <1>10, <1>13, <1>15, <1>16, <1>17 DEF PathInv, n

-----------------------------------------------------------------------------
(* Mails                                                                   *)

Rank(ids, x) == Cardinality({y \in ids : y <= x})

\* The first n of a set of numbers, and their ranks
LEMMA Ranks ==
    ASSUME NEW ids \in SUBSET Nat, IsFiniteSet(ids), NEW n \in Nat, n <= Cardinality(ids)
    PROVE  /\ \A x \in ids : Rank(ids, x) \in Nat \ {0}
           /\ \A x, y \in ids : Rank(ids, x) = Rank(ids, y) => x = y
           /\ \A k \in 1..n : \E x \in ids : Rank(ids, x) = k
  <1> DEFINE upto(x) == {y \in ids : y <= x}
             c == Cardinality(ids)
             rank == [x \in ids |-> Rank(ids, x)]
  <1>1. c \in Nat
    BY FS_CardinalityType
  <1>2. \A x \in ids : IsFiniteSet(upto(x)) /\ Cardinality(upto(x)) \in Nat
    BY FS_Subset, FS_CardinalityType
  <1>3. \A x \in ids : Rank(ids, x) \in 1..c
    <2> TAKE x \in ids
    <2>1. upto(x) \in SUBSET ids
      OBVIOUS
    <2>2. Cardinality(upto(x)) <= c
      BY <2>1, FS_Subset
    <2>3. upto(x) # {}
      OBVIOUS
    <2>4. Cardinality(upto(x)) # 0
      BY <1>2, <2>3, FS_EmptySet
    <2> QED  BY <1>1, <1>2, <2>2, <2>4 DEF Rank
  <1>4. ASSUME NEW x \in ids, NEW y \in ids, x < y
        PROVE  Rank(ids, x) # Rank(ids, y)
    <2>0. \A z \in Nat : z <= x => z <= y
      BY <1>4
    <2>1. upto(x) \in SUBSET upto(y)
      <3>1. \A z \in upto(x) : z \in upto(y)
        BY <2>0
      <3> QED  BY <3>1
    <2>2. upto(x) # upto(y)
      BY <1>4
    <2> HIDE DEF upto
    <2>3. Cardinality(upto(y)) = Cardinality(upto(x)) => upto(y) = upto(x)
      BY <1>2, <2>1, FS_Subset
    <2> USE DEF upto
    <2> QED  BY <2>2, <2>3 DEF Rank
  <1>5. \A x, y \in ids : Rank(ids, x) = Rank(ids, y) => x = y
    <2> TAKE x, y \in ids
    <2>1. x < y \/ y < x \/ x = y
      OBVIOUS
    <2> QED  BY <1>4, <2>1
  <1>6. rank \in Injection(ids, 1..c)
    BY <1>3, <1>5 DEF Injection, IsInjective
  <1>7. IsFiniteSet(1..c) /\ Cardinality(1..c) = c
    BY <1>1, FS_Interval
  <1>8. rank \in Surjection(ids, 1..c)
    BY <1>6, <1>7, FS_Injection
  <1>9. \A k \in 1..c : \E x \in ids : rank[x] = k
    BY <1>8 DEF Surjection
  <1> QED  BY <1>1, <1>3, <1>5, <1>9

\* Each of the mails that are sent gets a row of its own, under an id that is free.
LEMMA Posted ==
    ASSUME NEW drafts \in Seq(Mail), Len(drafts) <= Cardinality(FreshMailIds)
    PROVE  /\ MailRows(drafts) \in Partial(MailId, Mail \union {None})
           /\ DOMAIN MailRows(drafts) \subseteq FreshMailIds
           /\ \E index \in [DOMAIN MailRows(drafts) -> 1..Len(drafts)] :
                 /\ \A m \in DOMAIN MailRows(drafts) : MailRows(drafts)[m] = drafts[index[m]]
                 /\ \A m, x \in DOMAIN MailRows(drafts) : index[m] = index[x] => m = x
                 /\ \A k \in 1..Len(drafts) : \E m \in DOMAIN MailRows(drafts) : index[m] = k
  <1> DEFINE ids == FreshMailIds
             n == Len(drafts)
             D == {x \in ids : Rank(ids, x) <= n}
             index == [m \in D |-> Rank(ids, m)]
  <1>1. ids \in SUBSET MailId /\ ids \in SUBSET Nat /\ IsFiniteSet(ids) /\ n \in Nat
    BY AuctionHouseAssumption, FS_Subset DEF FreshMailIds
  <1>2. MailRows(drafts) = [m \in D |-> drafts[Rank(ids, m)]]
    BY DEF MailRows, Rank
  <1> HIDE DEF ids
  <1>3. /\ \A x \in ids : Rank(ids, x) \in Nat \ {0}
        /\ \A x, y \in ids : Rank(ids, x) = Rank(ids, y) => x = y
        /\ \A k \in 1..n : \E x \in ids : Rank(ids, x) = k
    BY <1>1, Ranks DEF ids
  <1>4. \A m \in D : Rank(ids, m) \in 1..n
    BY <1>1, <1>3
  <1>5. index \in [D -> 1..n]
    BY <1>4
  <1>6. \A m, x \in D : index[m] = index[x] => m = x
    BY <1>3
  <1>7. \A k \in 1..n : \E m \in D : index[m] = k
    <2> TAKE k \in 1..n
    <2>1. PICK x \in ids : Rank(ids, x) = k
      BY <1>3
    <2>2. x \in D
      BY <1>1, <2>1
    <2> QED  BY <2>1, <2>2
  <1>8. DOMAIN MailRows(drafts) = D
    BY <1>2
  <1>9. MailRows(drafts) \in [D -> Mail \union {None}]
    BY <1>2, <1>4
  <1>10. MailRows(drafts) \in Partial(MailId, Mail \union {None})
    <2>1. D \in SUBSET MailId
      BY <1>1
    <2> QED  BY <1>9, <2>1, PartialFunctions
  <1>11. \A m \in D : MailRows(drafts)[m] = drafts[index[m]]
    BY <1>2
  <1> HIDE DEF D, index
  <1>12. D \subseteq FreshMailIds
    BY DEF D, ids
  <1> QED  BY <1>5, <1>6, <1>7, <1>8, <1>10, <1>11, <1>12

\* Amounts are never negative.
LEMMA Amounts ==
    /\ \A n \in Int : U32(n) \in Nat
    /\ \A auction \in Auction :
          /\ GetAuctionCut(auction) \in Nat
          /\ Profit(auction) \in Nat
          /\ EndFees(auction) \in Nat
  <1>1. Modulus \in Nat \ {0} /\ CutPercent \in Nat /\ Deposit \in Nat
    BY AuctionHouseAssumption
  <1>2. \A n \in Int : U32(n) \in Nat
    BY <1>1 DEF U32
  <1>3. ASSUME NEW auction \in Auction
        PROVE  GetAuctionCut(auction) \in Nat
    <2>1. auction.bid \in Nat
      BY DEF Auction
    <2>2. auction.bid * CutPercent \in Nat
      BY <1>1, <2>1
    <2>3. \A n \in Nat : n \div 100 \in Nat
      OBVIOUS
    <2> QED  BY <2>2, <2>3 DEF GetAuctionCut
  <1>4. ASSUME NEW auction \in Auction
        PROVE  Profit(auction) \in Nat
    <2>1. auction.bid \in Nat
      BY DEF Auction
    <2>2. auction.bid + Deposit - GetAuctionCut(auction) \in Int
      BY <1>1, <1>3, <2>1
    <2> QED  BY <1>2, <2>2 DEF Profit
  <1> QED  BY <1>1, <1>2, <1>3, <1>4 DEF EndFees

\* Exactly one of the mails carries the item i, and no other carries any.
CarriedOnce(drafts, i) ==
    \E k \in 1..Len(drafts) :
        /\ drafts[k].item = i
        /\ \A j \in 1..Len(drafts) : j # k => drafts[j].item = None

\* Mails that free ids are found for
Sendable(drafts) == drafts \in Seq(Mail) /\ Len(drafts) <= Cardinality(FreshMailIds)

\* Free ids have no rows after the queue either.
FreeIds(last) == \A m \in FreshMailIds : last.mail[m] = None

\* An id that FreshMailIds offers has no row in the tables the queue leads to.
LEMMA FreeIdsFree ==
    ASSUME NEW path \in [Nat -> Tables], MemoryTypes, PathInv(path)
    PROVE  FreeIds(path[Len(dbQueue)])
  <1> SUFFICES ASSUME NEW m \in FreshMailIds
               PROVE  path[Len(dbQueue)].mail[m] = None
    BY DEF FreeIds
  <1>1. m \in MailId /\ path[0].mail[m] = None
    BY DEF FreshMailIds, PathInv, PathFrom
  <1>2. \A k \in 1..Len(dbQueue) : k > 0 => m \notin DOMAIN dbQueue[k].mail
    BY DEF FreshMailIds, QueuedMails
  <1>3. Len(dbQueue) \in Nat /\ 0 \in 0..Len(dbQueue)
    BY DEF MemoryTypes
  <1> QED  BY <1>1, <1>2, <1>3 DEF PathInv, NoRowFromNowhere

\* Mails without items: no item moves.
LEMMA LettersOnly ==
    ASSUME NEW last \in Tables, OnePlace(last), NEW t \in Operations, DOMAIN t.inventory = {},
           NEW next, next = Applied(last, t),
           \A m \in DOMAIN t.mail :
              /\ last.mail[m] = None \/ last.mail[m].item = None
              /\ t.mail[m] = None \/ t.mail[m].item = None,
           \A id \in AuctionId, i \in Item :
              Offers(next.auctionhouse, id, i) <=> Offers(last.auctionhouse, id, i)
    PROVE  OnePlace(next) /\ \A q : ItemsOf(next, q) = ItemsOf(last, q)
  <1>1. \A i \in Item : next.inventory[i] = last.inventory[i]
    BY NextRows
  <1>2. \A m \in MailId : next.mail[m] = IF m \in DOMAIN t.mail THEN t.mail[m] ELSE last.mail[m]
    BY NextRows
  <1>3. \A i \in Item : i # None
    BY AuctionHouseAssumption
  <1>4. \A m \in MailId, i \in Item : Carries(next.mail, m, i) <=> Carries(last.mail, m, i)
    BY <1>2, <1>3 DEF Carries
  <1>5. \A i \in Item : PlacedOnce(next, i)
    <2> TAKE i \in Item
    <2>1. PlacedOnce(last, i)
      BY DEF OnePlace
    <2> QED  BY <1>1, <1>4, <2>1 DEF PlacedOnce
  <1> QED  BY <1>1, <1>5 DEF OnePlace, ItemsOf

\* The item of an auction that ends goes into a mail.
LEMMA AuctionEnds ==
    ASSUME NEW last \in Tables, OnePlace(last), FreeIds(last), NEW t \in Operations,
           NEW next, next = Applied(last, t), NEW drafts, Sendable(drafts),
           NEW id \in AuctionId, last.auctionhouse[id] # None,
           CarriedOnce(drafts, last.auctionhouse[id].item),
           DOMAIN t.inventory = {}, DOMAIN t.bid = {}, t.auctionhouse = Row(id, None),
           t.mail = MailRows(drafts)
    PROVE  OnePlace(next) /\ \A q : ItemsOf(next, q) = ItemsOf(last, q)
  <1> DEFINE j == last.auctionhouse[id].item
  <1>1. \A i \in Item : next.inventory[i] = last.inventory[i]
    BY NextRows
  <1>2. \A m \in MailId : next.mail[m] = IF m \in DOMAIN t.mail THEN t.mail[m] ELSE last.mail[m]
    BY NextRows
  <1>3. \A x \in AuctionId : next.auctionhouse[x] = IF x = id THEN None ELSE last.auctionhouse[x]
    <2>1. DOMAIN t.auctionhouse = {id} /\ t.auctionhouse[id] = None
      BY DEF Row
    <2>2. \A x \in AuctionId : next.auctionhouse[x] =
             IF x \in DOMAIN t.auctionhouse THEN t.auctionhouse[x] ELSE last.auctionhouse[x]
      BY NextRows
    <2> QED  BY <2>1, <2>2
  <1>4. j \in Item
    <2>1. last.auctionhouse[id] \in Auction
      BY DEF Tables
    <2> QED  BY <2>1 DEF Auction
  <1>5. \A i \in Item : i # None
    BY AuctionHouseAssumption
  <1>6. /\ DOMAIN t.mail \subseteq FreshMailIds
        /\ DOMAIN t.mail \subseteq MailId
        /\ \A m \in DOMAIN t.mail : last.mail[m] = None
    BY Posted DEF FreeIds, Sendable, FreshMailIds
  <1>7. PICK index \in [DOMAIN t.mail -> 1..Len(drafts)] :
           /\ \A m \in DOMAIN t.mail : t.mail[m] = drafts[index[m]]
           /\ \A m, x \in DOMAIN t.mail : index[m] = index[x] => m = x
           /\ \A k \in 1..Len(drafts) : \E m \in DOMAIN t.mail : index[m] = k
    BY Posted DEF Sendable
  <1>8. PICK k \in 1..Len(drafts) :
           /\ drafts[k].item = j
           /\ \A l \in 1..Len(drafts) : l # k => drafts[l].item = None
    BY DEF CarriedOnce
  <1>9. PICK m0 \in DOMAIN t.mail : index[m0] = k
    BY <1>7, <1>8
  <1>10. \A k1 \in 1..Len(drafts) : drafts[k1] # None
    <2> TAKE k1 \in 1..Len(drafts)
    <2>1. drafts[k1] \in Mail
      BY DEF Sendable
    <2> QED  BY <2>1, NoneAssumption
  <1> HIDE DEF j
  <1>11. /\ t.mail[m0] # None /\ t.mail[m0].item = j
         /\ \A m \in DOMAIN t.mail : m # m0 => t.mail[m].item = None
    <2>1. t.mail[m0] = drafts[k]
      BY <1>7, <1>9
    <2>2. ASSUME NEW m \in DOMAIN t.mail, m # m0
          PROVE  t.mail[m].item = None
      BY <1>7, <1>8, <1>9, <2>2
    <2> QED  BY <1>8, <1>10, <2>1, <2>2
  <1>12. \A m \in MailId, i \in Item : i # j =>
            (Carries(next.mail, m, i) <=> Carries(last.mail, m, i))
    BY <1>2, <1>5, <1>6, <1>11 DEF Carries
  <1>13. \A x \in AuctionId, i \in Item : i # j =>
            (Offers(next.auctionhouse, x, i) <=> Offers(last.auctionhouse, x, i))
    BY <1>3 DEF Offers, j
  <1>14. /\ last.inventory[j] = None
         /\ \A m \in MailId : ~Carries(last.mail, m, j)
         /\ \A x \in AuctionId : Offers(last.auctionhouse, x, j) => x = id
    <2>1. PlacedOnce(last, j)
      BY <1>4 DEF OnePlace
    <2>2. Offers(last.auctionhouse, id, j)
      BY DEF Offers, j
    <2> QED  BY <2>1, <2>2 DEF PlacedOnce
  <1>15. PlacedOnce(next, j)
    <2>1. next.inventory[j] = None
      BY <1>1, <1>4, <1>14
    <2>2. \A x \in AuctionId : ~Offers(next.auctionhouse, x, j)
      BY <1>3, <1>14 DEF Offers
    <2>3. m0 \in MailId /\ Carries(next.mail, m0, j)
      BY <1>2, <1>6, <1>9, <1>11 DEF Carries
    <2>4. \A m \in MailId : Carries(next.mail, m, j) => m = m0
      BY <1>2, <1>4, <1>5, <1>11, <1>14 DEF Carries
    <2> QED  BY <2>1, <2>2, <2>3, <2>4 DEF PlacedOnce
  <1>16. \A i \in Item : i # j => PlacedOnce(next, i)
    <2> SUFFICES ASSUME NEW i \in Item, i # j  PROVE PlacedOnce(next, i)
      OBVIOUS
    <2>1. PlacedOnce(last, i)
      BY DEF OnePlace
    <2>2. next.inventory[i] = last.inventory[i]
      BY <1>1
    <2>3. \A m \in MailId : Carries(next.mail, m, i) <=> Carries(last.mail, m, i)
      BY <1>12
    <2>4. \A x \in AuctionId : Offers(next.auctionhouse, x, i) <=> Offers(last.auctionhouse, x, i)
      BY <1>13
    <2> QED  BY ONLY <2>1, <2>2, <2>3, <2>4 DEF PlacedOnce
  <1> QED  BY <1>1, <1>15, <1>16 DEF OnePlace, ItemsOf

-----------------------------------------------------------------------------
(* Handlers                                                                *)

\* The invariant, with the path and its end named
Before(path, last) ==
    /\ ~ExpireWhileDown
    /\ MemoryTypes
    /\ OfflineEmpty
    /\ path \in [Nat -> Tables]
    /\ PathInv(path)
    /\ last = path[Len(dbQueue)]
    /\ MemoryAgrees(last)

\* The invariant names a path of tables.
LEMMA Start ==
    ASSUME ItemInv
    PROVE  \E path, last : Before(path, last)
BY DEF ItemInv, Before

\* What the handlers use of it
LEMMA BeforeFacts ==
    ASSUME NEW path, NEW last, Before(path, last)
    PROVE  /\ last \in Tables /\ OnePlace(last) /\ FreeIds(last)
           /\ \A p \in Player : state[p] = "online" => server = "up"
  <1>1. Len(dbQueue) \in Nat
    BY DEF Before, MemoryTypes
  <1>2. last \in Tables /\ OnePlace(last)
    BY <1>1 DEF Before, PathInv
  <1> QED  BY <1>2, FreeIdsFree DEF Before, OfflineEmpty

\* What a handler of the player p, or of nobody, does beside queueing the operation t:
\* afterwards the memory is what the tables will be when t has been executed.
Handles(p, last, t, next) ==
    /\ server = "up" /\ server' = server
    /\ state' = state /\ holder' = holder /\ m_mailsLoaded' = m_mailsLoaded
    /\ p \in Player => p \in Online
    /\ t.login = None
    /\ \A q \in Player \ {p} :
          /\ money'[q] = money[q] /\ bags'[q] = bags[q]
          /\ q \notin DOMAIN t.gold
          /\ ItemsOf(next, q) = ItemsOf(last, q)
    /\ p \in Player => /\ bags'[p] = ItemsOf(next, p)
                       /\ money'[p] \in {next.gold[p], next.gold[p] - Deposit}
    /\ money' \in [Player -> Nat] /\ bags' \in [Player -> SUBSET Item]
    /\ m_mail' \in [MailId -> Mail \union {None}]
    /\ AuctionsMap' = next.auctionhouse
    /\ MailsAgree(next)'
    /\ \A m \in DOMAIN t.mail : last.mail[m] # None => last.mail[m].to \in m_mailsLoaded

\* A handler that changes the memory as its operation will change the tables keeps the
\* invariant: the path is continued by one step.
LEMMA HandlerKeeps ==
    ASSUME NEW path, NEW last, Before(path, last), NEW t \in Operations,
           NEW next, next = Applied(last, t), OnePlace(next), NEW p, Handles(p, last, t, next),
           CommitTransaction(t)
    PROVE  ItemInv'
  <1>1. last \in Tables
    BY BeforeFacts
  <1>2. /\ dbQueue' = Append(dbQueue, t) /\ db' = db
    BY DEF CommitTransaction, Enqueue
  <1>3. next \in Tables /\ \A q \in Player : q \notin DOMAIN t.gold => next.gold[q] = last.gold[q]
    BY <1>1, NextRows
  <1>4. dbQueue' \in Seq(Operations)
    BY <1>2 DEF Before, MemoryTypes
  <1>5. MemoryTypes'
    <2>1. AuctionsMap' \in [AuctionId -> Auction \union {None}]
      BY <1>3 DEF Handles, Tables
    <2>2. m_mailsLoaded' \subseteq Online'
      BY DEF Handles, Before, MemoryTypes, Online
    <2> QED  BY <1>4, <2>1, <2>2 DEF Handles, Before, MemoryTypes
  <1>6. OfflineEmpty'
    <2> SUFFICES ASSUME NEW q \in Player, state[q] # "online"
                 PROVE  bags'[q] = {} /\ money'[q] = 0
      BY DEF Handles, OfflineEmpty, Online
    <2>1. bags[q] = {} /\ money[q] = 0
      BY DEF Before, OfflineEmpty, Online
    <2>2. q # p
      BY DEF Handles, Online
    <2> QED  BY <2>1, <2>2 DEF Handles
  <1>7. MemoryAgrees(next)'
    <2> SUFFICES ASSUME NEW q \in Player, state[q] = "online"
                 PROVE  /\ bags'[q] = ItemsOf(next, q)
                        /\ money'[q] \in {next.gold[q], next.gold[q] - Deposit}
      BY DEF Handles, MemoryAgrees, PlayersAgree, Online
    <2>1. CASE q = p
      BY <2>1 DEF Handles
    <2>2. CASE q # p
      <3>1. bags[q] = ItemsOf(last, q) /\ money[q] \in {last.gold[q], last.gold[q] - Deposit}
        BY DEF Before, MemoryAgrees, PlayersAgree, Online
      <3> QED  BY <1>3, <2>2, <3>1 DEF Handles
    <2> QED  BY <2>1, <2>2
  <1>8. Undisturbed(last, t)
    <2>1. \A q \in Player : state[q] = "login" =>
             q \notin DOMAIN t.gold /\ ItemsOf(next, q) = ItemsOf(last, q)
      BY DEF Handles, Online
    <2> QED  BY <2>1 DEF Handles, Undisturbed
  <1>9. \E new \in [Nat -> Tables] :
           PathInv(new)' /\ new[Len(dbQueue')] = Applied(path[Len(dbQueue)], t)
    BY <1>2, <1>8, Appended DEF Before, Handles
  <1>10. \E new \in [Nat -> Tables] : PathInv(new)' /\ new[Len(dbQueue')] = next
    BY <1>9 DEF Before
  <1> QED  BY <1>5, <1>6, <1>7, <1>10 DEF ItemInv, Before

\* Mails that are sent are in memory only where their rows are on the way.
LEMMA Sent ==
    ASSUME NEW path, NEW last, Before(path, last), NEW t \in Operations,
           NEW next, next = Applied(last, t), NEW drafts \in Seq(Mail), SendMailTo(drafts),
           t.mail = MailRows(drafts), m_mailsLoaded' = m_mailsLoaded
    PROVE  /\ Sendable(drafts)
           /\ m_mail' \in [MailId -> Mail \union {None}]
           /\ MailsAgree(next)'
           /\ \A m \in DOMAIN t.mail : last.mail[m] = None
  <1>1. last \in Tables /\ FreeIds(last)
    BY BeforeFacts
  <1>2. Sendable(drafts)
    BY DEF Sendable, SendMailTo
  <1>3. /\ DOMAIN t.mail \subseteq FreshMailIds
        /\ t.mail \in Partial(MailId, Mail \union {None})
    <2>1. /\ MailRows(drafts) \in Partial(MailId, Mail \union {None})
          /\ DOMAIN MailRows(drafts) \subseteq FreshMailIds
      BY <1>2, Posted DEF Sendable
    <2> QED  BY <2>1
  <1>4. \A m \in DOMAIN t.mail : t.mail[m] \in Mail \union {None}
    BY <1>3, PartialFunctions
  <1>5. \A m \in MailId : m_mail'[m] = IF m \in DOMAIN t.mail /\ t.mail[m].to \in m_mailsLoaded
                                       THEN t.mail[m] ELSE m_mail[m]
    BY DEF SendMailTo
  <1>6. m_mail' \in [MailId -> Mail \union {None}]
    <2>1. m_mail' = [m \in MailId |-> m_mail'[m]]
      BY DEF SendMailTo
    <2>2. \A m \in MailId : m_mail'[m] \in Mail \union {None}
      BY <1>4, <1>5 DEF Before, MemoryTypes
    <2> QED  BY ONLY <2>1, <2>2
  <1>7. \A m \in MailId : next.mail[m] = IF m \in DOMAIN t.mail THEN t.mail[m] ELSE last.mail[m]
    BY <1>1, NextRows
  <1>8. \A m \in DOMAIN t.mail : last.mail[m] = None /\ m_mail[m] = None
    BY <1>1, <1>3 DEF FreeIds, FreshMailIds
  <1>9. MailsAgree(next)'
    <2> SUFFICES ASSUME NEW m \in MailId, m_mail'[m] # None
                 PROVE  m_mail'[m] = next.mail[m] /\ m_mail'[m].to \in m_mailsLoaded
      BY DEF MailsAgree
    <2>1. CASE m \in DOMAIN t.mail
      BY <1>5, <1>7, <1>8, <2>1
    <2>2. CASE m \notin DOMAIN t.mail
      BY <1>5, <1>7, <2>2 DEF Before, MemoryAgrees, MailsAgree
    <2> QED  BY <2>1, <2>2
  <1> QED  BY <1>2, <1>6, <1>8, <1>9

\* Single rows and empty ones in an operation
LEMMA Rows ==
    /\ DOMAIN <<>> = {} /\ \A S, T : <<>> \in Partial(S, T)
    /\ \A S, T : \A key \in S, value \in T :
          /\ Row(key, value) \in Partial(S, T)
          /\ DOMAIN Row(key, value) = {key}
          /\ Row(key, value)[key] = value
BY EmptyRows, OneRow

\* HandleAuctionSellItem moves an item from a bag to an auction, in both.
LEMMA SellItemKeeps ==
    ASSUME ItemInv, NEW p \in Player, NEW i \in Item, NEW startbid \in Prices,
           NEW buyout \in Prices \union {0}, SellItem(p, i, startbid, buyout)
    PROVE  ItemInv'
  <1>1. PICK path, last : Before(path, last)
    BY Start
  <1>2. last \in Tables /\ OnePlace(last) /\ server = "up" /\ state[p] = "online"
    BY <1>1, BeforeFacts DEF SellItem, Online
  <1>3. PICK id, auction, t :
           /\ id \in AuctionId /\ AuctionsMap[id] = None
           /\ auction = [item |-> i, owner |-> p, startbid |-> U32(startbid),
                         buyout |-> U32(buyout), bidder |-> None, bid |-> 0]
           /\ AuctionsMap' = [AuctionsMap EXCEPT ![id] = auction]
           /\ t = [NoRows EXCEPT !.inventory = Row(i, None), !.auctionhouse = Row(id, auction),
                                 !.gold = Row(p, money[p])]
           /\ CommitTransaction(t)
    BY DEF SellItem
  <1>4. /\ i \in bags[p] /\ money[p] >= Deposit
        /\ bags' = [bags EXCEPT ![p] = @ \ {i}]
        /\ money' = [money EXCEPT ![p] = @ - Deposit]
        /\ state' = state /\ holder' = holder /\ server' = server
        /\ m_mailsLoaded' = m_mailsLoaded /\ m_mail' = m_mail
    BY DEF SellItem, mailVars, runVars
  <1>5. /\ money \in [Player -> Nat] /\ bags \in [Player -> SUBSET Item]
        /\ m_mail \in [MailId -> Mail \union {None}]
        /\ AuctionsMap = last.auctionhouse
        /\ bags[p] = ItemsOf(last, p)
        /\ last.auctionhouse \in [AuctionId -> Auction \union {None}]
    BY <1>1, <1>2 DEF Before, MemoryTypes, MemoryAgrees, PlayersAgree, Online, Tables
  <1>6. auction \in Auction
    <2>1. Prices \subseteq Nat
      BY AuctionHouseAssumption
    <2>2. U32(startbid) \in Nat /\ U32(buyout) \in Nat
      BY <2>1, Amounts
    <2> QED  BY <1>3, <2>2 DEF Auction
  <1>7. /\ t.inventory = Row(i, None) /\ t.auctionhouse = Row(id, auction)
        /\ t.gold = Row(p, money[p]) /\ t.mail = <<>> /\ t.bid = <<>> /\ t.login = None
        /\ t.fees = 0
    BY <1>3 DEF NoRows
  <1>8. t \in Operations
    <2>1. /\ Row(i, None) \in Partial(Item, Player \union {None})
          /\ Row(id, auction) \in Partial(AuctionId, Auction \union {None})
          /\ Row(p, money[p]) \in Partial(Player, Nat)
      BY <1>3, <1>5, <1>6, Rows
    <2> QED  BY <1>3, <2>1, Rows DEF Operations, NoRows
  <1>9. /\ DOMAIN t.inventory = {i} /\ t.inventory[i] = None
        /\ DOMAIN t.auctionhouse = {id} /\ t.auctionhouse[id] = auction
        /\ DOMAIN t.gold = {p} /\ t.gold[p] = money[p]
        /\ DOMAIN t.mail = {} /\ DOMAIN t.bid = {}
    BY <1>7, Rows DEF Row
  <1>10. PICK next : next = Applied(last, t)
    OBVIOUS
  <1>11. /\ next \in Tables
         /\ \A q \in Player : next.gold[q] = IF q = p THEN money[p] ELSE last.gold[q]
         /\ \A j \in Item : next.inventory[j] = IF j = i THEN None ELSE last.inventory[j]
         /\ \A m \in MailId : next.mail[m] = last.mail[m]
         /\ \A x \in AuctionId : next.auctionhouse[x] =
               IF x = id THEN auction ELSE last.auctionhouse[x]
    BY <1>2, <1>8, <1>9, <1>10, NextRows
  <1>12. last.inventory[i] = p /\ p # None /\ auction # None
    BY <1>4, <1>5, <1>6, AuctionHouseAssumption, NoneAssumption DEF ItemsOf
  <1>13. OnePlace(next)
    <2> SUFFICES ASSUME NEW j \in Item  PROVE PlacedOnce(next, j)
      BY DEF OnePlace
    <2>1. PlacedOnce(last, j)
      BY <1>2 DEF OnePlace
    <2>2. \A m \in MailId : Carries(next.mail, m, j) <=> Carries(last.mail, m, j)
      BY <1>11 DEF Carries
    <2>3. \A x \in AuctionId : x # id =>
             (Offers(next.auctionhouse, x, j) <=> Offers(last.auctionhouse, x, j))
      BY <1>11 DEF Offers
    <2>4. ~Offers(last.auctionhouse, id, j)
      BY <1>3, <1>5 DEF Offers
    <2>5. Offers(next.auctionhouse, id, j) <=> j = i
      BY <1>3, <1>11, <1>12 DEF Offers
    <2>6. CASE j = i
      <3>1. /\ \A m \in MailId : ~Carries(last.mail, m, i)
            /\ \A x \in AuctionId : ~Offers(last.auctionhouse, x, i)
        BY <1>12, <2>1, <2>6 DEF PlacedOnce
      <3>2. next.inventory[j] = None
        BY <1>11, <2>6
      <3> QED  BY <1>3, <2>2, <2>3, <2>5, <2>6, <3>1, <3>2 DEF PlacedOnce
    <2>7. CASE j # i
      <3>1. next.inventory[j] = last.inventory[j]
        BY <1>11, <2>7
      <3>2. \A x \in AuctionId :
               Offers(next.auctionhouse, x, j) <=> Offers(last.auctionhouse, x, j)
        BY <2>3, <2>4, <2>5, <2>7
      <3> QED  BY ONLY <2>1, <2>2, <3>1, <3>2 DEF PlacedOnce
    <2> QED  BY <2>6, <2>7
  <1>14. Handles(p, last, t, next)
    <2>1. \A q \in Player \ {p} :
             /\ money'[q] = money[q] /\ bags'[q] = bags[q] /\ q \notin DOMAIN t.gold
             /\ ItemsOf(next, q) = ItemsOf(last, q)
      <3> TAKE q \in Player \ {p}
      <3>1. \A j \in Item : next.inventory[j] = q <=> last.inventory[j] = q
        BY <1>11, <1>12, AuctionHouseAssumption
      <3> QED  BY <1>4, <1>5, <1>9, <3>1 DEF ItemsOf
    <2>2. bags'[p] = ItemsOf(next, p)
      <3>1. \A j \in Item : next.inventory[j] = p <=> last.inventory[j] = p /\ j # i
        BY <1>11, <1>12
      <3>2. bags'[p] = ItemsOf(last, p) \ {i}
        BY <1>4, <1>5
      <3> QED  BY <3>1, <3>2 DEF ItemsOf
    <2>3. money'[p] = next.gold[p] - Deposit
      BY <1>4, <1>5, <1>11
    <2>4. money' \in [Player -> Nat]
      BY <1>4, <1>5, AuctionHouseAssumption
    <2>5. bags' \in [Player -> SUBSET Item]
      BY <1>4, <1>5
    <2>6. AuctionsMap' = next.auctionhouse
      <3>1. next.auctionhouse \in [AuctionId -> Auction \union {None}]
        BY <1>11 DEF Tables
      <3> QED  BY <1>3, <1>5, <1>11, <3>1
    <2>7. MailsAgree(next)'
      BY <1>1, <1>4, <1>11 DEF Before, MemoryAgrees, MailsAgree
    <2> QED  BY <1>2, <1>4, <1>5, <1>7, <1>9, <2>1, <2>2, <2>3, <2>4, <2>5, <2>6, <2>7
             DEF Handles, Online
  <1> QED  BY <1>1, <1>3, <1>8, <1>10, <1>13, <1>14, HandlerKeeps

\* A handler that ends an auction and mails its item
LEMMA SettlingKeeps ==
    ASSUME NEW path, NEW last, Before(path, last), server = "up", NEW id \in AuctionId,
           AuctionsMap[id] # None, AuctionsMap' = [AuctionsMap EXCEPT ![id] = None],
           NEW drafts \in Seq(Mail), CarriedOnce(drafts, AuctionsMap[id].item), SendMailTo(drafts),
           NEW t \in Operations, CommitTransaction(t), t.mail = MailRows(drafts),
           t.auctionhouse = Row(id, None), t.inventory = <<>>, t.bid = <<>>, t.login = None,
           NEW p, p \in Player => p \in Online /\ t.gold = Row(p, money'[p]),
           p \notin Player => t.gold = <<>>,
           \A q \in Player \ {p} : money'[q] = money[q],
           money' \in [Player -> Nat], bags' = bags,
           state' = state, holder' = holder, server' = server, m_mailsLoaded' = m_mailsLoaded
    PROVE  ItemInv'
  <1>1. PICK next : next = Applied(last, t)
    OBVIOUS
  <1>2. last \in Tables /\ OnePlace(last) /\ FreeIds(last)
    BY BeforeFacts
  <1>3. /\ DOMAIN t.inventory = {} /\ DOMAIN t.bid = {} /\ DOMAIN t.auctionhouse = {id}
        /\ t.auctionhouse[id] = None
        /\ p \in Player => DOMAIN t.gold = {p} /\ t.gold[p] = money'[p]
        /\ p \notin Player => DOMAIN t.gold = {}
    BY EmptyRows DEF Row
  <1>4. /\ next \in Tables
        /\ \A q \in Player : next.gold[q] = IF q \in DOMAIN t.gold THEN t.gold[q] ELSE last.gold[q]
        /\ \A x \in AuctionId : next.auctionhouse[x] =
              IF x = id THEN None ELSE last.auctionhouse[x]
    BY <1>1, <1>2, <1>3, NextRows
  <1>5. /\ AuctionsMap = last.auctionhouse
        /\ last.auctionhouse \in [AuctionId -> Auction \union {None}]
        /\ next.auctionhouse \in [AuctionId -> Auction \union {None}]
    BY <1>2, <1>4 DEF Before, MemoryAgrees, Tables
  <1>6. /\ Sendable(drafts)
        /\ m_mail' \in [MailId -> Mail \union {None}]
        /\ MailsAgree(next)'
        /\ \A m \in DOMAIN t.mail : last.mail[m] = None
    BY <1>1, Sent
  <1>7. OnePlace(next) /\ \A q : ItemsOf(next, q) = ItemsOf(last, q)
    BY <1>1, <1>2, <1>3, <1>5, <1>6, AuctionEnds
  <1>8. Handles(p, last, t, next)
    <2>1. p \in Player => /\ bags'[p] = ItemsOf(next, p)
                          /\ money'[p] = next.gold[p]
      BY <1>3, <1>4, <1>7 DEF Before, MemoryAgrees, PlayersAgree
    <2>2. AuctionsMap' = next.auctionhouse
      BY <1>4, <1>5
    <2>3. bags' \in [Player -> SUBSET Item]
      BY DEF Before, MemoryTypes
    <2> QED  BY <1>3, <1>6, <1>7, <2>1, <2>2, <2>3 DEF Handles
  <1> QED  BY <1>1, <1>7, <1>8, HandlerKeeps

\* Mails to the players of an auction
LEMMA DraftTypes ==
    /\ \A to \in Player, amount \in Nat :
          MoneyMail(to, amount) \in Mail /\ MoneyMail(to, amount).item = None
    /\ \A to \in Player, item \in Item :
          ItemMail(to, item) \in Mail /\ ItemMail(to, item).item = item
BY DEF MoneyMail, ItemMail, Mail

\* One mail with the item at the end
LEMMA ItemLast ==
    ASSUME NEW i \in Item, NEW last \in Mail, last.item = i
    PROVE  /\ <<last>> \in Seq(Mail) /\ CarriedOnce(<<last>>, i)
           /\ \A a \in Mail : a.item = None =>
                 <<a, last>> \in Seq(Mail) /\ CarriedOnce(<<a, last>>, i)
           /\ \A a, b \in Mail : a.item = None /\ b.item = None =>
                 <<a, b, last>> \in Seq(Mail) /\ CarriedOnce(<<a, b, last>>, i)
  <1>1. <<last>> \in Seq(Mail) /\ CarriedOnce(<<last>>, i)
    BY DEF CarriedOnce
  <1>2. ASSUME NEW a \in Mail, a.item = None
        PROVE  <<a, last>> \in Seq(Mail) /\ CarriedOnce(<<a, last>>, i)
    <2>1. 2 \in 1..Len(<<a, last>>) /\ <<a, last>>[2].item = i
      OBVIOUS
    <2>2. \A j \in 1..Len(<<a, last>>) : j # 2 => <<a, last>>[j].item = None
      BY <1>2
    <2> QED  BY <2>1, <2>2 DEF CarriedOnce
  <1>3. ASSUME NEW a \in Mail, NEW b \in Mail, a.item = None, b.item = None
        PROVE  <<a, b, last>> \in Seq(Mail) /\ CarriedOnce(<<a, b, last>>, i)
    <2>1. 3 \in 1..Len(<<a, b, last>>) /\ <<a, b, last>>[3].item = i
      OBVIOUS
    <2>2. \A j \in 1..Len(<<a, b, last>>) : j # 3 => <<a, b, last>>[j].item = None
      BY <1>3
    <2> QED  BY <2>1, <2>2 DEF CarriedOnce
  <1> QED  BY <1>1, <1>2, <1>3

\* Sequences of up to three mails
LEMMA Joined ==
    /\ \A a : <<>> \o <<a>> = <<a>>
    /\ \A a, b : <<a>> \o <<b>> = <<a, b>> /\ <<>> \o <<a, b>> = <<a, b>>
    /\ \A a, b, c : <<a>> \o <<b, c>> = <<a, b, c>>
  <1>1. \A a, b : <<>> \o <<a>> = <<a>> /\ <<>> \o <<a, b>> = <<a, b>>
    <2> TAKE a, b
    <2>1. <<a>> \in Seq({a, b}) /\ <<a, b>> \in Seq({a, b})
      OBVIOUS
    <2> QED  BY <2>1, ConcatEmptySeq
  <1>2. \A a, b : <<a>> \o <<b>> = <<a, b>>
    <2> TAKE a, b
    <2> DEFINE s == <<a>> \o <<b>>
               r == <<a, b>>
    <2>1. <<a>> \in Seq({a, b}) /\ <<b>> \in Seq({a, b}) /\ r \in Seq({a, b})
      OBVIOUS
    <2>2. s \in Seq({a, b}) /\ Len(s) = 2 /\ s[1] = a /\ s[2] = b
      BY <2>1, ConcatProperties
    <2>3. Len(r) = 2 /\ r[1] = a /\ r[2] = b
      OBVIOUS
    <2> HIDE DEF s, r
    <2>4. \A k \in 1..2 : s[k] = r[k]
      BY <2>2, <2>3
    <2>5. s = r
      BY <2>1, <2>2, <2>3, <2>4, SeqEqual
    <2> QED  BY <2>5 DEF s, r
  <1>3. \A a, b, c : <<a>> \o <<b, c>> = <<a, b, c>>
    <2> TAKE a, b, c
    <2> DEFINE s == <<a>> \o <<b, c>>
               r == <<a, b, c>>
    <2>1. <<a>> \in Seq({a, b, c}) /\ <<b, c>> \in Seq({a, b, c}) /\ r \in Seq({a, b, c})
      OBVIOUS
    <2>2. s \in Seq({a, b, c}) /\ Len(s) = 3 /\ s[1] = a /\ s[2] = b /\ s[3] = c
      BY <2>1, ConcatProperties
    <2>3. Len(r) = 3 /\ r[1] = a /\ r[2] = b /\ r[3] = c
      OBVIOUS
    <2> HIDE DEF s, r
    <2>4. \A k \in 1..3 : s[k] = r[k]
      BY <2>2, <2>3
    <2>5. s = r
      BY <2>1, <2>2, <2>3, <2>4, SeqEqual
    <2> QED  BY <2>5 DEF s, r
  <1> QED  BY <1>1, <1>2, <1>3

\* The buyout settles its auction: the item goes to the buyer by mail.
LEMMA BuyoutKeeps ==
    ASSUME ItemInv, NEW p \in Player, NEW id \in AuctionId, NEW price \in Prices,
           Buyout(p, id, price)
    PROVE  ItemInv'
  <1>1. PICK path, last : Before(path, last)
    BY Start
  <1>2. PICK auction : auction = AuctionsMap[id]
    OBVIOUS
  <1>3. PICK new, drafts, t :
           /\ new = [auction EXCEPT !.bidder = p, !.bid = auction.buyout]
           /\ drafts = (IF auction.bidder \in {None, p} THEN <<>>
                        ELSE <<SendAuctionOutbiddedMail(auction)>>)
                       \o <<SendAuctionSuccessfulMail(new), SendAuctionWonMail(new)>>
           /\ SendMailTo(drafts)
           /\ t = [NoRows EXCEPT !.mail = MailRows(drafts), !.auctionhouse = Row(id, None),
                                 !.gold = Row(p, money'[p]), !.fees = GetAuctionCut(new)]
           /\ CommitTransaction(t)
    BY <1>2 DEF Buyout
  <1>4. /\ MayBid(p, auction, price) /\ price >= auction.buyout
        /\ money' = [money EXCEPT ![p] = @ - (IF auction.bidder = p
                                              THEN auction.buyout - auction.bid
                                              ELSE auction.buyout)]
        /\ AuctionsMap' = [AuctionsMap EXCEPT ![id] = None]
        /\ state' = state /\ holder' = holder /\ server' = server
        /\ m_mailsLoaded' = m_mailsLoaded /\ bags' = bags
    BY <1>2 DEF Buyout, runVars
  <1>5. p \in Online /\ auction # None /\ money[p] >= price
    BY <1>4 DEF MayBid
  <1>6. server = "up" /\ money \in [Player -> Nat] /\ auction \in Auction
    BY <1>1, <1>2, <1>5, BeforeFacts DEF Before, MemoryTypes, Online
  <1>7. /\ auction.owner \in Player /\ auction.item \in Item /\ auction.buyout \in Nat
        /\ auction.bid \in Nat /\ auction.bidder \in Player \union {None}
        /\ new \in Auction /\ new.owner = auction.owner /\ new.item = auction.item
        /\ new.bidder = p
    BY <1>3, <1>6 DEF Auction
  <1>8. Profit(new) \in Nat /\ GetAuctionCut(new) \in Nat
    BY <1>7, Amounts
  <1>9. drafts \in Seq(Mail) /\ CarriedOnce(drafts, auction.item)
    <2>1. PICK a, b, c : /\ a = SendAuctionOutbiddedMail(auction)
                         /\ b = SendAuctionSuccessfulMail(new)
                         /\ c = SendAuctionWonMail(new)
      OBVIOUS
    <2>2. b \in Mail /\ b.item = None /\ c \in Mail /\ c.item = auction.item
      BY <1>7, <1>8, <2>1, DraftTypes DEF SendAuctionSuccessfulMail, SendAuctionWonMail
    <2>3. CASE auction.bidder \in {None, p}
      <3>1. drafts = <<b, c>>
        BY <1>3, <2>1, <2>3, Joined
      <3> QED  BY <1>7, <2>2, <3>1, ItemLast
    <2>4. CASE auction.bidder \notin {None, p}
      <3>1. drafts = <<a, b, c>>
        BY <1>3, <2>1, <2>4, Joined
      <3>2. a \in Mail /\ a.item = None
        BY <1>7, <2>1, <2>4, DraftTypes DEF SendAuctionOutbiddedMail
      <3> QED  BY <1>7, <2>2, <3>1, <3>2, ItemLast
    <2> QED  BY <2>3, <2>4
  <1>10. money' \in [Player -> Nat] /\ \A q \in Player \ {p} : money'[q] = money[q]
    <2>1. price \in Nat
      BY AuctionHouseAssumption
    <2> QED  BY <1>4, <1>5, <1>6, <1>7, <2>1
  <1>11. /\ t.mail = MailRows(drafts) /\ t.auctionhouse = Row(id, None)
         /\ t.gold = Row(p, money'[p]) /\ t.inventory = <<>> /\ t.bid = <<>>
         /\ t.login = None
    BY <1>3 DEF NoRows
  <1>12. t \in Operations
    <2>1. MailRows(drafts) \in Partial(MailId, Mail \union {None})
      BY <1>3, <1>9, Posted DEF SendMailTo
    <2>2. /\ Row(id, None) \in Partial(AuctionId, Auction \union {None})
          /\ Row(p, money'[p]) \in Partial(Player, Nat)
      BY <1>10, Rows
    <2> QED  BY <1>3, <1>8, <2>1, <2>2, EmptyRows DEF Operations, NoRows
  <1>13. AuctionsMap[id] # None /\ CarriedOnce(drafts, AuctionsMap[id].item)
    BY <1>2, <1>5, <1>9
  <1>14. SendMailTo(drafts) /\ CommitTransaction(t)
    BY <1>3
  <1>15. /\ AuctionsMap' = [AuctionsMap EXCEPT ![id] = None]
         /\ state' = state /\ holder' = holder /\ server' = server
         /\ m_mailsLoaded' = m_mailsLoaded /\ bags' = bags
    BY <1>4
  <1> QED  BY ONLY p \in Player, id \in AuctionId, <1>1, <1>5, <1>6, <1>9, <1>10, <1>11, <1>12,
                   <1>13, <1>14, <1>15, SettlingKeeps

\* Cancelling settles the auction: the item goes back to its owner.
LEMMA RemoveItemKeeps ==
    ASSUME ItemInv, NEW p \in Player, NEW id \in AuctionId, RemoveItem(p, id)
    PROVE  ItemInv'
  <1>1. PICK path, last : Before(path, last)
    BY Start
  <1>2. PICK auction : auction = AuctionsMap[id]
    OBVIOUS
  <1>3. PICK cut, drafts, t :
           /\ cut = IF auction.bidder = None THEN 0 ELSE GetAuctionCut(auction)
           /\ drafts = (IF auction.bidder = None THEN <<>>
                        ELSE <<SendAuctionCancelledToBidderMail(auction)>>)
                       \o <<SendAuctionExpiredMail(auction)>>
           /\ SendMailTo(drafts)
           /\ t = [NoRows EXCEPT !.mail = MailRows(drafts), !.auctionhouse = Row(id, None),
                                 !.gold = Row(p, money'[p]), !.fees = Deposit + cut]
           /\ CommitTransaction(t)
           /\ money[p] >= cut
           /\ money' = [money EXCEPT ![p] = @ - cut]
    BY <1>2 DEF RemoveItem
  <1>4. /\ p \in Online /\ auction # None
        /\ AuctionsMap' = [AuctionsMap EXCEPT ![id] = None]
        /\ state' = state /\ holder' = holder /\ server' = server
        /\ m_mailsLoaded' = m_mailsLoaded /\ bags' = bags
    BY <1>2 DEF RemoveItem, runVars
  <1>5. server = "up" /\ money \in [Player -> Nat] /\ auction \in Auction
    BY <1>1, <1>2, <1>4, BeforeFacts DEF Before, MemoryTypes, Online
  <1>6. /\ auction.owner \in Player /\ auction.item \in Item
        /\ auction.bid \in Nat /\ auction.bidder \in Player \union {None}
    BY <1>5 DEF Auction
  <1>7. cut \in Nat /\ Deposit \in Nat
    BY <1>3, <1>5, Amounts, AuctionHouseAssumption
  <1>8. drafts \in Seq(Mail) /\ CarriedOnce(drafts, auction.item)
    <2>1. PICK a, b : /\ a = SendAuctionCancelledToBidderMail(auction)
                      /\ b = SendAuctionExpiredMail(auction)
      OBVIOUS
    <2>2. b \in Mail /\ b.item = auction.item
      BY <1>6, <2>1, DraftTypes DEF SendAuctionExpiredMail
    <2>3. CASE auction.bidder = None
      <3>1. drafts = <<b>>
        BY <1>3, <2>1, <2>3, Joined
      <3> QED  BY <1>6, <2>2, <3>1, ItemLast
    <2>4. CASE auction.bidder # None
      <3>1. drafts = <<a, b>>
        BY <1>3, <2>1, <2>4, Joined
      <3>2. a \in Mail /\ a.item = None
        BY <1>6, <2>1, <2>4, DraftTypes DEF SendAuctionCancelledToBidderMail
      <3> QED  BY <1>6, <2>2, <3>1, <3>2, ItemLast
    <2> QED  BY <2>3, <2>4
  <1>9. money' \in [Player -> Nat] /\ \A q \in Player \ {p} : money'[q] = money[q]
    BY <1>3, <1>5, <1>7
  <1>10. /\ t.mail = MailRows(drafts) /\ t.auctionhouse = Row(id, None)
         /\ t.gold = Row(p, money'[p]) /\ t.inventory = <<>> /\ t.bid = <<>>
         /\ t.login = None
    BY <1>3 DEF NoRows
  <1>11. t \in Operations
    <2>1. MailRows(drafts) \in Partial(MailId, Mail \union {None})
      BY <1>3, <1>8, Posted DEF SendMailTo
    <2>2. /\ Row(id, None) \in Partial(AuctionId, Auction \union {None})
          /\ Row(p, money'[p]) \in Partial(Player, Nat)
      BY <1>9, Rows
    <2>3. Deposit + cut \in Nat
      BY <1>7
    <2>4. t = [NoRows EXCEPT !.mail = MailRows(drafts), !.auctionhouse = Row(id, None),
                             !.gold = Row(p, money'[p]), !.fees = Deposit + cut]
      BY <1>3
    <2> QED  BY ONLY <2>1, <2>2, <2>3, <2>4, EmptyRows DEF Operations, NoRows
  <1>12. AuctionsMap[id] # None /\ CarriedOnce(drafts, AuctionsMap[id].item)
    BY <1>2, <1>4, <1>8
  <1>13. SendMailTo(drafts) /\ CommitTransaction(t)
    BY <1>3
  <1> QED  BY ONLY p \in Player, id \in AuctionId, <1>1, <1>4, <1>5, <1>8, <1>9, <1>10, <1>11,
                   <1>12, <1>13, SettlingKeeps

\* The end of an auction settles it: the item goes to the bidder or back.
LEMMA ExpireAuctionKeeps ==
    ASSUME ItemInv, NEW id \in AuctionId, ExpireAuction(id)
    PROVE  ItemInv'
  <1>1. PICK path, last : Before(path, last)
    BY Start
  <1>2. PICK auction : auction = AuctionsMap[id]
    OBVIOUS
  <1>3. PICK drafts, t :
           /\ drafts = EndMails(auction)
           /\ SendMailTo(drafts)
           /\ t = [NoRows EXCEPT !.mail = MailRows(drafts), !.auctionhouse = Row(id, None),
                                 !.fees = EndFees(auction)]
           /\ CommitTransaction(t)
    BY <1>2 DEF ExpireAuction
  <1>4. /\ server = "up" /\ auction # None
        /\ AuctionsMap' = [AuctionsMap EXCEPT ![id] = None]
        /\ state' = state /\ holder' = holder /\ server' = server
        /\ m_mailsLoaded' = m_mailsLoaded /\ bags' = bags /\ money' = money
    BY <1>2 DEF ExpireAuction, runVars, playerVars
  <1>5. money \in [Player -> Nat] /\ auction \in Auction
    BY <1>1, <1>2, <1>4 DEF Before, MemoryTypes
  <1>6. /\ auction.owner \in Player /\ auction.item \in Item
        /\ auction.bid \in Nat /\ auction.bidder \in Player \union {None}
    BY <1>5 DEF Auction
  <1>7. drafts \in Seq(Mail) /\ CarriedOnce(drafts, auction.item)
    <2>1. CASE auction.bidder = None
      <3>1. SendAuctionExpiredMail(auction) \in Mail
            /\ SendAuctionExpiredMail(auction).item = auction.item
        BY <1>6, DraftTypes DEF SendAuctionExpiredMail
      <3>2. drafts = <<SendAuctionExpiredMail(auction)>>
        BY <1>3, <2>1 DEF EndMails
      <3> QED  BY <1>6, <3>1, <3>2, ItemLast
    <2>2. CASE auction.bidder # None
      <3>1. PICK a, b : a = SendAuctionSuccessfulMail(auction) /\ b = SendAuctionWonMail(auction)
        OBVIOUS
      <3>2. a \in Mail /\ a.item = None /\ b \in Mail /\ b.item = auction.item
        BY <1>5, <1>6, <2>2, <3>1, DraftTypes, Amounts
           DEF SendAuctionSuccessfulMail, SendAuctionWonMail
      <3>3. drafts = <<a, b>>
        BY <1>3, <2>2, <3>1 DEF EndMails
      <3> QED  BY <1>6, <3>2, <3>3, ItemLast
    <2> QED  BY <2>1, <2>2
  <1>8. /\ t.mail = MailRows(drafts) /\ t.auctionhouse = Row(id, None)
        /\ t.gold = <<>> /\ t.inventory = <<>> /\ t.bid = <<>> /\ t.login = None
    BY <1>3 DEF NoRows
  <1>9. t \in Operations
    <2>1. MailRows(drafts) \in Partial(MailId, Mail \union {None})
      BY <1>3, <1>7, Posted DEF SendMailTo
    <2>2. Row(id, None) \in Partial(AuctionId, Auction \union {None})
      BY Rows
    <2>3. EndFees(auction) \in Nat
      BY <1>5, Amounts
    <2> QED  BY <1>3, <2>1, <2>2, <2>3, EmptyRows DEF Operations, NoRows
  <1>10. AuctionsMap[id] # None /\ CarriedOnce(drafts, AuctionsMap[id].item)
    BY <1>2, <1>4, <1>7
  <1>11. SendMailTo(drafts) /\ CommitTransaction(t)
    BY <1>3
  <1>12. None \notin Player
    BY AuctionHouseAssumption
  <1>13. money' \in [Player -> Nat] /\ \A q \in Player \ {None} : money'[q] = money[q]
    BY <1>4, <1>5
  <1> QED  BY ONLY id \in AuctionId, <1>1, <1>4, <1>7, <1>8, <1>9, <1>10, <1>11, <1>12, <1>13,
                   SettlingKeeps

\* A bid changes amounts of an auction that has a row, and no item.
LEMMA PlaceBidKeeps ==
    ASSUME ItemInv, NEW p \in Player, NEW id \in AuctionId, NEW price \in Prices,
           PlaceBid(p, id, price)
    PROVE  ItemInv'
  <1>1. PICK path, last : Before(path, last)
    BY Start
  <1>2. PICK auction : auction = AuctionsMap[id]
    OBVIOUS
  <1>3. PICK new, drafts, t :
           /\ new = [auction EXCEPT !.bidder = p, !.bid = U32(price)]
           /\ drafts = IF auction.bidder \in {None, p} THEN <<>>
                       ELSE <<SendAuctionOutbiddedMail(auction)>>
           /\ SendMailTo(drafts)
           /\ t = [NoRows EXCEPT !.mail = MailRows(drafts),
                                 !.bid = Row(id, [bidder |-> new.bidder, bid |-> new.bid]),
                                 !.gold = Row(p, money'[p])]
           /\ CommitTransaction(t)
           /\ AuctionsMap' = [AuctionsMap EXCEPT ![id] = new]
    BY <1>2 DEF PlaceBid
  <1>4. /\ MayBid(p, auction, price)
        /\ money' = [money EXCEPT ![p] = @ - (IF auction.bidder = p THEN price - auction.bid
                                              ELSE price)]
        /\ state' = state /\ holder' = holder /\ server' = server
        /\ m_mailsLoaded' = m_mailsLoaded /\ bags' = bags
    BY <1>2 DEF PlaceBid, runVars
  <1>5. p \in Online /\ auction # None /\ money[p] >= price /\ price > auction.bid
    BY <1>4 DEF MayBid
  <1>6. server = "up" /\ money \in [Player -> Nat] /\ auction \in Auction
    BY <1>1, <1>2, <1>5, BeforeFacts DEF Before, MemoryTypes, Online
  <1>7. price \in Nat /\ U32(price) \in Nat
    BY AuctionHouseAssumption, Amounts
  <1>8. /\ auction.bid \in Nat /\ auction.bidder \in Player \union {None}
        /\ new \in Auction /\ new.item = auction.item
        /\ new.bidder = p /\ new.bid = U32(price)
    BY <1>3, <1>6, <1>7 DEF Auction
  <1>9. drafts \in Seq(Mail) /\ \A k \in 1..Len(drafts) : drafts[k].item = None
    <2>1. CASE auction.bidder \in {None, p}
      BY <1>3, <2>1
    <2>2. CASE auction.bidder \notin {None, p}
      <3>1. PICK a : a = SendAuctionOutbiddedMail(auction)
        OBVIOUS
      <3>2. a \in Mail /\ a.item = None
        BY <1>8, <2>2, <3>1, DraftTypes DEF SendAuctionOutbiddedMail
      <3>3. drafts = <<a>>
        BY <1>3, <2>2, <3>1
      <3> QED  BY <3>2, <3>3
    <2> QED  BY <2>1, <2>2
  <1>10. money' \in [Player -> Nat] /\ \A q \in Player \ {p} : money'[q] = money[q]
    BY <1>4, <1>5, <1>6, <1>7, <1>8
  <1>11. /\ t.mail = MailRows(drafts) /\ t.auctionhouse = <<>> /\ t.inventory = <<>>
         /\ t.gold = Row(p, money'[p]) /\ t.login = None
         /\ t.bid = Row(id, [bidder |-> new.bidder, bid |-> new.bid])
    BY <1>3 DEF NoRows
  <1>12. t \in Operations
    <2>1. MailRows(drafts) \in Partial(MailId, Mail \union {None})
      BY <1>3, <1>9, Posted DEF SendMailTo
    <2>2. [bidder |-> new.bidder, bid |-> new.bid] \in Bids
      BY <1>7, <1>8 DEF Bids
    <2>3. /\ Row(id, [bidder |-> new.bidder, bid |-> new.bid]) \in Partial(AuctionId, Bids)
          /\ Row(p, money'[p]) \in Partial(Player, Nat)
      BY <1>10, <2>2, Rows
    <2> QED  BY <1>3, <2>1, <2>3, EmptyRows DEF Operations, NoRows
  <1>13. PICK next : next = Applied(last, t)
    OBVIOUS
  <1>14. last \in Tables /\ OnePlace(last)
    BY <1>1, BeforeFacts
  <1>15. /\ DOMAIN t.inventory = {} /\ DOMAIN t.auctionhouse = {} /\ DOMAIN t.bid = {id}
         /\ t.bid[id].bidder = p /\ t.bid[id].bid = U32(price)
         /\ DOMAIN t.gold = {p} /\ t.gold[p] = money'[p]
    BY <1>8, <1>11, EmptyRows DEF Row
  <1>16. /\ AuctionsMap = last.auctionhouse
         /\ last.auctionhouse \in [AuctionId -> Auction \union {None}]
    BY <1>1, <1>6, <1>14 DEF Before, MemoryAgrees, Tables
  <1>17. /\ next \in Tables
         /\ \A q \in Player : next.gold[q] = IF q = p THEN money'[p] ELSE last.gold[q]
         /\ \A x \in AuctionId : x # id => next.auctionhouse[x] = last.auctionhouse[x]
    BY <1>12, <1>13, <1>14, <1>15, NextRows
  <1>18. next.auctionhouse[id] = new
    <2>1. Applied(last, t).auctionhouse[id] = WithBid(last.auctionhouse[id], t.bid[id])
      <3>1. /\ id \in DOMAIN t.bid /\ id \notin DOMAIN t.auctionhouse
            /\ last.auctionhouse[id] # None
        BY <1>2, <1>5, <1>15, <1>16
      <3> QED  BY ONLY id \in AuctionId, <1>12, <1>14, <3>1, BidRow
    <2>2. new = WithBid(auction, t.bid[id])
      BY <1>3, <1>15 DEF WithBid
    <2> QED  BY <1>2, <1>13, <1>16, <2>1, <2>2
  <1>19. /\ Sendable(drafts)
         /\ m_mail' \in [MailId -> Mail \union {None}]
         /\ MailsAgree(next)'
         /\ \A m \in DOMAIN t.mail : last.mail[m] = None
    <2>1. SendMailTo(drafts) /\ drafts \in Seq(Mail) /\ m_mailsLoaded' = m_mailsLoaded
      BY <1>3, <1>4, <1>9
    <2> QED  BY ONLY <1>1, <1>11, <1>12, <1>13, <2>1, Sent
  <1>20. \A m \in DOMAIN t.mail : t.mail[m].item = None
    <2>1. PICK index \in [DOMAIN t.mail -> 1..Len(drafts)] :
             \A m \in DOMAIN t.mail : t.mail[m] = drafts[index[m]]
      BY <1>11, <1>19, Posted DEF Sendable
    <2> QED  BY <1>9, <2>1
  <1>21. OnePlace(next) /\ \A q : ItemsOf(next, q) = ItemsOf(last, q)
    <2>1. new # None
      BY <1>8, NoneAssumption
    <2>2. \A x \in AuctionId, i \in Item :
             Offers(next.auctionhouse, x, i) <=> Offers(last.auctionhouse, x, i)
      BY <1>2, <1>5, <1>8, <1>16, <1>17, <1>18, <2>1 DEF Offers
    <2> QED  BY <1>12, <1>13, <1>14, <1>15, <1>19, <1>20, <2>2, LettersOnly
  <1>22. Handles(p, last, t, next)
    <2>1. bags'[p] = ItemsOf(next, p)
      BY <1>1, <1>4, <1>5, <1>21 DEF Before, MemoryAgrees, PlayersAgree
    <2>2. AuctionsMap' = next.auctionhouse
      <3>1. next.auctionhouse \in [AuctionId -> Auction \union {None}]
        BY <1>17 DEF Tables
      <3> QED  BY <1>3, <1>16, <1>17, <1>18, <3>1
    <2>3. bags' \in [Player -> SUBSET Item]
      BY <1>1, <1>4 DEF Before, MemoryTypes
    <2>4. money'[p] = next.gold[p]
      BY <1>17
    <2> QED  BY <1>4, <1>5, <1>6, <1>10, <1>11, <1>15, <1>19, <1>21, <2>1, <2>2, <2>3, <2>4
             DEF Handles
  <1> QED  BY <1>1, <1>3, <1>12, <1>13, <1>21, <1>22, HandlerKeeps

\* HandleMailTakeMoney deletes a mail without an item.
LEMMA TakeMoneyKeeps ==
    ASSUME ItemInv, NEW p \in Player, NEW m \in MailId, TakeMoney(p, m)
    PROVE  ItemInv'
  <1>1. PICK path, last : Before(path, last)
    BY Start
  <1>2. PICK mail : mail = m_mail[m]
    OBVIOUS
  <1>3. PICK t : /\ t = [NoRows EXCEPT !.gold = Row(p, money'[p]), !.mail = Row(m, None)]
                 /\ CommitTransaction(t)
    BY DEF TakeMoney
  <1>4. /\ p \in m_mailsLoaded /\ mail # None /\ mail.to = p /\ mail.item = None
        /\ money' = [money EXCEPT ![p] = @ + mail.money]
        /\ m_mail' = [m_mail EXCEPT ![m] = None]
        /\ AuctionsMap' = AuctionsMap
        /\ state' = state /\ holder' = holder /\ server' = server
        /\ m_mailsLoaded' = m_mailsLoaded /\ bags' = bags
    BY <1>2 DEF TakeMoney, runVars
  <1>5. /\ p \in Online /\ server = "up" /\ money \in [Player -> Nat] /\ mail \in Mail
        /\ m_mail \in [MailId -> Mail \union {None}] /\ bags \in [Player -> SUBSET Item]
        /\ last \in Tables /\ OnePlace(last)
    BY <1>1, <1>2, <1>4, BeforeFacts DEF Before, MemoryTypes, Online
  <1>6. money' \in [Player -> Nat] /\ \A q \in Player \ {p} : money'[q] = money[q]
    BY <1>4, <1>5 DEF Mail
  <1>7. /\ t.gold = Row(p, money'[p]) /\ t.mail = Row(m, None) /\ t.inventory = <<>>
        /\ t.auctionhouse = <<>> /\ t.bid = <<>> /\ t.login = None
    BY <1>3 DEF NoRows
  <1>8. t \in Operations
    <2>1. /\ Row(p, money'[p]) \in Partial(Player, Nat)
          /\ Row(m, None) \in Partial(MailId, Mail \union {None})
      BY <1>6, Rows
    <2> QED  BY <1>3, <2>1, EmptyRows DEF Operations, NoRows
  <1>9. /\ DOMAIN t.gold = {p} /\ t.gold[p] = money'[p]
        /\ DOMAIN t.mail = {m} /\ t.mail[m] = None
        /\ DOMAIN t.inventory = {} /\ DOMAIN t.auctionhouse = {} /\ DOMAIN t.bid = {}
    BY <1>7, EmptyRows DEF Row
  <1>10. PICK next : next = Applied(last, t)
    OBVIOUS
  <1>11. /\ next \in Tables
         /\ \A q \in Player : next.gold[q] = IF q = p THEN money'[p] ELSE last.gold[q]
         /\ \A x \in MailId : next.mail[x] = IF x = m THEN None ELSE last.mail[x]
         /\ \A x \in AuctionId : next.auctionhouse[x] = last.auctionhouse[x]
    BY <1>5, <1>8, <1>9, <1>10, NextRows
  <1>12. /\ last.mail[m] = mail
         /\ AuctionsMap = last.auctionhouse
         /\ bags[p] = ItemsOf(last, p)
    BY <1>1, <1>2, <1>4, <1>5 DEF Before, MemoryAgrees, MailsAgree, PlayersAgree
  <1>13. OnePlace(next) /\ \A q : ItemsOf(next, q) = ItemsOf(last, q)
    <2>1. \A x \in AuctionId, i \in Item :
             Offers(next.auctionhouse, x, i) <=> Offers(last.auctionhouse, x, i)
      BY <1>11 DEF Offers
    <2> QED  BY <1>4, <1>5, <1>8, <1>9, <1>10, <1>12, <2>1, LettersOnly
  <1>14. Handles(p, last, t, next)
    <2>1. AuctionsMap' = next.auctionhouse
      <3>1. /\ next.auctionhouse \in [AuctionId -> Auction \union {None}]
            /\ last.auctionhouse \in [AuctionId -> Auction \union {None}]
        BY <1>5, <1>11 DEF Tables
      <3> QED  BY <1>4, <1>11, <1>12, <3>1
    <2>2. MailsAgree(next)'
      <3> SUFFICES ASSUME NEW x \in MailId, m_mail'[x] # None
                   PROVE  m_mail'[x] = next.mail[x] /\ m_mail'[x].to \in m_mailsLoaded
        BY <1>4 DEF MailsAgree
      <3>1. x # m /\ m_mail'[x] = m_mail[x]
        BY <1>4, <1>5
      <3> QED  BY <1>1, <1>11, <3>1 DEF Before, MemoryAgrees, MailsAgree
    <2>3. m_mail' \in [MailId -> Mail \union {None}]
      BY <1>4, <1>5
    <2>4. last.mail[m].to \in m_mailsLoaded
      BY <1>4, <1>12
    <2> QED  BY <1>4, <1>5, <1>6, <1>7, <1>9, <1>11, <1>12, <1>13, <2>1, <2>2, <2>3, <2>4
             DEF Handles
  <1> QED  BY <1>1, <1>3, <1>8, <1>10, <1>13, <1>14, HandlerKeeps

\* HandleMailTakeItem moves an item from a mail, which it deletes, to a bag.
LEMMA TakeItemKeeps ==
    ASSUME ItemInv, NEW p \in Player, NEW m \in MailId, TakeItem(p, m)
    PROVE  ItemInv'
  <1>1. PICK path, last : Before(path, last)
    BY Start
  <1>2. PICK mail, i : mail = m_mail[m] /\ i = mail.item
    OBVIOUS
  <1>3. PICK t : /\ t = [NoRows EXCEPT !.gold = Row(p, money[p]), !.mail = Row(m, None),
                                       !.inventory = Row(i, p)]
                 /\ CommitTransaction(t)
    BY <1>2 DEF TakeItem
  <1>4. /\ p \in m_mailsLoaded /\ mail # None /\ mail.to = p /\ i # None
        /\ bags' = [bags EXCEPT ![p] = @ \union {i}]
        /\ m_mail' = [m_mail EXCEPT ![m] = None]
        /\ AuctionsMap' = AuctionsMap
        /\ state' = state /\ holder' = holder /\ server' = server
        /\ m_mailsLoaded' = m_mailsLoaded /\ money' = money
    BY <1>2 DEF TakeItem, runVars
  <1>5. /\ p \in Online /\ server = "up" /\ money \in [Player -> Nat] /\ mail \in Mail
        /\ m_mail \in [MailId -> Mail \union {None}] /\ bags \in [Player -> SUBSET Item]
        /\ last \in Tables /\ OnePlace(last)
    BY <1>1, <1>2, <1>4, BeforeFacts DEF Before, MemoryTypes, Online
  <1>6. i \in Item
    BY <1>2, <1>4, <1>5 DEF Mail
  <1>7. /\ t.gold = Row(p, money[p]) /\ t.mail = Row(m, None) /\ t.inventory = Row(i, p)
        /\ t.auctionhouse = <<>> /\ t.bid = <<>> /\ t.login = None
    BY <1>3 DEF NoRows
  <1>8. t \in Operations
    <2>1. /\ Row(p, money[p]) \in Partial(Player, Nat)
          /\ Row(m, None) \in Partial(MailId, Mail \union {None})
          /\ Row(i, p) \in Partial(Item, Player \union {None})
      BY <1>5, <1>6, Rows
    <2> QED  BY <1>3, <2>1, EmptyRows DEF Operations, NoRows
  <1>9. /\ DOMAIN t.gold = {p} /\ t.gold[p] = money[p]
        /\ DOMAIN t.mail = {m} /\ t.mail[m] = None
        /\ DOMAIN t.inventory = {i} /\ t.inventory[i] = p
        /\ DOMAIN t.auctionhouse = {} /\ DOMAIN t.bid = {}
    BY <1>7, EmptyRows DEF Row
  <1>10. PICK next : next = Applied(last, t)
    OBVIOUS
  <1>11. /\ next \in Tables
         /\ \A q \in Player : next.gold[q] = IF q = p THEN money[p] ELSE last.gold[q]
         /\ \A j \in Item : next.inventory[j] = IF j = i THEN p ELSE last.inventory[j]
         /\ \A x \in MailId : next.mail[x] = IF x = m THEN None ELSE last.mail[x]
         /\ \A x \in AuctionId : next.auctionhouse[x] = last.auctionhouse[x]
    BY <1>5, <1>8, <1>9, <1>10, NextRows
  <1>12. /\ last.mail[m] = mail
         /\ AuctionsMap = last.auctionhouse
         /\ bags[p] = ItemsOf(last, p)
    BY <1>1, <1>2, <1>4, <1>5 DEF Before, MemoryAgrees, MailsAgree, PlayersAgree
  <1>13. p # None
    BY AuctionHouseAssumption
  <1>14. /\ last.inventory[i] = None
         /\ \A x \in MailId : Carries(last.mail, x, i) => x = m
         /\ \A x \in AuctionId : ~Offers(last.auctionhouse, x, i)
    <2>1. PlacedOnce(last, i)
      BY <1>5, <1>6 DEF OnePlace
    <2>2. Carries(last.mail, m, i)
      BY <1>2, <1>4, <1>12 DEF Carries
    <2> QED  BY <2>1, <2>2 DEF PlacedOnce
  <1>15. OnePlace(next)
    <2> SUFFICES ASSUME NEW j \in Item  PROVE PlacedOnce(next, j)
      BY DEF OnePlace
    <2>1. \A x \in AuctionId : Offers(next.auctionhouse, x, j) <=> Offers(last.auctionhouse, x, j)
      BY <1>11 DEF Offers
    <2>2. CASE j = i
      <3>1. \A x \in MailId : ~Carries(next.mail, x, i)
        BY <1>11, <1>14 DEF Carries
      <3>2. next.inventory[i] # None
        BY <1>6, <1>11, <1>13
      <3> QED  BY <1>14, <2>1, <2>2, <3>1, <3>2 DEF PlacedOnce
    <2>3. CASE j # i
      <3>1. \A x \in MailId : Carries(next.mail, x, j) <=> Carries(last.mail, x, j)
        BY <1>2, <1>11, <1>12, <2>3 DEF Carries
      <3>2. next.inventory[j] = last.inventory[j]
        BY <1>11, <2>3
      <3>3. PlacedOnce(last, j)
        BY <1>5 DEF OnePlace
      <3> QED  BY ONLY <2>1, <3>1, <3>2, <3>3 DEF PlacedOnce
    <2> QED  BY <2>2, <2>3
  <1>16. Handles(p, last, t, next)
    <2>1. AuctionsMap' = next.auctionhouse
      <3>1. /\ next.auctionhouse \in [AuctionId -> Auction \union {None}]
            /\ last.auctionhouse \in [AuctionId -> Auction \union {None}]
        BY <1>5, <1>11 DEF Tables
      <3> QED  BY <1>4, <1>11, <1>12, <3>1
    <2>2. MailsAgree(next)'
      <3> SUFFICES ASSUME NEW x \in MailId, m_mail'[x] # None
                   PROVE  m_mail'[x] = next.mail[x] /\ m_mail'[x].to \in m_mailsLoaded
        BY <1>4 DEF MailsAgree
      <3>1. x # m /\ m_mail'[x] = m_mail[x]
        BY <1>4, <1>5
      <3> QED  BY <1>1, <1>11, <3>1 DEF Before, MemoryAgrees, MailsAgree
    <2>3. m_mail' \in [MailId -> Mail \union {None}]
      BY <1>4, <1>5
    <2>4. last.mail[m].to \in m_mailsLoaded
      BY <1>4, <1>12
    <2>5. \A q \in Player \ {p} : bags'[q] = bags[q] /\ ItemsOf(next, q) = ItemsOf(last, q)
      <3> TAKE q \in Player \ {p}
      <3>1. \A j \in Item : next.inventory[j] = q <=> last.inventory[j] = q
        BY <1>11, <1>14, AuctionHouseAssumption
      <3> QED  BY <1>4, <1>5, <3>1 DEF ItemsOf
    <2>6. bags'[p] = ItemsOf(next, p)
      <3>1. \A j \in Item : next.inventory[j] = p <=> last.inventory[j] = p \/ j = i
        BY <1>11
      <3>2. bags'[p] = ItemsOf(last, p) \union {i}
        BY <1>4, <1>5, <1>12
      <3> QED  BY <1>6, <3>1, <3>2 DEF ItemsOf
    <2>7. bags' \in [Player -> SUBSET Item]
      BY <1>4, <1>5, <1>6
    <2> QED  BY <1>4, <1>5, <1>7, <1>9, <1>11, <1>12, <2>1, <2>2, <2>3, <2>4, <2>5, <2>6, <2>7
             DEF Handles
  <1> QED  BY <1>1, <1>3, <1>8, <1>10, <1>15, <1>16, HandlerKeeps

\* Saving a player writes his gold; his items have their rows already.
LEMMA SavedTables ==
    ASSUME NEW path, NEW last, Before(path, last), NEW p \in Online,
           NEW t, t = SavedPlayer(p), NEW next, next = Applied(last, t)
    PROVE  /\ t \in Operations /\ t.login = None
           /\ DOMAIN t.gold = {p} /\ DOMAIN t.mail = {}
           /\ next \in Tables /\ OnePlace(next)
           /\ next.gold[p] = money[p]
           /\ next.mail = last.mail /\ next.auctionhouse = last.auctionhouse
           /\ \A q : ItemsOf(next, q) = ItemsOf(last, q)
  <1>1. /\ p \in Player /\ money \in [Player -> Nat] /\ bags \in [Player -> SUBSET Item]
        /\ last \in Tables /\ OnePlace(last) /\ bags[p] = ItemsOf(last, p)
    BY BeforeFacts DEF Before, MemoryTypes, MemoryAgrees, PlayersAgree, Online
  <1>2. /\ t.gold = Row(p, money[p]) /\ t.inventory = [i \in bags[p] |-> p]
        /\ t.mail = <<>> /\ t.auctionhouse = <<>> /\ t.bid = <<>> /\ t.login = None
    BY DEF SavedPlayer, NoRows
  <1>3. t \in Operations
    <2>1. [i \in bags[p] |-> p] \in [bags[p] -> Player \union {None}] /\ bags[p] \in SUBSET Item
      BY <1>1
    <2>2. /\ [i \in bags[p] |-> p] \in Partial(Item, Player \union {None})
          /\ Row(p, money[p]) \in Partial(Player, Nat)
      <3>1. [bags[p] -> Player \union {None}] \subseteq Partial(Item, Player \union {None})
        BY <2>1, PartialFunctions
      <3>2. Row(p, money[p]) \in Partial(Player, Nat)
        BY <1>1, Rows
      <3> QED  BY <2>1, <3>1, <3>2
    <2> QED  BY <2>2, EmptyRows DEF Operations, NoRows, SavedPlayer
  <1>4. /\ DOMAIN t.gold = {p} /\ t.gold[p] = money[p]
        /\ DOMAIN t.inventory = bags[p] /\ \A i \in bags[p] : t.inventory[i] = p
        /\ DOMAIN t.mail = {} /\ DOMAIN t.auctionhouse = {} /\ DOMAIN t.bid = {}
    BY <1>2, EmptyRows DEF Row
  <1>5. /\ next \in Tables
        /\ next.gold[p] = money[p]
        /\ \A j \in Item : next.inventory[j] =
              IF j \in DOMAIN t.inventory THEN t.inventory[j] ELSE last.inventory[j]
        /\ \A x \in MailId : next.mail[x] = last.mail[x]
        /\ \A x \in AuctionId : next.auctionhouse[x] = last.auctionhouse[x]
    BY <1>1, <1>3, <1>4, NextRows
  <1>6. \A j \in Item : next.inventory[j] = last.inventory[j]
    BY <1>1, <1>4, <1>5 DEF ItemsOf
  <1>7. next.mail = last.mail /\ next.auctionhouse = last.auctionhouse
    BY <1>1, <1>5 DEF Tables
  <1>8. OnePlace(next)
    <2> SUFFICES ASSUME NEW j \in Item  PROVE PlacedOnce(next, j)
      BY DEF OnePlace
    <2>1. PlacedOnce(last, j)
      BY <1>1 DEF OnePlace
    <2> QED  BY <1>6, <1>7, <2>1 DEF PlacedOnce
  <1> QED  BY <1>2, <1>3, <1>4, <1>5, <1>6, <1>7, <1>8 DEF ItemsOf

\* A save writes what the queue leads to anyway.
LEMMA SaveKeeps ==
    ASSUME ItemInv, NEW p \in Player, Save(p)
    PROVE  ItemInv'
  <1>1. PICK path, last : Before(path, last)
    BY Start
  <1>2. PICK t : t = SavedPlayer(p) /\ CommitTransaction(t)
    BY DEF Save
  <1>3. PICK next : next = Applied(last, t)
    OBVIOUS
  <1>4. /\ p \in Online
        /\ AuctionsMap' = AuctionsMap /\ m_mail' = m_mail
        /\ state' = state /\ holder' = holder /\ server' = server
        /\ m_mailsLoaded' = m_mailsLoaded /\ money' = money /\ bags' = bags
    BY DEF Save, playerVars, mailVars, runVars
  <1>5. /\ t \in Operations /\ t.login = None
        /\ DOMAIN t.gold = {p} /\ DOMAIN t.mail = {}
        /\ next \in Tables /\ OnePlace(next)
        /\ next.gold[p] = money[p]
        /\ next.mail = last.mail /\ next.auctionhouse = last.auctionhouse
        /\ \A q : ItemsOf(next, q) = ItemsOf(last, q)
    BY <1>1, <1>2, <1>3, <1>4, SavedTables
  <1>6. server = "up"
    BY <1>1, <1>4, BeforeFacts DEF Online
  <1>7. /\ money \in [Player -> Nat] /\ bags \in [Player -> SUBSET Item]
        /\ m_mail \in [MailId -> Mail \union {None}]
        /\ AuctionsMap = last.auctionhouse /\ bags[p] = ItemsOf(last, p)
    BY <1>1, <1>4, <1>6 DEF Before, MemoryTypes, MemoryAgrees, PlayersAgree
  <1>8. MailsAgree(next)'
    BY <1>1, <1>4, <1>5 DEF Before, MemoryAgrees, MailsAgree
  <1>9. Handles(p, last, t, next)
    BY <1>4, <1>5, <1>6, <1>7, <1>8 DEF Handles
  <1> QED  BY <1>1, <1>2, <1>3, <1>5, <1>9, HandlerKeeps

\* LogoutPlayer saves, and forgets the player and his mails.
LEMMA LogoutKeeps ==
    ASSUME ItemInv, NEW p \in Player, LogoutPlayer(p)
    PROVE  ItemInv'
  <1>1. PICK path, last : Before(path, last)
    BY Start
  <1>2. PICK t : t = SavedPlayer(p) /\ CommitTransaction(t)
    BY DEF LogoutPlayer
  <1>3. PICK next : next = Applied(last, t)
    OBVIOUS
  <1>4. /\ p \in Online
        /\ state' = [state EXCEPT ![p] = "offline"]
        /\ money' = [money EXCEPT ![p] = 0]
        /\ bags' = [bags EXCEPT ![p] = {}]
        /\ m_mailsLoaded' = m_mailsLoaded \ {p}
        /\ m_mail' = [m \in MailId |-> IF m_mail[m] # None /\ m_mail[m].to = p
                                       THEN None ELSE m_mail[m]]
        /\ AuctionsMap' = AuctionsMap /\ holder' = holder /\ server' = server
    BY DEF LogoutPlayer, runVars
  <1>5. /\ t \in Operations /\ t.login = None
        /\ DOMAIN t.gold = {p} /\ DOMAIN t.mail = {}
        /\ next \in Tables /\ OnePlace(next)
        /\ next.gold[p] = money[p]
        /\ next.mail = last.mail /\ next.auctionhouse = last.auctionhouse
        /\ \A q : ItemsOf(next, q) = ItemsOf(last, q)
    BY <1>1, <1>2, <1>3, <1>4, SavedTables
  <1>6. server = "up" /\ last \in Tables
    BY <1>1, <1>4, BeforeFacts DEF Online
  <1>7. MemoryTypes /\ OfflineEmpty /\ MemoryAgrees(last) /\ PathInv(path)
        /\ path \in [Nat -> Tables] /\ last = path[Len(dbQueue)] /\ ~ExpireWhileDown
    BY <1>1 DEF Before
  <1>8. \A q \in Player : state'[q] = IF q = p THEN "offline" ELSE state[q]
    BY <1>4, <1>7 DEF MemoryTypes
  <1>9. dbQueue' = Append(dbQueue, t) /\ db' = db
    BY <1>2 DEF CommitTransaction, Enqueue
  <1>10. MemoryTypes'
    <2>1. dbQueue' \in Seq(Operations)
      BY <1>5, <1>7, <1>9 DEF MemoryTypes
    <2>2. m_mailsLoaded' \subseteq Online'
      BY <1>4, <1>7, <1>8 DEF MemoryTypes, Online
    <2>3. m_mail' \in [MailId -> Mail \union {None}]
      BY <1>4, <1>7 DEF MemoryTypes
    <2>4. /\ state' \in [Player -> {"offline", "login", "online"}]
          /\ money' \in [Player -> Nat] /\ bags' \in [Player -> SUBSET Item]
      BY <1>4, <1>7 DEF MemoryTypes
    <2> QED  BY <1>4, <1>7, <2>1, <2>2, <2>3, <2>4 DEF MemoryTypes
  <1>11. OfflineEmpty'
    <2> SUFFICES ASSUME NEW q \in Player, state'[q] # "online"
                 PROVE  bags'[q] = {} /\ money'[q] = 0
      BY <1>4, <1>6 DEF OfflineEmpty, Online
    <2>1. CASE q = p
      BY <1>4, <1>7, <2>1 DEF MemoryTypes
    <2>2. CASE q # p
      BY <1>4, <1>7, <1>8, <2>2 DEF MemoryTypes, OfflineEmpty, Online
    <2> QED  BY <2>1, <2>2
  <1>12. MemoryAgrees(next)'
    <2>1. ASSUME NEW q \in Player, state'[q] = "online"
          PROVE  /\ bags'[q] = ItemsOf(next, q)
                 /\ money'[q] \in {next.gold[q], next.gold[q] - Deposit}
      <3>1. q # p /\ state[q] = "online"
        BY <1>8, <2>1
      <3>2. next.gold[q] = last.gold[q]
        BY <1>3, <1>5, <1>6, <3>1, NextRows
      <3>3. bags'[q] = bags[q] /\ money'[q] = money[q]
        BY <1>4, <1>7, <3>1 DEF MemoryTypes
      <3> QED  BY <1>5, <1>7, <3>1, <3>2, <3>3 DEF MemoryAgrees, PlayersAgree, Online
    <2>2. ASSUME NEW m \in MailId, m_mail'[m] # None
          PROVE  m_mail'[m] = next.mail[m] /\ m_mail'[m].to \in m_mailsLoaded'
      <3>1. m_mail'[m] = m_mail[m] /\ m_mail[m].to # p
        BY <1>4, <2>2
      <3> QED  BY <1>4, <1>5, <1>7, <2>2, <3>1 DEF MemoryAgrees, MailsAgree
    <2>3. AuctionsMap' = next.auctionhouse
      BY <1>4, <1>5, <1>6, <1>7 DEF MemoryAgrees
    <2> QED  BY <2>1, <2>2, <2>3 DEF MemoryAgrees, PlayersAgree, MailsAgree, Online
  <1>13. Undisturbed(last, t)
    <2>1. state[p] = "online"
      BY <1>4 DEF Online
    <2>2. \A q \in Player : state[q] = "login" =>
             /\ state'[q] = "login" /\ q \notin DOMAIN t.gold
             /\ ItemsOf(Applied(last, t), q) = ItemsOf(last, q)
      BY <1>3, <1>5, <1>8, <2>1
    <2>3. \A q \in Player : state'[q] = "online" =>
             /\ state[q] = "online"
             /\ q \in m_mailsLoaded => q \in m_mailsLoaded'
      BY <1>4, <1>8
    <2> QED  BY <1>5, <2>2, <2>3 DEF Undisturbed
  <1>14. \E new \in [Nat -> Tables] :
            PathInv(new)' /\ new[Len(dbQueue')] = Applied(path[Len(dbQueue)], t)
    <2>1. OnePlace(Applied(path[Len(dbQueue)], t)) /\ Undisturbed(path[Len(dbQueue)], t)
      BY <1>3, <1>5, <1>7, <1>13
    <2> QED  BY <1>4, <1>5, <1>7, <1>9, <2>1, Appended
  <1>15. \E new \in [Nat -> Tables] : PathInv(new)' /\ new[Len(dbQueue')] = next
    BY <1>3, <1>7, <1>14
  <1> QED  BY <1>7, <1>10, <1>11, <1>12, <1>15 DEF ItemInv

\* The query of a login waits behind everything that was saved of the player.
LEMMA LoginKeeps ==
    ASSUME ItemInv, NEW p \in Player, HandlePlayerLogin(p)
    PROVE  ItemInv'
  <1>1. PICK path, last : Before(path, last)
    BY Start
  <1>2. MemoryTypes /\ OfflineEmpty /\ MemoryAgrees(last) /\ PathInv(path)
        /\ path \in [Nat -> Tables] /\ last = path[Len(dbQueue)] /\ ~ExpireWhileDown
    BY <1>1 DEF Before
  <1>3. PICK t : t = [NoRows EXCEPT !.login = p]
    OBVIOUS
  <1>4. /\ server = "up" /\ state[p] = "offline"
        /\ dbQueue' = Append(dbQueue, t) /\ db' = db
        /\ state' = [state EXCEPT ![p] = "login"]
        /\ holder' = holder /\ money' = money /\ bags' = bags /\ m_mail' = m_mail
        /\ m_mailsLoaded' = m_mailsLoaded /\ AuctionsMap' = AuctionsMap /\ server' = server
    BY <1>3 DEF HandlePlayerLogin, DelayQueryHolder, Enqueue, mailVars, runVars
  <1>5. last \in Tables /\ OnePlace(last)
    BY <1>1, BeforeFacts
  <1>6. t \in Operations /\ Applied(last, t) = last
    BY <1>3, <1>5, LoginChangesNothing
  <1>7. t.login = p /\ DOMAIN t.gold = {} /\ DOMAIN t.mail = {}
    BY <1>3, EmptyRows DEF NoRows
  <1>8. \A q \in Player : state'[q] = IF q = p THEN "login" ELSE state[q]
    BY <1>2, <1>4 DEF MemoryTypes
  <1>9. Online' = Online
    BY <1>4, <1>8 DEF Online
  <1>10. MemoryTypes'
    <2>1. dbQueue' \in Seq(Operations)
      BY <1>2, <1>4, <1>6 DEF MemoryTypes
    <2>2. state' \in [Player -> {"offline", "login", "online"}]
      BY <1>2, <1>4 DEF MemoryTypes
    <2> QED  BY <1>2, <1>4, <1>9, <2>1, <2>2 DEF MemoryTypes
  <1>11. OfflineEmpty'
    BY <1>2, <1>4, <1>9 DEF OfflineEmpty
  <1>12. MemoryAgrees(last)'
    BY <1>2, <1>4, <1>9 DEF MemoryAgrees, PlayersAgree, MailsAgree
  <1>13. Undisturbed(last, t)
    BY <1>4, <1>6, <1>7, <1>8 DEF Undisturbed
  <1>14. \E new \in [Nat -> Tables] :
            PathInv(new)' /\ new[Len(dbQueue')] = Applied(path[Len(dbQueue)], t)
    <2>1. OnePlace(Applied(path[Len(dbQueue)], t)) /\ Undisturbed(path[Len(dbQueue)], t)
      BY <1>2, <1>5, <1>6, <1>13
    <2> QED  BY <1>2, <1>4, <1>6, <2>1, Appended
  <1>15. \E new \in [Nat -> Tables] : PathInv(new)' /\ new[Len(dbQueue')] = last
    BY <1>2, <1>6, <1>14
  <1> QED  BY <1>2, <1>10, <1>11, <1>12, <1>15 DEF ItemInv

\* The answer to the query is still true when it is taken up.
LEMMA LoadFromDBKeeps ==
    ASSUME ItemInv, NEW p \in Player, LoadFromDB(p)
    PROVE  ItemInv'
  <1>1. PICK path, last : Before(path, last)
    BY Start
  <1>2. MemoryTypes /\ OfflineEmpty /\ MemoryAgrees(last) /\ PathInv(path)
        /\ path \in [Nat -> Tables] /\ last = path[Len(dbQueue)] /\ ~ExpireWhileDown
    BY <1>1 DEF Before
  <1>3. /\ state[p] = "login" /\ holder[p] # None
        /\ money' = [money EXCEPT ![p] = holder[p].gold]
        /\ bags' = [bags EXCEPT ![p] = holder[p].items]
        /\ state' = [state EXCEPT ![p] = "online"]
        /\ holder' = [holder EXCEPT ![p] = None]
        /\ db' = db /\ dbQueue' = dbQueue /\ m_mail' = m_mail
        /\ m_mailsLoaded' = m_mailsLoaded /\ AuctionsMap' = AuctionsMap /\ server' = server
    BY DEF LoadFromDB, mailVars, runVars
  <1>4. \A q \in Player :
           /\ state'[q] = IF q = p THEN "online" ELSE state[q]
           /\ holder'[q] = IF q = p THEN None ELSE holder[q]
           /\ money'[q] = IF q = p THEN holder[p].gold ELSE money[q]
           /\ bags'[q] = IF q = p THEN holder[p].items ELSE bags[q]
    BY <1>2, <1>3 DEF MemoryTypes
  <1>5. holder[p] = [gold |-> last.gold[p], items |-> ItemsOf(last, p)]
    BY <1>2, <1>3 DEF PathInv, AnswerHolds
  <1>6. server = "up"
    BY <1>2, <1>3 DEF OfflineEmpty
  <1>7. MemoryTypes'
    <2>1. holder[p] \in LoginQueryHolder
      BY <1>2, <1>3 DEF MemoryTypes
    <2>2. holder[p].gold \in Nat /\ holder[p].items \in SUBSET Item
      BY <2>1 DEF LoginQueryHolder
    <2>3. m_mailsLoaded' \subseteq Online'
      BY <1>2, <1>3, <1>4 DEF MemoryTypes, Online
    <2>4. /\ state' \in [Player -> {"offline", "login", "online"}]
          /\ money' \in [Player -> Nat] /\ bags' \in [Player -> SUBSET Item]
          /\ holder' \in [Player -> LoginQueryHolder \union {None}]
      BY <1>2, <1>3, <2>2 DEF MemoryTypes
    <2> QED  BY <1>2, <1>3, <2>3, <2>4 DEF MemoryTypes
  <1>8. OfflineEmpty'
    BY <1>2, <1>3, <1>4, <1>6 DEF OfflineEmpty, Online
  <1>9. MemoryAgrees(last)'
    <2>1. ASSUME NEW q \in Player, state'[q] = "online"
          PROVE  /\ bags'[q] = ItemsOf(last, q)
                 /\ money'[q] \in {last.gold[q], last.gold[q] - Deposit}
      <3>1. CASE q = p
        BY <1>4, <1>5, <3>1
      <3>2. CASE q # p
        BY <1>2, <1>4, <2>1, <3>2 DEF MemoryAgrees, PlayersAgree, Online
      <3> QED  BY <3>1, <3>2
    <2> QED  BY <1>2, <1>3, <2>1 DEF MemoryAgrees, PlayersAgree, MailsAgree, Online
  <1>10. \A k \in 1..Len(dbQueue) : dbQueue[k].login # p
    BY <1>2, <1>3, AuctionHouseAssumption DEF PathInv, LoginLoadsLast
  <1>11. \A k, q : MailsStay(path, k, q)' <=> MailsStay(path, k, q)
    BY <1>3 DEF MailsStay
  <1>12. LoginLoadsLast(path)'
    <2> SUFFICES ASSUME NEW k \in 1..Len(dbQueue), NEW q, q = dbQueue[k].login, q # None
                 PROVE  /\ state'[q] = "login" /\ holder'[q] = None
                        /\ path[k] = path[k - 1]
                        /\ \A l \in 1..Len(dbQueue) : dbQueue[l].login = q => l = k
                        /\ path[k].gold[q] = path[Len(dbQueue)].gold[q]
                        /\ ItemsOf(path[k], q) = ItemsOf(path[Len(dbQueue)], q)
                        /\ MailsStay(path, k, q)'
      BY <1>3 DEF LoginLoadsLast
    <2>1. q # p /\ q \in Player
      <3>1. dbQueue[k] \in Operations
        BY <1>2 DEF MemoryTypes
      <3> QED  BY <1>10, <3>1 DEF Operations
    <2>2. /\ state[q] = "login" /\ holder[q] = None
          /\ path[k] = path[k - 1]
          /\ \A l \in 1..Len(dbQueue) : dbQueue[l].login = q => l = k
          /\ path[k].gold[q] = path[Len(dbQueue)].gold[q]
          /\ ItemsOf(path[k], q) = ItemsOf(path[Len(dbQueue)], q)
          /\ MailsStay(path, k, q)
      BY <1>2 DEF PathInv, LoginLoadsLast
    <2> QED  BY <1>4, <1>11, <2>1, <2>2
  <1>13. AnswerHolds(path)'
    BY <1>2, <1>3, <1>4 DEF PathInv, AnswerHolds
  <1>14. MailsWait(path)'
    <2> SUFFICES ASSUME NEW q \in Player, holder'[q] # None \/ state'[q] = "online",
                        q \notin m_mailsLoaded
                 PROVE  MailsStay(path, 0, q)
      BY <1>3, <1>11 DEF MailsWait
    <2>1. holder[q] # None \/ state[q] = "online"
      BY <1>3, <1>4
    <2> QED  BY <1>2, <2>1 DEF PathInv, MailsWait
  <1>15. /\ PathFrom(path)'
         /\ NoRowFromNowhere(path)'
         /\ \A k \in 0..Len(dbQueue') : OnePlace(path[k])
    BY <1>2, <1>3 DEF PathInv, PathFrom, NoRowFromNowhere
  <1>16. PathInv(path)'
    BY <1>12, <1>13, <1>14, <1>15 DEF PathInv
  <1>17. path[Len(dbQueue')] = last
    BY <1>2, <1>3
  <1> QED  BY <1>2, <1>7, <1>8, <1>9, <1>16, <1>17 DEF ItemInv

\* The mailbox is read past the queue, and no mail to the player is deleted by the queue.
LEMMA GetMailListKeeps ==
    ASSUME ItemInv, NEW p \in Player, GetMailList(p)
    PROVE  ItemInv'
  <1>1. PICK path, last : Before(path, last)
    BY Start
  <1>2. MemoryTypes /\ OfflineEmpty /\ MemoryAgrees(last) /\ PathInv(path)
        /\ path \in [Nat -> Tables] /\ last = path[Len(dbQueue)] /\ ~ExpireWhileDown
    BY <1>1 DEF Before
  <1>3. /\ p \in Online /\ p \notin m_mailsLoaded
        /\ m_mailsLoaded' = m_mailsLoaded \union {p}
        /\ m_mail' = [m \in MailId |-> IF db.mail[m] # None /\ db.mail[m].to = p
                                       THEN db.mail[m] ELSE m_mail[m]]
        /\ db' = db /\ dbQueue' = dbQueue /\ state' = state /\ holder' = holder
        /\ money' = money /\ bags' = bags /\ AuctionsMap' = AuctionsMap /\ server' = server
    BY DEF GetMailList, playerVars, runVars
  <1>4. db \in Tables /\ path[0] = db /\ Len(dbQueue) \in Nat
    BY <1>2 DEF PathInv, PathFrom, MemoryTypes
  <1>5. \A m \in MailId : db.mail[m] # None /\ db.mail[m].to = p => last.mail[m] = db.mail[m]
    <2>1. MailsStay(path, 0, p)
      BY <1>2, <1>3 DEF PathInv, MailsWait, Online
    <2>2. 0 \in 0..Len(dbQueue)
      BY <1>4
    <2> QED  BY <1>2, <1>4, <2>1, <2>2 DEF MailsStay
  <1>6. MemoryTypes'
    <2>1. m_mail' \in [MailId -> Mail \union {None}]
      BY <1>2, <1>3, <1>4 DEF MemoryTypes, Tables
    <2>2. m_mailsLoaded' \subseteq Online'
      BY <1>2, <1>3 DEF MemoryTypes, Online
    <2> QED  BY <1>2, <1>3, <2>1, <2>2 DEF MemoryTypes
  <1>7. OfflineEmpty'
    BY <1>2, <1>3 DEF OfflineEmpty, Online
  <1>8. MemoryAgrees(last)'
    <2>1. ASSUME NEW m \in MailId, m_mail'[m] # None
          PROVE  m_mail'[m] = last.mail[m] /\ m_mail'[m].to \in m_mailsLoaded'
      <3>1. CASE db.mail[m] # None /\ db.mail[m].to = p
        BY <1>3, <1>5, <3>1
      <3>2. CASE ~(db.mail[m] # None /\ db.mail[m].to = p)
        BY <1>2, <1>3, <2>1, <3>2 DEF MemoryAgrees, MailsAgree
      <3> QED  BY <3>1, <3>2
    <2> QED  BY <1>2, <1>3, <2>1 DEF MemoryAgrees, PlayersAgree, MailsAgree, Online
  <1>9. \A k, q : MailsStay(path, k, q)' <=> MailsStay(path, k, q)
    BY <1>3 DEF MailsStay
  <1>10. LoginLoadsLast(path)'
    BY <1>2, <1>3, <1>9 DEF PathInv, LoginLoadsLast
  <1>11. AnswerHolds(path)' /\ MailsWait(path)'
    BY <1>2, <1>3, <1>9 DEF PathInv, AnswerHolds, MailsWait
  <1>12. /\ PathFrom(path)'
         /\ NoRowFromNowhere(path)'
         /\ \A k \in 0..Len(dbQueue') : OnePlace(path[k])
    BY <1>2, <1>3 DEF PathInv, PathFrom, NoRowFromNowhere
  <1>13. PathInv(path)' /\ path[Len(dbQueue')] = last
    BY <1>2, <1>3, <1>10, <1>11, <1>12 DEF PathInv
  <1> QED  BY <1>2, <1>6, <1>7, <1>8, <1>13 DEF ItemInv

-----------------------------------------------------------------------------
(* The worker, crash and start                                             *)

\* The worker takes the first step of the path.
LEMMA ExecuteKeeps ==
    ASSUME ItemInv, Execute
    PROVE  ItemInv'
  <1>1. PICK path, last : Before(path, last)
    BY Start
  <1>2. MemoryTypes /\ OfflineEmpty /\ MemoryAgrees(last) /\ PathInv(path)
        /\ path \in [Nat -> Tables] /\ last = path[Len(dbQueue)] /\ ~ExpireWhileDown
    BY <1>1 DEF Before
  <1>3. \E new \in [Nat -> Tables] : PathInv(new)' /\ new[Len(dbQueue')] = last
    BY <1>2, Executed
  <1>4. /\ dbQueue # <<>> /\ dbQueue' = Tail(dbQueue)
        /\ state' = state /\ money' = money /\ bags' = bags /\ m_mail' = m_mail
        /\ m_mailsLoaded' = m_mailsLoaded /\ AuctionsMap' = AuctionsMap /\ server' = server
    BY DEF Execute, mailVars, runVars
  <1>5. server = "up"
    BY <1>2, <1>4 DEF OfflineEmpty
  <1>6. holder' \in [Player -> LoginQueryHolder \union {None}]
    <2>1. db \in Tables
      BY <1>2 DEF PathInv, PathFrom
    <2>2. \A p \in Player : [gold |-> db.gold[p], items |-> {i \in Item : db.inventory[i] = p}]
                               \in LoginQueryHolder
      BY <2>1 DEF Tables, LoginQueryHolder
    <2>3. holder \in [Player -> LoginQueryHolder \union {None}]
      BY <1>2 DEF MemoryTypes
    <2>4. Head(dbQueue) \in Operations
      BY <1>2, <1>4 DEF MemoryTypes
    <2>5. Head(dbQueue).login \in Player \union {None}
      BY <2>4 DEF Operations
    <2>6. CASE Head(dbQueue).login = None
      BY <2>3, <2>6 DEF Execute
    <2>7. CASE Head(dbQueue).login # None
      BY <2>2, <2>3, <2>5, <2>7 DEF Execute
    <2> QED  BY <2>6, <2>7
  <1>7. MemoryTypes'
    <2>1. dbQueue' \in Seq(Operations)
      BY <1>2, <1>4 DEF MemoryTypes
    <2> QED  BY <1>2, <1>4, <1>6, <2>1 DEF MemoryTypes, Online
  <1>8. OfflineEmpty'
    BY <1>2, <1>4, <1>5 DEF OfflineEmpty, Online
  <1>9. MemoryAgrees(last)'
    BY <1>2, <1>4 DEF MemoryAgrees, PlayersAgree, MailsAgree, Online
  <1> QED  BY <1>2, <1>3, <1>7, <1>8, <1>9 DEF ItemInv

\* Nothing is in the queue, and nothing in memory.
OnlyTables ==
    /\ ~ExpireWhileDown
    /\ db \in Tables /\ OnePlace(db) /\ dbQueue = <<>>
    /\ state = [p \in Player |-> "offline"] /\ holder = [p \in Player |-> None]
    /\ money = [p \in Player |-> 0] /\ bags = [p \in Player |-> {}]
    /\ m_mailsLoaded = {} /\ m_mail = [m \in MailId |-> None]
    /\ AuctionsMap = [id \in AuctionId |-> None]
    /\ server = "up" => AuctionsMap = db.auctionhouse

\* Tables that hold every item once are all the invariant needs while nobody plays.
LEMMA NothingInMemory == OnlyTables => ItemInv
  <1> SUFFICES ASSUME OnlyTables  PROVE ItemInv
    OBVIOUS
  <1> USE DEF OnlyTables
  <1>1. PICK path \in [Nat -> Tables] : \A k \in Nat : path[k] = db
    <2>1. [k \in Nat |-> db] \in [Nat -> Tables]
      OBVIOUS
    <2> QED  BY <2>1
  <1>2. Len(dbQueue) = 0 /\ dbQueue \in Seq(Operations) /\ Online = {}
    BY DEF Online
  <1>3. MemoryTypes
    BY <1>2 DEF MemoryTypes
  <1>4. OfflineEmpty
    BY DEF OfflineEmpty
  <1>5. PathFrom(path) /\ LoginLoadsLast(path) /\ \A k \in 0..Len(dbQueue) : OnePlace(path[k])
    BY <1>1, <1>2 DEF PathFrom, LoginLoadsLast
  <1>6. AnswerHolds(path) /\ MailsWait(path)
    BY DEF AnswerHolds, MailsWait
  <1>7. NoRowFromNowhere(path)
    BY <1>1, <1>2 DEF NoRowFromNowhere
  <1>8. MemoryAgrees(path[Len(dbQueue)])
    BY <1>1, <1>2 DEF MemoryAgrees, PlayersAgree, MailsAgree
  <1> QED  BY <1>3, <1>4, <1>5, <1>6, <1>7, <1>8 DEF ItemInv, PathInv

\* The same of the next state
LEMMA NothingInMemoryNext == OnlyTables' => ItemInv'
BY NothingInMemory, PTL

\* A crash leaves the tables, wherever on the path they are.
LEMMA CrashKeeps ==
    ASSUME ItemInv, Crash
    PROVE  ItemInv'
  <1>1. PICK path, last : Before(path, last)
    BY Start
  <1>2. db \in Tables /\ OnePlace(db) /\ ~ExpireWhileDown
    <2>1. path[0] = db /\ Len(dbQueue) \in Nat /\ path \in [Nat -> Tables]
      BY <1>1 DEF Before, PathInv, PathFrom, MemoryTypes
    <2> QED  BY <1>1, <2>1 DEF Before, PathInv
  <1>3. OnlyTables'
    BY <1>2 DEF Crash, OnlyTables
  <1> QED  BY <1>3, NothingInMemoryNext

\* The start of the server reads the tables.
LEMMA StartupKeeps ==
    ASSUME ItemInv, DeleteExpiredAuctionsAtStartup \/ LoadAuctions
    PROVE  ItemInv'
  <1>1. PICK path, last : Before(path, last)
    BY Start
  <1>2. MemoryTypes /\ OfflineEmpty /\ MemoryAgrees(last) /\ PathInv(path)
        /\ path \in [Nat -> Tables] /\ last = path[Len(dbQueue)] /\ ~ExpireWhileDown
    BY <1>1 DEF Before
  <1>3. /\ server # "up" /\ dbQueue' = dbQueue /\ db' = db /\ state' = state
        /\ holder' = holder /\ money' = money /\ bags' = bags /\ m_mail' = m_mail
        /\ m_mailsLoaded' = m_mailsLoaded
        /\ \/ server' = "loading" /\ AuctionsMap' = AuctionsMap
           \/ server' = "up" /\ AuctionsMap' = db.auctionhouse
    BY <1>2 DEF DeleteExpiredAuctionsAtStartup, LoadAuctions, playerVars, mailVars
  <1>4. dbQueue = <<>> /\ last = db /\ db \in Tables
    BY <1>2, <1>3 DEF OfflineEmpty, PathInv, PathFrom
  <1>5. Online' = Online /\ Online = {}
    BY <1>2, <1>3 DEF OfflineEmpty, Online
  <1>6. MemoryTypes'
    BY <1>2, <1>3, <1>4, <1>5 DEF MemoryTypes, Tables
  <1>7. OfflineEmpty'
    BY <1>2, <1>3, <1>5 DEF OfflineEmpty
  <1>8. MemoryAgrees(last)'
    BY <1>2, <1>3, <1>4, <1>5 DEF MemoryAgrees, PlayersAgree, MailsAgree
  <1>9. \A k, q : MailsStay(path, k, q)' <=> MailsStay(path, k, q)
    BY <1>3 DEF MailsStay
  <1>10. LoginLoadsLast(path)'
    BY <1>2, <1>3, <1>9 DEF PathInv, LoginLoadsLast
  <1>11. AnswerHolds(path)' /\ MailsWait(path)'
    BY <1>2, <1>3, <1>9 DEF PathInv, AnswerHolds, MailsWait
  <1>12. /\ PathFrom(path)'
         /\ NoRowFromNowhere(path)'
         /\ \A k \in 0..Len(dbQueue') : OnePlace(path[k])
    BY <1>2, <1>3 DEF PathInv, PathFrom, NoRowFromNowhere
  <1>13. PathInv(path)' /\ path[Len(dbQueue')] = last
    BY <1>2, <1>3, <1>10, <1>11, <1>12 DEF PathInv
  <1> QED  BY <1>2, <1>6, <1>7, <1>8, <1>13 DEF ItemInv

\* At the start every item is in a bag.
LEMMA ItemInit ==
    ASSUME Init, ~ExpireWhileDown
    PROVE  ItemInv
  <1>1. db \in Tables
    BY AuctionHouseAssumption DEF Init, Tables
  <1>2. OnePlace(db)
    <2> SUFFICES ASSUME NEW i \in Item  PROVE PlacedOnce(db, i)
      BY DEF OnePlace
    <2>1. db.inventory[i] # None
      BY AuctionHouseAssumption DEF Init
    <2>2. \A m \in MailId : ~Carries(db.mail, m, i)
      BY DEF Init, Carries
    <2>3. \A id \in AuctionId : ~Offers(db.auctionhouse, id, i)
      BY DEF Init, Offers
    <2> QED  BY <2>1, <2>2, <2>3 DEF PlacedOnce
  <1>3. AuctionsMap = db.auctionhouse
    BY DEF Init
  <1> QED  BY <1>1, <1>2, <1>3, NothingInMemory DEF Init, OnlyTables

\* Every step keeps the invariant.
LEMMA ItemStep == ItemInv /\ [Next]_vars => ItemInv'
  <1> SUFFICES ASSUME ItemInv, [Next]_vars  PROVE ItemInv'
    OBVIOUS
  <1>1. ASSUME NEW p \in Player, NEW i \in Item, NEW startbid \in Prices,
               NEW buyout \in Prices \union {0}, SellItem(p, i, startbid, buyout)
        PROVE  ItemInv'
    BY <1>1, SellItemKeeps
  <1>2. ASSUME NEW p \in Player, NEW id \in AuctionId, NEW price \in Prices,
               PlaceBid(p, id, price) \/ Buyout(p, id, price)
        PROVE  ItemInv'
    BY <1>2, PlaceBidKeeps, BuyoutKeeps
  <1>3. ASSUME NEW p \in Player, NEW id \in AuctionId, RemoveItem(p, id)
        PROVE  ItemInv'
    BY <1>3, RemoveItemKeeps
  <1>4. ASSUME NEW id \in AuctionId, ExpireAuction(id)
        PROVE  ItemInv'
    BY <1>4, ExpireAuctionKeeps
  <1>5. ASSUME NEW p \in Player, GetMailList(p) \/ Save(p) \/ LogoutPlayer(p)
        PROVE  ItemInv'
    BY <1>5, GetMailListKeeps, SaveKeeps, LogoutKeeps
  <1>6. ASSUME NEW p \in Player, HandlePlayerLogin(p) \/ LoadFromDB(p)
        PROVE  ItemInv'
    BY <1>6, LoginKeeps, LoadFromDBKeeps
  <1>7. ASSUME NEW p \in Player, NEW m \in MailId, TakeMoney(p, m) \/ TakeItem(p, m)
        PROVE  ItemInv'
    BY <1>7, TakeMoneyKeeps, TakeItemKeeps
  <1>8. CASE Execute
    BY <1>8, ExecuteKeeps
  <1>9. CASE Crash
    BY <1>9, CrashKeeps
  <1>10. CASE DeleteExpiredAuctionsAtStartup \/ LoadAuctions
    BY <1>10, StartupKeeps
  <1>11. CASE UNCHANGED vars
    <2>1. /\ UNCHANGED <<db, dbQueue, state, holder, money, bags, m_mailsLoaded, m_mail>>
          /\ UNCHANGED <<AuctionsMap, server>>
      BY <1>11 DEF vars, playerVars, mailVars, runVars
    <2>2. MemoryTypes' = MemoryTypes /\ OfflineEmpty' = OfflineEmpty
      BY <2>1 DEF MemoryTypes, OfflineEmpty, Online
    <2>3. \A path : PathInv(path) => PathInv(path)'
      BY <2>1 DEF PathInv, PathFrom, LoginLoadsLast, AnswerHolds, MailsWait, MailsStay,
                  NoRowFromNowhere
    <2>4. \A last : MemoryAgrees(last) => MemoryAgrees(last)'
      BY <2>1 DEF MemoryAgrees, PlayersAgree, MailsAgree, Online
    <2>5. PICK path \in [Nat -> Tables] : PathInv(path) /\ MemoryAgrees(path[Len(dbQueue)])
      BY DEF ItemInv
    <2>6. PICK last : last = path[Len(dbQueue)]
      OBVIOUS
    <2>7. PathInv(path)' /\ MemoryAgrees(last)' /\ path[Len(dbQueue')] = last
      BY <2>1, <2>3, <2>4, <2>5, <2>6
    <2> QED  BY <2>2, <2>7 DEF ItemInv
  <1> QED  BY <1>1, <1>2, <1>3, <1>4, <1>5, <1>6, <1>7, <1>8, <1>9, <1>10, <1>11 DEF Next

-----------------------------------------------------------------------------
(* Items                                                                   *)

\* Sets with no element, with one, and with one at most
LEMMA Count ==
    /\ Cardinality({}) = 0
    /\ \A S, x : x \in S /\ (\A y \in S : y = x) => Cardinality(S) = 1
    /\ \A S, x : (\A y \in S : y = x) => Cardinality(S) \in {0, 1}
  <1>1. Cardinality({}) = 0 /\ \A x : Cardinality({x}) = 1
    BY FS_EmptySet, FS_Singleton
  <1>2. \A S, x : x \in S /\ (\A y \in S : y = x) => S = {x}
    OBVIOUS
  <1>3. \A S, x : (\A y \in S : y = x) => S = {} \/ S = {x}
    OBVIOUS
  <1> QED  BY <1>1, <1>2, <1>3

\* PlacedOnce in the words of ItemsOnce
LEMMA Counted ==
    ASSUME NEW tables, NEW i, PlacedOnce(tables, i)
    PROVE  (IF tables.inventory[i] = None THEN 0 ELSE 1)
           + PlacesOf(i, tables.mail, tables.auctionhouse) = 1
  <1> DEFINE M == {m \in MailId : tables.mail[m] # None /\ tables.mail[m].item = i}
             A == {id \in AuctionId : tables.auctionhouse[id] # None
                                      /\ tables.auctionhouse[id].item = i}
  <1>1. /\ \A m : m \in M <=> m \in MailId /\ Carries(tables.mail, m, i)
        /\ \A id : id \in A <=> id \in AuctionId /\ Offers(tables.auctionhouse, id, i)
    BY DEF Carries, Offers
  <1>2. PlacesOf(i, tables.mail, tables.auctionhouse) = Cardinality(M) + Cardinality(A)
    BY DEF PlacesOf
  <1> HIDE DEF M, A
  <1>3. CASE /\ tables.inventory[i] # None
             /\ \A m \in MailId : ~Carries(tables.mail, m, i)
             /\ \A id \in AuctionId : ~Offers(tables.auctionhouse, id, i)
    <2>1. M = {} /\ A = {}
      BY <1>1, <1>3
    <2> QED  BY <1>2, <1>3, <2>1, Count
  <1>4. CASE /\ tables.inventory[i] = None
             /\ \E m \in MailId : /\ Carries(tables.mail, m, i)
                                  /\ \A x \in MailId : Carries(tables.mail, x, i) => x = m
             /\ \A id \in AuctionId : ~Offers(tables.auctionhouse, id, i)
    <2>1. PICK m \in MailId : /\ Carries(tables.mail, m, i)
                              /\ \A x \in MailId : Carries(tables.mail, x, i) => x = m
      BY <1>4
    <2>2. m \in M /\ (\A y \in M : y = m) /\ A = {}
      BY <1>1, <1>4, <2>1
    <2>3. Cardinality(M) = 1 /\ Cardinality(A) = 0
      BY <2>2, Count
    <2> QED  BY <1>2, <1>4, <2>3
  <1>5. CASE /\ tables.inventory[i] = None
             /\ \A m \in MailId : ~Carries(tables.mail, m, i)
             /\ \E id \in AuctionId :
                   /\ Offers(tables.auctionhouse, id, i)
                   /\ \A x \in AuctionId : Offers(tables.auctionhouse, x, i) => x = id
    <2>1. PICK id \in AuctionId :
             /\ Offers(tables.auctionhouse, id, i)
             /\ \A x \in AuctionId : Offers(tables.auctionhouse, x, i) => x = id
      BY <1>5
    <2>2. id \in A /\ (\A y \in A : y = id) /\ M = {}
      BY <1>1, <1>5, <2>1
    <2>3. Cardinality(A) = 1 /\ Cardinality(M) = 0
      BY <2>2, Count
    <2> QED  BY <1>2, <1>5, <2>3
  <1> QED  BY <1>3, <1>4, <1>5 DEF PlacedOnce

\* The first tables of the path are those of the database.
LEMMA InvItemsOnce ==
    ASSUME ItemInv
    PROVE  ItemsOnce
  <1>1. PICK path, last : Before(path, last)
    BY Start
  <1>2. OnePlace(db)
    <2>1. path[0] = db /\ Len(dbQueue) \in Nat
      BY <1>1 DEF Before, PathInv, PathFrom, MemoryTypes
    <2> QED  BY <1>1, <2>1 DEF Before, PathInv
  <1> QED  BY <1>2, Counted DEF OnePlace, ItemsOnce

\* Memory shows parts of the last tables of the path, and shows none twice.
LEMMA InvOneHolder ==
    ASSUME ItemInv
    PROVE  OneHolder
  <1>1. PICK path, last : Before(path, last)
    BY Start
  <1>2. MemoryTypes /\ OfflineEmpty /\ MemoryAgrees(last) /\ OnePlace(last)
    BY <1>1, BeforeFacts DEF Before
  <1> SUFFICES ASSUME NEW i \in Item
               PROVE  Cardinality({p \in Player : i \in bags[p]})
                      + PlacesOf(i, m_mail, AuctionsMap) <= 1
    BY DEF OneHolder
  <1> DEFINE B == {p \in Player : i \in bags[p]}
             M == {m \in MailId : m_mail[m] # None /\ m_mail[m].item = i}
             A == {id \in AuctionId : AuctionsMap[id] # None /\ AuctionsMap[id].item = i}
  <1>3. PlacesOf(i, m_mail, AuctionsMap) = Cardinality(M) + Cardinality(A)
    BY DEF PlacesOf
  <1>4. \A m \in M : m \in MailId /\ Carries(last.mail, m, i)
    BY <1>2 DEF MemoryAgrees, MailsAgree, Carries
  <1>5. \A p \in B : last.inventory[i] = p /\ p # None
    <2> TAKE p \in B
    <2>1. p \in Online
      BY <1>2 DEF OfflineEmpty
    <2> QED  BY <1>2, <2>1, AuctionHouseAssumption
             DEF MemoryAgrees, PlayersAgree, ItemsOf
  <1>6. \A id \in A : id \in AuctionId /\ Offers(last.auctionhouse, id, i)
    BY <1>2 DEF MemoryAgrees, OfflineEmpty, Offers
  <1>7. PlacedOnce(last, i)
    BY <1>2 DEF OnePlace
  <1> HIDE DEF B, M, A
  <1>8. \/ (\A y \in B : y = last.inventory[i]) /\ M = {} /\ A = {}
        \/ B = {} /\ (\E m : \A y \in M : y = m) /\ A = {}
        \/ B = {} /\ M = {} /\ (\E id : \A y \in A : y = id)
    <2>1. last.inventory[i] = None => B = {}
      BY <1>5
    <2>2. (\A m \in MailId : ~Carries(last.mail, m, i)) => M = {}
      BY <1>4
    <2>3. (\A id \in AuctionId : ~Offers(last.auctionhouse, id, i)) => A = {}
      BY <1>6
    <2>4. \A m \in MailId : (\A x \in MailId : Carries(last.mail, x, i) => x = m)
                               => \A y \in M : y = m
      BY <1>4
    <2>5. \A id \in AuctionId : (\A x \in AuctionId : Offers(last.auctionhouse, x, i) => x = id)
                                   => \A y \in A : y = id
      BY <1>6
    <2>6. \A y \in B : y = last.inventory[i]
      BY <1>5
    <2> QED  BY <1>7, <2>1, <2>2, <2>3, <2>4, <2>5, <2>6 DEF PlacedOnce
  <1>9. Cardinality(B) + (Cardinality(M) + Cardinality(A)) <= 1
    <2>1. CASE (\A y \in B : y = last.inventory[i]) /\ M = {} /\ A = {}
      <3>1. Cardinality(B) \in {0, 1} /\ Cardinality(M) = 0 /\ Cardinality(A) = 0
        BY <2>1, Count
      <3> QED  BY <3>1
    <2>2. CASE B = {} /\ (\E m : \A y \in M : y = m) /\ A = {}
      <3>1. Cardinality(B) = 0 /\ Cardinality(M) \in {0, 1} /\ Cardinality(A) = 0
        BY <2>2, Count
      <3> QED  BY <3>1
    <2>3. CASE B = {} /\ M = {} /\ (\E id : \A y \in A : y = id)
      <3>1. Cardinality(B) = 0 /\ Cardinality(M) = 0 /\ Cardinality(A) \in {0, 1}
        BY <2>3, Count
      <3> QED  BY <3>1
    <2> QED  BY <1>8, <2>1, <2>2, <2>3
  <1> QED  BY <1>3, <1>9 DEF B

\* Without a queue the first tables are the last.
LEMMA InvWrittenBehind ==
    ASSUME ItemInv
    PROVE  WrittenBehind
  <1>1. PICK path, last : Before(path, last)
    BY Start
  <1> SUFFICES ASSUME server = "up", dbQueue = <<>>
               PROVE  /\ AuctionsMap = db.auctionhouse
                      /\ \A p \in Online :
                            /\ bags[p] = {i \in Item : db.inventory[i] = p}
                            /\ money[p] \in {db.gold[p], db.gold[p] - Deposit}
                      /\ \A m \in MailId : m_mail[m] # None => m_mail[m] = db.mail[m]
    BY DEF WrittenBehind
  <1>2. last = db /\ MemoryAgrees(last)
    BY <1>1 DEF Before, PathInv, PathFrom
  <1> QED  BY <1>2 DEF MemoryAgrees, PlayersAgree, MailsAgree, ItemsOf

\* Items are neither lost nor doubled, for every number of players, items, auctions
\* and mails, whatever is bid, whenever the server crashes, however far the worker
\* is behind; and once it has caught up the tables are what the players see.  The
\* server is not down for so long that auctions end meanwhile: those lose their item.
THEOREM ItemsKept ==
    ~ExpireWhileDown /\ Spec => [](ItemsOnce /\ OneHolder /\ WrittenBehind)
  <1>1. Init /\ ~ExpireWhileDown => ItemInv
    BY ItemInit
  <1>2. ItemInv => ItemsOnce /\ OneHolder /\ WrittenBehind
    BY InvItemsOnce, InvOneHolder, InvWrittenBehind
  <1> QED  BY <1>1, <1>2, ItemStep, PTL DEF Spec
=============================================================================

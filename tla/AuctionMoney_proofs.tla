------------------------ MODULE AuctionMoney_proofs ------------------------
(***************************************************************************)
(* Proofs about the money of AuctionHouse, on the path of tables that      *)
(* AuctionHouse_proofs follows through the queue of the database.          *)
(***************************************************************************)
EXTENDS AuctionHouse_proofs

-----------------------------------------------------------------------------
(* Sums                                                                    *)

\* The sum changes as the row that changes.
LEMMA OneRowChanges ==
    ASSUME NEW S, IsFiniteSet(S), NEW table, NEW other, NEW x \in S,
           \A y \in S : table[y] \in Nat /\ other[y] \in Nat,
           \A y \in S : y # x => other[y] = table[y]
    PROVE  /\ Total(table, S) \in Nat /\ Total(other, S) \in Nat
           /\ Total(other, S) = Total(table, S) + other[x] - table[x]
  <1> DEFINE R == S \ {x}
  <1>1. IsFiniteSet(R)
    BY FS_RemoveElement
  <1>2. /\ Total(table, S) = table[x] + Total(table, R)
        /\ Total(table, S) \in Nat
    BY TotalSplit
  <1>3. /\ Total(other, S) = other[x] + Total(other, R)
        /\ Total(other, S) \in Nat
    BY TotalSplit
  <1>4. Total(table, R) \in Nat /\ Total(other, R) \in Nat
    BY <1>1, TotalSplit
  <1>5. Total(table, R) = Total(other, R)
    BY <1>1, SameTotal
  <1> QED  BY <1>2, <1>3, <1>4, <1>5

\* Rows that differ by at most d have sums that differ by at most d for each row.
LEMMA RowsClose ==
    ASSUME NEW S, IsFiniteSet(S), NEW table, NEW other, NEW d \in Nat,
           \A y \in S : /\ table[y] \in Nat /\ other[y] \in Nat
                        /\ table[y] <= other[y] /\ other[y] <= table[y] + d
    PROVE  /\ Total(table, S) <= Total(other, S)
           /\ Total(other, S) <= Total(table, S) + d * Cardinality(S)
  <1> DEFINE Close(s) == /\ Total(table, s) <= Total(other, s)
                         /\ Total(other, s) <= Total(table, s) + d * Cardinality(s)
             Bad == {n \in Nat : \E s \in SUBSET S : Cardinality(s) = n /\ ~Close(s)}
  <1>1. \A s \in SUBSET S : IsFiniteSet(s) /\ Cardinality(s) \in Nat
    BY FS_Subset, FS_CardinalityType
  <1>2. \A s \in SUBSET S : Total(table, s) \in Nat /\ Total(other, s) \in Nat
    <2> TAKE s \in SUBSET S
    <2>1. IsFiniteSet(s) /\ \A y \in s : table[y] \in Nat /\ other[y] \in Nat
      BY <1>1
    <2> QED  BY <2>1, TotalSplit
  <1>3. SUFFICES ASSUME ~Close(S)  PROVE FALSE
    OBVIOUS
  <1>4. Bad # {} /\ Bad \subseteq Nat
    <2>1. Cardinality(S) \in Bad
      BY <1>1, <1>3
    <2> QED  BY <2>1
  <1>5. PICK n \in Bad : \A m \in Bad : n <= m
    <2> HIDE DEF Bad
    <2> QED  BY <1>4, LeastNumber
  <1>6. PICK s \in SUBSET S : Cardinality(s) = n /\ ~Close(s)
    OBVIOUS
  <1>7. s # {}
    <2> SUFFICES ASSUME s = {}  PROVE FALSE
      OBVIOUS
    <2>1. Coins(table, {}) = {} /\ Coins(other, {}) = {}
      BY DEF Coins
    <2>2. Cardinality({}) = 0 /\ IsFiniteSet({})
      BY FS_EmptySet
    <2>3. Total(table, {}) = 0 /\ Total(other, {}) = 0
      BY <2>1, <2>2, TotalIsCoins
    <2>4. d * 0 = 0
      OBVIOUS
    <2> QED  BY <1>6, <2>2, <2>3, <2>4
  <1>8. PICK x \in s : TRUE
    BY <1>7
  <1>9. PICK r \in SUBSET S : r = s \ {x}
    OBVIOUS
  <1>10. Cardinality(r) = n - 1 /\ n \in Nat /\ Cardinality(r) \in Nat
    BY <1>1, <1>6, <1>9, FS_RemoveElement
  <1>11. Close(r)
    <2> SUFFICES ASSUME ~Close(r)  PROVE FALSE
      OBVIOUS
    <2> HIDE DEF Close
    <2>1. Cardinality(r) \in Bad
      BY <1>10
    <2> HIDE DEF Bad
    <2> QED  BY <1>5, <1>10, <2>1
  <1>12. Total(table, s) = table[x] + Total(table, r) /\ Total(other, s) = other[x] + Total(other, r)
    <2>1. IsFiniteSet(s) /\ \A y \in s : table[y] \in Nat /\ other[y] \in Nat
      BY <1>1
    <2> QED  BY <1>9, <2>1, TotalSplit
  <1>13. d * n = d * Cardinality(r) + d
    BY <1>10
  <1>14. d * n \in Nat /\ d * Cardinality(r) \in Nat
    BY <1>10
  <1>15. /\ table[x] \in Nat /\ other[x] \in Nat
         /\ table[x] <= other[x] /\ other[x] <= table[x] + d
    OBVIOUS
  <1>16. /\ Total(table, r) <= Total(other, r)
         /\ Total(other, r) <= Total(table, r) + d * Cardinality(r)
    BY <1>11
  <1>17. Close(s)
    <2> DEFINE e == d * Cardinality(r)
               f == d * n
    <2>1. f = e + d /\ e \in Nat /\ f \in Nat
      BY <1>13, <1>14
    <2>2. Total(other, r) <= Total(table, r) + e
      BY <1>16
    <2> HIDE DEF e, f
    <2>3. Total(table, s) <= Total(other, s) /\ Total(other, s) <= Total(table, s) + f
      BY <1>2, <1>12, <1>15, <1>16, <2>1, <2>2
    <2> USE DEF f
    <2> QED  BY <1>6, <2>3
  <1> QED  BY <1>6, <1>17

\* The sum of rows that are alike
LEMMA EvenRows ==
    ASSUME NEW S, IsFiniteSet(S), NEW d \in Nat, NEW table, \A y \in S : table[y] = d
    PROVE  Total(table, S) = d * Cardinality(S)
  <1>1. Coins(table, S) = S \X (1..d)
    BY DEF Coins
  <1>2. IsFiniteSet(1..d) /\ Cardinality(1..d) = d
    BY FS_Interval
  <1>3. Cardinality(S \X (1..d)) = Cardinality(S) * Cardinality(1..d)
    BY <1>2, FS_Product
  <1>4. Cardinality(S) \in Nat
    BY FS_CardinalityType
  <1>5. Total(table, S) = Cardinality(Coins(table, S))
    BY TotalIsCoins
  <1>6. Cardinality(S) * d = d * Cardinality(S)
    BY <1>4
  <1> QED  BY <1>1, <1>2, <1>3, <1>5, <1>6

-----------------------------------------------------------------------------
(* The invariant                                                           *)

\* No price is cut off by the 32 bits of an auction, nor the profit of its owner.
NoWrap == \A price \in Prices : price + Deposit < Modulus

\* MoneyInMails and MoneyInAuctions of any tables
MailMoney(mails) == [m \in MailId |-> IF mails[m] = None THEN 0 ELSE mails[m].money]
AuctionMoney(auctions) ==
    [id \in AuctionId |-> IF auctions[id] = None THEN 0 ELSE auctions[id].bid + Deposit]

\* Money that is in no purse
Elsewhere(tables) ==
    Total(MailMoney(tables.mail), MailId)
    + Total(AuctionMoney(tables.auctionhouse), AuctionId) + tables.fees

\* Persisted of any tables
Wealth(tables) == Total(tables.gold, Player) + Elsewhere(tables)

\* What the players have: in memory, or in the tables if they are not online
Cash(tables) == [p \in Player |-> IF p \in Online THEN money[p] ELSE tables.gold[p]]

\* All money there was when the server was started is in the purses or elsewhere.
Conserved(tables) == Total(Cash(tables), Player) + Elsewhere(tables) = base

\* MoneyConserved of any tables
Covered(tables) ==
    /\ base <= Wealth(tables)
    /\ Wealth(tables) <= base + Deposit * Cardinality(Player)

\* Bids have bidders, amounts fit into the rows of auctions, and mails carry an item or money.
Fits(amount) == amount + Deposit < Modulus
Sound(tables) ==
    /\ \A id \in AuctionId : tables.auctionhouse[id] # None =>
          /\ Fits(tables.auctionhouse[id].bid) /\ Fits(tables.auctionhouse[id].buyout)
          /\ tables.auctionhouse[id].bidder = None => tables.auctionhouse[id].bid = 0
    /\ \A m \in MailId : tables.mail[m] # None /\ tables.mail[m].item # None
                            => tables.mail[m].money = 0

MoneyOn(path) ==
    /\ \A k \in 0..Len(dbQueue) : Covered(path[k]) /\ Sound(path[k])
    /\ server # "down" => Conserved(path[Len(dbQueue)])

MoneyInv ==
    /\ ItemInv
    /\ NoWrap
    /\ base \in Nat
    /\ \A path \in [Nat -> Tables] : PathFrom(path) => MoneyOn(path)

-----------------------------------------------------------------------------
(* The path and its end                                                    *)

\* The first n operations of the queue lead along the path.
Along(path, queue, n) == \A k \in 1..n : path[k] = Applied(path[k - 1], queue[k])

\* The operations determine the path.
LEMMA SamePath ==
    ASSUME NEW n \in Nat, NEW queue, NEW path, NEW other, path[0] = other[0],
           Along(path, queue, n), Along(other, queue, n)
    PROVE  path[n] = other[n]
  <1> DEFINE Bad == {k \in 0..n : path[k] # other[k]}
  <1>1. SUFFICES ASSUME Bad # {}  PROVE FALSE
    <2>1. n \in 0..n
      OBVIOUS
    <2> QED  BY <2>1
  <1>2. Bad \subseteq Nat
    OBVIOUS
  <1>3. PICK k \in Bad : \A j \in Bad : k <= j
    <2> HIDE DEF Bad
    <2> QED  BY <1>1, <1>2, LeastNumber
  <1>4. k \in 1..n /\ k - 1 \in 0..n /\ k - 1 \notin Bad
    BY <1>3
  <1>5. path[k - 1] = other[k - 1]
    BY <1>4
  <1>6. path[k] = other[k]
    BY <1>4, <1>5 DEF Along
  <1> QED  BY <1>3, <1>6

\* A path through the queue ends where the invariant's does.
LEMMA PathEnd ==
    ASSUME NEW path, NEW last, Before(path, last), NEW new, PathFrom(new)
    PROVE  new[Len(dbQueue)] = last
  <1>1. PICK n, queue : n = Len(dbQueue) /\ queue = dbQueue
    OBVIOUS
  <1>2. n \in Nat /\ PathFrom(path) /\ last = path[n]
    BY <1>1 DEF Before, MemoryTypes, PathInv
  <1>3. new[0] = path[0] /\ Along(new, queue, n) /\ Along(path, queue, n)
    BY <1>1, <1>2 DEF PathFrom, Along
  <1>4. new[n] = path[n]
    BY ONLY <1>2, <1>3, SamePath
  <1> QED  BY <1>1, <1>2, <1>4

\* Money in tables is counted in natural numbers.
LEMMA Counts ==
    ASSUME NEW tables \in Tables
    PROVE  /\ \A p \in Player : tables.gold[p] \in Nat
           /\ \A m \in MailId : MailMoney(tables.mail)[m] \in Nat
           /\ \A id \in AuctionId : AuctionMoney(tables.auctionhouse)[id] \in Nat
           /\ Total(tables.gold, Player) \in Nat
           /\ Total(MailMoney(tables.mail), MailId) \in Nat
           /\ Total(AuctionMoney(tables.auctionhouse), AuctionId) \in Nat
           /\ tables.fees \in Nat
           /\ Elsewhere(tables) \in Nat /\ Wealth(tables) \in Nat
  <1>1. /\ tables.gold \in [Player -> Nat] /\ tables.fees \in Nat
        /\ tables.mail \in [MailId -> Mail \union {None}]
        /\ tables.auctionhouse \in [AuctionId -> Auction \union {None}]
    BY DEF Tables
  <1>2. IsFiniteSet(Player) /\ IsFiniteSet(MailId) /\ IsFiniteSet(AuctionId) /\ Deposit \in Nat
    BY AuctionHouseAssumption
  <1>3. \A p \in Player : tables.gold[p] \in Nat
    BY <1>1
  <1>4. \A m \in MailId : MailMoney(tables.mail)[m] \in Nat
    BY <1>1 DEF MailMoney, Mail
  <1>5. \A id \in AuctionId : AuctionMoney(tables.auctionhouse)[id] \in Nat
    BY <1>1, <1>2 DEF AuctionMoney, Auction
  <1>6. /\ Total(tables.gold, Player) \in Nat
        /\ Total(MailMoney(tables.mail), MailId) \in Nat
        /\ Total(AuctionMoney(tables.auctionhouse), AuctionId) \in Nat
    BY <1>2, <1>3, <1>4, <1>5, TotalSplit
  <1> QED  BY <1>1, <1>3, <1>4, <1>5, <1>6 DEF Elsewhere, Wealth

\* Where an operation that is queued leads
LEMMA Queued ==
    ASSUME NEW path, NEW last, Before(path, last), ItemInv', NEW t, CommitTransaction(t)
    PROVE  /\ t \in Operations
           /\ Applied(last, t) \in Tables
           /\ server' = "up" => AuctionsMap' = Applied(last, t).auctionhouse
           /\ \A q \in Player : state'[q] = "online" =>
                 money'[q] \in {Applied(last, t).gold[q], Applied(last, t).gold[q] - Deposit}
           /\ money' \in [Player -> Nat]
           /\ Len(dbQueue) \in Nat /\ Len(dbQueue') = Len(dbQueue) + 1
           /\ \A new \in [Nat -> Tables] : PathFrom(new)' =>
                 /\ PathFrom(new) /\ new[Len(dbQueue)] = last
                 /\ new[Len(dbQueue) + 1] = Applied(last, t)
  <1> DEFINE n == Len(dbQueue)
  <1>1. /\ dbQueue' = Append(dbQueue, t) /\ db' = db /\ n \in Nat
        /\ dbQueue \in Seq(Operations) /\ dbQueue' \in Seq(Operations)
    BY DEF CommitTransaction, Enqueue, Before, MemoryTypes, ItemInv
  <1>2. /\ Len(dbQueue') = n + 1
        /\ \A k \in 1..n : dbQueue'[k] = dbQueue[k]
        /\ dbQueue'[n + 1] = t
    BY <1>1
  <1>3. t \in Operations
    <2>1. dbQueue'[n + 1] \in Operations
      BY <1>1, <1>2
    <2> QED  BY <1>2, <2>1
  <1>4. PathFrom(path) /\ path \in [Nat -> Tables] /\ last = path[n] /\ last \in Tables
    BY <1>1 DEF Before, PathInv
  <1>5. Applied(last, t) \in Tables
    BY <1>3, <1>4, AppliedRows
  <1>6. ASSUME NEW new \in [Nat -> Tables], PathFrom(new)'
        PROVE  PathFrom(new) /\ new[n] = last /\ new[n + 1] = Applied(last, t)
    <2>1. /\ new[0] = db
          /\ \A k \in 1..(n + 1) : new[k] = Applied(new[k - 1], dbQueue'[k])
      BY <1>1, <1>2, <1>6 DEF PathFrom
    <2>2. \A k \in 1..n : new[k] = Applied(new[k - 1], dbQueue[k])
      BY <1>1, <1>2, <2>1
    <2>3. PathFrom(new)
      BY <2>1, <2>2 DEF PathFrom
    <2>4. new[n] = last
      BY <2>3, PathEnd
    <2>5. new[n + 1] = Applied(new[n], t)
      BY <1>1, <1>2, <2>1
    <2> QED  BY <1>4, <2>3, <2>4, <2>5
  <1>7. PICK new, end : /\ new \in [Nat -> Tables] /\ PathFrom(new)'
                        /\ end = new[Len(dbQueue')] /\ MemoryAgrees(end)'
    BY DEF ItemInv, PathInv
  <1>8. end = Applied(last, t)
    BY <1>2, <1>6, <1>7
  <1>9. /\ server' = "up" => AuctionsMap' = end.auctionhouse
        /\ \A q \in Player : state'[q] = "online" =>
              money'[q] \in {end.gold[q], end.gold[q] - Deposit}
    BY <1>7 DEF MemoryAgrees, PlayersAgree, Online
  <1>10. money' \in [Player -> Nat]
    BY DEF ItemInv, MemoryTypes
  <1> QED  BY <1>1, <1>2, <1>3, <1>5, <1>6, <1>8, <1>9, <1>10

\* When an operation is queued the path gets one table more: it is enough that all
\* money is there at that one.
LEMMA QueuedMoney ==
    ASSUME MoneyInv, ItemInv', NEW path, NEW last, Before(path, last), NEW t,
           CommitTransaction(t), server' = "up", base' = base,
           NEW next, next = Applied(last, t), Sound(next), Conserved(next)'
    PROVE  MoneyInv'
  <1>0. PICK n : n = Len(dbQueue)
    OBVIOUS
  <1>1. /\ next \in Tables /\ money' \in [Player -> Nat]
        /\ \A q \in Player : state'[q] = "online" =>
              money'[q] \in {next.gold[q], next.gold[q] - Deposit}
        /\ n \in Nat /\ Len(dbQueue') = n + 1
    BY <1>0, Queued
  <1>2. Deposit \in Nat /\ IsFiniteSet(Player)
    BY AuctionHouseAssumption
  <1>3. PICK cash : cash = Cash(next)'
    OBVIOUS
  <1>4. \A q \in Player : next.gold[q] \in Nat
    BY <1>1, Counts
  <1>5. \A q \in Player : /\ cash[q] \in Nat /\ next.gold[q] \in Nat
                          /\ cash[q] <= next.gold[q] /\ next.gold[q] <= cash[q] + Deposit
    <2> TAKE q \in Player
    <2>1. cash[q] = IF state'[q] = "online" THEN money'[q] ELSE next.gold[q]
      BY <1>3 DEF Cash, Online
    <2>2. money'[q] \in Nat
      BY <1>1
    <2> QED  BY <1>1, <1>2, <1>4, <2>1, <2>2
  <1>6. /\ Total(cash, Player) <= Total(next.gold, Player)
        /\ Total(next.gold, Player) <= Total(cash, Player) + Deposit * Cardinality(Player)
    BY <1>2, <1>5, RowsClose
  <1>7. Total(cash, Player) \in Nat /\ Total(next.gold, Player) \in Nat /\ Elsewhere(next) \in Nat
    <2>1. Total(cash, Player) \in Nat
      BY <1>2, <1>5, TotalSplit
    <2> QED  BY <1>1, <2>1, Counts
  <1>8. Total(cash, Player) + Elsewhere(next) = base' /\ base' \in Nat
    BY <1>3 DEF Conserved, MoneyInv
  <1>9. Deposit * Cardinality(Player) \in Nat
    <2>1. Cardinality(Player) \in Nat
      BY <1>2, FS_CardinalityType
    <2> QED  BY <1>2, <2>1
  <1>10. Covered(next)'
    <2> DEFINE d == Deposit * Cardinality(Player)
    <2> HIDE DEF d
    <2>1. /\ base' <= Total(next.gold, Player) + Elsewhere(next)
          /\ Total(next.gold, Player) + Elsewhere(next) <= base' + d
      BY <1>6, <1>7, <1>8, <1>9 DEF d
    <2> QED  BY <2>1 DEF Covered, Wealth, d
  <1>11. ASSUME NEW new \in [Nat -> Tables], PathFrom(new)'
         PROVE  MoneyOn(new)'
    <2>1. PathFrom(new) /\ new[n + 1] = next
      BY <1>0, <1>11, Queued
    <2>2. \A k \in 0..n : Covered(new[k]) /\ Sound(new[k])
      BY <1>0, <2>1 DEF MoneyInv, MoneyOn
    <2>3. \A k \in 0..n : Covered(new[k])'
      BY <2>2 DEF Covered
    <2>4. Covered(new[n + 1])'
      BY <1>10, <2>1 DEF Covered
    <2>5. \A k \in 0..Len(dbQueue') : Covered(new[k])' /\ Sound(new[k])
      <3> TAKE k \in 0..Len(dbQueue')
      <3>1. k \in 0..n \/ k = n + 1
        BY <1>1
      <3> QED  BY <2>1, <2>2, <2>3, <2>4, <3>1
    <2>6. PICK end : end = new[Len(dbQueue')]
      OBVIOUS
    <2>7. Conserved(end)'
      BY <1>1, <2>1, <2>6
    <2> QED  BY <2>5, <2>6, <2>7 DEF MoneyOn
  <1> QED  BY <1>11 DEF MoneyInv

\* A handler of p, or of nobody, that moves money from one place to another
LEMMA Transfer ==
    ASSUME MoneyInv, ItemInv', NEW path, NEW last, Before(path, last), NEW t,
           CommitTransaction(t), server = "up", server' = "up", base' = base, state' = state,
           NEW next, next = Applied(last, t), Sound(next),
           NEW p, p \in Player => p \in Online,
           \A q \in Player \ {p} : money'[q] = money[q] /\ q \notin DOMAIN t.gold,
           NEW gained \in Int,
           IF p \in Player THEN money'[p] = money[p] + gained ELSE gained = 0,
           gained + Total(MailMoney(next.mail), MailId)
             + Total(AuctionMoney(next.auctionhouse), AuctionId) + t.fees
             = Total(MailMoney(last.mail), MailId)
               + Total(AuctionMoney(last.auctionhouse), AuctionId)
    PROVE  MoneyInv'
  <1>1. /\ next \in Tables /\ t \in Operations /\ money' \in [Player -> Nat]
        /\ last \in Tables /\ money \in [Player -> Nat]
    <2>1. next \in Tables /\ t \in Operations /\ money' \in [Player -> Nat]
      BY Queued
    <2> QED  BY <2>1, BeforeFacts DEF Before, MemoryTypes
  <1>2. \A q \in Player : q \notin DOMAIN t.gold => next.gold[q] = last.gold[q]
    BY <1>1, NextRows
  <1>3. next.fees = last.fees + t.fees /\ t.fees \in Nat
    BY <1>1 DEF Applied, Operations
  <1>4. PICK old, new : old = Cash(last) /\ new = Cash(next)'
    OBVIOUS
  <1>5. \A q \in Player : /\ old[q] = IF q \in Online THEN money[q] ELSE last.gold[q]
                          /\ new[q] = IF q \in Online THEN money'[q] ELSE next.gold[q]
    BY <1>4 DEF Cash, Online
  <1>6. \A q \in Player : last.gold[q] \in Nat /\ next.gold[q] \in Nat
    BY <1>1, Counts
  <1>7. \A q \in Player : old[q] \in Nat /\ new[q] \in Nat
    BY <1>1, <1>5, <1>6
  <1>8. \A q \in Player \ {p} : new[q] = old[q]
    BY <1>2, <1>5
  <1>9. Total(old, Player) \in Nat /\ Total(new, Player) = Total(old, Player) + gained
    <2>1. IsFiniteSet(Player)
      BY AuctionHouseAssumption
    <2>2. CASE p \in Player
      <3>1. old[p] = money[p] /\ new[p] = money[p] + gained /\ money[p] \in Nat
        BY <1>1, <1>5, <2>2
      <3>2. /\ Total(old, Player) \in Nat
            /\ Total(new, Player) = Total(old, Player) + new[p] - old[p]
        BY <1>7, <1>8, <2>1, <2>2, OneRowChanges
      <3> QED  BY <3>1, <3>2
    <2>3. CASE p \notin Player
      <3>1. \A q \in Player : old[q] \in Nat /\ new[q] = old[q]
        BY <1>7, <1>8, <2>3
      <3>2. Total(old, Player) \in Nat /\ Total(old, Player) = Total(new, Player)
        BY <2>1, <3>1, SameTotal, TotalSplit
      <3> QED  BY <2>3, <3>2
    <2> QED  BY <2>2, <2>3
  <1>10. Total(old, Player) + Elsewhere(last) = base
    <2>1. MoneyOn(path)
      BY DEF MoneyInv, Before, PathInv
    <2> QED  BY <1>4, <2>1 DEF MoneyOn, Conserved, Before
  <1>11. Total(new, Player) + Elsewhere(next) = base
    <2>1. /\ Total(MailMoney(last.mail), MailId) \in Nat
          /\ Total(AuctionMoney(last.auctionhouse), AuctionId) \in Nat
          /\ last.fees \in Nat
      BY <1>1, Counts
    <2>2. /\ Total(MailMoney(next.mail), MailId) \in Nat
          /\ Total(AuctionMoney(next.auctionhouse), AuctionId) \in Nat
      BY <1>1, Counts
    <2> QED  BY <1>3, <1>9, <1>10, <2>1, <2>2 DEF Elsewhere
  <1>12. Conserved(next)'
    BY <1>4, <1>11 DEF Conserved
  <1> QED  BY <1>12, QueuedMoney

\* One auction that changes
LEMMA AuctionChanges ==
    ASSUME NEW last \in Tables, NEW next \in Tables, NEW id \in AuctionId,
           \A x \in AuctionId : x # id => next.auctionhouse[x] = last.auctionhouse[x]
    PROVE  Total(AuctionMoney(next.auctionhouse), AuctionId)
             = Total(AuctionMoney(last.auctionhouse), AuctionId)
               + AuctionMoney(next.auctionhouse)[id] - AuctionMoney(last.auctionhouse)[id]
  <1>1. PICK old, new : /\ old = AuctionMoney(last.auctionhouse)
                        /\ new = AuctionMoney(next.auctionhouse)
    OBVIOUS
  <1>2. \A x \in AuctionId : old[x] \in Nat /\ new[x] \in Nat
    BY <1>1, Counts
  <1>3. \A x \in AuctionId : x # id => new[x] = old[x]
    BY <1>1 DEF AuctionMoney
  <1>4. IsFiniteSet(AuctionId)
    BY AuctionHouseAssumption
  <1> QED  BY <1>1, <1>2, <1>3, <1>4, OneRowChanges

\* The money of one mail that changes
LEMMA MailRowChanges ==
    ASSUME NEW old, NEW new, NEW m \in MailId,
           \A x \in MailId : old[x] \in Nat /\ new[x] \in Nat,
           \A x \in MailId : x # m => new[x] = old[x]
    PROVE  /\ Total(old, MailId) \in Nat
           /\ Total(new, MailId) = Total(old, MailId) + new[m] - old[m]
  <1>1. IsFiniteSet(MailId)
    BY AuctionHouseAssumption
  <1> QED  BY <1>1, OneRowChanges

\* One mail that changes
LEMMA MailChanges ==
    ASSUME NEW last \in Tables, NEW next \in Tables, NEW m \in MailId,
           \A x \in MailId : x # m => next.mail[x] = last.mail[x]
    PROVE  Total(MailMoney(next.mail), MailId)
             = Total(MailMoney(last.mail), MailId)
               + MailMoney(next.mail)[m] - MailMoney(last.mail)[m]
  <1>1. PICK old, new : old = MailMoney(last.mail) /\ new = MailMoney(next.mail)
    OBVIOUS
  <1>2. \A x \in MailId : old[x] \in Nat /\ new[x] \in Nat
    BY <1>1, Counts
  <1>3. \A x \in MailId : x # m => new[x] = old[x]
    BY <1>1 DEF MailMoney
  <1> QED  BY <1>1, <1>2, <1>3, MailRowChanges

\* Money in the k-th mail, if there is one
Pay(drafts, k) == IF k \in 1..Len(drafts) THEN drafts[k].money ELSE 0

\* No mail has both an item and money.
Honest(drafts) == \A k \in 1..Len(drafts) : drafts[k].item # None => drafts[k].money = 0

\* Mails that are sent have the money of their drafts.
LEMMA SentMoney ==
    ASSUME NEW path, NEW last, Before(path, last), NEW t \in Operations,
           NEW next, next = Applied(last, t), NEW drafts \in Seq(Mail), Len(drafts) <= 3,
           Len(drafts) <= Cardinality(FreshMailIds), t.mail = MailRows(drafts)
    PROVE  /\ Total(MailMoney(next.mail), MailId) = Total(MailMoney(last.mail), MailId)
                + Pay(drafts, 1) + Pay(drafts, 2) + Pay(drafts, 3)
           /\ Sound(last) /\ Honest(drafts) =>
                 \A m \in MailId : next.mail[m] # None /\ next.mail[m].item # None
                                      => next.mail[m].money = 0
  <1>1. last \in Tables /\ FreeIds(last)
    BY BeforeFacts
  <1>2. next \in Tables
    BY <1>1, NextRows
  <1>3. \A m \in MailId : next.mail[m] = IF m \in DOMAIN t.mail THEN t.mail[m] ELSE last.mail[m]
    BY <1>1, NextRows
  <1>4. PICK D : D = DOMAIN t.mail
    OBVIOUS
  <1>5. D \subseteq MailId /\ \A m \in D : last.mail[m] = None
    <2>1. D \subseteq FreshMailIds
      BY <1>4, Posted
    <2> QED  BY <1>1, <2>1 DEF FreeIds, FreshMailIds
  <1>6. PICK index \in [D -> 1..Len(drafts)] :
           /\ \A m \in D : t.mail[m] = drafts[index[m]]
           /\ \A m, x \in D : index[m] = index[x] => m = x
           /\ \A k \in 1..Len(drafts) : \E m \in D : index[m] = k
    BY <1>4, Posted
  <1>7. \A k \in 1..Len(drafts) : drafts[k] \in Mail /\ drafts[k] # None /\ drafts[k].money \in Nat
    <2> TAKE k \in 1..Len(drafts)
    <2>1. drafts[k] \in Mail
      OBVIOUS
    <2> QED  BY <2>1, NoneAssumption DEF Mail
  <1>8. PICK old : old = MailMoney(last.mail)
    OBVIOUS
  <1>9. \A m \in MailId : old[m] \in Nat
    BY <1>1, <1>8, Counts
  <1>10. \A m \in D : old[m] = 0
    BY <1>5, <1>8 DEF MailMoney
  <1> DEFINE f(k) == [m \in MailId |-> IF m \in D /\ index[m] <= k
                                       THEN drafts[index[m]].money ELSE old[m]]
  <1>11. Len(drafts) \in Nat
    OBVIOUS
  <1>12. \A k \in Nat, m \in MailId : f(k)[m] \in Nat
    BY <1>6, <1>7, <1>9
  <1>13. IsFiniteSet(MailId)
    BY AuctionHouseAssumption
  <1>14. ASSUME NEW k \in Nat \ {0}
         PROVE  Total(f(k), MailId) = Total(f(k - 1), MailId) + Pay(drafts, k)
    <2>1. PICK a, b : a = f(k - 1) /\ b = f(k)
      OBVIOUS
    <2>2. \A m \in MailId : a[m] \in Nat /\ b[m] \in Nat
      BY <1>12, <2>1
    <2>3. \A m \in MailId : ~(m \in D /\ index[m] = k) => b[m] = a[m]
      <3> SUFFICES ASSUME NEW m \in MailId, ~(m \in D /\ index[m] = k)
                   PROVE  b[m] = a[m]
        OBVIOUS
      <3>1. CASE m \notin D
        BY <2>1, <3>1
      <3>2. CASE m \in D
        <4>1. index[m] \in Nat /\ index[m] # k
          BY <1>6, <3>2
        <4>2. index[m] <= k <=> index[m] <= k - 1
          BY <4>1
        <4> QED  BY <2>1, <4>2
      <3> QED  BY <3>1, <3>2
    <2>4. CASE k \in 1..Len(drafts)
      <3>1. PICK m \in D : index[m] = k
        BY <1>6, <2>4
      <3>2. m \in MailId /\ \A x \in MailId : x # m => b[x] = a[x]
        BY <1>5, <1>6, <2>3, <3>1
      <3>3. b[m] = drafts[k].money /\ a[m] = 0
        BY <1>5, <1>10, <2>1, <3>1
      <3>4. /\ Total(a, MailId) \in Nat
            /\ Total(b, MailId) = Total(a, MailId) + b[m] - a[m]
        <4> HIDE DEF f
        <4>1. PICK x \in MailId : x = m
          BY <3>2
        <4>2. \A y \in MailId : y # x => b[y] = a[y]
          BY <3>2, <4>1
        <4>3. /\ Total(a, MailId) \in Nat
              /\ Total(b, MailId) = Total(a, MailId) + b[x] - a[x]
          BY ONLY x \in MailId, <2>2, <4>2, MailRowChanges
        <4> QED  BY <4>1, <4>3
      <3>5. Pay(drafts, k) = drafts[k].money /\ drafts[k].money \in Nat
        BY <1>7, <2>4 DEF Pay
      <3> QED  BY <2>1, <3>3, <3>4, <3>5
    <2>5. CASE k \notin 1..Len(drafts)
      <3>1. \A m \in MailId : a[m] \in Nat /\ b[m] = a[m]
        BY <1>6, <2>2, <2>3, <2>5
      <3>2. Total(a, MailId) \in Nat /\ Total(a, MailId) = Total(b, MailId)
        BY ONLY <1>13, <3>1, SameTotal, TotalSplit
      <3>3. Pay(drafts, k) = 0
        BY <2>5 DEF Pay
      <3> QED  BY <2>1, <3>2, <3>3
    <2> QED  BY <2>4, <2>5
  <1>15. f(0) = old
    <2>1. \A m \in MailId : f(0)[m] = old[m]
      BY <1>6
    <2>2. old = [m \in MailId |-> old[m]]
      BY <1>8 DEF MailMoney
    <2> QED  BY <2>1, <2>2
  <1>16. f(3) = MailMoney(next.mail)
    <2>1. \A m \in MailId : f(3)[m] = MailMoney(next.mail)[m]
      <3> TAKE m \in MailId
      <3>1. CASE m \in D
        <4>1. index[m] \in 1..Len(drafts) /\ index[m] <= 3
          BY <1>6, <1>11, <3>1
        <4>2. next.mail[m] = drafts[index[m]]
          BY <1>3, <1>4, <1>6, <3>1
        <4>3. next.mail[m] # None
          BY <1>7, <4>1, <4>2
        <4> QED  BY <3>1, <4>1, <4>2, <4>3 DEF MailMoney
      <3>2. CASE m \notin D
        BY <1>3, <1>4, <1>8, <3>2 DEF MailMoney
      <3> QED  BY <3>1, <3>2
    <2> QED  BY <2>1 DEF MailMoney
  <1>17. Total(MailMoney(next.mail), MailId) = Total(old, MailId)
            + Pay(drafts, 1) + Pay(drafts, 2) + Pay(drafts, 3)
    <2> HIDE DEF f
    <2>1. /\ Total(f(1), MailId) = Total(f(0), MailId) + Pay(drafts, 1)
          /\ Total(f(2), MailId) = Total(f(1), MailId) + Pay(drafts, 2)
          /\ Total(f(3), MailId) = Total(f(2), MailId) + Pay(drafts, 3)
      <3>1. 1 \in Nat \ {0} /\ 2 \in Nat \ {0} /\ 3 \in Nat \ {0} /\ 1 - 1 = 0 /\ 2 - 1 = 1 /\ 3 - 1 = 2
        OBVIOUS
      <3>2. Total(f(1), MailId) = Total(f(1 - 1), MailId) + Pay(drafts, 1)
        BY <1>14
      <3>3. Total(f(2), MailId) = Total(f(2 - 1), MailId) + Pay(drafts, 2)
        BY <1>14
      <3>4. Total(f(3), MailId) = Total(f(3 - 1), MailId) + Pay(drafts, 3)
        BY <1>14
      <3> QED  BY <3>1, <3>2, <3>3, <3>4
    <2> QED  BY <1>15, <1>16, <2>1
  <1>18. ASSUME Sound(last), Honest(drafts), NEW m \in MailId, next.mail[m] # None,
                next.mail[m].item # None
         PROVE  next.mail[m].money = 0
    <2>1. CASE m \in D
      <3>1. index[m] \in 1..Len(drafts) /\ next.mail[m] = drafts[index[m]]
        BY <1>3, <1>4, <1>6, <2>1
      <3> QED  BY <1>18, <3>1 DEF Honest
    <2>2. CASE m \notin D
      BY <1>3, <1>4, <1>18, <2>2 DEF Sound
    <2> QED  BY <2>1, <2>2
  <1> QED  BY <1>8, <1>17, <1>18

-----------------------------------------------------------------------------
(* Handlers                                                                *)

\* Amounts that fit into 32 bits are not changed by it.
LEMMA NotCutOff ==
    ASSUME NEW n \in Nat, n < Modulus
    PROVE  U32(n) = n
  <1>1. Modulus \in Nat \ {0}
    BY AuctionHouseAssumption
  <1> QED  BY <1>1 DEF U32

\* The auction house takes no more than the bid, and the rest is the owner's.
LEMMA FullProfit ==
    ASSUME NEW auction \in Auction, Fits(auction.bid)
    PROVE  /\ GetAuctionCut(auction) \in Nat /\ GetAuctionCut(auction) <= auction.bid
           /\ Profit(auction) = auction.bid + Deposit - GetAuctionCut(auction)
  <1>1. PICK b, c : b = auction.bid /\ c = CutPercent
    OBVIOUS
  <1>2. b \in Nat /\ c \in 0..100 /\ Deposit \in Nat /\ Modulus \in Nat
    BY <1>1, AuctionHouseAssumption DEF Auction
  <1>3. b * c \in Nat /\ b * c <= b * 100
    BY <1>2
  <1>4. \A n \in Nat : n <= b * 100 => n \div 100 <= b /\ n \div 100 \in Nat
    BY <1>2
  <1>5. GetAuctionCut(auction) \in Nat /\ GetAuctionCut(auction) <= b
    BY <1>1, <1>3, <1>4 DEF GetAuctionCut
  <1>6. PICK n : n = auction.bid + Deposit - GetAuctionCut(auction)
    OBVIOUS
  <1>7. n \in Nat /\ n < Modulus
    BY <1>1, <1>2, <1>5, <1>6 DEF Fits
  <1> QED  BY <1>1, <1>5, <1>6, <1>7, NotCutOff DEF Profit

\* What the handlers use of the invariant
LEMMA MoneyFacts ==
    ASSUME MoneyInv, NEW path, NEW last, Before(path, last)
    PROVE  Sound(last)
  <1>1. MoneyOn(path) /\ Len(dbQueue) \in Nat
    BY DEF MoneyInv, Before, PathInv, MemoryTypes
  <1> QED  BY <1>1 DEF MoneyOn, Before

\* An auction in memory is sound.
LEMMA SoundAuction ==
    ASSUME MoneyInv, NEW path, NEW last, Before(path, last), server = "up",
           NEW id \in AuctionId, AuctionsMap[id] # None
    PROVE  /\ AuctionsMap[id] \in Auction
           /\ Fits(AuctionsMap[id].bid) /\ Fits(AuctionsMap[id].buyout)
           /\ AuctionsMap[id].bidder = None => AuctionsMap[id].bid = 0
  <1>1. AuctionsMap = last.auctionhouse /\ AuctionsMap[id] \in Auction
    BY DEF Before, MemoryAgrees, MemoryTypes
  <1>2. Sound(last)
    BY MoneyFacts
  <1> QED  BY <1>1, <1>2 DEF Sound

\* The end of an auction pays out its bid and its deposit.
LEMMA SettlingMoney ==
    ASSUME MoneyInv, ItemInv', NEW path, NEW last, Before(path, last),
           server = "up", server' = "up", base' = base, state' = state,
           NEW id \in AuctionId, AuctionsMap[id] # None,
           AuctionsMap' = [AuctionsMap EXCEPT ![id] = None],
           NEW drafts \in Seq(Mail), Len(drafts) <= 3, Honest(drafts), SendMailTo(drafts),
           NEW t, CommitTransaction(t), t.mail = MailRows(drafts),
           NEW p, p \in Player => p \in Online,
           \A q \in Player \ {p} : money'[q] = money[q] /\ q \notin DOMAIN t.gold,
           NEW gained \in Int,
           IF p \in Player THEN money'[p] = money[p] + gained ELSE gained = 0,
           gained + Pay(drafts, 1) + Pay(drafts, 2) + Pay(drafts, 3) + t.fees
             = AuctionsMap[id].bid + Deposit
    PROVE  MoneyInv'
  <1>1. PICK next : next = Applied(last, t)
    OBVIOUS
  <1>2. t \in Operations /\ next \in Tables /\ AuctionsMap' = next.auctionhouse
    BY ONLY Before(path, last), ItemInv', CommitTransaction(t), server' = "up", <1>1, Queued
  <1>3. /\ last \in Tables /\ AuctionsMap = last.auctionhouse
        /\ AuctionsMap \in [AuctionId -> Auction \union {None}]
    BY BeforeFacts DEF Before, MemoryAgrees, MemoryTypes
  <1>4. \A x \in AuctionId : next.auctionhouse[x] = IF x = id THEN None ELSE last.auctionhouse[x]
    BY <1>2, <1>3
  <1>5. Sound(last)
    BY MoneyFacts
  <1>6. /\ Total(MailMoney(next.mail), MailId) = Total(MailMoney(last.mail), MailId)
             + Pay(drafts, 1) + Pay(drafts, 2) + Pay(drafts, 3)
        /\ \A m \in MailId : next.mail[m] # None /\ next.mail[m].item # None
                                => next.mail[m].money = 0
    <2>1. Len(drafts) <= Cardinality(FreshMailIds)
      BY DEF SendMailTo
    <2> QED  BY <1>1, <1>2, <1>5, <2>1, SentMoney
  <1>7. Sound(next)
    BY <1>4, <1>5, <1>6 DEF Sound
  <1>8. Total(AuctionMoney(next.auctionhouse), AuctionId)
          = Total(AuctionMoney(last.auctionhouse), AuctionId)
            + AuctionMoney(next.auctionhouse)[id] - AuctionMoney(last.auctionhouse)[id]
    BY <1>2, <1>3, <1>4, AuctionChanges
  <1>9. /\ AuctionMoney(next.auctionhouse)[id] = 0
        /\ AuctionMoney(last.auctionhouse)[id] = AuctionsMap[id].bid + Deposit
    BY <1>3, <1>4 DEF AuctionMoney
  <1>10. /\ Total(MailMoney(last.mail), MailId) \in Nat
         /\ Total(AuctionMoney(last.auctionhouse), AuctionId) \in Nat
    BY <1>3, Counts
  <1>11. t.fees \in Nat /\ AuctionsMap[id].bid + Deposit \in Nat
    <2>1. AuctionsMap[id] \in Auction /\ Deposit \in Nat
      BY <1>3, AuctionHouseAssumption
    <2> QED  BY <1>2, <2>1 DEF Operations, Auction
  <1>12. Pay(drafts, 1) \in Nat /\ Pay(drafts, 2) \in Nat /\ Pay(drafts, 3) \in Nat
    <2>1. \A k \in 1..Len(drafts) : drafts[k].money \in Nat
      <3> TAKE k \in 1..Len(drafts)
      <3>1. drafts[k] \in Mail
        OBVIOUS
      <3> QED  BY <3>1 DEF Mail
    <2> QED  BY <2>1 DEF Pay
  <1>13. gained + Total(MailMoney(next.mail), MailId)
           + Total(AuctionMoney(next.auctionhouse), AuctionId) + t.fees
           = Total(MailMoney(last.mail), MailId)
             + Total(AuctionMoney(last.auctionhouse), AuctionId)
    <2>1. PICK a, b, c, f, h :
             /\ a = Pay(drafts, 1) /\ b = Pay(drafts, 2) /\ c = Pay(drafts, 3)
             /\ f = t.fees /\ h = AuctionsMap[id].bid + Deposit
      OBVIOUS
    <2>2. /\ gained \in Int /\ a \in Nat /\ b \in Nat /\ c \in Nat /\ f \in Nat /\ h \in Nat
          /\ gained + a + b + c + f = h
      BY <1>11, <1>12, <2>1
    <2>3. PICK mail, auction : /\ mail = Total(MailMoney(last.mail), MailId)
                               /\ auction = Total(AuctionMoney(last.auctionhouse), AuctionId)
      OBVIOUS
    <2>4. /\ mail \in Nat /\ auction \in Nat
          /\ Total(MailMoney(next.mail), MailId) = mail + a + b + c
          /\ Total(AuctionMoney(next.auctionhouse), AuctionId) = auction + 0 - h
      BY <1>6, <1>8, <1>9, <1>10, <2>1, <2>3
    <2>5. gained + (mail + a + b + c) + (auction + 0 - h) + f = mail + auction
      BY ONLY <2>2, <2>4
    <2> QED  BY <2>1, <2>3, <2>4, <2>5
  <1> QED  BY <1>1, <1>7, <1>13, Transfer

\* A mail with an item or with money
Letter(a) == a \in Mail /\ (a.item # None => a.money = 0)

\* The mails of the auction house are letters of this kind.
LEMMA Letters ==
    /\ \A to \in Player, amount \in Nat :
          Letter(MoneyMail(to, amount)) /\ MoneyMail(to, amount).money = amount
    /\ \A to \in Player, item \in Item :
          Letter(ItemMail(to, item)) /\ ItemMail(to, item).money = 0
BY DEF MoneyMail, ItemMail, Mail, Letter

\* What up to three of them pay
LEMMA Payments ==
    /\ <<>> \in Seq(Mail) /\ Len(<<>>) <= 3 /\ Honest(<<>>)
    /\ Pay(<<>>, 1) = 0 /\ Pay(<<>>, 2) = 0 /\ Pay(<<>>, 3) = 0
    /\ \A a : Letter(a) =>
          /\ <<a>> \in Seq(Mail) /\ Len(<<a>>) <= 3 /\ Honest(<<a>>)
          /\ Pay(<<a>>, 1) = a.money /\ Pay(<<a>>, 2) = 0 /\ Pay(<<a>>, 3) = 0
    /\ \A a, b : Letter(a) /\ Letter(b) =>
          /\ <<a, b>> \in Seq(Mail) /\ Len(<<a, b>>) <= 3 /\ Honest(<<a, b>>)
          /\ Pay(<<a, b>>, 1) = a.money /\ Pay(<<a, b>>, 2) = b.money /\ Pay(<<a, b>>, 3) = 0
    /\ \A a, b, c : Letter(a) /\ Letter(b) /\ Letter(c) =>
          /\ <<a, b, c>> \in Seq(Mail) /\ Len(<<a, b, c>>) <= 3 /\ Honest(<<a, b, c>>)
          /\ Pay(<<a, b, c>>, 1) = a.money /\ Pay(<<a, b, c>>, 2) = b.money
          /\ Pay(<<a, b, c>>, 3) = c.money
  <1>1. /\ <<>> \in Seq(Mail) /\ Len(<<>>) <= 3 /\ Honest(<<>>)
        /\ Pay(<<>>, 1) = 0 /\ Pay(<<>>, 2) = 0 /\ Pay(<<>>, 3) = 0
    BY DEF Honest, Pay
  <1>2. ASSUME NEW a, Letter(a)
        PROVE  /\ <<a>> \in Seq(Mail) /\ Len(<<a>>) <= 3 /\ Honest(<<a>>)
               /\ Pay(<<a>>, 1) = a.money /\ Pay(<<a>>, 2) = 0 /\ Pay(<<a>>, 3) = 0
    <2>1. PICK s : s = <<a>>
      OBVIOUS
    <2>2. s \in Seq(Mail) /\ Len(s) = 1 /\ s[1] = a
      BY <1>2, <2>1 DEF Letter
    <2>3. \A k \in 1..1 : k = 1
      OBVIOUS
    <2>4. Honest(s)
      BY <1>2, <2>2, <2>3 DEF Honest, Letter
    <2> QED  BY <2>1, <2>2, <2>4 DEF Pay
  <1>3. ASSUME NEW a, NEW b, Letter(a), Letter(b)
        PROVE  /\ <<a, b>> \in Seq(Mail) /\ Len(<<a, b>>) <= 3 /\ Honest(<<a, b>>)
               /\ Pay(<<a, b>>, 1) = a.money /\ Pay(<<a, b>>, 2) = b.money
               /\ Pay(<<a, b>>, 3) = 0
    <2>1. PICK s : s = <<a, b>>
      OBVIOUS
    <2>2. s \in Seq(Mail) /\ Len(s) = 2 /\ s[1] = a /\ s[2] = b
      BY <1>3, <2>1 DEF Letter
    <2>3. \A k \in 1..2 : k = 1 \/ k = 2
      OBVIOUS
    <2>4. Honest(s)
      BY <1>3, <2>2, <2>3 DEF Honest, Letter
    <2> QED  BY <2>1, <2>2, <2>4 DEF Pay
  <1>4. ASSUME NEW a, NEW b, NEW c, Letter(a), Letter(b), Letter(c)
        PROVE  /\ <<a, b, c>> \in Seq(Mail) /\ Len(<<a, b, c>>) <= 3 /\ Honest(<<a, b, c>>)
               /\ Pay(<<a, b, c>>, 1) = a.money /\ Pay(<<a, b, c>>, 2) = b.money
               /\ Pay(<<a, b, c>>, 3) = c.money
    <2>1. PICK s : s = <<a, b, c>>
      OBVIOUS
    <2>2. s \in Seq(Mail) /\ Len(s) = 3 /\ s[1] = a /\ s[2] = b /\ s[3] = c
      BY <1>4, <2>1 DEF Letter
    <2>3. \A k \in 1..3 : k = 1 \/ k = 2 \/ k = 3
      OBVIOUS
    <2>4. Honest(s)
      BY <1>4, <2>2, <2>3 DEF Honest, Letter
    <2> QED  BY <2>1, <2>2, <2>4 DEF Pay
  <1> QED  BY <1>1, <1>2, <1>3, <1>4

\* AuctionHouseObject::Update: the owner has the bid, without the cut, and the deposit;
\* without a bid the deposit is lost.
LEMMA ExpireAuctionMoney ==
    ASSUME MoneyInv, ItemInv', NEW id \in AuctionId, ExpireAuction(id)
    PROVE  MoneyInv'
  <1>1. PICK path, last : Before(path, last)
    BY Start DEF MoneyInv
  <1>2. PICK auction : auction = AuctionsMap[id]
    OBVIOUS
  <1>3. PICK drafts, t :
           /\ drafts = EndMails(auction) /\ SendMailTo(drafts)
           /\ t = [NoRows EXCEPT !.mail = MailRows(drafts), !.auctionhouse = Row(id, None),
                                 !.fees = EndFees(auction)]
           /\ CommitTransaction(t)
    BY <1>2 DEF ExpireAuction
  <1>4. /\ server = "up" /\ auction # None /\ server' = "up" /\ base' = base /\ state' = state
        /\ AuctionsMap' = [AuctionsMap EXCEPT ![id] = None] /\ money' = money
    BY <1>2 DEF ExpireAuction, runVars, playerVars
  <1>5. /\ auction \in Auction /\ Fits(auction.bid)
        /\ auction.bidder = None => auction.bid = 0
    BY <1>1, <1>2, <1>4, SoundAuction
  <1>6. /\ auction.owner \in Player /\ auction.item \in Item /\ auction.bid \in Nat
        /\ auction.bidder \in Player \union {None} /\ Deposit \in Nat /\ None \notin Player
    BY <1>5, AuctionHouseAssumption DEF Auction
  <1>7. /\ t.mail = MailRows(drafts) /\ t.fees = EndFees(auction) /\ DOMAIN t.gold = {}
    BY <1>3, EmptyRows DEF NoRows
  <1>8. /\ drafts \in Seq(Mail) /\ Len(drafts) <= 3 /\ Honest(drafts)
        /\ 0 + Pay(drafts, 1) + Pay(drafts, 2) + Pay(drafts, 3) + t.fees = auction.bid + Deposit
    <2>1. CASE auction.bidder = None
      <3>1. PICK a : a = SendAuctionExpiredMail(auction)
        OBVIOUS
      <3>2. Letter(a) /\ a.money = 0
        BY <1>6, <3>1, Letters DEF SendAuctionExpiredMail
      <3>3. drafts = <<a>> /\ t.fees = Deposit
        BY <1>3, <1>7, <2>1, <3>1 DEF EndMails, EndFees
      <3> QED  BY <1>5, <1>6, <2>1, <3>2, <3>3, Payments
    <2>2. CASE auction.bidder # None
      <3>1. PICK a, b, cut : /\ a = SendAuctionSuccessfulMail(auction)
                             /\ b = SendAuctionWonMail(auction) /\ cut = GetAuctionCut(auction)
        OBVIOUS
      <3>2. /\ cut \in Nat /\ cut <= auction.bid
            /\ Profit(auction) = auction.bid + Deposit - cut
        BY <1>5, <3>1, FullProfit
      <3>3. Profit(auction) \in Nat
        BY <1>6, <3>2
      <3>4. Letter(a) /\ a.money = Profit(auction) /\ Letter(b) /\ b.money = 0
        BY <1>6, <2>2, <3>1, <3>3, Letters DEF SendAuctionSuccessfulMail, SendAuctionWonMail
      <3>5. drafts = <<a, b>> /\ t.fees = cut
        BY <1>3, <1>7, <2>2, <3>1 DEF EndMails, EndFees
      <3> QED  BY <1>6, <3>2, <3>4, <3>5, Payments
    <2> QED  BY <2>1, <2>2
  <1>9. /\ \A q \in Player \ {None} : money'[q] = money[q] /\ q \notin DOMAIN t.gold
        /\ None \in Player => None \in Online
        /\ 0 \in Int /\ IF None \in Player THEN money'[None] = money[None] + 0 ELSE 0 = 0
    BY <1>4, <1>6, <1>7
  <1>10. AuctionsMap[id] # None /\ 0 + Pay(drafts, 1) + Pay(drafts, 2) + Pay(drafts, 3) + t.fees
                                     = AuctionsMap[id].bid + Deposit
    BY <1>2, <1>4, <1>8
  <1>11. SendMailTo(drafts) /\ CommitTransaction(t)
    BY <1>3
  <1> QED  BY ONLY MoneyInv, ItemInv', id \in AuctionId, <1>1, <1>4, <1>7, <1>8, <1>9, <1>10,
                   <1>11, SettlingMoney

\* HandleAuctionRemoveItem: the bidder has his bid back, the owner pays the cut and loses
\* the deposit.
LEMMA RemoveItemMoney ==
    ASSUME MoneyInv, ItemInv', NEW p \in Player, NEW id \in AuctionId, RemoveItem(p, id)
    PROVE  MoneyInv'
  <1>1. PICK path, last : Before(path, last)
    BY Start DEF MoneyInv
  <1>2. PICK auction : auction = AuctionsMap[id]
    OBVIOUS
  <1>3. PICK cut, drafts, t :
           /\ cut = IF auction.bidder = None THEN 0 ELSE GetAuctionCut(auction)
           /\ drafts = (IF auction.bidder = None THEN <<>>
                        ELSE <<SendAuctionCancelledToBidderMail(auction)>>)
                       \o <<SendAuctionExpiredMail(auction)>>
           /\ SendMailTo(drafts)
           /\ t = [NoRows EXCEPT !.mail = MailRows(drafts), !.auctionhouse = Row(id, None),
                                 !.gold = Row(p, money'[p]), !.fees = Deposit + cut]
           /\ CommitTransaction(t)
           /\ money' = [money EXCEPT ![p] = @ - cut]
    BY <1>2 DEF RemoveItem
  <1>4. /\ p \in Online /\ auction # None /\ server' = server /\ base' = base /\ state' = state
        /\ AuctionsMap' = [AuctionsMap EXCEPT ![id] = None]
    BY <1>2 DEF RemoveItem, runVars
  <1>5. server = "up" /\ server' = "up" /\ money \in [Player -> Nat]
    BY <1>1, <1>4, BeforeFacts DEF Before, MemoryTypes, Online
  <1>6. /\ auction \in Auction /\ Fits(auction.bid)
        /\ auction.bidder = None => auction.bid = 0
    BY <1>1, <1>2, <1>4, <1>5, SoundAuction
  <1>7. /\ auction.owner \in Player /\ auction.item \in Item /\ auction.bid \in Nat
        /\ auction.bidder \in Player \union {None} /\ Deposit \in Nat
    BY <1>6, AuctionHouseAssumption DEF Auction
  <1>8. cut \in Nat
    BY <1>3, <1>6, Amounts
  <1>9. /\ t.mail = MailRows(drafts) /\ t.fees = Deposit + cut /\ DOMAIN t.gold = {p}
    BY <1>3 DEF NoRows, Row
  <1>10. /\ drafts \in Seq(Mail) /\ Len(drafts) <= 3 /\ Honest(drafts)
         /\ (0 - cut) + Pay(drafts, 1) + Pay(drafts, 2) + Pay(drafts, 3) + t.fees
              = auction.bid + Deposit
    <2>1. PICK a, b : /\ a = SendAuctionCancelledToBidderMail(auction)
                      /\ b = SendAuctionExpiredMail(auction)
      OBVIOUS
    <2>2. Letter(b) /\ b.money = 0
      BY <1>7, <2>1, Letters DEF SendAuctionExpiredMail
    <2>3. CASE auction.bidder = None
      <3>1. drafts = <<b>>
        BY <1>3, <2>1, <2>3, Joined
      <3> QED  BY <1>6, <1>7, <1>8, <1>9, <2>2, <2>3, <3>1, Payments
    <2>4. CASE auction.bidder # None
      <3>1. drafts = <<a, b>>
        BY <1>3, <2>1, <2>4, Joined
      <3>2. Letter(a) /\ a.money = auction.bid
        BY <1>7, <2>1, <2>4, Letters DEF SendAuctionCancelledToBidderMail
      <3> QED  BY <1>7, <1>8, <1>9, <2>2, <3>1, <3>2, Payments
    <2> QED  BY <2>3, <2>4
  <1>11. /\ \A q \in Player \ {p} : money'[q] = money[q] /\ q \notin DOMAIN t.gold
         /\ p \in Player => p \in Online
         /\ 0 - cut \in Int
         /\ IF p \in Player THEN money'[p] = money[p] + (0 - cut) ELSE 0 - cut = 0
    BY <1>3, <1>4, <1>5, <1>8, <1>9
  <1>12. /\ AuctionsMap[id] # None
         /\ (0 - cut) + Pay(drafts, 1) + Pay(drafts, 2) + Pay(drafts, 3) + t.fees
              = AuctionsMap[id].bid + Deposit
    BY <1>2, <1>4, <1>10
  <1>13. SendMailTo(drafts) /\ CommitTransaction(t)
    BY <1>3
  <1> QED  BY ONLY MoneyInv, ItemInv', id \in AuctionId, <1>1, <1>4, <1>5, <1>9, <1>10, <1>11,
                   <1>12, <1>13, SettlingMoney

\* HandleAuctionPlaceBid, buyout: the buyer pays the buyout, the owner has it without the
\* cut, and the last bidder has his bid back.
LEMMA BuyoutMoney ==
    ASSUME MoneyInv, ItemInv', NEW p \in Player, NEW id \in AuctionId, NEW price \in Prices,
           Buyout(p, id, price)
    PROVE  MoneyInv'
  <1>1. PICK path, last : Before(path, last)
    BY Start DEF MoneyInv
  <1>2. PICK auction : auction = AuctionsMap[id]
    OBVIOUS
  <1>3. PICK new, drafts, t, paid :
           /\ new = [auction EXCEPT !.bidder = p, !.bid = auction.buyout]
           /\ paid = IF auction.bidder = p THEN auction.buyout - auction.bid
                                           ELSE auction.buyout
           /\ drafts = (IF auction.bidder \in {None, p} THEN <<>>
                        ELSE <<SendAuctionOutbiddedMail(auction)>>)
                       \o <<SendAuctionSuccessfulMail(new), SendAuctionWonMail(new)>>
           /\ SendMailTo(drafts)
           /\ t = [NoRows EXCEPT !.mail = MailRows(drafts), !.auctionhouse = Row(id, None),
                                 !.gold = Row(p, money'[p]), !.fees = GetAuctionCut(new)]
           /\ CommitTransaction(t)
           /\ money' = [money EXCEPT ![p] = @ - paid]
    BY <1>2 DEF Buyout
  <1>4. /\ MayBid(p, auction, price) /\ server' = server /\ base' = base /\ state' = state
        /\ AuctionsMap' = [AuctionsMap EXCEPT ![id] = None]
    BY <1>2 DEF Buyout, runVars
  <1>5. /\ p \in Online /\ auction # None /\ server = "up" /\ server' = "up"
        /\ money \in [Player -> Nat]
    BY <1>1, <1>4, BeforeFacts DEF Before, MemoryTypes, Online, MayBid
  <1>6. /\ auction \in Auction /\ Fits(auction.bid) /\ Fits(auction.buyout)
        /\ auction.bidder = None => auction.bid = 0
    BY <1>1, <1>2, <1>5, SoundAuction
  <1>7. /\ auction.owner \in Player /\ auction.item \in Item /\ auction.bid \in Nat
        /\ auction.buyout \in Nat
        /\ auction.bidder \in Player \union {None} /\ Deposit \in Nat /\ p # None
        /\ new \in Auction /\ new.owner = auction.owner /\ new.item = auction.item
        /\ new.bidder = p /\ new.bid = auction.buyout
    BY <1>3, <1>6, AuctionHouseAssumption DEF Auction
  <1>8. PICK cut : cut = GetAuctionCut(new)
    OBVIOUS
  <1>9. /\ cut \in Nat /\ cut <= auction.buyout
        /\ Profit(new) = auction.buyout + Deposit - cut
    BY <1>6, <1>7, <1>8, FullProfit
  <1>10. t.mail = MailRows(drafts) /\ t.fees = cut /\ DOMAIN t.gold = {p}
    BY <1>3, <1>8 DEF NoRows, Row
  <1>11. paid \in Int
    BY <1>3, <1>7
  <1>12. /\ drafts \in Seq(Mail) /\ Len(drafts) <= 3 /\ Honest(drafts)
         /\ (0 - paid) + Pay(drafts, 1) + Pay(drafts, 2) + Pay(drafts, 3) + t.fees
              = auction.bid + Deposit
    <2>1. PICK a, b, c : /\ a = SendAuctionOutbiddedMail(auction)
                         /\ b = SendAuctionSuccessfulMail(new)
                         /\ c = SendAuctionWonMail(new)
      OBVIOUS
    <2>2. Profit(new) \in Nat
      BY <1>7, <1>9
    <2>3. Letter(b) /\ b.money = Profit(new) /\ Letter(c) /\ c.money = 0
      BY <1>7, <2>1, <2>2, Letters DEF SendAuctionSuccessfulMail, SendAuctionWonMail
    <2>4. CASE auction.bidder \in {None, p}
      <3>1. drafts = <<b, c>>
        BY <1>3, <2>1, <2>4, Joined
      <3>2. paid = auction.buyout - auction.bid
        BY <1>3, <1>6, <1>7, <2>4
      <3>3. /\ drafts \in Seq(Mail) /\ Len(drafts) <= 3 /\ Honest(drafts)
            /\ Pay(drafts, 1) = Profit(new) /\ Pay(drafts, 2) = 0 /\ Pay(drafts, 3) = 0
        BY <2>3, <3>1, Payments
      <3> QED  BY ONLY <1>7, <1>9, <1>10, <3>2, <3>3
    <2>5. CASE auction.bidder \notin {None, p}
      <3>1. drafts = <<a, b, c>>
        BY <1>3, <2>1, <2>5, Joined
      <3>2. Letter(a) /\ a.money = auction.bid
        BY <1>7, <2>1, <2>5, Letters DEF SendAuctionOutbiddedMail
      <3>3. paid = auction.buyout
        BY <1>3, <2>5
      <3>4. /\ drafts \in Seq(Mail) /\ Len(drafts) <= 3 /\ Honest(drafts)
            /\ Pay(drafts, 1) = auction.bid /\ Pay(drafts, 2) = Profit(new) /\ Pay(drafts, 3) = 0
        BY <2>3, <3>1, <3>2, Payments
      <3> QED  BY ONLY <1>7, <1>9, <1>10, <3>3, <3>4
    <2> QED  BY <2>4, <2>5
  <1>13. /\ \A q \in Player \ {p} : money'[q] = money[q] /\ q \notin DOMAIN t.gold
         /\ p \in Player => p \in Online
         /\ 0 - paid \in Int
         /\ IF p \in Player THEN money'[p] = money[p] + (0 - paid) ELSE 0 - paid = 0
    BY <1>3, <1>5, <1>10, <1>11
  <1>14. /\ AuctionsMap[id] # None
         /\ (0 - paid) + Pay(drafts, 1) + Pay(drafts, 2) + Pay(drafts, 3) + t.fees
              = AuctionsMap[id].bid + Deposit
    BY <1>2, <1>5, <1>12
  <1>15. SendMailTo(drafts) /\ CommitTransaction(t)
    BY <1>3
  <1> QED  BY ONLY MoneyInv, ItemInv', id \in AuctionId, <1>1, <1>4, <1>5, <1>10, <1>12, <1>13,
                   <1>14, <1>15, SettlingMoney

\* HandleAuctionPlaceBid below the buyout: what the bidder pays is in the auction, and what
\* was there before goes back.
LEMMA PlaceBidMoney ==
    ASSUME MoneyInv, ItemInv', NEW p \in Player, NEW id \in AuctionId, NEW price \in Prices,
           PlaceBid(p, id, price)
    PROVE  MoneyInv'
  <1>1. PICK path, last : Before(path, last)
    BY Start DEF MoneyInv
  <1>2. PICK auction : auction = AuctionsMap[id]
    OBVIOUS
  <1>3. PICK new, drafts, t, paid :
           /\ new = [auction EXCEPT !.bidder = p, !.bid = U32(price)]
           /\ paid = IF auction.bidder = p THEN price - auction.bid ELSE price
           /\ drafts = IF auction.bidder \in {None, p} THEN <<>>
                       ELSE <<SendAuctionOutbiddedMail(auction)>>
           /\ SendMailTo(drafts)
           /\ t = [NoRows EXCEPT !.mail = MailRows(drafts),
                                 !.bid = Row(id, [bidder |-> new.bidder, bid |-> new.bid]),
                                 !.gold = Row(p, money'[p])]
           /\ CommitTransaction(t)
           /\ AuctionsMap' = [AuctionsMap EXCEPT ![id] = new]
           /\ money' = [money EXCEPT ![p] = @ - paid]
    BY <1>2 DEF PlaceBid
  <1>4. MayBid(p, auction, price) /\ server' = server /\ base' = base /\ state' = state
    BY <1>2 DEF PlaceBid, runVars
  <1>5. /\ p \in Online /\ auction # None /\ server = "up" /\ server' = "up"
        /\ money \in [Player -> Nat]
    BY <1>1, <1>4, BeforeFacts DEF Before, MemoryTypes, Online, MayBid
  <1>6. /\ auction \in Auction /\ Fits(auction.bid) /\ Fits(auction.buyout)
        /\ auction.bidder = None => auction.bid = 0
    BY <1>1, <1>2, <1>5, SoundAuction
  <1>7. /\ price \in Nat /\ Deposit \in Nat /\ Modulus \in Nat /\ Fits(price)
        /\ p # None /\ U32(price) = price
    <2>1. price \in Nat /\ Deposit \in Nat /\ Modulus \in Nat /\ p # None
      BY AuctionHouseAssumption
    <2>2. Fits(price)
      BY DEF MoneyInv, NoWrap, Fits
    <2>3. price < Modulus
      BY <2>1, <2>2 DEF Fits
    <2> QED  BY <2>1, <2>2, <2>3, NotCutOff
  <1>8. /\ auction.bid \in Nat /\ auction.bidder \in Player \union {None}
        /\ new \in Auction /\ new.bidder = p /\ new.bid = price /\ new.buyout = auction.buyout
    BY <1>3, <1>6, <1>7 DEF Auction
  <1>9. new # None
    BY <1>8, NoneAssumption
  <1>10. t.mail = MailRows(drafts) /\ t.fees = 0 /\ DOMAIN t.gold = {p}
    BY <1>3 DEF NoRows, Row
  <1>10a. CommitTransaction(t)
    BY <1>3
  <1>11. PICK next : next = Applied(last, t)
    OBVIOUS
  <1>12. t \in Operations /\ next \in Tables /\ AuctionsMap' = next.auctionhouse
    BY ONLY ItemInv', <1>1, <1>5, <1>11, <1>10a, Queued
  <1>13. /\ last \in Tables /\ AuctionsMap = last.auctionhouse
         /\ AuctionsMap \in [AuctionId -> Auction \union {None}]
    BY <1>1, <1>5, BeforeFacts DEF Before, MemoryAgrees, MemoryTypes
  <1>14. \A x \in AuctionId : next.auctionhouse[x] = IF x = id THEN new ELSE last.auctionhouse[x]
    BY <1>3, <1>12, <1>13
  <1>15. /\ drafts \in Seq(Mail) /\ Len(drafts) <= 3 /\ Honest(drafts)
         /\ Pay(drafts, 1) = (IF auction.bidder \in {None, p} THEN 0 ELSE auction.bid)
         /\ Pay(drafts, 2) = 0 /\ Pay(drafts, 3) = 0
    <2>1. CASE auction.bidder \in {None, p}
      BY <1>3, <2>1, Payments
    <2>2. CASE auction.bidder \notin {None, p}
      <3>1. PICK a : a = SendAuctionOutbiddedMail(auction)
        OBVIOUS
      <3>2. Letter(a) /\ a.money = auction.bid
        BY <1>8, <2>2, <3>1, Letters DEF SendAuctionOutbiddedMail
      <3>3. drafts = <<a>>
        BY <1>3, <2>2, <3>1
      <3> QED  BY <2>2, <3>2, <3>3, Payments
    <2> QED  BY <2>1, <2>2
  <1>16. Sound(last)
    BY <1>1, MoneyFacts
  <1>17. /\ Total(MailMoney(next.mail), MailId) = Total(MailMoney(last.mail), MailId)
              + Pay(drafts, 1) + Pay(drafts, 2) + Pay(drafts, 3)
         /\ \A m \in MailId : next.mail[m] # None /\ next.mail[m].item # None
                                 => next.mail[m].money = 0
    <2>1. Len(drafts) <= Cardinality(FreshMailIds)
      BY <1>3 DEF SendMailTo
    <2> QED  BY ONLY <1>1, <1>10, <1>11, <1>12, <1>15, <1>16, <2>1, SentMoney
  <1>18. Sound(next)
    <2> SUFFICES ASSUME NEW x \in AuctionId, next.auctionhouse[x] # None
                 PROVE  /\ Fits(next.auctionhouse[x].bid) /\ Fits(next.auctionhouse[x].buyout)
                        /\ next.auctionhouse[x].bidder = None => next.auctionhouse[x].bid = 0
      BY <1>17 DEF Sound
    <2>1. CASE x = id
      BY <1>6, <1>7, <1>8, <1>14, <2>1
    <2>2. CASE x # id
      BY <1>14, <1>16, <2>2 DEF Sound
    <2> QED  BY <2>1, <2>2
  <1>19. Total(AuctionMoney(next.auctionhouse), AuctionId)
           = Total(AuctionMoney(last.auctionhouse), AuctionId)
             + AuctionMoney(next.auctionhouse)[id] - AuctionMoney(last.auctionhouse)[id]
    BY <1>12, <1>13, <1>14, AuctionChanges
  <1>20. /\ AuctionMoney(next.auctionhouse)[id] = price + Deposit
         /\ AuctionMoney(last.auctionhouse)[id] = auction.bid + Deposit
    BY <1>2, <1>5, <1>8, <1>9, <1>13, <1>14 DEF AuctionMoney
  <1>21. /\ Total(MailMoney(last.mail), MailId) \in Nat
         /\ Total(AuctionMoney(last.auctionhouse), AuctionId) \in Nat
    BY <1>13, Counts
  <1>22. paid \in Int /\ Pay(drafts, 1) + price - auction.bid = paid
    BY <1>3, <1>6, <1>7, <1>8, <1>15
  <1>23. (0 - paid) + Total(MailMoney(next.mail), MailId)
           + Total(AuctionMoney(next.auctionhouse), AuctionId) + t.fees
           = Total(MailMoney(last.mail), MailId)
             + Total(AuctionMoney(last.auctionhouse), AuctionId)
    <2>1. PICK back, bid : back = Pay(drafts, 1) /\ bid = auction.bid
      OBVIOUS
    <2>2. back \in Nat /\ bid \in Nat /\ back + price - bid = paid
      BY <1>8, <1>15, <1>22, <2>1
    <2>3. /\ Total(MailMoney(next.mail), MailId) = Total(MailMoney(last.mail), MailId) + back
          /\ Total(AuctionMoney(next.auctionhouse), AuctionId)
               = Total(AuctionMoney(last.auctionhouse), AuctionId) + price - bid
      BY ONLY <1>7, <1>15, <1>17, <1>19, <1>20, <1>21, <2>1, <2>2
    <2> QED  BY ONLY <1>7, <1>10, <1>21, <1>22, <2>2, <2>3
  <1>24. /\ \A q \in Player \ {p} : money'[q] = money[q] /\ q \notin DOMAIN t.gold
         /\ p \in Player => p \in Online
         /\ 0 - paid \in Int
         /\ IF p \in Player THEN money'[p] = money[p] + (0 - paid) ELSE 0 - paid = 0
    BY <1>3, <1>5, <1>10, <1>22
  <1> QED  BY ONLY MoneyInv, ItemInv', <1>1, <1>4, <1>5, <1>11, <1>18, <1>23, <1>24, <1>10a,
                   Transfer

\* An operation without mails leaves the mails alone.
LEMMA NoMails ==
    ASSUME NEW last \in Tables, NEW t \in Operations, NEW next, next = Applied(last, t),
           DOMAIN t.mail = {}
    PROVE  next.mail = last.mail
  <1>1. \A m \in MailId : next.mail[m] = last.mail[m]
    BY NextRows
  <1>2. next \in Tables
    BY NextRows
  <1>3. next.mail \in [MailId -> Mail \union {None}] /\ last.mail \in [MailId -> Mail \union {None}]
    BY <1>2 DEF Tables
  <1> QED  BY ONLY <1>1, <1>3

\* HandleAuctionSellItem: the deposit goes from the purse to the auction, although the row
\* of the purse does not know of it yet.
LEMMA SellItemMoney ==
    ASSUME MoneyInv, ItemInv', NEW p \in Player, NEW i \in Item, NEW startbid \in Prices,
           NEW buyout \in Prices \union {0}, SellItem(p, i, startbid, buyout)
    PROVE  MoneyInv'
  <1>1. PICK path, last : Before(path, last)
    BY Start DEF MoneyInv
  <1>2. PICK id, auction, t :
           /\ id \in AuctionId /\ AuctionsMap[id] = None
           /\ auction = [item |-> i, owner |-> p, startbid |-> U32(startbid),
                         buyout |-> U32(buyout), bidder |-> None, bid |-> 0]
           /\ AuctionsMap' = [AuctionsMap EXCEPT ![id] = auction]
           /\ t = [NoRows EXCEPT !.inventory = Row(i, None), !.auctionhouse = Row(id, auction),
                                 !.gold = Row(p, money[p])]
           /\ CommitTransaction(t)
    BY DEF SellItem
  <1>3. /\ p \in Online /\ server' = server /\ base' = base /\ state' = state
        /\ money' = [money EXCEPT ![p] = @ - Deposit]
    BY DEF SellItem, runVars
  <1>4. server = "up" /\ server' = "up" /\ money \in [Player -> Nat]
    BY <1>1, <1>3, BeforeFacts DEF Before, MemoryTypes, Online
  <1>5. /\ buyout \in Nat /\ Deposit \in Nat /\ Modulus \in Nat \ {0}
        /\ buyout + Deposit < Modulus \/ buyout = 0
    BY AuctionHouseAssumption DEF MoneyInv, NoWrap
  <1>6. /\ auction.bid = 0 /\ auction.bidder = None /\ auction.buyout = U32(buyout)
        /\ auction.item = i
    BY <1>2
  <1>7. CommitTransaction(t) /\ t.fees = 0 /\ DOMAIN t.gold = {p} /\ DOMAIN t.mail = {}
    BY <1>2, EmptyRows DEF NoRows, Row
  <1>8. PICK next : next = Applied(last, t)
    OBVIOUS
  <1>9. t \in Operations /\ next \in Tables /\ AuctionsMap' = next.auctionhouse
    BY ONLY ItemInv', <1>1, <1>4, <1>7, <1>8, Queued
  <1>10. /\ last \in Tables /\ AuctionsMap = last.auctionhouse
         /\ AuctionsMap \in [AuctionId -> Auction \union {None}]
    BY <1>1, <1>4, BeforeFacts DEF Before, MemoryAgrees, MemoryTypes
  <1>11. \A x \in AuctionId :
            next.auctionhouse[x] = IF x = id THEN auction ELSE last.auctionhouse[x]
    BY <1>2, <1>9, <1>10
  <1>12. next.mail = last.mail
    BY <1>7, <1>8, <1>9, <1>10, NoMails
  <1>13. auction # None
    <2>1. startbid \in Nat /\ U32(startbid) \in Nat /\ U32(buyout) \in Nat
      BY <1>5, Amounts, AuctionHouseAssumption
    <2>2. auction \in Auction
      BY <1>2, <2>1 DEF Auction
    <2> QED  BY <2>2, NoneAssumption
  <1>14. Fits(0) /\ Fits(U32(buyout))
    <2>1. startbid \in Nat /\ startbid + Deposit < Modulus
      BY AuctionHouseAssumption DEF MoneyInv, NoWrap
    <2>2. Fits(0)
      BY <1>5, <2>1 DEF Fits
    <2>3. Fits(buyout) /\ buyout < Modulus
      BY <1>5, <2>2 DEF Fits
    <2> QED  BY <1>5, <2>2, <2>3, NotCutOff
  <1>15. Sound(next)
    <2>1. Sound(last)
      BY <1>1, MoneyFacts
    <2>2. \A x \in AuctionId : next.auctionhouse[x] # None =>
             /\ Fits(next.auctionhouse[x].bid) /\ Fits(next.auctionhouse[x].buyout)
             /\ next.auctionhouse[x].bidder = None => next.auctionhouse[x].bid = 0
      BY <1>6, <1>11, <1>14, <2>1 DEF Sound
    <2> QED  BY <1>12, <2>1, <2>2 DEF Sound
  <1>16. Total(AuctionMoney(next.auctionhouse), AuctionId)
           = Total(AuctionMoney(last.auctionhouse), AuctionId)
             + AuctionMoney(next.auctionhouse)[id] - AuctionMoney(last.auctionhouse)[id]
    BY <1>2, <1>9, <1>10, <1>11, AuctionChanges
  <1>17. /\ AuctionMoney(next.auctionhouse)[id] = 0 + Deposit
         /\ AuctionMoney(last.auctionhouse)[id] = 0
    BY <1>2, <1>6, <1>10, <1>11, <1>13 DEF AuctionMoney
  <1>18. /\ Total(MailMoney(last.mail), MailId) \in Nat
         /\ Total(AuctionMoney(last.auctionhouse), AuctionId) \in Nat
    BY <1>10, Counts
  <1>19. (0 - Deposit) + Total(MailMoney(next.mail), MailId)
           + Total(AuctionMoney(next.auctionhouse), AuctionId) + t.fees
           = Total(MailMoney(last.mail), MailId)
             + Total(AuctionMoney(last.auctionhouse), AuctionId)
    BY ONLY <1>5, <1>7, <1>12, <1>16, <1>17, <1>18
  <1>20. /\ \A q \in Player \ {p} : money'[q] = money[q] /\ q \notin DOMAIN t.gold
         /\ p \in Player => p \in Online
         /\ 0 - Deposit \in Int
         /\ IF p \in Player THEN money'[p] = money[p] + (0 - Deposit) ELSE 0 - Deposit = 0
    BY <1>3, <1>4, <1>5, <1>7
  <1> QED  BY ONLY MoneyInv, ItemInv', <1>1, <1>3, <1>4, <1>7, <1>8, <1>15, <1>19, <1>20,
                   Transfer

\* HandleMailTakeMoney and HandleMailTakeItem: the money of the mail, which a mail with an
\* item does not have, goes to the purse.
LEMMA TakeMoneyOrItem ==
    ASSUME MoneyInv, ItemInv', NEW p \in Player, NEW m \in MailId,
           TakeMoney(p, m) \/ TakeItem(p, m)
    PROVE  MoneyInv'
  <1>1. PICK path, last : Before(path, last)
    BY Start DEF MoneyInv
  <1>2. PICK mail : mail = m_mail[m]
    OBVIOUS
  <1>3. /\ p \in m_mailsLoaded /\ mail # None /\ mail.to = p
        /\ server' = server /\ base' = base /\ state' = state /\ AuctionsMap' = AuctionsMap
    BY <1>2 DEF TakeMoney, TakeItem, runVars
  <1>4. PICK t : /\ CommitTransaction(t) /\ t.mail = Row(m, None) /\ t.fees = 0
                 /\ DOMAIN t.gold = {p}
    <2>1. CASE TakeMoney(p, m)
      <3>1. PICK t : /\ CommitTransaction(t)
                     /\ t = [NoRows EXCEPT !.gold = Row(p, money'[p]), !.mail = Row(m, None)]
        BY <2>1 DEF TakeMoney
      <3>2. t.mail = Row(m, None) /\ t.fees = 0 /\ DOMAIN t.gold = {p}
        BY <3>1 DEF NoRows, Row
      <3> QED  BY <3>1, <3>2
    <2>2. CASE TakeItem(p, m)
      <3>1. PICK t : /\ CommitTransaction(t)
                     /\ t = [NoRows EXCEPT !.gold = Row(p, money[p]), !.mail = Row(m, None),
                                           !.inventory = Row(m_mail[m].item, p)]
        BY <2>2 DEF TakeItem
      <3>2. t.mail = Row(m, None) /\ t.fees = 0 /\ DOMAIN t.gold = {p}
        BY <3>1 DEF NoRows, Row
      <3> QED  BY <3>1, <3>2
    <2> QED  BY <2>1, <2>2
  <1>5. /\ p \in Online /\ server = "up" /\ server' = "up" /\ money \in [Player -> Nat]
        /\ mail \in Mail
    BY <1>1, <1>2, <1>3, BeforeFacts DEF Before, MemoryTypes, Online
  <1>6. mail.money \in Nat
    BY <1>5 DEF Mail
  <1>7. PICK next : next = Applied(last, t)
    OBVIOUS
  <1>8. t \in Operations /\ next \in Tables /\ AuctionsMap' = next.auctionhouse
    BY ONLY ItemInv', <1>1, <1>4, <1>5, <1>7, Queued
  <1>9. last \in Tables /\ AuctionsMap = last.auctionhouse /\ last.mail[m] = mail
    BY <1>1, <1>2, <1>3, <1>5, BeforeFacts DEF Before, MemoryAgrees, MailsAgree
  <1>10. \A x \in MailId : next.mail[x] = IF x = m THEN None ELSE last.mail[x]
    <2>1. DOMAIN t.mail = {m} /\ t.mail[m] = None
      BY <1>4 DEF Row
    <2> QED  BY <1>7, <1>8, <1>9, <2>1, NextRows
  <1>11. next.auctionhouse = last.auctionhouse
    BY <1>3, <1>8, <1>9
  <1>12. Sound(last)
    BY <1>1, MoneyFacts
  <1>13. Sound(next)
    BY <1>10, <1>11, <1>12 DEF Sound
  <1>14. Total(MailMoney(next.mail), MailId) = Total(MailMoney(last.mail), MailId)
           + MailMoney(next.mail)[m] - MailMoney(last.mail)[m]
    BY <1>8, <1>9, <1>10, MailChanges
  <1>15. MailMoney(next.mail)[m] = 0 /\ MailMoney(last.mail)[m] = mail.money
    BY <1>3, <1>9, <1>10 DEF MailMoney
  <1>16. /\ Total(MailMoney(last.mail), MailId) \in Nat
         /\ Total(AuctionMoney(last.auctionhouse), AuctionId) \in Nat
    BY <1>9, Counts
  <1>17. mail.money + Total(MailMoney(next.mail), MailId)
           + Total(AuctionMoney(next.auctionhouse), AuctionId) + t.fees
           = Total(MailMoney(last.mail), MailId)
             + Total(AuctionMoney(last.auctionhouse), AuctionId)
    BY ONLY <1>4, <1>6, <1>11, <1>14, <1>15, <1>16
  <1>18. /\ \A q \in Player \ {p} : money'[q] = money[q]
         /\ money'[p] = money[p] + mail.money
    <2>1. CASE TakeMoney(p, m)
      BY <1>2, <1>5, <2>1 DEF TakeMoney
    <2>2. CASE TakeItem(p, m)
      <3>1. money' = money /\ mail.item # None
        BY <1>2, <2>2 DEF TakeItem
      <3>2. mail.money = 0
        BY <1>3, <1>9, <1>12, <3>1 DEF Sound
      <3> QED  BY <1>5, <3>1, <3>2
    <2> QED  BY <2>1, <2>2
  <1>19. /\ \A q \in Player \ {p} : money'[q] = money[q] /\ q \notin DOMAIN t.gold
         /\ p \in Player => p \in Online
         /\ mail.money \in Int
         /\ IF p \in Player THEN money'[p] = money[p] + mail.money ELSE mail.money = 0
    BY <1>4, <1>5, <1>6, <1>18
  <1> QED  BY ONLY MoneyInv, ItemInv', <1>1, <1>3, <1>4, <1>5, <1>7, <1>13, <1>17, <1>19,
                   Transfer

-----------------------------------------------------------------------------
(* Players come and go                                                     *)

\* Player::SaveToDB writes the purse as it is.
LEMMA SavedMoney ==
    ASSUME NEW p \in Player
    PROVE  /\ DOMAIN SavedPlayer(p).mail = {} /\ SavedPlayer(p).fees = 0
           /\ DOMAIN SavedPlayer(p).auctionhouse = {} /\ DOMAIN SavedPlayer(p).bid = {}
           /\ DOMAIN SavedPlayer(p).gold = {p} /\ SavedPlayer(p).gold[p] = money[p]
  <1>1. PICK t : t = SavedPlayer(p)
    OBVIOUS
  <1>2. /\ t.mail = <<>> /\ t.fees = 0 /\ t.auctionhouse = <<>> /\ t.bid = <<>>
        /\ t.gold = Row(p, money[p])
    BY <1>1 DEF SavedPlayer, NoRows
  <1>3. DOMAIN Row(p, money[p]) = {p} /\ Row(p, money[p])[p] = money[p]
    BY DEF Row
  <1> QED  BY <1>1, <1>2, <1>3, EmptyRows

\* A save mends the row of the purse, and nothing else changes.
LEMMA SaveMoney ==
    ASSUME MoneyInv, ItemInv', NEW p \in Player, Save(p)
    PROVE  MoneyInv'
  <1>1. PICK path, last : Before(path, last)
    BY Start DEF MoneyInv
  <1>2. PICK t : t = SavedPlayer(p)
    OBVIOUS
  <1>3. /\ p \in Online /\ CommitTransaction(t) /\ server' = server /\ base' = base
        /\ state' = state /\ AuctionsMap' = AuctionsMap /\ money' = money
    BY <1>2 DEF Save, playerVars, runVars
  <1>4. server = "up" /\ server' = "up" /\ money \in [Player -> Nat]
    BY <1>1, <1>3, BeforeFacts DEF Before, MemoryTypes, Online
  <1>5. DOMAIN t.mail = {} /\ t.fees = 0 /\ DOMAIN t.gold = {p}
    BY <1>2, SavedMoney
  <1>6. PICK next : next = Applied(last, t)
    OBVIOUS
  <1>7. t \in Operations /\ next \in Tables /\ AuctionsMap' = next.auctionhouse
    BY ONLY ItemInv', <1>1, <1>3, <1>4, <1>6, Queued
  <1>8. last \in Tables /\ AuctionsMap = last.auctionhouse
    BY <1>1, <1>4, BeforeFacts DEF Before, MemoryAgrees
  <1>9. next.mail = last.mail /\ next.auctionhouse = last.auctionhouse
    BY <1>3, <1>5, <1>6, <1>7, <1>8, NoMails
  <1>10. Sound(next)
    <2>1. Sound(last)
      BY <1>1, MoneyFacts
    <2> QED  BY <1>9, <2>1 DEF Sound
  <1>11. /\ Total(MailMoney(last.mail), MailId) \in Nat
         /\ Total(AuctionMoney(last.auctionhouse), AuctionId) \in Nat
    BY <1>8, Counts
  <1>12. 0 + Total(MailMoney(next.mail), MailId)
           + Total(AuctionMoney(next.auctionhouse), AuctionId) + t.fees
           = Total(MailMoney(last.mail), MailId)
             + Total(AuctionMoney(last.auctionhouse), AuctionId)
    BY ONLY <1>5, <1>9, <1>11
  <1>13. /\ \A q \in Player \ {p} : money'[q] = money[q] /\ q \notin DOMAIN t.gold
         /\ p \in Player => p \in Online
         /\ 0 \in Int
         /\ IF p \in Player THEN money'[p] = money[p] + 0 ELSE 0 = 0
    BY <1>3, <1>4, <1>5
  <1> QED  BY ONLY MoneyInv, ItemInv', <1>1, <1>3, <1>4, <1>6, <1>10, <1>12, <1>13, Transfer

\* Operations that move no money, of players who come or go
LEMMA PurseMoney ==
    ASSUME MoneyInv, ItemInv', NEW path, NEW last, Before(path, last), NEW t,
           CommitTransaction(t), server = "up", server' = "up", base' = base,
           AuctionsMap' = AuctionsMap, DOMAIN t.mail = {}, t.fees = 0,
           NEW next, next = Applied(last, t),
           \A q \in Player : Cash(next)'[q] = Cash(last)[q]
    PROVE  MoneyInv'
  <1>1. t \in Operations /\ next \in Tables /\ AuctionsMap' = next.auctionhouse
    BY ONLY ItemInv', Before(path, last), CommitTransaction(t), server' = "up",
            next = Applied(last, t), Queued
  <1>2. last \in Tables /\ AuctionsMap = last.auctionhouse /\ money \in [Player -> Nat]
    BY BeforeFacts DEF Before, MemoryAgrees, MemoryTypes
  <1>3. next.mail = last.mail /\ next.auctionhouse = last.auctionhouse
    BY <1>1, <1>2, NoMails
  <1>4. next.fees = last.fees
    BY <1>2 DEF Applied, Tables
  <1>5. Sound(next)
    <2>1. Sound(last)
      BY MoneyFacts
    <2> QED  BY <1>3, <2>1 DEF Sound
  <1>6. PICK old, new : old = Cash(last) /\ new = Cash(next)'
    OBVIOUS
  <1>7. \A q \in Player : last.gold[q] \in Nat
    BY <1>2, Counts
  <1>8. \A q \in Player : old[q] \in Nat /\ new[q] = old[q]
    BY <1>2, <1>6, <1>7 DEF Cash
  <1>9. Total(old, Player) = Total(new, Player)
    <2>1. IsFiniteSet(Player)
      BY AuctionHouseAssumption
    <2> QED  BY ONLY <1>8, <2>1, SameTotal
  <1>10. Total(old, Player) + Elsewhere(last) = base
    <2>1. MoneyOn(path)
      BY DEF MoneyInv, Before, PathInv
    <2> QED  BY <1>6, <2>1 DEF MoneyOn, Conserved, Before
  <1>11. Elsewhere(next) = Elsewhere(last)
    BY <1>3, <1>4 DEF Elsewhere
  <1>12. Conserved(next)'
    BY <1>6, <1>9, <1>10, <1>11 DEF Conserved
  <1> QED  BY <1>5, <1>12, QueuedMoney

\* LogoutPlayer: the row has what the purse had.
LEMMA LogoutMoney ==
    ASSUME MoneyInv, ItemInv', NEW p \in Player, LogoutPlayer(p)
    PROVE  MoneyInv'
  <1>1. PICK path, last : Before(path, last)
    BY Start DEF MoneyInv
  <1>2. PICK t : t = SavedPlayer(p)
    OBVIOUS
  <1>3. /\ p \in Online /\ CommitTransaction(t) /\ server' = server /\ base' = base
        /\ AuctionsMap' = AuctionsMap
        /\ state' = [state EXCEPT ![p] = "offline"] /\ money' = [money EXCEPT ![p] = 0]
    BY <1>2 DEF LogoutPlayer, runVars
  <1>4. /\ server = "up" /\ server' = "up" /\ money \in [Player -> Nat]
        /\ state \in [Player -> {"offline", "login", "online"}]
    BY <1>1, <1>3, BeforeFacts DEF Before, MemoryTypes, Online
  <1>5. /\ DOMAIN t.mail = {} /\ t.fees = 0 /\ DOMAIN t.gold = {p} /\ t.gold[p] = money[p]
    BY <1>2, SavedMoney
  <1>6. PICK next : next = Applied(last, t)
    OBVIOUS
  <1>7. t \in Operations /\ last \in Tables
    <2>1. t \in Operations
      BY ONLY ItemInv', <1>1, <1>3, Queued
    <2> QED  BY <1>1, <2>1, BeforeFacts
  <1>8. \A q \in Player : next.gold[q] = IF q = p THEN money[p] ELSE last.gold[q]
    BY <1>5, <1>6, <1>7, NextRows
  <1>9. \A q \in Player : Cash(next)'[q] = Cash(last)[q]
    <2> TAKE q \in Player
    <2>1. Cash(next)'[q] = IF state'[q] = "online" THEN money'[q] ELSE next.gold[q]
      BY DEF Cash, Online
    <2>2. Cash(last)[q] = IF state[q] = "online" THEN money[q] ELSE last.gold[q]
      BY DEF Cash, Online
    <2>3. CASE q = p
      BY <1>3, <1>4, <1>8, <2>1, <2>2, <2>3 DEF Online
    <2>4. CASE q # p
      BY <1>3, <1>4, <1>8, <2>1, <2>2, <2>4
    <2> QED  BY <2>3, <2>4
  <1> QED  BY ONLY MoneyInv, ItemInv', <1>1, <1>3, <1>4, <1>5, <1>6, <1>9, PurseMoney

\* HandlePlayerLogin queues a query.
LEMMA LoginMoney ==
    ASSUME MoneyInv, ItemInv', NEW p \in Player, HandlePlayerLogin(p)
    PROVE  MoneyInv'
  <1>1. PICK path, last : Before(path, last)
    BY Start DEF MoneyInv
  <1>2. PICK t : t = [NoRows EXCEPT !.login = p]
    OBVIOUS
  <1>3. /\ CommitTransaction(t) /\ server = "up" /\ server' = server /\ base' = base
        /\ AuctionsMap' = AuctionsMap /\ money' = money
        /\ state[p] = "offline" /\ state' = [state EXCEPT ![p] = "login"]
    BY <1>2 DEF HandlePlayerLogin, DelayQueryHolder, CommitTransaction, runVars
  <1>4. /\ server' = "up" /\ state \in [Player -> {"offline", "login", "online"}]
    BY <1>1, <1>3 DEF Before, MemoryTypes
  <1>5. DOMAIN t.mail = {} /\ t.fees = 0
    BY <1>2, EmptyRows DEF NoRows
  <1>6. PICK next : next = Applied(last, t)
    OBVIOUS
  <1>7. next = last
    BY <1>1, <1>2, <1>6, BeforeFacts, LoginChangesNothing
  <1>8. \A q \in Player : Cash(next)'[q] = Cash(last)[q]
    <2> TAKE q \in Player
    <2>1. Cash(next)'[q] = IF state'[q] = "online" THEN money'[q] ELSE next.gold[q]
      BY DEF Cash, Online
    <2>2. Cash(last)[q] = IF state[q] = "online" THEN money[q] ELSE last.gold[q]
      BY DEF Cash, Online
    <2> QED  BY <1>3, <1>4, <1>7, <2>1, <2>2
  <1> QED  BY ONLY MoneyInv, ItemInv', <1>1, <1>3, <1>4, <1>5, <1>6, <1>8, PurseMoney

\* Steps that neither queue nor execute anything
LEMMA StillMoney ==
    ASSUME MoneyInv, ItemInv', NEW path, NEW last, Before(path, last),
           dbQueue' = dbQueue, db' = db, base' = base, server # "down",
           \A q \in Player : Cash(last)'[q] = Cash(last)[q]
    PROVE  MoneyInv'
  <1>1. PICK old, new : old = Cash(last) /\ new = Cash(last)'
    OBVIOUS
  <1>2. last \in Tables /\ money \in [Player -> Nat]
    BY BeforeFacts DEF Before, MemoryTypes
  <1>3. \A q \in Player : last.gold[q] \in Nat
    BY <1>2, Counts
  <1>4. \A q \in Player : old[q] \in Nat /\ new[q] = old[q]
    BY <1>1, <1>2, <1>3 DEF Cash
  <1>5. Total(old, Player) = Total(new, Player)
    <2>1. IsFiniteSet(Player)
      BY AuctionHouseAssumption
    <2> QED  BY ONLY <1>4, <2>1, SameTotal
  <1>6. ASSUME NEW other \in [Nat -> Tables], PathFrom(other)'
        PROVE  MoneyOn(other)'
    <2>1. PathFrom(other)
      BY <1>6 DEF PathFrom
    <2>2. MoneyOn(other) /\ other[Len(dbQueue)] = last
      BY <2>1, PathEnd DEF MoneyInv
    <2>3. Conserved(last)
      BY <2>2 DEF MoneyOn
    <2>4. Conserved(last)'
      BY <1>1, <1>5, <2>3 DEF Conserved
    <2>5. \A k \in 0..Len(dbQueue') : Covered(other[k])' /\ Sound(other[k])
      BY <2>2 DEF MoneyOn, Covered
    <2>6. other[Len(dbQueue')] = last
      BY <2>2
    <2> QED  BY <2>4, <2>5, <2>6 DEF MoneyOn
  <1> QED  BY <1>6 DEF MoneyInv

\* Player::LoadFromDB: the purse is what the row says.
LEMMA LoadFromDBMoney ==
    ASSUME MoneyInv, ItemInv', NEW p \in Player, LoadFromDB(p)
    PROVE  MoneyInv'
  <1>1. PICK path, last : Before(path, last)
    BY Start DEF MoneyInv
  <1>2. /\ state[p] = "login" /\ holder[p] # None
        /\ money' = [money EXCEPT ![p] = holder[p].gold]
        /\ state' = [state EXCEPT ![p] = "online"]
        /\ dbQueue' = dbQueue /\ db' = db /\ base' = base
    BY DEF LoadFromDB, runVars
  <1>3. /\ state \in [Player -> {"offline", "login", "online"}] /\ money \in [Player -> Nat]
        /\ server = "up"
    BY <1>1, <1>2 DEF Before, MemoryTypes, OfflineEmpty
  <1>4. holder[p].gold = last.gold[p]
    <2>1. holder[p] = [gold |-> last.gold[p], items |-> ItemsOf(last, p)]
      BY <1>1, <1>2 DEF Before, PathInv, AnswerHolds
    <2> QED  BY <2>1
  <1>5. \A q \in Player : Cash(last)'[q] = Cash(last)[q]
    <2> TAKE q \in Player
    <2>1. Cash(last)'[q] = IF state'[q] = "online" THEN money'[q] ELSE last.gold[q]
      BY DEF Cash, Online
    <2>2. Cash(last)[q] = IF state[q] = "online" THEN money[q] ELSE last.gold[q]
      BY DEF Cash, Online
    <2> QED  BY <1>2, <1>3, <1>4, <2>1, <2>2
  <1> QED  BY <1>1, <1>2, <1>3, <1>5, StillMoney

\* HandleGetMailList, and the last step of the start, read the tables only.
LEMMA ReadingMoney ==
    ASSUME MoneyInv, ItemInv', server # "down",
           UNCHANGED <<db, dbQueue, base, state, money>>
    PROVE  MoneyInv'
  <1>1. PICK path, last : Before(path, last)
    BY Start DEF MoneyInv
  <1>2. \A q \in Player : Cash(last)'[q] = Cash(last)[q]
    BY DEF Cash, Online
  <1> QED  BY <1>1, <1>2, StillMoney

-----------------------------------------------------------------------------
(* The worker of the database, crash and start                             *)

\* The worker takes the first step of the path.
LEMMA ExecuteMoney ==
    ASSUME MoneyInv, ItemInv', Execute
    PROVE  MoneyInv'
  <1>1. PICK path, last : Before(path, last)
    BY Start DEF MoneyInv
  <1>2. PICK n, t : n = Len(dbQueue) /\ t = dbQueue[1]
    OBVIOUS
  <1>3. /\ n \in Nat \ {0} /\ t = Head(dbQueue) /\ dbQueue \in Seq(Operations)
        /\ t.login = None \/ t.login # None
    BY <1>1, <1>2 DEF Before, MemoryTypes, Execute
  <1>4. /\ Len(dbQueue') = n - 1
        /\ \A k \in 1..(n - 1) : dbQueue'[k] = dbQueue[k + 1]
    BY <1>2, <1>3 DEF Execute
  <1>5. /\ path \in [Nat -> Tables] /\ path[0] = db /\ path[1] = Applied(db, t)
        /\ t.login # None => path[1] = path[0]
    <2>1. path \in [Nat -> Tables] /\ PathFrom(path) /\ LoginLoadsLast(path)
      BY <1>1 DEF Before, PathInv
    <2>2. 1 \in 1..Len(dbQueue) /\ 1 - 1 = 0
      BY <1>2, <1>3
    <2>3. path[0] = db /\ path[1] = Applied(path[1 - 1], dbQueue[1])
      BY <2>1, <2>2 DEF PathFrom
    <2>4. dbQueue[1].login # None => path[1] = path[1 - 1]
      BY <2>1, <2>2 DEF LoginLoadsLast
    <2> QED  BY <1>2, <2>1, <2>2, <2>3, <2>4
  <1>6. db' = Applied(db, t)
    BY <1>3, <1>5 DEF Execute, ExecuteTransaction, Applied
  <1>7. state' = state /\ money' = money /\ base' = base /\ server' = server
    BY DEF Execute, runVars
  <1>8. ASSUME NEW new \in [Nat -> Tables], PathFrom(new)'
        PROVE  MoneyOn(new)'
    <2>1. PICK whole \in [Nat -> Tables] :
             whole[0] = db /\ \A k \in Nat \ {0} : whole[k] = new[k - 1]
      <3>1. db \in Tables
        BY <1>5
      <3>2. [k \in Nat |-> IF k = 0 THEN db ELSE new[k - 1]] \in [Nat -> Tables]
        BY <3>1
      <3> QED  BY <3>2
    <2>2. /\ new[0] = db'
          /\ \A k \in 1..(n - 1) : new[k] = Applied(new[k - 1], dbQueue'[k])
      BY <1>4, <1>8 DEF PathFrom
    <2>3. PathFrom(whole)
      <3> SUFFICES ASSUME NEW k \in 1..n
                   PROVE  whole[k] = Applied(whole[k - 1], dbQueue[k])
        BY <1>2, <2>1 DEF PathFrom
      <3>1. CASE k = 1
        BY <1>2, <1>3, <1>6, <2>1, <2>2, <3>1
      <3>2. CASE k # 1
        <4>1. PICK j : j = k - 1
          OBVIOUS
        <4>2. j \in 1..(n - 1) /\ k = j + 1 /\ j \in Nat \ {0}
          BY <1>3, <3>2, <4>1
        <4>3. new[j] = Applied(new[j - 1], dbQueue[j + 1])
          BY <1>4, <2>2, <4>2
        <4>4. whole[k] = new[j] /\ whole[j] = new[j - 1]
          BY <1>3, <2>1, <4>1, <4>2
        <4> QED  BY <4>1, <4>2, <4>3, <4>4
      <3> QED  BY <3>1, <3>2
    <2>4. /\ \A k \in 0..n : Covered(whole[k]) /\ Sound(whole[k])
          /\ server # "down" => Conserved(whole[n])
      BY <1>2, <2>3 DEF MoneyInv, MoneyOn
    <2>5. \A k \in 0..(n - 1) : Covered(new[k])' /\ Sound(new[k])
      <3> TAKE k \in 0..(n - 1)
      <3>1. PICK j : j = k + 1
        OBVIOUS
      <3>2. j \in 0..n /\ j \in Nat \ {0} /\ j - 1 = k
        BY <1>3, <3>1
      <3>3. whole[j] = new[k]
        BY <2>1, <3>2
      <3>4. Covered(whole[j]) /\ Sound(whole[j])
        BY <2>4, <3>2
      <3> QED  BY <1>7, <3>3, <3>4 DEF Covered
    <2>6. PICK end : end = whole[n]
      OBVIOUS
    <2>7. new[Len(dbQueue')] = end
      BY <1>3, <1>4, <2>1, <2>6
    <2>8. Conserved(end)' <=> Conserved(end)
      BY <1>7 DEF Conserved, Cash, Online
    <2> QED  BY <1>4, <1>7, <2>4, <2>5, <2>6, <2>7, <2>8 DEF MoneyOn
  <1> QED  BY <1>7, <1>8 DEF MoneyInv

\* A crash leaves the first table of the path.
LEMMA CrashMoney ==
    ASSUME MoneyInv, ItemInv', Crash
    PROVE  MoneyInv'
  <1>1. PICK path, last : Before(path, last)
    BY Start DEF MoneyInv
  <1>2. Covered(db) /\ Sound(db)
    <2>1. MoneyOn(path) /\ path[0] = db /\ Len(dbQueue) \in Nat
      BY <1>1 DEF MoneyInv, Before, PathInv, PathFrom, MemoryTypes
    <2> QED  BY <2>1 DEF MoneyOn
  <1>3. dbQueue' = <<>> /\ db' = db /\ base' = base /\ server' = "down"
    BY DEF Crash
  <1>4. Len(dbQueue') = 0
    BY <1>3
  <1>5. ASSUME NEW new \in [Nat -> Tables], PathFrom(new)'
        PROVE  MoneyOn(new)'
    <2>1. new[0] = db
      BY <1>3, <1>5 DEF PathFrom
    <2>2. \A k \in 0..Len(dbQueue') : k = 0
      BY <1>4
    <2>3. Covered(new[0])' /\ Sound(new[0])
      BY <1>2, <1>3, <2>1 DEF Covered
    <2>4. \A k \in 0..Len(dbQueue') : Covered(new[k])' /\ Sound(new[k])
      BY <2>2, <2>3
    <2> QED  BY <1>3, <2>4 DEF MoneyOn
  <1> QED  BY <1>3, <1>5 DEF MoneyInv

\* Persisted is the sum of the tables.
LEMMA PersistedWealth ==
    ASSUME db \in Tables
    PROVE  Persisted = Wealth(db) /\ Persisted \in Nat
  <1>1. MapThenSumSet(LAMBDA p : db.gold[p], Player) = Total(db.gold, Player)
    BY DEF MapThenSumSet, MapThenFoldSet, Total, SumLoop, SumFrom, AnyOf
  <1>2. MapThenSumSet(LAMBDA m : MoneyInMails[m], MailId) = Total(MoneyInMails, MailId)
    BY DEF MapThenSumSet, MapThenFoldSet, Total, SumLoop, SumFrom, AnyOf
  <1>3. MapThenSumSet(LAMBDA id : MoneyInAuctions[id], AuctionId)
          = Total(MoneyInAuctions, AuctionId)
    BY DEF MapThenSumSet, MapThenFoldSet, Total, SumLoop, SumFrom, AnyOf
  <1>4. /\ MoneyInMails = MailMoney(db.mail)
        /\ MoneyInAuctions = AuctionMoney(db.auctionhouse)
    BY DEF MoneyInMails, MoneyInAuctions, MailMoney, AuctionMoney
  <1>5. /\ Total(db.gold, Player) \in Nat /\ Total(MailMoney(db.mail), MailId) \in Nat
        /\ Total(AuctionMoney(db.auctionhouse), AuctionId) \in Nat /\ db.fees \in Nat
        /\ Wealth(db) \in Nat
    BY Counts
  <1>6. Persisted = Total(db.gold, Player) + Total(MailMoney(db.mail), MailId)
                    + Total(AuctionMoney(db.auctionhouse), AuctionId) + db.fees
    BY <1>1, <1>2, <1>3, <1>4 DEF Persisted
  <1>7. Persisted = Wealth(db)
    BY <1>5, <1>6 DEF Wealth, Elsewhere
  <1> QED  BY <1>5, <1>7

\* While nobody plays all money is in the tables.
LEMMA NobodyPlays ==
    ASSUME NEW tables \in Tables, NEW cash, \A q \in Player : cash[q] = tables.gold[q],
           NEW sum, sum = Wealth(tables)
    PROVE  /\ Total(cash, Player) + Elsewhere(tables) = sum
           /\ sum <= Wealth(tables) /\ Wealth(tables) <= sum + Deposit * Cardinality(Player)
  <1>1. IsFiniteSet(Player) /\ Deposit \in Nat /\ \A q \in Player : tables.gold[q] \in Nat
    BY AuctionHouseAssumption, Counts
  <1>2. Total(tables.gold, Player) = Total(cash, Player)
    BY <1>1, SameTotal
  <1>3. Wealth(tables) \in Nat
    BY Counts
  <1>4. Cardinality(Player) \in Nat
    BY <1>1, FS_CardinalityType
  <1>5. Deposit * Cardinality(Player) \in Nat
    BY <1>1, <1>4
  <1> QED  BY <1>2, <1>3, <1>5 DEF Wealth

\* The start of the server counts the money that the tables have.
LEMMA StartupMoney ==
    ASSUME MoneyInv, ItemInv', DeleteExpiredAuctionsAtStartup
    PROVE  MoneyInv'
  <1>1. PICK path, last : Before(path, last)
    BY Start DEF MoneyInv
  <1>2. /\ server = "down" /\ server' = "loading" /\ base' = Persisted
        /\ db' = db /\ dbQueue' = dbQueue /\ state' = state
    BY <1>1 DEF DeleteExpiredAuctionsAtStartup, Before, playerVars
  <1>3. dbQueue = <<>> /\ \A q \in Player : state[q] = "offline"
    BY <1>1, <1>2 DEF Before, OfflineEmpty
  <1>4. db \in Tables /\ Sound(db)
    <2>1. MoneyOn(path) /\ path[0] = db /\ Len(dbQueue) = 0 /\ path \in [Nat -> Tables]
      BY <1>1, <1>3 DEF MoneyInv, Before, PathInv, PathFrom
    <2> QED  BY <2>1 DEF MoneyOn
  <1>5. base' = Wealth(db) /\ base' \in Nat
    BY <1>2, <1>4, PersistedWealth
  <1>6. PICK tables, cash, sum : tables = db /\ cash = Cash(tables)' /\ sum = base'
    OBVIOUS
  <1>7. \A q \in Player : cash[q] = tables.gold[q]
    BY <1>2, <1>3, <1>6 DEF Cash, Online
  <1>8. /\ Total(cash, Player) + Elsewhere(tables) = sum
        /\ sum <= Wealth(tables) /\ Wealth(tables) <= sum + Deposit * Cardinality(Player)
    BY <1>4, <1>5, <1>6, <1>7, NobodyPlays
  <1>9. Conserved(tables)' /\ Covered(tables)'
    BY <1>6, <1>8 DEF Conserved, Covered
  <1>10. ASSUME NEW new \in [Nat -> Tables], PathFrom(new)'
         PROVE  MoneyOn(new)'
    <2>1. new[0] = tables /\ Len(dbQueue') = 0
      BY <1>2, <1>3, <1>6, <1>10 DEF PathFrom
    <2>2. \A k \in 0..Len(dbQueue') : k = 0
      BY <2>1
    <2>3. Covered(new[0])' /\ Sound(new[0])
      BY <1>4, <1>6, <1>9, <2>1
    <2>4. \A k \in 0..Len(dbQueue') : Covered(new[k])' /\ Sound(new[k])
      BY <2>2, <2>3
    <2>5. new[Len(dbQueue')] = tables
      BY <2>1
    <2> QED  BY <1>9, <2>4, <2>5 DEF MoneyOn
  <1> QED  BY <1>5, <1>10 DEF MoneyInv

\* At the start every player has the same.
LEMMA MoneyInit ==
    ASSUME Init, ~ExpireWhileDown, NoWrap
    PROVE  MoneyInv
  <1>1. ItemInv
    BY ItemInit
  <1>2. db \in Tables
    BY AuctionHouseAssumption DEF Init, Tables
  <1>3. /\ StartMoney \in Nat /\ IsFiniteSet(Player) /\ IsFiniteSet(MailId)
        /\ IsFiniteSet(AuctionId)
    BY AuctionHouseAssumption
  <1>4. Total(db.gold, Player) = StartMoney * Cardinality(Player)
    <2>1. \A q \in Player : db.gold[q] = StartMoney
      BY DEF Init
    <2> QED  BY <1>3, <2>1, EvenRows
  <1>5. Total(MailMoney(db.mail), MailId) = 0 * Cardinality(MailId)
    <2>1. \A m \in MailId : MailMoney(db.mail)[m] = 0
      BY DEF Init, MailMoney
    <2> QED  BY <1>3, <2>1, EvenRows
  <1>6. Total(AuctionMoney(db.auctionhouse), AuctionId) = 0 * Cardinality(AuctionId)
    <2>1. \A id \in AuctionId : AuctionMoney(db.auctionhouse)[id] = 0
      BY DEF Init, AuctionMoney
    <2> QED  BY <1>3, <2>1, EvenRows
  <1>7. base = Wealth(db) /\ base \in Nat
    <2>1. /\ Cardinality(Player) \in Nat /\ Cardinality(MailId) \in Nat
          /\ Cardinality(AuctionId) \in Nat
      BY <1>3, FS_CardinalityType
    <2>2. /\ 0 * Cardinality(MailId) = 0 /\ 0 * Cardinality(AuctionId) = 0
          /\ StartMoney * Cardinality(Player) = Cardinality(Player) * StartMoney
          /\ Cardinality(Player) * StartMoney \in Nat
      BY <1>3, <2>1
    <2>3. base = Cardinality(Player) * StartMoney /\ db.fees = 0
      BY DEF Init
    <2>4. Wealth(db) = base + (0 + 0 + 0)
      BY <1>4, <1>5, <1>6, <2>2, <2>3 DEF Wealth, Elsewhere
    <2> QED  BY <2>2, <2>3, <2>4
  <1>8. Sound(db)
    BY DEF Init, Sound
  <1>9. PICK cash : cash = Cash(db)
    OBVIOUS
  <1>10. \A q \in Player : cash[q] = db.gold[q]
    BY <1>9 DEF Cash, Online, Init
  <1>11. Conserved(db) /\ Covered(db)
    <2>1. /\ Total(cash, Player) + Elsewhere(db) = base
          /\ base <= Wealth(db) /\ Wealth(db) <= base + Deposit * Cardinality(Player)
      BY <1>2, <1>7, <1>10, NobodyPlays
    <2> QED  BY <1>9, <2>1 DEF Conserved, Covered
  <1>12. ASSUME NEW path \in [Nat -> Tables], PathFrom(path)
         PROVE  MoneyOn(path)
    <2>1. path[0] = db /\ Len(dbQueue) = 0
      BY <1>12 DEF PathFrom, Init
    <2>2. \A k \in 0..Len(dbQueue) : k = 0
      BY <2>1
    <2> QED  BY <1>8, <1>11, <2>1, <2>2 DEF MoneyOn
  <1> QED  BY <1>1, <1>7, <1>12 DEF MoneyInv

\* Every step keeps the invariant.
LEMMA MoneyStep == MoneyInv /\ [Next]_vars => MoneyInv'
  <1> SUFFICES ASSUME MoneyInv, [Next]_vars  PROVE MoneyInv'
    OBVIOUS
  <1>0. ItemInv'
    BY ItemStep DEF MoneyInv
  <1>1. ASSUME NEW p \in Player, NEW i \in Item, NEW startbid \in Prices,
               NEW buyout \in Prices \union {0}, SellItem(p, i, startbid, buyout)
        PROVE  MoneyInv'
    BY <1>0, <1>1, SellItemMoney
  <1>2. ASSUME NEW p \in Player, NEW id \in AuctionId, NEW price \in Prices,
               PlaceBid(p, id, price) \/ Buyout(p, id, price)
        PROVE  MoneyInv'
    BY <1>0, <1>2, PlaceBidMoney, BuyoutMoney
  <1>3. ASSUME NEW p \in Player, NEW id \in AuctionId, RemoveItem(p, id)
        PROVE  MoneyInv'
    BY <1>0, <1>3, RemoveItemMoney
  <1>4. ASSUME NEW id \in AuctionId, ExpireAuction(id)
        PROVE  MoneyInv'
    BY <1>0, <1>4, ExpireAuctionMoney
  <1>5. ASSUME NEW p \in Player, Save(p) \/ LogoutPlayer(p)
        PROVE  MoneyInv'
    BY <1>0, <1>5, SaveMoney, LogoutMoney
  <1>6. ASSUME NEW p \in Player, GetMailList(p)
        PROVE  MoneyInv'
    <2>1. PICK path, last : Before(path, last)
      BY Start DEF MoneyInv
    <2>2. p \in Online /\ UNCHANGED <<db, dbQueue, base, state, money>>
      BY <1>6 DEF GetMailList, playerVars, runVars
    <2>3. server = "up"
      BY <2>1, <2>2, BeforeFacts DEF Online
    <2> QED  BY <1>0, <2>2, <2>3, ReadingMoney
  <1>7. ASSUME NEW p \in Player, HandlePlayerLogin(p) \/ LoadFromDB(p)
        PROVE  MoneyInv'
    BY <1>0, <1>7, LoginMoney, LoadFromDBMoney
  <1>8. ASSUME NEW p \in Player, NEW m \in MailId, TakeMoney(p, m) \/ TakeItem(p, m)
        PROVE  MoneyInv'
    BY <1>0, <1>8, TakeMoneyOrItem
  <1>9. CASE Execute
    BY <1>0, <1>9, ExecuteMoney
  <1>10. CASE Crash
    BY <1>0, <1>10, CrashMoney
  <1>11. CASE DeleteExpiredAuctionsAtStartup
    BY <1>0, <1>11, StartupMoney
  <1>12. CASE LoadAuctions
    <2>1. server = "loading" /\ UNCHANGED <<db, dbQueue, base, state, money>>
      BY <1>12 DEF LoadAuctions, playerVars
    <2> QED  BY <1>0, <2>1, ReadingMoney
  <1>13. CASE UNCHANGED vars
    <2>1. UNCHANGED <<db, dbQueue, base, state, money, server>>
      BY <1>13 DEF vars, playerVars, runVars
    <2>2. \A path : PathFrom(path)' <=> PathFrom(path)
      BY <2>1 DEF PathFrom
    <2>3. \A path : MoneyOn(path)' <=> MoneyOn(path)
      BY <2>1 DEF MoneyOn, Conserved, Covered, Cash, Online
    <2> QED  BY <1>0, <2>1, <2>2, <2>3 DEF MoneyInv
  <1> QED  BY <1>1, <1>2, <1>3, <1>4, <1>5, <1>6, <1>7, <1>8, <1>9, <1>10, <1>11, <1>12, <1>13
           DEF Next

\* Whenever the server dies, the tables hold all money there was, and at most one deposit
\* of each player too much: for all players, prices, deposits and cuts, every length of the
\* queue and any number of crashes, as long as no price is cut off by the 32 bits of an
\* auction (NoWrap) and no auction ends while the server is down.
THEOREM MoneyKept == ~ExpireWhileDown /\ NoWrap /\ Spec => []MoneyConserved
  <1>1. ~ExpireWhileDown /\ NoWrap /\ Init => MoneyInv
    BY MoneyInit
  <1>2. MoneyInv => MoneyConserved
    <2> SUFFICES ASSUME MoneyInv  PROVE MoneyConserved
      OBVIOUS
    <2>1. PICK path, last : Before(path, last)
      BY Start DEF MoneyInv
    <2>2. MoneyOn(path) /\ path[0] = db /\ Len(dbQueue) \in Nat /\ db \in Tables
      BY <2>1 DEF MoneyInv, Before, PathInv, PathFrom, MemoryTypes
    <2>3. Covered(db)
      BY <2>2 DEF MoneyOn
    <2>4. Persisted = Wealth(db) /\ Persisted \in Nat
      BY <2>2, PersistedWealth
    <2>5. base \in Nat
      BY DEF MoneyInv
    <2> QED  BY <2>3, <2>4, <2>5 DEF Covered, MoneyConserved
  <1> QED  BY <1>1, <1>2, MoneyStep, PTL DEF Spec

-----------------------------------------------------------------------------
(* Types                                                                   *)

\* What ItemInv leaves open of TypeOK: the bound of the queue and the run of the server
RunTypes ==
    /\ Len(dbQueue) <= MaxQueue
    /\ server \in {"up", "down", "loading"}
    /\ base \in Nat
    /\ crashes \in 0..MaxCrashes

\* An operation that is queued finds room.
LEMMA QueueHasRoom ==
    ASSUME dbQueue \in Seq(Operations), NEW t, Enqueue(t)
    PROVE  Len(dbQueue') <= MaxQueue
  <1>1. MaxQueue \in Nat /\ Len(dbQueue) \in Nat
    BY AuctionHouseAssumption
  <1>2. Len(dbQueue') = Len(dbQueue) + 1
    BY DEF Enqueue
  <1> QED  BY <1>1, <1>2 DEF Enqueue

\* A step of a handler queues an operation, or leaves the queue alone.
LEMMA HandlerTypes ==
    ASSUME dbQueue \in Seq(Operations), RunTypes, UNCHANGED runVars,
           dbQueue' = dbQueue \/ \E t : Enqueue(t)
    PROVE  RunTypes'
  <1>1. Len(dbQueue') <= MaxQueue
    BY QueueHasRoom DEF RunTypes
  <1> QED  BY <1>1 DEF RunTypes, runVars

\* Every step keeps the bound and the types of the run.
LEMMA RunTypesStep == ItemInv /\ RunTypes /\ [Next]_vars => RunTypes'
  <1> SUFFICES ASSUME ItemInv, RunTypes, [Next]_vars
               PROVE  RunTypes'
    OBVIOUS
  <1>0. /\ dbQueue \in Seq(Operations) /\ Len(dbQueue) \in Nat /\ ~ExpireWhileDown
        /\ MaxQueue \in Nat /\ MaxCrashes \in Nat
    BY AuctionHouseAssumption DEF ItemInv, MemoryTypes
  <1>1. ASSUME NEW p \in Player, NEW i \in Item, NEW startbid, NEW buyout,
               SellItem(p, i, startbid, buyout)
        PROVE  RunTypes'
    BY <1>0, <1>1, HandlerTypes DEF SellItem, CommitTransaction
  <1>2. ASSUME NEW p \in Player, NEW id \in AuctionId, NEW price,
               PlaceBid(p, id, price) \/ Buyout(p, id, price)
        PROVE  RunTypes'
    BY <1>0, <1>2, HandlerTypes DEF PlaceBid, Buyout, CommitTransaction
  <1>3. ASSUME NEW p \in Player, NEW id \in AuctionId, RemoveItem(p, id)
        PROVE  RunTypes'
    BY <1>0, <1>3, HandlerTypes DEF RemoveItem, CommitTransaction
  <1>4. ASSUME NEW id \in AuctionId, ExpireAuction(id)
        PROVE  RunTypes'
    BY <1>0, <1>4, HandlerTypes DEF ExpireAuction, CommitTransaction
  <1>5. ASSUME NEW p \in Player, GetMailList(p) \/ Save(p) \/ LogoutPlayer(p)
        PROVE  RunTypes'
    BY <1>0, <1>5, HandlerTypes DEF GetMailList, Save, LogoutPlayer, CommitTransaction
  <1>6. ASSUME NEW p \in Player, HandlePlayerLogin(p) \/ LoadFromDB(p)
        PROVE  RunTypes'
    BY <1>0, <1>6, HandlerTypes DEF HandlePlayerLogin, LoadFromDB, DelayQueryHolder
  <1>7. ASSUME NEW p \in Player, NEW m \in MailId, TakeMoney(p, m) \/ TakeItem(p, m)
        PROVE  RunTypes'
    BY <1>0, <1>7, HandlerTypes DEF TakeMoney, TakeItem, CommitTransaction
  <1>8. CASE Execute
    <2>1. dbQueue # <<>> /\ dbQueue' = Tail(dbQueue) /\ UNCHANGED runVars
      BY <1>8 DEF Execute
    <2>2. Len(dbQueue') = Len(dbQueue) - 1
      BY <1>0, <2>1
    <2> QED  BY <1>0, <2>1, <2>2 DEF RunTypes, runVars
  <1>9. CASE Crash
    <2>1. /\ Len(dbQueue') = 0 /\ server' = "down" /\ base' = base
          /\ crashes < MaxCrashes /\ crashes' = crashes + 1
      BY <1>9 DEF Crash
    <2> QED  BY <1>0, <2>1 DEF RunTypes
  <1>10. CASE DeleteExpiredAuctionsAtStartup
    <2>1. db \in Tables
      <3>1. PICK path, last : Before(path, last)
        BY Start
      <3> QED  BY <1>0, <3>1 DEF Before, PathInv, PathFrom
    <2>2. base' = Persisted /\ Persisted \in Nat
      BY <1>10, <2>1, PersistedWealth DEF DeleteExpiredAuctionsAtStartup
    <2>3. server' = "loading" /\ dbQueue' = dbQueue /\ crashes' = crashes
      BY <1>0, <1>10 DEF DeleteExpiredAuctionsAtStartup
    <2> QED  BY <2>2, <2>3 DEF RunTypes
  <1>11. CASE LoadAuctions
    BY <1>11 DEF LoadAuctions, RunTypes
  <1>12. CASE UNCHANGED vars
    BY <1>12 DEF vars, runVars, RunTypes
  <1> QED  BY <1>1, <1>2, <1>3, <1>4, <1>5, <1>6, <1>7, <1>8, <1>9, <1>10, <1>11, <1>12
           DEF Next

\* The tables, the memory and the queue keep their types, and no purse, no table and no
\* sum of money is ever negative: bids, cuts and deposits are only taken from those who
\* have them.  Prices that are cut off by 32 bits are no exception.
THEOREM TypesKept == ~ExpireWhileDown /\ Spec => []TypeOK
  <1>1. ~ExpireWhileDown /\ Init => ItemInv /\ RunTypes
    <2> SUFFICES ASSUME ~ExpireWhileDown, Init  PROVE ItemInv /\ RunTypes
      OBVIOUS
    <2>1. /\ MaxQueue \in Nat /\ MaxCrashes \in Nat /\ StartMoney \in Nat
          /\ Cardinality(Player) \in Nat
      BY AuctionHouseAssumption, FS_CardinalityType
    <2>2. ItemInv
      BY ItemInit
    <2> QED  BY <2>1, <2>2 DEF Init, RunTypes
  <1>2. ItemInv /\ RunTypes => TypeOK
    <2> SUFFICES ASSUME ItemInv, RunTypes  PROVE TypeOK
      OBVIOUS
    <2>1. PICK path, last : Before(path, last)
      BY Start
    <2>2. db \in Tables /\ MemoryTypes
      BY <2>1 DEF Before, PathInv, PathFrom, MemoryTypes
    <2> QED  BY <2>2 DEF Tables, MemoryTypes, RunTypes, TypeOK
  <1> QED  BY <1>1, <1>2, ItemStep, RunTypesStep, PTL DEF Spec
=============================================================================

-------------------------- MODULE CharacterDatabase --------------------------
(***************************************************************************)
(* The character database as the world thread uses it: transactions are    *)
(* queued (CommitTransaction) and executed one after the other by a worker *)
(* of its own (DatabaseWorker), each as a whole; a query of a login waits   *)
(* in the same queue, while other queries read the tables at once, past    *)
(* the queue.  One asynchronous connection, which is the default.          *)
(***************************************************************************)
EXTENDS Integers, Sequences, TLC

CONSTANTS
    Player,     \* characters
    Item,       \* items, none of which can be stacked
    AuctionId,  \* ids of auctions that exist at a time
    MailId,     \* ids of mails with something in them that exist at a time
    None,
    MaxQueue    \* bound on the operations that wait

VARIABLES
    db,         \* the tables, see NoRows
    dbQueue     \* operations that wait for the worker

\* An operation: the rows it writes in each table, by their keys, with None for
\* a row that is deleted; the bids it writes into auctions that have a row; what
\* it takes out of circulation (fees, which no table holds); and the player whose
\* login it loads, if it is the query of a login.
NoRows == [gold |-> <<>>, inventory |-> <<>>, mail |-> <<>>, auctionhouse |-> <<>>,
           bid |-> <<>>, fees |-> 0, login |-> None]

\* A single row
Row(key, value) == [k \in {key} |-> value]

Override(table, rows) ==
    [key \in DOMAIN table |-> IF key \in DOMAIN rows THEN rows[key] ELSE table[key]]

\* CHAR_UPD_AUCTION_BID: without effect on a row that is not there
UpdateBids(table, bids) ==
    [id \in DOMAIN table |->
        IF id \in DOMAIN bids /\ table[id] # None
        THEN [table[id] EXCEPT !.bidder = bids[id].bidder, !.bid = bids[id].bid]
        ELSE table[id]]

\* Faulty: one of several players is not saved.
FaultyExecuteTransaction(t) ==
    [gold         |-> [p \in DOMAIN db.gold |->
                          IF \E q \in DOMAIN t.gold : p = CHOOSE x \in DOMAIN t.gold : TRUE
                          THEN t.gold[p] ELSE db.gold[p]],
     inventory    |-> Override(db.inventory, t.inventory),
     mail         |-> Override(db.mail, t.mail),
     auctionhouse |-> UpdateBids(Override(db.auctionhouse, t.auctionhouse), t.bid),
     fees         |-> db.fees + t.fees]

\* TransactionTask::Execute: all of it or nothing
ExecuteTransaction(t) ==
    [gold         |-> Override(db.gold, t.gold),
     inventory    |-> Override(db.inventory, t.inventory),
     mail         |-> Override(db.mail, t.mail),
     auctionhouse |-> UpdateBids(Override(db.auctionhouse, t.auctionhouse), t.bid),
     fees         |-> db.fees + t.fees]

Enqueue(operation) ==
    /\ Len(dbQueue) < MaxQueue
    /\ dbQueue' = Append(dbQueue, operation)
    /\ UNCHANGED db

CommitTransaction(t) == Enqueue(t)

DelayQueryHolder(p) == Enqueue([NoRows EXCEPT !.login = p])

\* Keys that some operation in the queue writes
QueuedMails == UNION {DOMAIN dbQueue[k].mail : k \in 1..Len(dbQueue)}
QueuedAuctions ==
    UNION {DOMAIN dbQueue[k].auctionhouse \union DOMAIN dbQueue[k].bid : k \in 1..Len(dbQueue)}
=============================================================================

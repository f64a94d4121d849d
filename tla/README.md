# Verification of the world server

This directory holds a TLA+ development kept beside the source of the world
server (a C++ MMORPG server of the TrinityCore family, game version 5.4.8). It
models the parts of the server in which several threads, several clients or a
long sequence of calls share state, checks them on small instances with TLC,
and proves the most important safety properties for all instances with TLAPS.

Paths below are relative to the repository.

## 1. The system

### 1.1 Processes and threads

`worldserver` runs

* **network threads** (`WorldSocketMgr`, ACE reactors): they read packets,
  authenticate clients, construct a `WorldSession` and append packets to the
  session's `_recvQueue`;
* **the world thread** (`WorldRunnable::run`): it calls `World::Update` about
  every 50 ms, which updates sessions, then maps, then everything else, until
  `World::IsStopped`;
* **map workers** (`DelayExecutor`, `MapUpdate.Threads` of them): they execute
  `Map::Update` requests while the world thread waits in `MapUpdater::wait`;
* **database workers** (`DatabaseWorker`), one per asynchronous connection;
* a console thread, an RA thread, a watchdog (`FreezeDetectorRunnable`).

There is almost no locking around game state. Its safety rests on one argument:
the world thread is alone while it updates sessions and everything global, and
during the map update each map, with the sessions of the players on it, belongs
to one worker. Three modules are about the three places that make or break the
argument: who owns a session (`LoginQueue`), when the world thread is alone
(`MapUpdater`), and which packets are processed by which thread
(`SessionPackets`). The second argument of the server is about persistence: game
state lives in memory, is written behind by transactions, and has to be whole
in the tables at whatever moment the process dies. `AuctionHouse` and `Trade`, on
top of `CharacterDatabase`, are about that, and `DatabasePool` about what the
database layer itself promises them.

### 1.2 Inventory

| Component | Source (`src/server/...`) | State | Operations | Correct when |
|---|---|---|---|---|
| Session admission, login queue | `game/World/World.cpp`, `World.h` | `addSessQueue`, `m_sessions`, `m_QueuedPlayer`, `m_disconnects`, `m_playerLimit` | `AddSession`, `AddSession_`, `RemoveSession`, `AddQueuedPlayer`, `RemoveQueuedPlayer`, `UpdateSessions`, `KickAll`, `KickAllLess` | a session has one owner; the queue is FIFO and holds registered sessions; slots are neither wasted nor exceeded |
| Parallel map update | `game/Maps/MapManager.cpp`, `MapUpdater.cpp`, `MapInstanced.cpp`, `shared/Threading/DelayExecutor.cpp` | `i_maps`, `m_InstancedMaps`, `pending_requests`, the executor's queue | `MapManager::Update`, `schedule_update`, `update_finished`, `wait`, `svc`, `DestroyInstance`, `UnloadAll` | the world thread is alone after the barrier; no request outlives its map; each map is updated once per tick |
| Packet processing of a session | `game/Server/WorldSession.cpp`, `Handlers/CharacterHandler.cpp`, `MovementHandler.cpp`, `MiscHandler.cpp` | `_recvQueue`, `_player`, `m_playerLoading`, `m_inQueue`, `_logoutTime` | `Update` with `MapSessionFilter` / `WorldSessionFilter`, login, logout, teleport | no packet lost or handled twice; order kept; one character per session; logout in the world thread only |
| World sockets | `game/Server/WorldSocket.cpp` | output buffers, handshake state | `ProcessIncoming`, `HandleAuthSession`, `SendPacket`, `handle_output` | bytes leave in order; a closed socket is left alone |
| World loop, shutdown timer | `game/World/World.cpp`, `worldserver/WorldThread/WorldRunnable.cpp` | timers, `m_ShutdownTimer`, `m_stopEvent` | `Update`, `_UpdateGameTime`, `ShutdownServ`, `ShutdownCancel` | a shutdown that is asked for happens once, unless cancelled |
| Database layer | `shared/Database/` | queue of operations, connections, open transactions, error of the last call | `Enqueue`, `GetFreeConnection`, `DatabaseWorker::svc`, `ExecuteTransaction`, `_HandleMySQLErrno`, `Close` | an operation is in the tables as a whole or not at all, in the order it was queued, and its caller is told the truth |
| Auction house | `game/AuctionHouse/AuctionHouseMgr.cpp`, `Handlers/AuctionHouseHandler.cpp` | auctions, items on auction, deposits, bids | sell, bid, buy out, cancel, expire, load | item and money each end in exactly one mailbox or purse |
| Mail | `game/Mails/Mail.cpp`, `Handlers/MailHandler.cpp` | mails with items, money, COD | send, take item, take money, return, delete, expire | as above, across restarts |
| Trade | `TradeData` in `game/Entities/Player/Player.cpp`, `Handlers/TradeHandler.cpp` | two `TradeData`, bags and purses of both sides | initiate, set item or gold, cast, accept, unaccept, cancel, exchange | neither side gives something it did not agree to; nothing is doubled or lost, in memory or in the tables |
| Dungeon finder, battleground queues | `game/DungeonFinding/`, `game/Battlegrounds/` | queues, proposals, invitations | join, propose, answer, time out | one invitation at a time, a late answer changes nothing |
| Instance saves | `game/Instances/InstanceSaveMgr.cpp` | saves, binds, reset times | bind, unbind, reset, unload | a save in use is not deleted |
| Groups, guilds, channels, calendar, tickets | `game/Groups`, `Guilds`, `Chat`, `Calendar`, `Tickets` | member lists | join, leave, promote | list and members agree |
| Pools, game events, conditions | `game/Pools`, `Events`, `Conditions` | spawn state | spawn, despawn | content driven |
| Entities, combat, spells, AI, movement | `game/Entities`, `Spells`, `AI`, `Movement` | everything in a map | `Map::Update` | game rules over large data |
| Grids and visibility | `game/Grids` | grid states, visibility sets | load, unload, relocate | |
| Authentication server | `authserver/` | session keys | SRP6 handshake, realm list | |
| Black market, battle pets, achievements | `game/BlackMarket`, `BattlePets`, `Achievements` | bids, pets, progress | bid, expire | |
| Scripts, collision, vendored code, tools, SQL | `scripts/`, `collision/`, `dep/`, `tools/`, `sql/` | | | content and third-party code |

How the modelled ones interact: a network thread hands a session to the world
thread through `addSessQueue`; from then on it only appends to the session's
`_recvQueue` and may mark the socket closed. `UpdateSessions` calls
`WorldSession::Update` with `WorldSessionFilter`; `Map::Update`, in a worker,
calls the same function with `MapSessionFilter` for the players on the map.
Handlers of the auction house, of mailboxes and of trades are `PROCESS_THREADUNSAFE`, so they
run in the world thread one after the other; each changes memory at once and
queues one transaction for the database worker.
`MapInstanced::Update`, in a worker, asks `MapUpdater` for more requests while
the world thread waits for all of them.

### 1.3 What is hard to test

`PROJECT.json` lists the hazards, each at its line. In short:

* **Ownership across reconnects.** An account connects again while its old
  session waits, plays or is loading; sockets close between the hand-over and
  the registration; `RemoveQueuedPlayer` runs twice for a session that leaves.
* **Counting at the limit.** `AddSession_` and `RemoveQueuedPlayer` count
  sessions with and without the one that leaves or comes.
* **The barrier.** Requests are added by workers while the world thread
  waits; the queue is bounded; instances are deleted by workers.
* **Packets out of time.** Packets that come too early are put at the end of
  the queue they came from, into which another thread writes.
* **Two threads, one session.** Login, logout and teleport each switch which
  filter, hence which thread, processes the session's packets.
* **Crash and persistence.** The database is written asynchronously and after
  the memory state; some queries wait in the queue of the writes, others read
  past it; startup settles auctions that ended meanwhile.
* **A store that fails half-way.** Two connections lock rows in opposite
  orders, a statement is refused, a connection is lost in the middle of a
  transaction or after its `COMMIT`, the pool is closed over waiting operations.
* **Two-sided agreement.** Between the two acceptances of a trade either side
  may change its offer, lose an offered item, spend its money, log out; room
  is checked for all items together and used slot by slot, and limits on how many
  items of a kind a player may have are checked for one item after the other.
* **Width.** Prices are 64 bits in packets and purses, 32 in auctions.

## 2. Modules

| Module | Models | Notes |
|---|---|---|
| `LoginQueue` | admission of sessions | component |
| `MCLoginQueue` | | `LoginQueue` with a bound on connections, canonical names and the fairness of the world thread |
| `LoginQueue_proofs` | | theorems about `LoginQueue` |
| `TickBarrier` | what `MapManager::Update` promises | abstract specification |
| `MapUpdater` | the map update, composed of the world thread, the pool and the instanced maps | component, refines `TickBarrier` |
| `MCMapUpdater` | | the instances of the model |
| `MapUpdater_proofs` | | theorems about `MapUpdater` |
| `SessionPackets` | the packets of one session, from the socket to the handler | component |
| `MCSessionPackets` | | `SessionPackets` with clients that send all kinds of packets, or more of few kinds |
| `SessionPackets_proofs` | | theorems about `SessionPackets` |
| `TransactionStore` | what the callers of a database pool rely on | abstract specification |
| `DatabasePool` | the queue of operations, workers, direct callers, every call to the server | component, refines `TransactionStore` |
| `MCDatabasePool` | | the rows of four operations |
| `DatabasePool_proofs` | | theorems about `DatabasePool` |
| `CharacterDatabase` | tables, transactions, the asynchronous queue, as the game uses them | used by `AuctionHouse` and `Trade` |
| `AuctionHouse` | auctions, their mails, purses and bags, in memory and in the tables | component |
| `MCAuctionHouse` | | the items at the start, who takes part, symmetry |
| `AuctionHouse_proofs` | | theorems about `AuctionHouse`: items |
| `AuctionMoney_proofs` | | theorems about `AuctionHouse`: money and types; extends `AuctionHouse_proofs` |
| `Trade` | trades between players, their exchange and its transaction | component |
| `MCTrade` | | players, purses, items and their limits, two scenes |
| `Trade_proofs` | | theorems about `Trade` |
| `QueueLemmas` | | facts about queues and tables that several proofs use |

Definitions keep the names of the code where they stand for one function or
variable. A definition whose comment begins with "Faulty" is a version of the
next one with a plausible programming error; no specification uses it. Each
shows that the property named with it in `PROJECT.json` can fail.

### 2.1 `LoginQueue`

*State.* A session is an address: `account[s]` says whose session lives there,
if any, and an address may be used again after `delete`. `inQueue`, `loading`
and `closed` are `m_inQueue`, `m_playerLoading` and the state of the socket;
`told` is the queue position in the last `SendAuthResponse`.
`addSessQueue`, `m_sessions`, `m_QueuedPlayer`, `m_disconnects` and
`m_playerLimit` are the members of `World`. `phase`, `todo` and `m_stopEvent`
say where `UpdateSessions` is: it drains `addSessQueue`, then loops over
`m_sessions`.

*Actions.* `AddSession` and `CloseSocket` belong to the network threads and
happen between any two steps of the world thread. `RejectSession` and
`AdmitSession` are the two outcomes of `AddSession_` (with `RemoveSession`,
which refuses while the old session loads a character). `KeepSession` and
`DropSession` are one turn of the loop over the sessions: `DropSession` is the
whole `else` branch, with the entry in the disconnect map, both calls of
`RemoveQueuedPlayer` and the deletion. `SetPlayerAmountLimit`, `KickAllLess`
and `KickAll` are the commands and the end of `WorldRunnable::run`.

*Abstractions.* Times are left out: `HasRecentlyDisconnected` computes
`difftime(then, now)`, which is never positive, so an entry never expires; this
is modelled as it is. `WorldSession::Update` is reduced to what the queue sees of it (a
login begins or ends, the session is dropped or kept); its inside is
`SessionPackets`.

### 2.2 `MapUpdater` and `TickBarrier`

*State.* `manager` is where the world thread is in `MapManager::Update` or in
the shutdown, `toSchedule` the part of `i_maps` its loop has not reached.
`queue` is the executor's bounded message queue, `pending_requests` the
counter of `MapUpdater`. Each worker has a `stage` (idle in `dequeue`, in
`Map::Update`, in the loop of `MapInstanced::Update`), the map of its request
and the instances its loop has still to visit.

*Atomicity.* `schedule_update` and `update_finished` hold `m_mutex` for
their whole body; so does each evaluation of the condition in `wait`, and
releasing the mutex and going to sleep is one step of the condition variable.
`wait` may wake without a broadcast (`SpuriousWakeup`). ACE's queue has a lock
of its own. A worker may dequeue a request before `schedule_update` has
returned; the mutex makes that invisible, since the count is raised before the
request is queued.

*Abstractions.* What `Map::Update` does inside its map is one step. Whether an
instance can be unloaded is a free choice, and so is the creation of maps and
instances by players who enter them, which the world thread does between two
barriers. The model is of a server with `MapUpdate.Threads > 0`. `refused` is a
history variable: the maps whose request found the queue full in this tick.

`TickBarrier` says what the rest of the server relies on: updates may be asked
for only in the parallel part of the tick, and the parallel part ends only
when none is left. `MapUpdater` implements it with `mode` read off `manager`
and `busy` the maps queued or running (`ImplementsBarrier`).

### 2.3 `SessionPackets`

*State.* `recvQueue` is `_recvQueue`; a packet has a number, its place in the
order of arrival, and a kind. The eight kinds are the classes of opcodes that
`Update` and its filters tell apart: two of status `AUTHED` (`enum` resets
`m_playerRecentlyLogout`, `login` starts the login), three of status `LOGGEDIN`
with the three processing modes (`PROCESS_THREADUNSAFE`, `PROCESS_THREADSAFE`,
`PROCESS_INPLACE`), `cancel` of status `LOGGEDIN_OR_RECENTLY_LOGGOUT`, `ack` of
status `TRANSFER`, and `never` for opcodes without a handler. `player` is none, in the
world, or between two maps. `step` and `updater` say where a call of `Update`
is and which thread makes it.

*Actions.* One turn of the loop is two steps, `TakePacket` (the condition with
the filter, and `_recvQueue.next`) and one of `DelayPacket`, `DiscardPacket`,
`HandlePacket`, because the network thread may append a packet between them.
`HandlePacket` includes the handler's effect on the session:
`HandlePlayerLogin` has every early exit of `HandlePlayerLoginOpcode`.
`ProcessQueryCallbacks` ends a login, `ProcessLogout` is the tail of `Update`
that runs with `WorldSessionFilter` only.

*Abstractions.* What a handler does to the game is left out. `handled`,
`discarded`, `delayed` and `raced` are history variables: what was done with
each packet, which ones this call has put back, and which ones may be overtaken
by those: they came while a call that has put back some was still in its loop,
or such a call ended before it reached them.

### 2.4 `CharacterDatabase` and `AuctionHouse`

*State.* `db` is the tables: the gold of each character, the bag each item is in
(`inventory`), mails and auctions. `dbQueue` is what `Enqueue` has handed to the
worker: a transaction is the rows it writes, a login is a query that waits in
the same queue (`DelayQueryHolder`). In memory there are the players that are online
with `money`, `bags` and, once they have opened a mailbox, their mails
(`m_mailsLoaded`, `m_mail`); and `AuctionsMap`, whose items are those of
`mAitems`. `fees` in a transaction and `base` are bookkeeping of the model: what
the auction house keeps, and the money there was at the last start.

*Actions.* One per handler, with the transaction it commits: `SellItem`,
`PlaceBid` and `Buyout` (the two halves of `HandleAuctionPlaceBid`), `RemoveItem`,
`ExpireAuction` (one turn of the loop in `AuctionHouseObject::Update`),
`GetMailList`, `TakeMoney`, `TakeItem`, `Save`, `LogoutPlayer`,
`HandlePlayerLogin`, `LoadFromDB`. `Execute` is one turn of `DatabaseWorker::svc`.
`Crash` empties the memory and the queue; then `DeleteExpiredAuctionsAtStartup`
and `LoadAuctions` run in the order of `World::SetInitialWorldSettings`, the
worker beside them. What the handlers read past the queue (`_LoadMail`, the
query of `Update`, the loading at startup) reads `db` as it is.

*Abstractions.* Items cannot be stacked, so a sale moves the item itself and the
branch that clones a stack is not reached. The deposit is the same for every
item. Mails that carry neither money nor an item (a pending sale) are left out;
a mail carries one of the two, as those of the auction house do. A client names an
item that is in the mail. Purses stay below `MAX_MONEY_AMOUNT`. When an auction or
a mail is due is a free choice. There is one asynchronous connection
(`CharacterDatabase.WorkerThreads = 1`, the default), and its transactions do
not fail.

### 2.5 `DatabasePool` and `TransactionStore`

*State.* `queue` is the ACE queue of the pool, `closed` its state, `exited` the
worker threads that have ended. Each connection has the operation it executes
(`task`), its next call to the server (`at`), and `handle` and `errno`, which are
`m_Mysql` and the error `mysql_errno` would return. `inTransaction` and `written` are the server's side of a
connection: whether it has a transaction open and the rows it has locked.
`table` is what is committed. `accepted`, `outcome`, `met` and `applied` are
history variables: what was queued, what the pool told about it, which errors it
met, and which of its statements the tables have seen.

*Actions.* One step is one call to the server, so that connections interleave
between any two calls: `BeginTransaction`, `Execute`, `ExecuteQuery`,
`CommitTransaction`, `RollbackTransaction`. `Enqueue` and `GetFreeConnection` are
the two ways into the pool, `svc` and `svc_exit` the loop of a worker,
`TryAgain` the decision of `TransactionTask::Execute` and of
`DirectCommitTransaction` after a failure, `Close` the shutdown. `Refused`,
`Deadlock`, `LoseConnection` and `NoHandle` are the ways a call fails.

*External.* The server and the client library are not in the repository. They are
modelled from how the code uses them: a row written in a transaction is locked
until it ends, a cycle of waits is broken by the rollback of one transaction,
a lost connection takes its open transaction with it, the reply may be lost
before or after the server has executed the call, and each call sets `mysql_errno`
anew.

*Abstractions.* A statement is the row it writes or reads. Prepared and plain
statements are alike. The keep-alive is left out, as is a wait that the
server ends after a time (the code treats it as any refused statement). The high
water mark of the queue, 16 KB of message blocks, is a number of operations.

`TransactionStore` says what callers rely on: an operation is executed at once or
given up without a trace, those of a single worker in the order they were
queued, so that the login of a player reads what its logout wrote. An operation
that loses its connection is the exception: it may write any part of its rows
from then on, and no other operation suffers from it. A query of several
rows is not a snapshot, in the abstract specification either: the holder of a login
reads row by row while other connections write. `DatabasePool` implements it with `queued`
the operations in the order of `Enqueue` and `waiting` those of them that are not
over (`ImplementsStore`).

### 2.6 `Trade`

*State.* `trade[p]` is `m_trade` of a player, a `TradeData` or none; `bags` and
`money` are the inventory in memory of those online, `removed` the items
destroyed since the last save, `bound` the soulbound items that have lost
`ITEM_FLAG_BOP_TRADEABLE`, `mislaid` the items that an exchange has taken out of
the bags and put into none, while their row in the inventory table remains. The tables and the queue come from
`CharacterDatabase`. `agreed` is a history variable: what lay on the table when a
player accepted.

*Actions.* One per handler. `HandleAcceptTradeOpcode` is `AcceptTrade`, a
disjunct per outcome in the order of its checks: one side cannot pay or would
have too much (`AcceptWithoutMoney`), an item cannot be traded (`AcceptRefused`),
the partner has not accepted (`AcceptFirst`), a spell cannot be cast
(`AcceptSpellFails`), no room (`AcceptWithoutRoom`), and the exchange
(`CompleteTrade`) with `moveItems` slot by slot, `ModifyMoney` and the
transaction that saves both. `CanTakeMoreSimilarItems` has any number of limits
per item: the `MaxCount` of its entry and its `ItemLimitCategory`. `CanStoreItems`
applies them to one item after the other, `CanStoreItem` in `moveItems` to what
has been stored so far, so the two may disagree. `StoreSlot` has the branch for that: the items of
the slot go back to their owners (`TakeBack`), the loop and the money go on. The slot
that was found for the partner's item is in `dest` still, so that `StoreItem` puts a
clone there (`CloneItem`, `Copy`) and the item into the next one; and an item that
does not fit is in no bag. Its row stays in the table until something else is saved into
the same slot (`over` in `SaveInventoryAndGoldToDB`), so it may be there again after the next
login. `_LoadInventory` loads what the limits allow and sends the rest by mail
(`Loadable`, `LoadInventory`). Around it: items are destroyed or become bound
while they are offered, `Save`, `LogoutPlayer` and `HandlePlayerLogin` with the
query that waits in the queue, `Execute` of the worker, `Crash`.

*Threads.* The handlers run in the world thread. A cast bar ends, an item perishes or
becomes bound, and a player is saved in `Map::Update`, in a map worker, while the world
thread waits at the barrier: no handler overlaps with these steps. Two of them overlap
with each other only if one side has been teleported to another map, which does not end a
trade; the data race that this is on the bags of the other side is left out.

*Abstractions.* Items cannot be stacked and lie in the bags. Distance, faction,
stun and the like are free choices, as is whether an item can be traded at this
moment (being looted, a bag that is not empty). What a spell does to the item
that is not traded is left out, and so are mails: an item that is sent by mail at
login leaves the model.

## 3. Runs

A finished shutdown or a deleted session stutters in an action of its own
(`Stopped`, `Deleted`), and deadlock is checked in every run but those of
`DatabasePool`, where everything may be over: all operations done and the pool
closed. That nothing hangs before is `OperationsEnd` and `CloseEnds`.

| Run | Instance | Shows |
|---|---|---|
| `login_queue` | 2 players, 1 game master, 4 session addresses, limits 1 and 2, disconnect tolerance on, 4 connections | sessions are owned once, the queue is consistent and FIFO, positions are current, no slot is wasted while no staff are in, the limit is passed only by an account the tolerance lets in, and every session whose socket closed is removed |
| `login_staff` | the same with limit 1, 3 addresses and 3 connections | *violation*: a game master takes the slot of a player |
| `map_updater` | 2 workers, 3 base maps, 3 instances, 2 places in the queue | exact count, barrier, no request for a deleted map, one update of each map per tick; the abstract barrier is implemented, ticks and the shutdown end, also when requests are refused |
| `session_packets` | 3 packets of all 8 kinds, or 4 that are logins and one other kind; limit 2 per call | accounting and order of packets, one character, no logout in a map worker, nothing blocks the queue, closed sessions are deleted |
| `auction_house` | 3 players, 1 item, 3 mails, 1 queued write, no crash; or 2 players, 2 mails, 2 queued writes, 1 crash | auctions settle completely, bidders are paid back; tables whole at any crash and after the restart, memory has no item twice, tables catch up with memory |
| `auction_startup` | the same, auctions may end while the server is down | *violation*: the item of such an auction is lost |
| `db_pool` | 2 transactions with rows in opposite orders, an update and a query of two rows; 1 or 2 workers, 1 synchronous connection, 2 places in the queue, 1 fault | what is reported is what happened, the abstract store is implemented, every operation ends, `Close` returns |
| `db_deadlock` | the 2 transactions on a worker and a synchronous connection, no fault | *violation*: the victim of a deadlock is given up without a second attempt |
| `db_reconnect` | the same with 1 lost connection | *violation*: a transaction is written in part |
| `trade` | 2 players with 2 and 4 slots and 2 and 3 items, of which one is soulbound, one soulbound and account-wide, one unique, and three of a category of which a player may have two; 1 clone; 2 traded slots and the one that is not, purses near the maximum, 1 queued write, 1 crash | both sides get what they agreed to, all of it unless a limit forbids it, trades are paired, bound items stay, tables and memory agree, also about clones and what was mislaid |
| `trade_limits` | the same without crash and perishable items | *violation*: part of an exchange is given back and the rest takes place |
| `trade_refusal` | the same | *violation*: an acceptance that was refused counts |

The type invariants of `LoginQueue`, `MapUpdater` and `SessionPackets` are theorems
(section 4) and are not run again.

### 3.1 Bounds and why they are enough

* *Login queue.* Two sessions that wait, one that leaves and one that comes
  are the largest group any statement of the code relates. With limit 1 a player who
  is in, or a game master, who takes the path around the queue, is followed by a
  queue of up to two; with four connections one of them reconnects while it waits or comes back
  after it has left. The limit changes at any time between 1 and 2. Addresses are
  interchangeable, and so are players; as symmetry is not sound for the liveness
  property of the run, `Connect` picks the first free address, and players connect
  in their order the first time.
* *Map updater.* Two instances of one map and one of another let one worker
  be in the loop of `MapInstanced::Update` while the other updates an instance
  or loops as well. Two places refuse requests, of base maps and of instances,
  and also take them.
* *Packets.* Overtaking among packets that are handled needs a login, two
  packets that are put back and one that comes between: four packets. Clients that
  send four are bound to a login and one other kind, of the world thread or of the map workers
  (`FewKinds`), those that send all kinds to three. The limit 2 for one call stands for
  100: a call handles three packets or ends early, in the middle of delayed ones too.
* *Auction house.* Outbidding needs an owner and two bidders, and the buyout of
  an auction with a bid sends three mails at once. A crash needs two
  writes in the queue, of which it loses both, one or none. One run has both: `acting` says
  who logs in at all, all three with one write and no crash, or the owner and one
  buyer with two and a crash. Invariants of the tables hold at each instant, so every
  one of them is a moment of a crash in the first case too. Two units of money each, a deposit of 1, prices 1
  and 2 and a cut of 50 % keep every amount apart; the item is sold again by its
  buyer until deposits have eaten the money. `p2` and `p3` are interchangeable.
  The modulus 100, which stands for 2^32, is never reached.
* *Database pool.* Two connections that write two rows in opposite orders are
  the smallest deadlock; a third connection with a single statement and a query of
  both rows sees the states between. One fault at any call of any operation: what
  follows a fault (repetition, rollback, a connection without a handle for the rest
  of the behaviour, and another operation that is given to it) is in reach of one.
* *Trade.* The code only relates the two sides of one trade; a third
  player could do nothing but wait. Bags that are nearly full make room depend on what goes
  out. The rings and the category make `CanTakeMoreSimilarItems` decide: a
  second item of a category passes `CanStoreItems` beside the first and fails in
  `moveItems`, is taken back, cloned or mislaid, and a clone of the unique ring is sent by
  mail at the next login; each of these is reached. Amounts of 2 with a maximum of 5
  and purses of 2 and 3 reach both limits of money. One queued write and a crash separate memory
  and tables by one transaction, which is all that `MoneyInTables` and `SavedAsHeld` tell
  apart. `scene` splits the behaviours: in one there is money and neither spells nor
  loss of the trade flag, in the other spells and that loss and no money; what the code does for one does not
  look at the other, but for the order of the checks in `AcceptTrade`.

### 3.2 Fairness

* The world thread keeps taking steps (`WF` of `UpdateSessions`, of `Update` in
  `MapUpdater`, of `Update` in `SessionPackets`): `WorldRunnable::run` loops until the
  server stops. In `LoginQueue` the fairness is that of the thread, not of one
  branch: while sessions keep coming the loop over `addSessQueue` may go
  on, which the bound on connections ends.
* Every map worker keeps taking steps. Nothing is assumed of players, clients or
  the network.
* In `DatabasePool` each connection has weak fairness of what its thread does next
  (`Thread`): a worker loops until the queue is closed, a direct caller waits
  for its call, and the server answers and breaks cycles. Nothing obliges
  anybody to queue an operation or to close the pool, or anything to fail.
* In `SessionPackets` the map update reaches the session again and again while
  its player is in the world (`SF` of `BeginUpdate("map")`): strong, because
  the player may leave and enter maps meanwhile, and `World::Update` calls
  `MapManager::Update` in every tick.

### 3.3 Disagreements between documents and code

Six are violation runs:

1. `World::SetInitialWorldSettings` calls `DeleteExpiredAuctionsAtStartup` before
   `LoadAuctionItems`. The mails that return or deliver the item look it up with
   `GetAItem`, find nothing and are not sent, and the auction is deleted: the
   item is lost (`auction_startup`, `ItemsOnce`). The comment there says "Send the
   item to the winner and money to seller".
2. `MySQLConnection::ExecuteTransaction` rolls back before it returns, and the
   `ROLLBACK` resets the error that `TransactionTask::Execute` and
   `DirectCommitTransaction` then ask for: the five attempts after a deadlock,
   which the comment in `_HandleMySQLErrno` refers to, never begin (`db_deadlock`,
   `DeadlockRetried`).
3. A connection lost inside a transaction is opened again and the statement
   repeated there, outside of any transaction: the statements before it are lost,
   it and the rest commit one by one (`db_reconnect`, `AllOrNothing`), where
   `BeginTransaction` is documented with "automatically rollback if not commited".
4. `HandleAcceptTradeOpcode` marks the acceptance "before checks for propertly
   undo at problems", and the branches for items that cannot be traded do not undo
   it. The client is told that the trade is off; the partner's acceptance
   completes it (`trade_refusal`, `RefusalUndone`).
5. `CanStoreItems` looks at each incoming item of a limited entry or category
   alone, `moveItems` at what it has stored before. The item that is one too many goes back
   to its owner, while the rest of the items and all the money change hands
   (`trade_limits`, `ExchangeComplete`), where the comment in `moveItems` says "we had to
   check, if the trade will work before we actually do it". What goes back may also be cloned or
   be in no bag until the next login; `AllStored` shows that nothing else can go wrong there.
6. `worldserver.conf.dist` says of `PlayerLimit` "Excluding Mods, GMs and Admins";
   `AddSession_` and `RemoveQueuedPlayer` count all sessions, so one game master
   takes the place of one player (`login_staff`, `StaffTakeNoSlot`). `SlotsGivenAway` is
   about the time while no staff are in.

Others were met while modelling; the models have them as the code does, and no
run is spent on them:

* `AuctionEntry::bid` has 32 bits and the price of a bid 64, with a limit of
  9999999999 for money: of a larger bid the bidder pays the price, the auction
  keeps and pays back its remainder. `PaidForItems` and `MoneyConserved` fail as soon as
  `Modulus` is not above every price.
* A comment in `WorldSession::Update` says that at `firstDelayedPacket` only
  re-enqueued packets are left. A packet that the network thread appends
  between two re-enqueued ones stands between them and is handled before the
  second. `OrderKept` shows that this is the only case in which order is lost.
* A connection that could not be opened again has no handle for the rest of the
  process: every operation a worker takes on it fails at once, while
  the worker keeps taking them. The result of `COMMIT` is not looked at. `Close` of
  the queue frees what waits in it, so that `DatabaseWorkerPool::Close` drops the
  operations no worker has begun, logouts of the shutdown included. All of
  this is in `DatabasePool`; `OutcomeTrue` and `ImplementsStore` say how far it goes.
* An offered item that leaves the inventory drops out of the trade without a
  word, and the exchange takes place without it; `AsAgreed` allows for exactly
  this. A player who is out of range does not end a trade. A player
  with `MAX_MONEY_AMOUNT` cannot complete a trade without money either.
* The loop over `addSessQueue` has no bound: while clients connect faster than
  `AddSession_` runs, no session is updated. The destructor of a replaced
  session may set `account.online` to 0 after the constructor of the new one has set
  it. `MapManager::CreateBaseMap` looks a map up before it takes the
  lock and not again. A mail whose row is still queued when the mailbox is
  loaded is shown at the next login only.
* "Delete expired auctions before loading" (`World.cpp`): the deletion is only
  queued when `LoadAuctions` reads the table, which may still have the row. The
  auction then stands in memory without one. This needs
  `ExpireWhileDown`, and is why `WrittenBehind` is checked without it.
* "process only a max amout of packets in 1 Update() call": the counter is
  compared with `>` after it was raised, so a call processes one more.
* `Opcodes.h` says that `STATUS_AUTHED` means `_player == NULL`; the code looks at
  `m_inQueue` only. The login handler tests `_player` itself, which is what keeps
  `OneCharacter` true.

## 4. Proofs

All proofs hold for arbitrary constants under the assumptions named in the
modules (`LoginQueueAssumption`, `MapUpdaterAssumption`,
`SessionPacketsAssumption`, `PoolAssumption`, `TradeAssumption`,
`AuctionHouseAssumption` and `NoneAssumption`), which TLC evaluates in every run of their modules. Two of them
say more than that a constant has its type. `PoolAssumption` has one statement in
an operation that is neither a transaction nor a query, which is what
`ExecuteStatement` and `AdhocStatement` are. `TradeAssumption` starts in a
world where what each player owns fits into his bags: the handlers keep that, they do not
establish it. Of limits it only says that a clone has those of its original.
`NoneAssumption` of `AuctionHouse` says that `None`, a row that is not there, is not
a row.

**`QueueLemmas`** has what several components need of queues and tables:
sequences without duplicates (`AppendLast`, `TakeFirst`), the last write to a row
in a queue of writes (`LastWrite...`, `FirstWrite`), and the sum of a table
(`Total...`, `SameTotal`, `Payment`). Where a fact would be proved by induction over a
number it is proved by looking at the least counterexample (`LeastNumber`), since the
induction theorems of the library take an operator that the provers cannot
instantiate. The sum of a table, a recursion over its rows, has the number of its
`Coins` as a closed form.

**`LoginQueue_proofs`.** `SessionOwnership`, `QueueIntegrity` and `NoSlotWasted`
prove `SingleOwner` (with the type invariant), `QueueConsistent` with
`PositionsTold`, and the action property `SlotsGivenAway`. None of the
invariants is inductive alone: that a pointer in the queue is still registered
needs that sessions are owned once, that the right flag is cleared needs that
the queue has no duplicates, and that positions are current needs both. The
inductive invariant `IInv` is their conjunction with `TypeOK` and the
connection between the phases of the tick and `todo`. The argument goes
through lemmas on what `RemoveQueuedPlayer` and `AddQueuedPlayer` return for
any queue; `DropSession` uses the first one twice. `NoSlotWasted` counts: the
lemmas on `Cardinality(Registered)` say how a registration changes, those on
the queue how its length changes, and the last call of `RemoveQueuedPlayer`
admits somebody whenever the difference falls below the limit (`SlotsStep`). That
counts all sessions; `PlayerSlotsStep` turns it into a statement about players
while no staff are registered, and `StaffComeIn` deals with the step that takes
in the first of them.
`FirstInFirstOut` proves `NoOvertaking`: whatever erases a session from one place
or takes the front keeps the order of the rest, and so does one call after another
(`OrderLeftTwice`). `LimitKept` proves `LimitRespected`; it needs
`FlagRegistered`, that `m_inQueue` is set on registered sessions only, without
which the players that are in cannot be counted as sessions minus the queue
(`CountAdmitted`).

**`MapUpdater_proofs`.** `BarrierSafe` proves `TypeOK`, `PendingCount` and
`BarrierHolds` for every number of maps, instances and workers and every
capacity. `BarrierHolds` is not inductive: it needs that the counter is exact.
`CountInv` joins both with the fact that requests are only added in the
parallel part; `BusyChange` and `BusyCounts` say what a step of one worker does to the
number of busy ones. `RequestsSafe` proves `RequestsAlive` and
`OneUpdatePerTick`. Neither is inductive without the plans of the loops that
ask for updates: what the world thread has still to schedule (`LoopPlan`) and what a
worker has still to visit (`VisitPlan`) exists and has not been touched in this tick,
an instance is asked for after its base map (`BaseFirst`), and no base map is
forgotten (`NoneForgotten`). `TickInv` is their conjunction; `NoMapSkipped` reads
`EveryMapUpdated` off it at the barrier, and `BarrierImplemented` proves that every step
is a step of `TickBarrier` or leaves it alone, the refinement `ImplementsBarrier`.

**`SessionPackets_proofs`.** `SessionTyped` proves the type invariant for any
number of packets and any limit. Its inductive form `TInv` adds `LoopCount`: a call
that is still in its loop has not passed the limit, which is why
`processedPackets` ends at most one above it. `SessionState` proves `OneCharacter` and
`QueueNotSkipped`, `LogoutPlace` the action property `LogoutInWorldThread`. The
inductive invariant `SInv` adds that a session in the login queue is idle in every
respect (`QueuedIdle`), and what a worker that is inside `Update` may hold
(`WorkerLimits`): a packet that the map filter let through, with the player still
there. The latter is the point of `LogoutPlace`: the handlers that log a player
out are those the map filter keeps from workers. (Between two calls of `Update` the
world thread may log a player out too, as `DeleteAccount` does.) `NoPacketLost` proves
`PacketsAccounted`; its invariant `PInv` has that a packet is in one place only
(`OnePlace`), since the deletion of the queue adds up lengths of sets. `PacketOrder`
proves `OrderKept`. Its invariant `OInv` looks at the queue as rotated: a call that
has put packets back will see the part in front of the first of them first,
then that packet and all behind it, and in this order the queue is sorted up
to packets that came meanwhile. It holds because such a call puts back every packet
that demands a player (`PutsBack`): no player comes or goes before it is
through.

**`DatabasePool_proofs`.** `PoolReportsTruth` proves `OutcomeTrue` and the type
invariant for any operations, rows, connections and faults. `PoolInv` adds that an
operation is in the queue or with one connection (`OneConnection`), that a query
has read the rows in front of its next call (`Reading`), and that the server has a
transaction open exactly between its first and its last call, unless the
connection was lost (`Calls`), without which a `ROLLBACK` need not undo what the
connection has written. `CallKeeps` reduces a step to the connection that takes it
and its operation. `StoreImplemented` proves the refinement `ImplementsStore`: every
step is one of `TransactionStore`, or changes nothing of it. `StoreInv` adds what that needs.
The queue is the end of what was accepted (`QueueIsEnd`), and what waits is in the
queue or with a worker (`WhoHolds`); so what a single worker has was accepted before
all else that waits (`Runs`). A transaction that is open has written exactly the rows of
its statements so far (`RowsWritten`), so that its `COMMIT`, or the loss of the reply to
it, is the atomic step of the store. Everything a connection does before and after is
either invisible or the step of an operation that was `broken` by a lost connection.

**`Trade_proofs`.** `TradesSafe` proves `TradesPaired`, `SavedAsHeld` and the type
invariant, `AgreementKept`, `ExchangesWhole` and `BindingKept` the action properties
`AsAgreed`, `AllStored` and `BindingRespected`, `MoneyKept` the invariant `MoneyInTables`, for
any limits on entries and categories. They rest on `TradeInvariant`, in two parts.

* The tables of a trade (`TableInv`): trades are paired, an item lies in one
  slot of an offer (`OfferedOnce`), and an acceptance that stands has seen what lies
  on both tables, but for items that have gone from the bags (`AgreedSeen`).
* The rows (`RowInv`): at every point `k` of the queue, what a player would
  find after the first `k` operations fits into his bags (`HeldFits`: whichever of
  them the process lives to execute, there is a slot for everything), at its end it is what he
  has, has destroyed or has lost in an exchange (`SavedAsHeld`), which are different items
  (`Apart`), and a login that waits finds rows that nothing behind it
  touches (`LoginLoadsLast`).

The exchange is an argument about `CanStoreItems`, which looks at all items together,
and `moveItems`, which stores them slot by slot. Whatever the limits are, an invariant of the
loop bounds the bags after each slot (`SlotBounds`, `MoveItemsBounds`): they hold what was
kept, items that were given and clones of those that came back, and no item is in both.
`CompleteTradeKeeps` follows from that with the rows that `SavedRows` writes, and from
there on the proof does not care which items have moved. If the limits allow both
sides everything together, after any number of slots what has been put and what is still to
come fit together, so every slot is exchanged (`SlotFits`, `MoveItemsMoves`): that is
`ExchangesWhole`. Both need `OfferedOnce`, since an item in two slots would be stored twice, and that the bags
of both have no item in common, which comes from the rows; that a clone is
not in the bags already comes from `Unused`.

`MoneyKept` adds `MoneyInQueue`: the sum is the same after each prefix of the queue. A
save writes the gold that the queue leads to anyway; an exchange writes two
rows whose sum is as before, because the checks in front of it make `ModifyMoney`
exact (`ExactMoney`).

**`AuctionHouse_proofs`.** `ItemsKept` proves `ItemsOnce`, `OneHolder` and
`WrittenBehind` for any players, items, auctions and mails, any prices, every length of
the queue and any number of crashes, for a server that is not down for so long that
auctions end meanwhile (`~ExpireWhileDown`): with it `ItemsOnce` is false, which is
finding and run `auction_startup`. The tables, the queue and the memory have to be related at
every moment, and a bid updates a row that an operation in front of it may
delete, so the tables after a part of the queue cannot be read off the last
write to each row. `ItemInv` therefore says that there is a *path* of tables
that begins with `db` and takes one operation of the queue after the other
(`PathFrom`).

* On every table of the path each item is in one place (`OnePlace`): the process
  may die at any of them.
* The memory is what the last table of the path says, up to one deposit
  (`MemoryAgrees`).
* A login waits in the queue once, and what it will load is not touched behind it
  (`LoginLoadsLast`); an answer that is there stays true (`AnswerHolds`); a mailbox
  that is not loaded has no mail that the queue deletes, so that reading it past the queue is
  safe (`MailsWait`); and an id that looks free is free along the path
  (`NoRowFromNowhere`).

Each handler has its lemma (`SellItemKeeps` to `GetMailListKeeps`). Those that
change things reduce to `HandlerKeeps`: it is enough that the memory changes as the
operation will change the last table. The three ways an auction ends share
`SettlingKeeps`, whose point is that exactly one of the mails in the operation has the
item (`AuctionEnds`, `ItemLast`). A crash leaves a table of the path and no queue,
which is all the invariant asks for when nothing is in memory (`NothingInMemory`).

**`AuctionMoney_proofs`.** `MoneyKept` proves `MoneyConserved`, again for any
constants, under two hypotheses. `~ExpireWhileDown` is inherited from `ItemInv`. `NoWrap`
says that no price, with the deposit added to it, reaches `Modulus`: the code stores bids
in 32 bits, and beyond them money is lost (section 3.3), so that the theorem would be
false. `MoneyInv` adds to `ItemInv`, for the path of tables (the queue determines it,
`SamePath`):

* `Conserved`, at the end of the path: the purses of those who are online, the gold of
  those who are not, the money in mails and auctions (bid and deposit) and the fees add
  up to `base`. This is what the handlers keep: each moves money between those places.
* `Covered`, at each table of the path: its sum is at least `base` and at most one
  deposit of each player above. It is the property itself, wherever the process may
  die. At a new end of the path it follows from `Conserved`, because a purse
  differs from its row by at most one deposit (`MemoryAgrees`, `RowsClose`).
* `Sound`, at each table: bids and buyouts are below the modulus, an auction without
  bidder has no bid, and a mail with an item has no money, without which taking the
  item would lose it.

`Transfer` is to money what `HandlerKeeps` is to items: a handler keeps the invariant if
what it takes from the purse of one player is what the operation adds to
mails, auctions and fees. `SentMoney` says what the mails of an operation add,
`FullProfit` that profit and cut of an auction are bid and deposit, and
`SettlingMoney` combines them for the ways an auction ends. A crash puts the
first table of the path in the place of the last, and `base` is set anew when
the server starts (`CrashMoney`, `StartupMoney`). In between, while it is down,
`Conserved` is suspended; only `Covered` holds.

`TypesKept` proves the type invariant without `NoWrap`: types of tables and memory are in
`ItemInv`; the bound of the queue and the sum `base` are in `RunTypes`.

*Only model-checked:* the liveness properties (`ClosedSessionsLeave`,
`TickEnds`, `ShutdownEnds`, `PacketsProcessed`, `ClosedSessionDeleted`,
`OperationsEnd`, `CloseEnds`), which the prover does not handle; and, so far, of
`AuctionHouse` the action properties `PaidForItems` and `AuctionsSettled`.

## 5. Plan

In this order; each step has its module, runs, properties and then proofs.

1. *Done:* `LoginQueue`, `MapUpdater` with `TickBarrier`, `SessionPackets`,
   `DatabasePool` with `TransactionStore`, and `Trade`, with theorems for all
   their safety properties and both refinements; `AuctionHouse` with
   `CharacterDatabase`, with theorems for all its invariants.
2. Proofs of `PaidForItems` and `AuctionsSettled`. Both speak of the step of the worker
   and of single players, while `MoneyInv` has the sum over all: the path needs, for each
   operation, what it does to the claims of each player, which the lemmas about the
   handlers (`SentMoney`, `SettlingMoney`) give for the sum.
3. `Mail`: letters between players, cash on delivery, returning, deleting and
   the expiry of old mails (`ReturnOrDeleteOldMails` reads the tables of players
   who are online); stacks in `SellItem`. Abstract specification for both: a
   ledger in which every item and every coin has one place.
4. Battleground queues. Worth a property each: the counter of invited players, which
   a logout in the middle of a far teleport seems not to give back;
   `InviteGroupToBG`, which skips members in a loading screen; the removal
   event, which does nothing for a player in a loading screen; and a late answer after
   the removal. The proposals of the dungeon finder follow the same pattern.
5. `ShutdownTimer`: start, replace, cancel, idle shutdown, expiry.
6. `WorldSocket`: the output buffer and its limits, the closing of a socket
   while it is written.
7. `InstanceSaves`: binds, reset times, unloading of saves in use.

## 6. Not modelled, and why

Combat, spells, AI, movement, scripts and world content are rules over large
data with no small instance that says much about them. The authentication
server's handshake is cryptography around a short protocol. Grids, groups, guilds and
similar registries are sequential bookkeeping in one thread; they may follow.
Vendored libraries are taken to work as the code uses them: ACE's message
queue, mutexes and condition variables, the MySQL client library and its server.

---------------------------- MODULE DatabasePool ----------------------------
(***************************************************************************)
(* DatabaseWorkerPool, its connections and the threads that execute what   *)
(* is queued (DatabaseWorkerPool.h, DatabaseWorker.cpp, Transaction.cpp,   *)
(* MySQLConnection.cpp).  One step is one call to the server, so that the  *)
(* calls of several connections interleave; between two calls the server   *)
(* holds the rows an open transaction has written.                         *)
(*                                                                         *)
(* The server and the client library are external: rows written in a       *)
(* transaction are locked until it ends, a cycle of waits is broken by the *)
(* rollback of one transaction (error 1213), a connection that is lost     *)
(* takes its open transaction with it, and mysql_errno tells the error of  *)
(* the last call.                                                          *)
(***************************************************************************)
EXTENDS Naturals, Sequences, FiniteSets, SequencesExt

CONSTANTS
    Task,          \* operations callers hand to the pool
    Key,           \* rows of the database
    Rows,          \* Rows[t]: the row of each statement of t, in order
    Transaction,   \* the tasks that are transactions
    Query,         \* the tasks that read; the others are single statements
    Direct,        \* the tasks a caller executes itself and waits for; the others are queued
    Worker,        \* asynchronous connections, each with its thread
    WorkerThreads, \* the sets of them that Open may open
    Synch,         \* synchronous connections
    None,
    HighWater,     \* operations the queue holds before a caller has to wait
    MaxFaults      \* statements the server refuses and connections that are lost

ASSUME PoolAssumption ==
    /\ Transaction \union Query \union Direct \subseteq Task
    /\ Transaction \intersect Query = {}
    /\ Rows \in [Task -> Seq(Key) \ {<<>>}]
    /\ \A t \in Task \ (Transaction \union Query) : Len(Rows[t]) = 1
    /\ Worker \intersect Synch = {}
    /\ IsFiniteSet(Worker)
    /\ WorkerThreads \subseteq SUBSET Worker
    /\ None \notin Task
    /\ {HighWater, MaxFaults} \subseteq Nat

Connection == Worker \union Synch

\* TransactionTask::Execute and DirectCommitTransaction: loopBreaker
LoopBreaker == 5
ER_LOCK_DEADLOCK == 1213
ER_DUP_ENTRY == 1062
CR_SERVER_LOST == 2013

VARIABLES
    opened,        \* connections of the pool
    queue,         \* operations that wait for a worker
    closed,        \* the queue is closed
    exited,        \* workers whose thread has ended
    task,          \* what a connection executes, or None
    at,            \* its next call: 0 starts the transaction, then the statements,
                   \* then COMMIT; after an error ROLLBACK and, with the
                   \* transaction FAILED, the choice whether to try again
    attempts,      \* calls of ExecuteTransaction for a transaction so far
    inTransaction, \* the server has a transaction of this connection open
    written,       \* rows it has written and not committed
    handle,        \* m_Mysql is not NULL
    errno,         \* mysql_errno of the connection
    table,         \* the last operation that wrote each row
    answer,        \* what a query has read so far, row by row
    accepted,      \* history: operations in the order they were queued
    outcome,       \* history: what the pool made of each operation
    met,           \* history: errors an operation has met
    applied,       \* history: statements of an operation that the tables have seen
    faults         \* for the bound

poolVars   == <<opened, queue, closed, exited>>
clientVars == <<task, at, attempts, handle, errno>>
serverVars == <<inTransaction, written, table, answer>>
history    == <<accepted, outcome, met, applied>>
vars == <<poolVars, clientVars, serverVars, history, faults>>

LastRow(t) == Len(Rows[t])
COMMIT(t) == LastRow(t) + 1
ROLLBACK(t) == LastRow(t) + 2
FAILED(t) == LastRow(t) + 3
IsTransaction(c) == task[c] \in Transaction

\* The next call of a connection is one of the statements of its operation
AtStatement(c) == task[c] # None /\ at[c] \in 1..LastRow(task[c])

-----------------------------------------------------------------------------
(* The server                                                              *)

\* The row the next statement of a connection writes, if it writes
Wants(c) ==
    IF AtStatement(c) /\ task[c] \notin Query
    THEN {Rows[task[c]][at[c]]}
    ELSE {}

WaitsFor(c, d) == c # d /\ Wants(c) \intersect written[d] # {}

RowFree(c) == \A d \in opened : ~WaitsFor(c, d)

\* The connection is part of a cycle of waits
Deadlocked(c) ==
    \E C \in SUBSET opened :
        /\ c \in C
        /\ \A d \in C : /\ \E e \in C : WaitsFor(d, e)
                        /\ \E e \in C : WaitsFor(e, d)

\* Rows become visible: those of a transaction when it commits
Apply(t, rows) == table' = [k \in Key |-> IF k \in rows THEN t ELSE table[k]]

\* The transaction of a connection is over, its rows are free
ServerForgets(c) ==
    /\ inTransaction' = [inTransaction EXCEPT ![c] = FALSE]
    /\ written' = [written EXCEPT ![c] = {}]

-----------------------------------------------------------------------------
(* Handing operations to the pool                                          *)

\* Workers whose thread runs
Threads == (opened \intersect Worker) \ exited

Unused(t) == outcome[t] = "unused"

\* Enqueue: the caller waits while the queue is at its high water mark
Enqueue(t) ==
    /\ ~closed
    /\ Unused(t)
    /\ t \notin Direct
    /\ Len(queue) < HighWater
    /\ queue' = Append(queue, t)
    /\ accepted' = Append(accepted, t)
    /\ outcome' = [outcome EXCEPT ![t] = "waiting"]
    /\ UNCHANGED <<opened, closed, exited, clientVars, serverVars, met, applied,
                   faults>>

\* The first call of an operation: a transaction is started first
FirstCall(t) == IF t \in Transaction THEN 0 ELSE 1

Take(c, t) ==
    /\ task' = [task EXCEPT ![c] = t]
    /\ at' = [at EXCEPT ![c] = FirstCall(t)]
    /\ attempts' = [attempts EXCEPT ![t] = 1]
    /\ UNCHANGED <<handle, errno>>

\* DirectCommitTransaction, DirectExecute, Query: GetFreeConnection tries the
\* connections in turn until it has the lock of one, which it keeps to the end.
GetFreeConnection(s, t) ==
    /\ ~closed
    /\ t \in Direct
    /\ s \in opened \intersect Synch
    /\ task[s] = None
    /\ Unused(t)
    /\ Take(s, t)
    /\ outcome' = [outcome EXCEPT ![t] = "direct"]
    /\ UNCHANGED <<poolVars, serverVars, accepted, met, applied, faults>>

\* Faulty svc: the worker takes the newest operation.
svc_newest(w) ==
    /\ w \in Threads
    /\ task[w] = None
    /\ queue # <<>>
    /\ Take(w, queue[Len(queue)])
    /\ queue' = SubSeq(queue, 1, Len(queue) - 1)
    /\ UNCHANGED <<opened, closed, exited, serverVars, history, faults>>

\* DatabaseWorker::svc: dequeue waits for an operation
svc(w) ==
    /\ w \in Threads
    /\ task[w] = None
    /\ queue # <<>>
    /\ Take(w, Head(queue))
    /\ queue' = Tail(queue)
    /\ UNCHANGED <<opened, closed, exited, serverVars, history, faults>>

\* Faulty svc: the thread waits on, though the queue is closed.
svc_exit_never(w) ==
    /\ FALSE
    /\ UNCHANGED vars

\* DatabaseWorker::svc: dequeue fails once the queue is closed
svc_exit(w) ==
    /\ w \in Threads
    /\ task[w] = None
    /\ closed
    /\ exited' = exited \union {w}
    /\ UNCHANGED <<opened, queue, closed, clientVars, serverVars, history, faults>>

\* Close, after the other threads of the core have ended: close() of the ACE
\* queue frees what is still in it
Close ==
    /\ ~closed
    /\ \A s \in Synch : task[s] = None
    /\ closed' = TRUE
    /\ queue' = <<>>
    /\ outcome' = [t \in Task |-> IF t \in Range(queue) THEN "flushed" ELSE outcome[t]]
    /\ UNCHANGED <<opened, exited, clientVars, serverVars, accepted, met, applied,
                   faults>>

-----------------------------------------------------------------------------
(* The calls of a connection                                               *)

Finish(c, result) ==
    /\ task' = [task EXCEPT ![c] = None]
    /\ at' = [at EXCEPT ![c] = 0]
    /\ outcome' = [outcome EXCEPT ![task[c]] = result]

Proceed(c, call) ==
    /\ at' = [at EXCEPT ![c] = call]
    /\ UNCHANGED <<task, outcome>>

\* What follows a statement that could not be executed: the transaction is taken
\* back; a single statement is given up; a query, and with it what is left of a
\* holder, since there is no handle any more, is answered with NULL
StatementFails(c) ==
    IF IsTransaction(c) THEN Proceed(c, ROLLBACK(task[c])) ELSE Finish(c, "dropped")

StatementSucceeds(c) ==
    IF IsTransaction(c) \/ at[c] < LastRow(task[c])
    THEN Proceed(c, at[c] + 1)
    ELSE Finish(c, "done")

Errno(c, e) == errno' = [errno EXCEPT ![c] = e]

\* BeginTransaction: its result is not looked at
BeginTransaction(c) ==
    /\ IsTransaction(c)
    /\ at[c] = 0
    /\ Proceed(c, 1)
    /\ inTransaction' = [inTransaction EXCEPT ![c] = handle[c]]
    /\ Errno(c, 0)
    /\ UNCHANGED <<poolVars, attempts, handle, written, table, answer, accepted, met,
                   applied, faults>>

\* MySQLConnection::Execute: outside of a transaction a statement commits itself
Execute(c) ==
    LET t == task[c]
        row == Rows[t][at[c]]
    IN  /\ AtStatement(c)
        /\ t \notin Query
        /\ handle[c]
        /\ RowFree(c)
        /\ IF inTransaction[c]
           THEN /\ written' = [written EXCEPT ![c] = @ \union {row}]
                /\ UNCHANGED <<table, applied>>
           ELSE /\ Apply(t, {row})
                /\ applied' = [applied EXCEPT ![t] = @ \union {at[c]}]
                /\ UNCHANGED written
        /\ StatementSucceeds(c)
        /\ Errno(c, 0)
        /\ UNCHANGED <<poolVars, attempts, handle, inTransaction, answer, accepted, met,
                       faults>>

\* MySQLConnection::Query, for every query of a holder: the rows that are
\* committed, whoever holds them
ExecuteQuery(c) ==
    LET t == task[c] IN
    /\ AtStatement(c)
    /\ t \in Query
    /\ handle[c]
    /\ answer' = [answer EXCEPT ![t] = Append(@, table[Rows[t][at[c]]])]
    /\ StatementSucceeds(c)
    /\ Errno(c, 0)
    /\ UNCHANGED <<poolVars, attempts, handle, inTransaction, written, table, accepted, met,
                   applied, faults>>

\* The server refuses a statement (ER_DUP_ENTRY, ER_WRONG_VALUE_COUNT, ...)
Refused(c) ==
    /\ AtStatement(c)
    /\ task[c] \notin Query
    /\ handle[c]
    /\ RowFree(c)
    /\ faults < MaxFaults
    /\ faults' = faults + 1
    /\ StatementFails(c)
    /\ Errno(c, ER_DUP_ENTRY)
    /\ met' = [met EXCEPT ![task[c]] = @ \union {ER_DUP_ENTRY}]
    /\ UNCHANGED <<poolVars, attempts, handle, serverVars, accepted, applied>>

\* The server takes back a transaction of a cycle
Deadlock(c) ==
    /\ handle[c]
    /\ Deadlocked(c)
    /\ ServerForgets(c)
    /\ StatementFails(c)
    /\ Errno(c, ER_LOCK_DEADLOCK)
    /\ met' = [met EXCEPT ![task[c]] = @ \union {ER_LOCK_DEADLOCK}]
    /\ UNCHANGED <<poolVars, attempts, handle, table, answer, accepted, applied, faults>>

\* Faulty: the call is made again until there is a handle.
NoHandle_again(c) ==
    /\ AtStatement(c)
    /\ ~handle[c]
    /\ UNCHANGED vars

\* Execute and Query on a connection without a handle
NoHandle(c) ==
    /\ AtStatement(c)
    /\ ~handle[c]
    /\ StatementFails(c)
    /\ UNCHANGED <<poolVars, attempts, handle, errno, serverVars, accepted, met, applied,
                   faults>>

\* Faulty RollbackTransaction: what was executed before the error is committed.
RollbackTransaction_commits(c) ==
    LET t == task[c] IN
    /\ IsTransaction(c)
    /\ at[c] = ROLLBACK(t)
    /\ Apply(t, written[c])
    /\ applied' = [applied EXCEPT ![t] = {i \in 1..LastRow(t) : Rows[t][i] \in written[c]}]
    /\ ServerForgets(c)
    /\ Errno(c, 0)
    /\ Proceed(c, FAILED(t))
    /\ UNCHANGED <<poolVars, attempts, handle, answer, accepted, met, faults>>

\* RollbackTransaction, after which ExecuteTransaction returns false
RollbackTransaction(c) ==
    /\ IsTransaction(c)
    /\ at[c] = ROLLBACK(task[c])
    /\ ServerForgets(c)
    /\ Errno(c, 0)
    /\ Proceed(c, FAILED(task[c]))
    /\ UNCHANGED <<poolVars, attempts, handle, table, answer, accepted, met, applied,
                   faults>>

\* Faulty TryAgain: every failure is tried again, without the loop breaker.
TryAgain_forever(c) ==
    LET t == task[c] IN
    /\ IsTransaction(c)
    /\ at[c] = FAILED(t)
    /\ attempts' = [attempts EXCEPT ![t] = @ + 1]
    /\ Proceed(c, 0)
    /\ UNCHANGED <<poolVars, handle, errno, serverVars, accepted, met, applied, faults>>

\* TransactionTask::Execute and DirectCommitTransaction: after the first attempt
\* GetLastError decides, in the loop every failure leads to the next attempt
TryAgain(c) ==
    LET t == task[c]
        again == IF attempts[t] = 1
                 THEN errno[c] = ER_LOCK_DEADLOCK
                 ELSE attempts[t] < 1 + LoopBreaker
    IN  /\ IsTransaction(c)
        /\ at[c] = FAILED(t)
        /\ attempts' = [attempts EXCEPT ![t] = IF again THEN @ + 1 ELSE @]
        /\ IF again THEN Proceed(c, 0) ELSE Finish(c, "dropped")
        /\ UNCHANGED <<poolVars, handle, errno, serverVars, accepted, met, applied,
                       faults>>

\* CommitTransaction: its result is not looked at; without an open transaction it
\* has no effect
CommitTransaction(c) ==
    LET t == task[c] IN
    /\ IsTransaction(c)
    /\ at[c] = COMMIT(t)
    /\ Apply(t, written[c])
    /\ applied' = [applied EXCEPT ![t] = IF inTransaction[c] THEN 1..LastRow(t) ELSE @]
    /\ ServerForgets(c)
    /\ Errno(c, 0)
    /\ Finish(c, "done")
    /\ UNCHANGED <<poolVars, attempts, handle, answer, accepted, met, faults>>

\* A call finds the connection gone (CR_SERVER_LOST), before or after the server
\* has executed it.  _HandleMySQLErrno connects again and the caller repeats the
\* call; or it cannot connect and, on the next round, finds no handle to ask for
\* an error, so that the call fails and the connection stays without a handle.
LoseConnection(c) ==
    LET t == task[c] IN
    /\ task[c] # None
    /\ at[c] < FAILED(t)
    /\ handle[c]
    /\ faults < MaxFaults
    /\ faults' = faults + 1
    /\ \/ UNCHANGED <<table, applied>>
       \/ /\ at[c] = COMMIT(t) /\ inTransaction[c]
          /\ Apply(t, written[c])
          /\ applied' = [applied EXCEPT ![t] = 1..LastRow(t)]
       \/ /\ AtStatement(c) /\ t \notin Query /\ ~inTransaction[c] /\ RowFree(c)
          /\ Apply(t, {Rows[t][at[c]]})
          /\ applied' = [applied EXCEPT ![t] = @ \union {at[c]}]
    /\ ServerForgets(c)
    /\ met' = [met EXCEPT ![t] = @ \union {CR_SERVER_LOST}]
    /\ \E reconnected \in BOOLEAN : handle' = [handle EXCEPT ![c] = reconnected]
    /\ Errno(c, 0)
    /\ UNCHANGED <<poolVars, task, at, attempts, answer, accepted, outcome>>

-----------------------------------------------------------------------------
Init ==
    /\ opened \in {Synch \union workers : workers \in WorkerThreads}
    /\ queue = <<>>
    /\ closed = FALSE
    /\ exited = {}
    /\ task = [c \in Connection |-> None]
    /\ at = [c \in Connection |-> 0]
    /\ attempts = [t \in Task |-> 0]
    /\ inTransaction = [c \in Connection |-> FALSE]
    /\ written = [c \in Connection |-> {}]
    /\ handle = [c \in Connection |-> TRUE]
    /\ errno = [c \in Connection |-> 0]
    /\ table = [k \in Key |-> None]
    /\ answer = [t \in Task |-> <<>>]
    /\ accepted = <<>>
    /\ outcome = [t \in Task |-> "unused"]
    /\ met = [t \in Task |-> {}]
    /\ applied = [t \in Task |-> {}]
    /\ faults = 0

\* What a connection does next with its operation, if nothing goes wrong or once
\* something has
Call(c) ==
    \/ BeginTransaction(c) \/ Execute(c) \/ ExecuteQuery(c) \/ CommitTransaction(c)
    \/ Deadlock(c) \/ NoHandle(c) \/ RollbackTransaction(c) \/ TryAgain(c)

\* The thread that uses a connection: the worker's own, or the caller's
Thread(c) == Call(c) \/ svc(c) \/ svc_exit(c)

Next ==
    \/ \E t \in Task : Enqueue(t) \/ \E s \in Synch : GetFreeConnection(s, t)
    \/ \E c \in Connection : Thread(c) \/ Refused(c) \/ LoseConnection(c)
    \/ Close

Spec == Init /\ [][Next]_vars

\* The threads run and the server answers.  Nothing obliges the world to hand
\* over an operation or to close the pool, or anything to fail.
FairSpec == Spec /\ \A c \in Connection : WF_vars(Thread(c))

-----------------------------------------------------------------------------
(* Properties                                                              *)

TypeOK ==
    /\ opened \subseteq Connection
    /\ queue \in Seq(Task) /\ Len(queue) <= HighWater
    /\ closed \in BOOLEAN
    /\ exited \subseteq Worker
    /\ task \in [Connection -> Task \union {None}]
    /\ \A c \in Connection : at[c] \in IF task[c] = None THEN {0} ELSE 0..FAILED(task[c])
    /\ attempts \in [Task -> 0..1 + LoopBreaker]
    /\ inTransaction \in [Connection -> BOOLEAN]
    /\ written \in [Connection -> SUBSET Key]
    /\ handle \in [Connection -> BOOLEAN]
    /\ errno \in [Connection -> {0, ER_LOCK_DEADLOCK, ER_DUP_ENTRY}]
    /\ table \in [Key -> Task \union {None}]
    /\ \A t \in Task : answer[t] \in Seq(Task \union {None}) /\ Len(answer[t]) <= LastRow(t)
    /\ outcome \in [Task -> {"unused", "waiting", "direct", "done", "dropped", "flushed"}]
    /\ \A t \in Task : applied[t] \subseteq 1..LastRow(t)

\* The operations in the middle of which a connection was lost
Broken == {t \in Task : CR_SERVER_LOST \in met[t]}

\* A transaction is in the tables as a whole or not at all, whatever other
\* connections did between its statements (MySQLConnection::ExecuteTransaction).
AllOrNothing == \A t \in Transaction : applied[t] \in {{}, 1..LastRow(t)}

\* What the pool reports is what happened, whatever deadlock or error the operation
\* met, unless it lost its connection: if it succeeded all its rows are in the
\* tables, if it was given up or freed with the queue none is.
OutcomeTrue ==
    \A t \in (Task \ Query) \ Broken :
        /\ outcome[t] = "done" => applied[t] = 1..LastRow(t)
        /\ outcome[t] # "done" => applied[t] = {}

\* Callers see a store in which operations are atomic, unless they lose their
\* connection, and those of a single background connection are executed in the
\* order they were queued: DatabaseWorker::svc takes them in the order of Enqueue.
Store == INSTANCE TransactionStore WITH
    serial  <- Cardinality(opened \intersect Worker) = 1,
    queued  <- accepted,
    waiting <- {t \in Task : outcome[t] = "waiting"},
    direct  <- {t \in Task : outcome[t] = "direct"},
    broken  <- Broken

ImplementsStore == Store!Spec

\* An operation handed to the pool is over some day: no cycle of waits, lost
\* handle or closed queue leaves it with a worker or a caller for ever.
OperationsEnd ==
    \A t \in Task :
        outcome[t] \in {"waiting", "direct"} ~> outcome[t] \in {"done", "dropped", "flushed"}

\* Close returns: worker->wait() for every thread of the pool.
CloseEnds == closed ~> opened \intersect Worker \subseteq exited

\* A transaction that met nothing but deadlocks is given up only after the five
\* further attempts of TransactionTask::Execute and DirectCommitTransaction.
DeadlockRetried ==
    \A t \in Transaction :
        outcome[t] = "dropped" /\ met[t] = {ER_LOCK_DEADLOCK} => attempts[t] = 1 + LoopBreaker
=============================================================================

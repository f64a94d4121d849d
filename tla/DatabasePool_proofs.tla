------------------------- MODULE DatabasePool_proofs -------------------------
(***************************************************************************)
(* Proofs about DatabasePool, for every set of operations, rows and        *)
(* connections, every size of the queue and any number of faults.          *)
(***************************************************************************)
EXTENDS DatabasePool, QueueLemmas, FiniteSetTheorems, SequenceTheorems, TLAPS

\* What the functions of the model are defined on
Shapes ==
    /\ at \in [Connection -> Nat]
    /\ answer \in [Task -> Seq(Task \union {None})]
    /\ applied \in [Task -> SUBSET Nat]
    /\ met \in [Task -> SUBSET Nat]

\* An operation waits in the queue once, or is with one connection, and the pool has
\* not said yet what became of it.
OneConnection ==
    /\ Distinct(queue)
    /\ \A t \in Range(queue) : outcome[t] = "waiting"
    /\ \A c \in Connection : task[c] # None =>
          outcome[task[c]] \in {"waiting", "direct"} /\ task[c] \notin Range(queue)
    /\ \A c, d \in Connection : task[c] = task[d] /\ task[c] # None => c = d

\* A query has read the rows in front of its next call.
ReadsOf(c) == task[c] \in Query => Len(answer[task[c]]) = at[c] - 1

Reading ==
    /\ \A t \in Task : outcome[t] = "unused" \/ t \in Range(queue) => answer[t] = <<>>
    /\ \A c \in Connection : ReadsOf(c)

\* The server has a transaction of a connection open exactly while a transaction is
\* between its first and its last call, unless the connection was lost.
CallsOf(c) ==
    /\ task[c] \notin Transaction => ~inTransaction[c]
    /\ task[c] \in Task \ Transaction => at[c] \in 1..LastRow(task[c])
    /\ task[c] \in Transaction =>
          /\ at[c] \in {0, FAILED(task[c])} => ~inTransaction[c]
          /\ task[c] \notin Broken =>
                /\ at[c] = 1 => inTransaction[c] = handle[c]
                /\ at[c] \in 2..COMMIT(task[c]) => inTransaction[c]

Calls == \A c \in Connection : CallsOf(c)

\* OutcomeTrue for one operation
TrueOf(t) ==
    t \notin Query \union Broken =>
        /\ outcome[t] = "done" => applied[t] = 1..LastRow(t)
        /\ outcome[t] # "done" => applied[t] = {}

PoolInv == TypeOK /\ Shapes /\ OneConnection /\ Reading /\ Calls /\ OutcomeTrue

-----------------------------------------------------------------------------
(* The operations                                                          *)

\* Every operation has a statement, and one that is neither a transaction nor a
\* query has one only.
LEMMA RowsOf ==
    ASSUME NEW t \in Task
    PROVE  /\ LastRow(t) \in Nat \ {0}
           /\ COMMIT(t) = LastRow(t) + 1
           /\ ROLLBACK(t) = LastRow(t) + 2
           /\ FAILED(t) = LastRow(t) + 3
           /\ t \notin Transaction \union Query => LastRow(t) = 1
           /\ \A i \in 1..LastRow(t) : Rows[t][i] \in Key
  <1>1. Rows[t] \in Seq(Key) /\ Rows[t] # <<>>
    BY PoolAssumption
  <1>2. LastRow(t) \in Nat \ {0}
    BY <1>1, EmptySeq DEF LastRow
  <1>3. \A i \in 1..LastRow(t) : Rows[t][i] \in Key
    BY <1>1, ElementOfSeq DEF LastRow
  <1> QED  BY <1>2, <1>3, PoolAssumption DEF LastRow, COMMIT, ROLLBACK, FAILED

\* The pool reports the truth if it does so for every operation.
LEMMA TrueForAll == OutcomeTrue <=> \A t \in Task : TrueOf(t)
  BY DEF OutcomeTrue, TrueOf

LEMMA InitPoolInv == Init => PoolInv
  <1> SUFFICES ASSUME Init  PROVE PoolInv
    OBVIOUS
  <1>1. Range(queue) = {} /\ Len(queue) = 0 /\ Distinct(queue)
    BY DEF Init, Range, Distinct
  <1>2. \A t \in Task : LastRow(t) \in Nat \ {0}
    BY RowsOf
  <1>3. TypeOK
    <2>1. opened \subseteq Connection
      BY PoolAssumption DEF Init, Connection
    <2>2. queue \in Seq(Task) /\ Len(queue) <= HighWater
      BY <1>1, PoolAssumption DEF Init
    <2>3. \A t \in Task : answer[t] \in Seq(Task \union {None}) /\ Len(answer[t]) <= LastRow(t)
      BY <1>2 DEF Init
    <2>4. attempts \in [Task -> 0..1 + LoopBreaker]
      BY DEF Init, LoopBreaker
    <2> QED  BY <2>1, <2>2, <2>3, <2>4 DEF Init, TypeOK
  <1>4. Shapes
    BY DEF Init, Shapes
  <1>5. OneConnection
    BY <1>1 DEF Init, OneConnection
  <1>6. Reading
    BY <1>1, PoolAssumption DEF Init, Reading, ReadsOf
  <1>7. Calls
    BY PoolAssumption DEF Init, Calls, CallsOf
  <1>8. OutcomeTrue
    BY DEF Init, OutcomeTrue
  <1> QED  BY <1>3, <1>4, <1>5, <1>6, <1>7, <1>8 DEF PoolInv

-----------------------------------------------------------------------------
(* A call of one connection                                                *)

\* The step is one of the calls of c for its operation t: it leaves the queue, the
\* other connections and the other operations alone.
Touches(c, t) ==
    /\ queue' = queue
    /\ \A d \in Connection \ {c} :
          /\ task'[d] = task[d] /\ at'[d] = at[d]
          /\ inTransaction'[d] = inTransaction[d] /\ handle'[d] = handle[d]
    /\ \A u \in Task \ {t} :
          /\ outcome'[u] = outcome[u] /\ answer'[u] = answer[u]
          /\ applied'[u] = applied[u] /\ met'[u] = met[u]
    /\ \/ task'[c] = t /\ outcome'[t] = outcome[t]
       \/ task'[c] = None /\ outcome'[t] \in {"done", "dropped"}

\* Such a step needs a look at c and t only.
LEMMA CallKeeps ==
    ASSUME PoolInv, NEW c \in Connection, NEW t \in Task, task[c] = t, Touches(c, t),
           CallsOf(c)', ReadsOf(c)', TrueOf(t)'
    PROVE  OneConnection' /\ Reading' /\ Calls' /\ OutcomeTrue'
  <1>1. /\ t # None /\ outcome[t] \in {"waiting", "direct"}
        /\ t \notin Range(queue)
        /\ \A d \in Connection \ {c} : task[d] # t
        /\ \A d \in Connection : task[d] \in Task \union {None}
        /\ Range(queue) \subseteq Task
    BY PoolAssumption, LenProperties DEF PoolInv, OneConnection, TypeOK, Range
  <1>2. OneConnection'
    BY <1>1 DEF PoolInv, OneConnection, Touches
  <1>3. Reading'
    <2>1. \A u \in Task : outcome'[u] = "unused" \/ u \in Range(queue') => answer'[u] = <<>>
      BY <1>1 DEF PoolInv, Reading, Touches
    <2>2. ASSUME NEW d \in Connection \ {c}  PROVE ReadsOf(d)'
      <3>1. ReadsOf(d) /\ task'[d] = task[d] /\ at'[d] = at[d] /\ task[d] # t
        BY <1>1 DEF PoolInv, Reading, Touches
      <3>2. task[d] \in Query => answer'[task[d]] = answer[task[d]]
        BY <1>1, <3>1, PoolAssumption DEF Touches
      <3> QED  BY <3>1, <3>2 DEF ReadsOf
    <2> QED  BY <2>1, <2>2 DEF Reading
  <1>4. ASSUME NEW d \in Connection \ {c}  PROVE CallsOf(d)'
    <2>1. /\ task'[d] = task[d] /\ at'[d] = at[d]
          /\ inTransaction'[d] = inTransaction[d] /\ handle'[d] = handle[d]
      BY DEF Touches
    <2>2. task[d] \in Task => (task[d] \in Broken' <=> task[d] \in Broken)
      BY <1>1 DEF Touches, Broken
    <2>3. CallsOf(d)
      BY DEF PoolInv, Calls
    <2> QED  BY <2>1, <2>2, <2>3, PoolAssumption DEF CallsOf
  <1>5. ASSUME NEW u \in Task \ {t}  PROVE TrueOf(u)'
    <2>1. outcome'[u] = outcome[u] /\ applied'[u] = applied[u] /\ met'[u] = met[u]
      BY DEF Touches
    <2>2. u \in Broken' <=> u \in Broken
      BY <2>1 DEF Broken
    <2>3. TrueOf(u)
      BY TrueForAll DEF PoolInv
    <2> QED  BY <2>1, <2>2, <2>3 DEF TrueOf
  <1>6. Calls'
    BY <1>4 DEF Calls
  <1>7. OutcomeTrue'
    <2>1. \A u \in Task : TrueOf(u)'
      BY <1>5
    <2> QED  BY <2>1 DEF OutcomeTrue, TrueOf
  <1> QED  BY <1>2, <1>3, <1>6, <1>7

\* The other variables keep their types.
LEMMA CallTypes ==
    ASSUME PoolInv, NEW c \in Connection, NEW t \in Task, task[c] = t,
           UNCHANGED poolVars,
           \/ \E call \in 0..FAILED(t) : Proceed(c, call)
           \/ \E result \in {"done", "dropped"} : Finish(c, result)
    PROVE  /\ opened' \subseteq Connection
           /\ queue' \in Seq(Task) /\ Len(queue') <= HighWater
           /\ closed' \in BOOLEAN
           /\ exited' \subseteq Worker
           /\ task' \in [Connection -> Task \union {None}]
           /\ at' \in [Connection -> Nat]
           /\ \A d \in Connection :
                 at'[d] \in IF task'[d] = None THEN {0} ELSE 0..FAILED(task'[d])
           /\ outcome' \in [Task -> {"unused", "waiting", "direct", "done", "dropped",
                                     "flushed"}]
  <1>1. FAILED(t) \in Nat /\ t # None
    BY RowsOf, PoolAssumption
  <1>2. /\ at \in [Connection -> Nat]
        /\ task \in [Connection -> Task \union {None}]
        /\ \A d \in Connection :
              at[d] \in IF task[d] = None THEN {0} ELSE 0..FAILED(task[d])
        /\ outcome \in [Task -> {"unused", "waiting", "direct", "done", "dropped",
                                 "flushed"}]
    BY DEF PoolInv, TypeOK, Shapes
  <1>3. CASE \E call \in 0..FAILED(t) : Proceed(c, call)
    <2>1. PICK call \in 0..FAILED(t) : Proceed(c, call)
      BY <1>3
    <2>2. at' = [at EXCEPT ![c] = call] /\ task' = task /\ outcome' = outcome
      BY <2>1 DEF Proceed
    <2>3. call \in Nat /\ call \in IF t = None THEN {0} ELSE 0..FAILED(t)
      BY <1>1
    <2>4. at' \in [Connection -> Nat]
      BY <1>2, <2>2, <2>3
    <2>5. \A d \in Connection :
              at'[d] \in IF task'[d] = None THEN {0} ELSE 0..FAILED(task'[d])
      <3> SUFFICES ASSUME NEW d \in Connection
                   PROVE  at'[d] \in IF task[d] = None THEN {0} ELSE 0..FAILED(task[d])
        BY <2>2
      <3>1. CASE d = c
        <4>1. at'[d] = call /\ task[d] = t
          BY <1>2, <2>2, <3>1
        <4> QED  BY <2>3, <4>1
      <3>2. CASE d # c
        <4>1. at'[d] = at[d]
          BY <1>2, <2>2, <3>2
        <4> QED  BY <1>2, <4>1
      <3> QED  BY <3>1, <3>2
    <2> QED  BY <1>2, <2>2, <2>4, <2>5 DEF PoolInv, TypeOK, poolVars
  <1>4. CASE \E result \in {"done", "dropped"} : Finish(c, result)
    <2>1. PICK result \in {"done", "dropped"} : Finish(c, result)
      BY <1>4
    <2>2. /\ at' = [at EXCEPT ![c] = 0] /\ task' = [task EXCEPT ![c] = None]
          /\ outcome' = [outcome EXCEPT ![t] = result]
      BY <2>1 DEF Finish
    <2>3. /\ task' \in [Connection -> Task \union {None}]
          /\ at' \in [Connection -> Nat]
          /\ outcome' \in [Task -> {"unused", "waiting", "direct", "done", "dropped",
                                    "flushed"}]
      BY <1>1, <1>2, <2>2
    <2>4. \A d \in Connection :
              at'[d] \in IF task'[d] = None THEN {0} ELSE 0..FAILED(task'[d])
      BY <1>1, <1>2, <2>2
    <2> QED  BY <2>3, <2>4 DEF PoolInv, TypeOK, poolVars
  <1> QED  BY <1>3, <1>4

\* What a failed statement is followed by
LEMMA FailsTo ==
    ASSUME PoolInv, NEW c \in Connection, NEW t \in Task, task[c] = t,
           StatementFails(c)
    PROVE  /\ \/ t \in Transaction /\ Proceed(c, ROLLBACK(t))
              \/ t \notin Transaction /\ Finish(c, "dropped")
           /\ ROLLBACK(t) \in 0..FAILED(t)
  BY RowsOf DEF StatementFails, IsTransaction

\* What a statement that was executed is followed by
LEMMA SucceedsTo ==
    ASSUME PoolInv, NEW c \in Connection, NEW t \in Task, task[c] = t,
           at[c] \in 1..LastRow(t), StatementSucceeds(c)
    PROVE  /\ \/ /\ t \in Transaction \/ at[c] < LastRow(t)
                 /\ Proceed(c, at[c] + 1)
              \/ /\ t \notin Transaction /\ at[c] = LastRow(t)
                 /\ Finish(c, "done")
           /\ at[c] + 1 \in 0..FAILED(t)
  BY RowsOf DEF StatementSucceeds, IsTransaction

\* The calls that follow write nothing: the transaction is started, fails, is taken
\* back or tried again.
LEMMA QuietCall ==
    ASSUME PoolInv, NEW c \in Connection, NEW t \in Task, task[c] = t,
           UNCHANGED <<poolVars, answer, applied, table>>,
           \/ \E call \in 0..FAILED(t) : Proceed(c, call)
           \/ Finish(c, "dropped"),
           attempts' \in [Task -> 0..1 + LoopBreaker],
           \E b \in BOOLEAN : inTransaction' = [inTransaction EXCEPT ![c] = b],
           written' \in [Connection -> SUBSET Key],
           UNCHANGED handle,
           errno' \in [Connection -> {0, ER_LOCK_DEADLOCK, ER_DUP_ENTRY}],
           \E e \in SUBSET {ER_LOCK_DEADLOCK, ER_DUP_ENTRY} :
                met' = [met EXCEPT ![t] = @ \union e],
           task'[c] = None => ~inTransaction'[c],
           task'[c] = t => /\ t \notin Query
                           /\ t \in Transaction
                           /\ at'[c] \in {0, FAILED(t)} => ~inTransaction'[c]
                           /\ at'[c] = 1 => inTransaction'[c] = handle[c]
                           /\ at'[c] \notin 2..COMMIT(t)
    PROVE  PoolInv'
  <1>1. PICK b \in BOOLEAN : inTransaction' = [inTransaction EXCEPT ![c] = b]
    OBVIOUS
  <1>2. PICK e \in SUBSET {ER_LOCK_DEADLOCK, ER_DUP_ENTRY} :
            met' = [met EXCEPT ![t] = @ \union e]
    OBVIOUS
  <1>3. e \subseteq Nat /\ CR_SERVER_LOST \notin e
    BY DEF ER_LOCK_DEADLOCK, ER_DUP_ENTRY, CR_SERVER_LOST
  <1>4. TypeOK' /\ Shapes'
    <2>1. inTransaction' \in [Connection -> BOOLEAN]
      BY <1>1 DEF PoolInv, TypeOK
    <2>2. met' \in [Task -> SUBSET Nat]
      BY <1>2, <1>3 DEF PoolInv, Shapes
    <2> QED
      BY <2>1, <2>2, CallTypes DEF PoolInv, TypeOK, Shapes
  <1>5. /\ t # None /\ outcome[t] \in {"waiting", "direct"}
    BY PoolAssumption DEF PoolInv, OneConnection
  <1>6. Touches(c, t)
    <2>1. \A d \in Connection \ {c} : task'[d] = task[d] /\ at'[d] = at[d]
      BY DEF Proceed, Finish, PoolInv, TypeOK, Shapes
    <2>2. \A d \in Connection \ {c} : inTransaction'[d] = inTransaction[d]
      BY <1>1 DEF PoolInv, TypeOK
    <2>3. \A u \in Task \ {t} : outcome'[u] = outcome[u] /\ met'[u] = met[u]
      BY <1>2 DEF Proceed, Finish, PoolInv, TypeOK, Shapes
    <2>4. \/ task'[c] = t /\ outcome'[t] = outcome[t]
          \/ task'[c] = None /\ outcome'[t] \in {"done", "dropped"}
      BY DEF Proceed, Finish, PoolInv, TypeOK
    <2> QED  BY <2>1, <2>2, <2>3, <2>4 DEF Touches, poolVars
  <1>7. t \in Broken' <=> t \in Broken
    BY <1>2, <1>3 DEF Broken, PoolInv, Shapes
  <1>8. task'[c] \in {None, t}
    BY <1>6 DEF Touches
  <1>9. CallsOf(c)'
    BY <1>5, <1>8, PoolAssumption DEF CallsOf
  <1>10. ReadsOf(c)'
    BY <1>8, PoolAssumption DEF ReadsOf
  <1>11. TrueOf(t)'
    <2>1. TrueOf(t)
      BY TrueForAll DEF PoolInv
    <2>2. outcome'[t] # "done"
      BY <1>5 DEF Proceed, Finish, PoolInv, TypeOK
    <2> QED  BY <1>5, <1>7, <2>1, <2>2 DEF TrueOf
  <1>12. OneConnection' /\ Reading' /\ Calls' /\ OutcomeTrue'
    BY <1>6, <1>9, <1>10, <1>11, CallKeeps
  <1> QED  BY <1>4, <1>12 DEF PoolInv

\* What the invariant says of a connection that has an operation
LEMMA AtWork ==
    ASSUME PoolInv, NEW c \in Connection, task[c] # None
    PROVE  /\ task[c] \in Task
           /\ CallsOf(c)
           /\ ReadsOf(c)
           /\ TrueOf(task[c])
           /\ outcome[task[c]] \in {"waiting", "direct"}
           /\ at[c] \in 0..FAILED(task[c])
  <1>1. task[c] \in Task /\ at[c] \in 0..FAILED(task[c])
    BY DEF PoolInv, TypeOK
  <1>2. CallsOf(c) /\ ReadsOf(c) /\ outcome[task[c]] \in {"waiting", "direct"}
    BY DEF PoolInv, Calls, Reading, OneConnection
  <1>3. TrueOf(task[c])
    BY <1>1, TrueForAll DEF PoolInv
  <1> QED  BY <1>1, <1>2, <1>3

\* A connection in a cycle of waits is at a statement that writes.
LEMMA DeadlockedWrites ==
    ASSUME NEW c, Deadlocked(c)
    PROVE  AtStatement(c) /\ task[c] \notin Query
  <1>1. \E e : WaitsFor(c, e)
    BY DEF Deadlocked
  <1>2. Wants(c) # {}
    BY <1>1 DEF WaitsFor
  <1> QED  BY <1>2 DEF Wants

\* The calls that write nothing keep the invariant.
LEMMA QuietCalls ==
    ASSUME PoolInv, NEW c \in Connection,
           \/ BeginTransaction(c) \/ Refused(c) \/ Deadlock(c) \/ NoHandle(c)
           \/ RollbackTransaction(c) \/ TryAgain(c)
    PROVE  PoolInv'
  <1> DEFINE t == task[c]
  <1>1. t # None /\ t \in Task
    <2>1. AtStatement(c) \/ IsTransaction(c)
      BY DeadlockedWrites DEF BeginTransaction, Refused, Deadlock, NoHandle,
                              RollbackTransaction, TryAgain
    <2>2. t # None
      BY <2>1, PoolAssumption DEF AtStatement, IsTransaction
    <2> QED  BY <2>2 DEF PoolInv, TypeOK
  <1>2. /\ LastRow(t) \in Nat \ {0} /\ COMMIT(t) = LastRow(t) + 1
        /\ ROLLBACK(t) = LastRow(t) + 2 /\ FAILED(t) = LastRow(t) + 3
    BY <1>1, RowsOf
  <1>3. /\ inTransaction \in [Connection -> BOOLEAN]
        /\ handle \in [Connection -> BOOLEAN]
        /\ written \in [Connection -> SUBSET Key]
        /\ attempts \in [Task -> 0..1 + LoopBreaker]
        /\ errno \in [Connection -> {0, ER_LOCK_DEADLOCK, ER_DUP_ENTRY}]
        /\ met \in [Task -> SUBSET Nat]
        /\ at \in [Connection -> Nat]
        /\ task \in [Connection -> Task \union {None}]
    BY DEF PoolInv, TypeOK, Shapes
  <1>4. /\ inTransaction = [inTransaction EXCEPT ![c] = inTransaction[c]]
        /\ met = [met EXCEPT ![t] = @ \union {}]
    BY <1>1, <1>3
  <1>5. CallsOf(c)
    BY <1>1, AtWork
  <1> HIDE DEF t
  <1>6. ASSUME BeginTransaction(c)  PROVE PoolInv'
    <2>1. /\ t \in Transaction /\ Proceed(c, 1)
          /\ inTransaction' = [inTransaction EXCEPT ![c] = handle[c]]
          /\ errno' = [errno EXCEPT ![c] = 0]
          /\ UNCHANGED <<poolVars, attempts, handle, written, table, answer, met, applied>>
      BY <1>6 DEF BeginTransaction, IsTransaction, Errno, t
    <2>2. task' = task /\ at' = [at EXCEPT ![c] = 1] /\ 1 \in 0..FAILED(t)
      BY <1>2, <2>1 DEF Proceed
    <2>3. task'[c] = t /\ at'[c] = 1 /\ inTransaction'[c] = handle[c] /\ t \notin Query
      BY <1>3, <2>1, <2>2, PoolAssumption DEF t
    <2>4. 1 \notin {0, FAILED(t)} /\ 1 \notin 2..COMMIT(t)
      BY <1>2
    <2>5. errno' \in [Connection -> {0, ER_LOCK_DEADLOCK, ER_DUP_ENTRY}]
      BY <1>3, <2>1
    <2>6. /\ \E b \in BOOLEAN : inTransaction' = [inTransaction EXCEPT ![c] = b]
          /\ \E e \in SUBSET {ER_LOCK_DEADLOCK, ER_DUP_ENTRY} :
                met' = [met EXCEPT ![t] = @ \union e]
      BY <1>3, <1>4, <2>1
    <2>7. task[c] = t
      BY DEF t
    <2> QED
      BY <1>1, <1>3, <2>1, <2>2, <2>3, <2>4, <2>5, <2>6, <2>7, QuietCall
  <1>7. ASSUME Refused(c) \/ Deadlock(c) \/ NoHandle(c)  PROVE PoolInv'
    <2>1. /\ AtStatement(c)
          /\ StatementFails(c)
          /\ UNCHANGED <<poolVars, attempts, handle, table, answer, applied>>
          /\ \/ UNCHANGED <<inTransaction, written>>
             \/ ServerForgets(c)
          /\ errno' \in {errno, [errno EXCEPT ![c] = ER_DUP_ENTRY],
                                [errno EXCEPT ![c] = ER_LOCK_DEADLOCK]}
          /\ \/ met' = met
             \/ met' = [met EXCEPT ![t] = @ \union {ER_DUP_ENTRY}]
             \/ met' = [met EXCEPT ![t] = @ \union {ER_LOCK_DEADLOCK}]
      BY <1>7, DeadlockedWrites DEF Refused, Deadlock, NoHandle, Errno, serverVars, t
    <2>2. \/ t \in Transaction /\ Proceed(c, ROLLBACK(t))
          \/ t \notin Transaction /\ Finish(c, "dropped")
      BY <1>1, <2>1, FailsTo DEF t
    <2>3. errno' \in [Connection -> {0, ER_LOCK_DEADLOCK, ER_DUP_ENTRY}]
      BY <1>3, <2>1
    <2>4. \E e \in SUBSET {ER_LOCK_DEADLOCK, ER_DUP_ENTRY} :
              met' = [met EXCEPT ![t] = @ \union e]
      BY <1>4, <2>1
    <2>5. \E b \in BOOLEAN : /\ inTransaction' = [inTransaction EXCEPT ![c] = b]
                             /\ b => inTransaction[c]
      BY <1>3, <1>4, <2>1 DEF ServerForgets
    <2>6. written' \in [Connection -> SUBSET Key]
      BY <1>3, <2>1 DEF ServerForgets
    <2>7. task'[c] = None => ~inTransaction'[c]
      <3>1. task'[c] = None => t \notin Transaction
        BY <1>1, <1>3, <2>2 DEF Proceed, t
      <3>2. t \notin Transaction => ~inTransaction[c]
        BY <1>5 DEF CallsOf, t
      <3> QED  BY <1>3, <2>5, <3>1, <3>2
    <2>8. task'[c] = t => t \in Transaction /\ t \notin Query /\ at'[c] = ROLLBACK(t)
      BY <1>1, <1>3, <2>2, PoolAssumption DEF Proceed, Finish, t
    <2>9. /\ ROLLBACK(t) \notin {0, FAILED(t), 1} /\ ROLLBACK(t) \notin 2..COMMIT(t)
          /\ ROLLBACK(t) \in 0..FAILED(t)
      BY <1>2
    <2>10. task[c] = t
      BY DEF t
    <2>11. \/ \E call \in 0..FAILED(t) : Proceed(c, call)
           \/ Finish(c, "dropped")
      BY <2>2, <2>9
    <2>12. task'[c] = t => /\ t \notin Query
                           /\ t \in Transaction
                           /\ at'[c] \in {0, FAILED(t)} => ~inTransaction'[c]
                           /\ at'[c] = 1 => inTransaction'[c] = handle[c]
                           /\ at'[c] \notin 2..COMMIT(t)
      BY <2>8, <2>9
    <2>13. /\ \E b \in BOOLEAN : inTransaction' = [inTransaction EXCEPT ![c] = b]
           /\ UNCHANGED <<poolVars, answer, applied, table>>
           /\ UNCHANGED handle
           /\ attempts' \in [Task -> 0..1 + LoopBreaker]
      BY <1>3, <2>1, <2>5
    <2> QED
      BY <1>1, <2>3, <2>4, <2>6, <2>7, <2>10, <2>11, <2>12, <2>13, QuietCall
  <1>8. ASSUME RollbackTransaction(c)  PROVE PoolInv'
    <2>1. /\ t \in Transaction /\ Proceed(c, FAILED(t))
          /\ ServerForgets(c)
          /\ errno' = [errno EXCEPT ![c] = 0]
          /\ UNCHANGED <<poolVars, attempts, handle, table, answer, met, applied>>
      BY <1>8 DEF RollbackTransaction, IsTransaction, Errno, t
    <2>2. task' = task /\ at' = [at EXCEPT ![c] = FAILED(t)] /\ FAILED(t) \in 0..FAILED(t)
      BY <1>2, <2>1 DEF Proceed
    <2>3. /\ task'[c] = t /\ at'[c] = FAILED(t) /\ t \notin Query
          /\ inTransaction' = [inTransaction EXCEPT ![c] = FALSE]
          /\ ~inTransaction'[c]
      BY <1>3, <2>1, <2>2, PoolAssumption DEF ServerForgets, t
    <2>4. FAILED(t) # 1 /\ FAILED(t) \notin 2..COMMIT(t)
      BY <1>2
    <2>5. /\ errno' \in [Connection -> {0, ER_LOCK_DEADLOCK, ER_DUP_ENTRY}]
          /\ written' \in [Connection -> SUBSET Key]
      BY <1>3, <2>1 DEF ServerForgets
    <2>6. \E e \in SUBSET {ER_LOCK_DEADLOCK, ER_DUP_ENTRY} :
              met' = [met EXCEPT ![t] = @ \union e]
      BY <1>4, <2>1
    <2>7. task[c] = t
      BY DEF t
    <2> QED
      BY <1>1, <1>3, <2>1, <2>2, <2>3, <2>4, <2>5, <2>6, <2>7, QuietCall
  <1>9. ASSUME TryAgain(c)  PROVE PoolInv'
    <2>1. /\ t \in Transaction /\ at[c] = FAILED(t)
          /\ Proceed(c, 0) \/ Finish(c, "dropped")
          /\ UNCHANGED <<poolVars, handle, errno, inTransaction, written, table, answer,
                         met, applied>>
      BY <1>9 DEF TryAgain, IsTransaction, serverVars, t
    <2>2. attempts' \in [Task -> 0..1 + LoopBreaker]
      <3>1. \/ attempts' = [attempts EXCEPT ![t] = attempts[t]]
            \/ /\ attempts' = [attempts EXCEPT ![t] = attempts[t] + 1]
               /\ attempts[t] = 1 \/ attempts[t] < 1 + LoopBreaker
        BY <1>9 DEF TryAgain, t
      <3>2. attempts[t] \in 0..1 + LoopBreaker
        BY <1>1, <1>3
      <3> QED  BY <1>3, <3>1, <3>2 DEF LoopBreaker
    <2>3. ~inTransaction[c]
      BY <1>5, <2>1 DEF CallsOf, t
    <2>4. task'[c] = t => at'[c] = 0 /\ t \notin Query
      BY <1>1, <1>3, <2>1, PoolAssumption DEF Proceed, Finish, t
    <2>5. 0 \notin 2..COMMIT(t) /\ 0 \in 0..FAILED(t)
      BY <1>2
    <2>6. /\ \E b \in BOOLEAN : inTransaction' = [inTransaction EXCEPT ![c] = b]
          /\ \E e \in SUBSET {ER_LOCK_DEADLOCK, ER_DUP_ENTRY} :
                met' = [met EXCEPT ![t] = @ \union e]
      BY <1>3, <1>4, <2>1
    <2>7. task[c] = t
      BY DEF t
    <2>8. task'[c] = t => /\ t \notin Query
                          /\ t \in Transaction
                          /\ at'[c] \in {0, FAILED(t)} => ~inTransaction'[c]
                          /\ at'[c] = 1 => inTransaction'[c] = handle[c]
                          /\ at'[c] \notin 2..COMMIT(t)
      BY <2>1, <2>3, <2>4, <2>5
    <2>9. /\ UNCHANGED <<poolVars, answer, applied, table>>
          /\ UNCHANGED handle
          /\ written' \in [Connection -> SUBSET Key]
          /\ errno' \in [Connection -> {0, ER_LOCK_DEADLOCK, ER_DUP_ENTRY}]
          /\ task'[c] = None => ~inTransaction'[c]
      BY <1>3, <2>1, <2>3
    <2>10. \/ \E call \in 0..FAILED(t) : Proceed(c, call)
           \/ Finish(c, "dropped")
      BY <2>1, <2>5
    <2> QED
      BY <1>1, <2>2, <2>6, <2>7, <2>8, <2>9, <2>10, QuietCall
  <1> QED  BY <1>6, <1>7, <1>8, <1>9

\* A statement that writes: in a transaction it is hidden until the commit, outside
\* of one it is the only one, or the connection was lost.
LEMMA ExecuteCall ==
    ASSUME PoolInv, NEW c \in Connection, Execute(c)
    PROVE  PoolInv'
  <1>0. PICK t \in Task : task[c] = t
    BY DEF Execute, AtStatement, PoolInv, TypeOK
  <1>1. /\ t # None /\ t \in Task /\ t \notin Query
        /\ at[c] \in 1..LastRow(t) /\ handle[c]
        /\ StatementSucceeds(c)
        /\ errno' = [errno EXCEPT ![c] = 0]
        /\ UNCHANGED <<poolVars, attempts, handle, inTransaction, answer, met>>
    BY <1>0, PoolAssumption DEF Execute, AtStatement, Errno
  <1>2. \/ /\ inTransaction[c]
           /\ written' = [written EXCEPT ![c] = @ \union {Rows[t][at[c]]}]
           /\ UNCHANGED <<table, applied>>
        \/ /\ ~inTransaction[c]
           /\ Apply(t, {Rows[t][at[c]]})
           /\ applied' = [applied EXCEPT ![t] = @ \union {at[c]}]
           /\ UNCHANGED written
    BY <1>0 DEF Execute
  <1>3. /\ LastRow(t) \in Nat \ {0} /\ COMMIT(t) = LastRow(t) + 1
        /\ FAILED(t) = LastRow(t) + 3
        /\ t \notin Transaction => LastRow(t) = 1
        /\ Rows[t][at[c]] \in Key
    BY <1>1, RowsOf
  <1>4. /\ written \in [Connection -> SUBSET Key]
        /\ table \in [Key -> Task \union {None}]
        /\ applied \in [Task -> SUBSET Nat]
        /\ \A u \in Task : applied[u] \subseteq 1..LastRow(u)
        /\ errno \in [Connection -> {0, ER_LOCK_DEADLOCK, ER_DUP_ENTRY}]
        /\ at \in [Connection -> Nat]
        /\ task \in [Connection -> Task \union {None}]
        /\ outcome \in [Task -> {"unused", "waiting", "direct", "done", "dropped",
                                 "flushed"}]
    BY DEF PoolInv, TypeOK, Shapes
  <1>5. /\ CallsOf(c) /\ TrueOf(t) /\ outcome[t] \in {"waiting", "direct"}
    BY <1>0, <1>1, AtWork
  <1>6. /\ \/ t \in Transaction /\ Proceed(c, at[c] + 1)
           \/ t \notin Transaction /\ at[c] = LastRow(t) /\ Finish(c, "done")
        /\ at[c] + 1 \in 0..FAILED(t)
    BY <1>0, <1>1, <1>3, SucceedsTo
  <1>8. /\ written' \in [Connection -> SUBSET Key]
        /\ table' \in [Key -> Task \union {None}]
        /\ applied' \in [Task -> SUBSET Nat]
        /\ \A u \in Task : applied'[u] \subseteq 1..LastRow(u)
        /\ errno' \in [Connection -> {0, ER_LOCK_DEADLOCK, ER_DUP_ENTRY}]
        /\ \A u \in Task \ {t} : applied'[u] = applied[u]
    <2>1. errno' \in [Connection -> {0, ER_LOCK_DEADLOCK, ER_DUP_ENTRY}]
      BY <1>1, <1>4
    <2>2. CASE inTransaction[c]
      BY <1>2, <1>3, <1>4, <2>1, <2>2
    <2>3. CASE ~inTransaction[c]
      <3>1. table' \in [Key -> Task \union {None}]
        BY <1>1, <1>2, <1>4, <2>3 DEF Apply
      <3>2. /\ applied' \in [Task -> SUBSET Nat]
            /\ \A u \in Task \ {t} : applied'[u] = applied[u]
            /\ applied'[t] = applied[t] \union {at[c]}
        BY <1>1, <1>2, <1>4, <2>3
      <3> QED  BY <1>1, <1>2, <1>4, <2>1, <2>3, <3>1, <3>2
    <2> QED  BY <2>2, <2>3
  <1>9. TypeOK' /\ Shapes'
    <2>1. \/ \E call \in 0..FAILED(t) : Proceed(c, call)
          \/ \E result \in {"done", "dropped"} : Finish(c, result)
      BY <1>6
    <2> QED
      BY <1>1, <1>0, <1>8, <2>1, CallTypes DEF PoolInv, TypeOK, Shapes
  <1>10. Touches(c, t)
    BY <1>1, <1>4, <1>6, <1>0, <1>8 DEF Touches, Proceed, Finish, poolVars
  <1>11. t \in Broken' <=> t \in Broken
    BY <1>1 DEF Broken
  <1>12. CASE t \in Transaction
    <2>1. task' = task /\ at'[c] = at[c] + 1 /\ outcome' = outcome
      BY <1>4, <1>6, <1>12 DEF Proceed
    <2>2. t \notin Broken => inTransaction[c]
      <3>1. at[c] = 1 \/ at[c] \in 2..COMMIT(t)
        BY <1>1, <1>3
      <3>2. t \notin Broken => /\ at[c] = 1 => inTransaction[c] = handle[c]
                               /\ at[c] \in 2..COMMIT(t) => inTransaction[c]
        BY <1>0, <1>5, <1>12, Zenon DEF CallsOf
      <3> QED  BY <1>1, <3>1, <3>2, Zenon
    <2>3. CallsOf(c)'
      BY <1>1, <1>3, <1>5, <1>0, <1>11, <1>12, <2>1, <2>2 DEF CallsOf
    <2>4. TrueOf(t)'
      BY <1>2, <1>5, <1>11, <2>1, <2>2 DEF TrueOf
    <2>5. ReadsOf(c)'
      BY <1>1, <1>0, <2>1 DEF ReadsOf
    <2> QED
      BY <1>1, <1>0, <1>9, <1>10, <2>3, <2>4, <2>5, CallKeeps DEF PoolInv
  <1>13. CASE t \notin Transaction
    <2>1. task'[c] = None /\ outcome'[t] = "done"
      BY <1>1, <1>4, <1>6, <1>0, <1>13 DEF Finish
    <2>2. ~inTransaction[c] /\ at[c] = 1 /\ LastRow(t) = 1
      BY <1>3, <1>5, <1>6, <1>0, <1>13 DEF CallsOf
    <2>3. CallsOf(c)'
      BY <1>1, <2>1, <2>2, PoolAssumption DEF CallsOf
    <2>4. TrueOf(t)'
      <3>1. applied'[t] = applied[t] \union {1}
        BY <1>1, <1>2, <1>4, <2>2
      <3>2. t \notin Broken => applied[t] = {}
        BY <1>1, <1>5 DEF TrueOf
      <3>3. 1..LastRow(t) = {1}
        BY <2>2
      <3> QED  BY <1>11, <2>1, <3>1, <3>2, <3>3 DEF TrueOf
    <2>5. ReadsOf(c)'
      BY <2>1, PoolAssumption DEF ReadsOf
    <2> QED
      BY <1>1, <1>0, <1>9, <1>10, <2>3, <2>4, <2>5, CallKeeps DEF PoolInv
  <1> QED  BY <1>12, <1>13

\* A query reads the next row.
LEMMA QueryCall ==
    ASSUME PoolInv, NEW c \in Connection, ExecuteQuery(c)
    PROVE  PoolInv'
  <1>0. PICK t \in Task : task[c] = t
    BY DEF ExecuteQuery, AtStatement, PoolInv, TypeOK
  <1>1. /\ t # None /\ t \in Task /\ t \in Query /\ t \notin Transaction
        /\ at[c] \in 1..LastRow(t)
        /\ StatementSucceeds(c)
        /\ answer' = [answer EXCEPT ![t] = Append(@, table[Rows[t][at[c]]])]
        /\ errno' = [errno EXCEPT ![c] = 0]
        /\ UNCHANGED <<poolVars, attempts, handle, inTransaction, written, table, met,
                       applied>>
    BY <1>0, PoolAssumption DEF ExecuteQuery, AtStatement, Errno
  <1>2. LastRow(t) \in Nat \ {0} /\ Rows[t][at[c]] \in Key
    BY <1>1, RowsOf
  <1>3. /\ answer \in [Task -> Seq(Task \union {None})]
        /\ \A u \in Task : Len(answer[u]) <= LastRow(u)
        /\ table \in [Key -> Task \union {None}]
        /\ errno \in [Connection -> {0, ER_LOCK_DEADLOCK, ER_DUP_ENTRY}]
        /\ at \in [Connection -> Nat]
        /\ task \in [Connection -> Task \union {None}]
        /\ outcome \in [Task -> {"unused", "waiting", "direct", "done", "dropped",
                                 "flushed"}]
    BY DEF PoolInv, TypeOK, Shapes
  <1>4. CallsOf(c) /\ ReadsOf(c)
    BY <1>0, <1>1, AtWork
  <1>5. /\ \/ at[c] < LastRow(t) /\ Proceed(c, at[c] + 1)
           \/ Finish(c, "done")
        /\ at[c] + 1 \in 0..FAILED(t)
    BY <1>0, <1>1, SucceedsTo
  <1>7. /\ answer' \in [Task -> Seq(Task \union {None})]
        /\ Len(answer'[t]) = at[c]
        /\ \A u \in Task \ {t} : answer'[u] = answer[u]
        /\ \A u \in Task : answer'[u] \in Seq(Task \union {None})
                              /\ Len(answer'[u]) <= LastRow(u)
    <2>1. table[Rows[t][at[c]]] \in Task \union {None}
      BY <1>2, <1>3
    <2>2. /\ Append(answer[t], table[Rows[t][at[c]]]) \in Seq(Task \union {None})
          /\ Len(Append(answer[t], table[Rows[t][at[c]]])) = Len(answer[t]) + 1
      BY <1>1, <1>3, <2>1, AppendLast
    <2>3. Len(answer[t]) = at[c] - 1
      BY <1>1, <1>4, <1>0 DEF ReadsOf
    <2>4. /\ answer'[t] = Append(answer[t], table[Rows[t][at[c]]])
          /\ answer' \in [Task -> Seq(Task \union {None})]
          /\ \A u \in Task \ {t} : answer'[u] = answer[u]
      BY <1>1, <1>3, <2>2
    <2>5. Len(answer'[t]) = at[c]
      BY <1>1, <1>2, <2>2, <2>3, <2>4
    <2> QED  BY <1>1, <1>2, <1>3, <2>4, <2>5
  <1>8. TypeOK' /\ Shapes'
    <2>1. \/ \E call \in 0..FAILED(t) : Proceed(c, call)
          \/ \E result \in {"done", "dropped"} : Finish(c, result)
      BY <1>5
    <2>2. errno' \in [Connection -> {0, ER_LOCK_DEADLOCK, ER_DUP_ENTRY}]
      BY <1>1, <1>3
    <2> QED
      BY <1>1, <1>0, <1>7, <2>1, <2>2, CallTypes DEF PoolInv, TypeOK, Shapes
  <1>9. Touches(c, t)
    BY <1>1, <1>3, <1>5, <1>0, <1>7 DEF Touches, Proceed, Finish, poolVars
  <1>10. ~inTransaction'[c]
    BY <1>1, <1>4, <1>0 DEF CallsOf
  <1>11. \/ task'[c] = t /\ at'[c] = at[c] + 1 /\ at[c] + 1 \in 1..LastRow(t)
         \/ task'[c] = None
    BY <1>1, <1>2, <1>3, <1>5, <1>0 DEF Proceed, Finish
  <1>12. CallsOf(c)'
    BY <1>1, <1>10, <1>11, PoolAssumption DEF CallsOf
  <1>13. ReadsOf(c)'
    <2>1. CASE task'[c] = None
      BY <2>1, PoolAssumption DEF ReadsOf
    <2>2. CASE task'[c] = t /\ at'[c] = at[c] + 1
      BY <1>1, <1>2, <1>7, <2>2 DEF ReadsOf
    <2> QED  BY <1>11, <2>1, <2>2
  <1>14. TrueOf(t)'
    BY <1>1 DEF TrueOf
  <1> QED
    BY <1>1, <1>0, <1>8, <1>9, <1>12, <1>13, <1>14, CallKeeps DEF PoolInv

\* The commit: all rows become visible, if the server still has the transaction.
LEMMA CommitCall ==
    ASSUME PoolInv, NEW c \in Connection, CommitTransaction(c)
    PROVE  PoolInv'
  <1>0. PICK t \in Task : task[c] = t
    BY PoolAssumption DEF CommitTransaction, IsTransaction
  <1>1. /\ t # None /\ t \in Transaction
        /\ at[c] = COMMIT(t)
        /\ Apply(t, written[c])
        /\ applied' = [applied EXCEPT ![t] = IF inTransaction[c] THEN 1..LastRow(t) ELSE @]
        /\ ServerForgets(c)
        /\ errno' = [errno EXCEPT ![c] = 0]
        /\ Finish(c, "done")
        /\ UNCHANGED <<poolVars, attempts, handle, answer, met>>
    BY <1>0, PoolAssumption DEF CommitTransaction, IsTransaction, Errno
  <1>2. /\ LastRow(t) \in Nat \ {0} /\ COMMIT(t) \in 2..COMMIT(t)
        /\ 1..LastRow(t) \subseteq Nat
    BY RowsOf
  <1>3. /\ inTransaction \in [Connection -> BOOLEAN]
        /\ written \in [Connection -> SUBSET Key]
        /\ table \in [Key -> Task \union {None}]
        /\ applied \in [Task -> SUBSET Nat]
        /\ \A u \in Task : applied[u] \subseteq 1..LastRow(u)
        /\ errno \in [Connection -> {0, ER_LOCK_DEADLOCK, ER_DUP_ENTRY}]
        /\ at \in [Connection -> Nat]
        /\ task \in [Connection -> Task \union {None}]
        /\ outcome \in [Task -> {"unused", "waiting", "direct", "done", "dropped",
                                 "flushed"}]
    BY DEF PoolInv, TypeOK, Shapes
  <1>4. CallsOf(c)
    BY <1>0, <1>1, AtWork
  <1>5. /\ inTransaction' \in [Connection -> BOOLEAN]
        /\ ~inTransaction'[c]
        /\ \A d \in Connection \ {c} : inTransaction'[d] = inTransaction[d]
        /\ written' \in [Connection -> SUBSET Key]
        /\ table' \in [Key -> Task \union {None}]
        /\ errno' \in [Connection -> {0, ER_LOCK_DEADLOCK, ER_DUP_ENTRY}]
    BY <1>1, <1>3 DEF ServerForgets, Apply
  <1>6. /\ applied' \in [Task -> SUBSET Nat]
        /\ \A u \in Task : applied'[u] \subseteq 1..LastRow(u)
        /\ \A u \in Task \ {t} : applied'[u] = applied[u]
        /\ inTransaction[c] => applied'[t] = 1..LastRow(t)
    BY <1>1, <1>2, <1>3
  <1>7. TypeOK' /\ Shapes'
    BY <1>0, <1>1, <1>5, <1>6, CallTypes DEF PoolInv, TypeOK, Shapes
  <1>8. task'[c] = None /\ outcome'[t] = "done"
    BY <1>0, <1>1, <1>3 DEF Finish
  <1>9. Touches(c, t)
    BY <1>0, <1>1, <1>3, <1>5, <1>6, <1>8 DEF Touches, Finish, poolVars
  <1>10. TrueOf(t)'
    <2>1. t \notin Broken => inTransaction[c]
      BY <1>0, <1>1, <1>2, <1>4 DEF CallsOf
    <2>2. t \in Broken' <=> t \in Broken
      BY <1>1 DEF Broken
    <2> QED  BY <1>6, <1>8, <2>1, <2>2 DEF TrueOf
  <1>11. CallsOf(c)' /\ ReadsOf(c)'
    BY <1>5, <1>8, PoolAssumption DEF CallsOf, ReadsOf
  <1> QED
    BY <1>0, <1>7, <1>9, <1>10, <1>11, CallKeeps DEF PoolInv

\* The connection is lost: from now on the pool may be wrong about this operation,
\* and about no other.
LEMMA LostCall ==
    ASSUME PoolInv, NEW c \in Connection, LoseConnection(c)
    PROVE  PoolInv'
  <1>0. PICK t \in Task : task[c] = t
    BY DEF LoseConnection, PoolInv, TypeOK
  <1>1. /\ ServerForgets(c)
        /\ met' = [met EXCEPT ![t] = @ \union {CR_SERVER_LOST}]
        /\ \E reconnected \in BOOLEAN : handle' = [handle EXCEPT ![c] = reconnected]
        /\ errno' = [errno EXCEPT ![c] = 0]
        /\ UNCHANGED <<poolVars, task, at, attempts, answer, outcome>>
    BY <1>0 DEF LoseConnection, Errno
  <1>2. \/ UNCHANGED <<table, applied>>
        \/ /\ Apply(t, written[c])
           /\ applied' = [applied EXCEPT ![t] = 1..LastRow(t)]
        \/ /\ at[c] \in 1..LastRow(t)
           /\ Apply(t, {Rows[t][at[c]]})
           /\ applied' = [applied EXCEPT ![t] = @ \union {at[c]}]
    BY <1>0 DEF LoseConnection, AtStatement
  <1>3. LastRow(t) \in Nat \ {0} /\ 1..LastRow(t) \subseteq Nat
    BY RowsOf
  <1>4. /\ inTransaction \in [Connection -> BOOLEAN]
        /\ handle \in [Connection -> BOOLEAN]
        /\ written \in [Connection -> SUBSET Key]
        /\ table \in [Key -> Task \union {None}]
        /\ applied \in [Task -> SUBSET Nat]
        /\ \A u \in Task : applied[u] \subseteq 1..LastRow(u)
        /\ errno \in [Connection -> {0, ER_LOCK_DEADLOCK, ER_DUP_ENTRY}]
        /\ met \in [Task -> SUBSET Nat]
    BY DEF PoolInv, TypeOK, Shapes
  <1>5. CallsOf(c) /\ ReadsOf(c) /\ t # None
    BY <1>0, AtWork, PoolAssumption
  <1>6. /\ inTransaction' \in [Connection -> BOOLEAN]
        /\ ~inTransaction'[c]
        /\ \A d \in Connection \ {c} : inTransaction'[d] = inTransaction[d]
        /\ written' \in [Connection -> SUBSET Key]
        /\ errno' \in [Connection -> {0, ER_LOCK_DEADLOCK, ER_DUP_ENTRY}]
    BY <1>1, <1>4 DEF ServerForgets
  <1>7. /\ handle' \in [Connection -> BOOLEAN]
        /\ \A d \in Connection \ {c} : handle'[d] = handle[d]
    BY <1>1, <1>4
  <1>8. table' \in [Key -> Task \union {None}]
    BY <1>2, <1>4 DEF Apply
  <1>9. /\ applied' \in [Task -> SUBSET Nat]
        /\ \A u \in Task : applied'[u] \subseteq 1..LastRow(u)
        /\ \A u \in Task \ {t} : applied'[u] = applied[u]
    BY <1>2, <1>3, <1>4
  <1>10. /\ met' \in [Task -> SUBSET Nat]
         /\ \A u \in Task \ {t} : met'[u] = met[u]
         /\ t \in Broken'
    BY <1>1, <1>4 DEF Broken, CR_SERVER_LOST
  <1>11. TypeOK' /\ Shapes'
    BY <1>1, <1>6, <1>7, <1>8, <1>9, <1>10 DEF PoolInv, TypeOK, Shapes, poolVars
  <1>12. Touches(c, t)
    BY <1>0, <1>1, <1>6, <1>7, <1>9, <1>10 DEF Touches, poolVars
  <1>13. TrueOf(t)'
    BY <1>10 DEF TrueOf
  <1>14. CallsOf(c)' /\ ReadsOf(c)'
    BY <1>0, <1>1, <1>5, <1>6, <1>10 DEF CallsOf, ReadsOf
  <1> QED
    BY <1>0, <1>11, <1>12, <1>13, <1>14, CallKeeps DEF PoolInv

-----------------------------------------------------------------------------
(* The queue                                                               *)

\* A connection begins with an operation nobody has begun.
LEMMA TakeKeeps ==
    ASSUME PoolInv, NEW c \in Connection, NEW t \in Task, task[c] = None, Take(c, t),
           \A d \in Connection : task[d] # t,
           t \notin Range(queue'), answer[t] = <<>>, outcome'[t] \in {"waiting", "direct"},
           outcome' = [outcome EXCEPT ![t] = outcome'[t]],
           queue' \in Seq(Task), Len(queue') <= HighWater,
           Distinct(queue'), Range(queue') \subseteq Range(queue),
           outcome[t] # "done",
           UNCHANGED <<opened, closed, exited, serverVars, met, applied>>
    PROVE  PoolInv'
  <1>1. /\ LastRow(t) \in Nat \ {0} /\ FAILED(t) = LastRow(t) + 3
        /\ COMMIT(t) = LastRow(t) + 1 /\ t # None
    BY RowsOf, PoolAssumption
  <1>2. /\ task' = [task EXCEPT ![c] = t]
        /\ at' = [at EXCEPT ![c] = FirstCall(t)]
        /\ attempts' = [attempts EXCEPT ![t] = 1]
        /\ UNCHANGED <<handle, errno, inTransaction, written, table, answer>>
    BY DEF Take, serverVars
  <1>3. /\ FirstCall(t) \in 0..1
        /\ t \in Transaction => FirstCall(t) = 0
        /\ t \notin Transaction => FirstCall(t) = 1
    BY DEF FirstCall
  <1>4. /\ at \in [Connection -> Nat]
        /\ task \in [Connection -> Task \union {None}]
        /\ attempts \in [Task -> 0..1 + LoopBreaker]
        /\ outcome \in [Task -> {"unused", "waiting", "direct", "done", "dropped",
                                 "flushed"}]
    BY DEF PoolInv, TypeOK, Shapes
  <1>5. /\ task'[c] = t /\ at'[c] = FirstCall(t)
        /\ \A d \in Connection \ {c} : task'[d] = task[d] /\ at'[d] = at[d]
        /\ \A u \in Task \ {t} : outcome'[u] = outcome[u]
    BY <1>2, <1>4
  <1>6. TypeOK' /\ Shapes'
    <2>1. /\ task' \in [Connection -> Task \union {None}]
          /\ at' \in [Connection -> Nat]
          /\ attempts' \in [Task -> 0..1 + LoopBreaker]
          /\ outcome' \in [Task -> {"unused", "waiting", "direct", "done", "dropped",
                                    "flushed"}]
      <3>1. 1 \in 0..1 + LoopBreaker /\ FirstCall(t) \in Nat
        BY <1>3 DEF LoopBreaker
      <3> QED  BY <1>2, <1>4, <3>1
    <2>2. \A d \in Connection :
              at'[d] \in IF task'[d] = None THEN {0} ELSE 0..FAILED(task'[d])
      <3>1. FirstCall(t) \in 0..FAILED(t)
        BY <1>1, <1>3
      <3>2. ASSUME NEW d \in Connection \ {c}
            PROVE  at'[d] \in IF task'[d] = None THEN {0} ELSE 0..FAILED(task'[d])
        BY <1>5 DEF PoolInv, TypeOK
      <3> QED  BY <1>1, <1>5, <3>1, <3>2
    <2> QED  BY <1>2, <2>1, <2>2 DEF PoolInv, TypeOK, Shapes
  <1>7. OneConnection'
    <2>1. \A u \in Range(queue') : u \in Range(queue) /\ u # t /\ outcome'[u] = outcome[u]
      <3>1. Range(queue) \subseteq Task
        BY LenProperties DEF PoolInv, TypeOK, Range
      <3> QED  BY <1>5, <3>1
    <2>2. \A d \in Connection \ {c} :
              task'[d] # None => task'[d] # t /\ outcome'[task'[d]] = outcome[task[d]]
      BY <1>4, <1>5
    <2> QED  BY <1>1, <1>5, <2>1, <2>2 DEF PoolInv, OneConnection
  <1>8. Reading'
    <2>1. \A u \in Task : outcome'[u] = "unused" \/ u \in Range(queue') => answer'[u] = <<>>
      BY <1>2, <1>5 DEF PoolInv, Reading
    <2>2. ASSUME NEW d \in Connection  PROVE ReadsOf(d)'
      <3>1. CASE d = c
        BY <1>2, <1>3, <1>5, <3>1, PoolAssumption DEF ReadsOf
      <3>2. CASE d # c
        BY <1>2, <1>5, <3>2 DEF ReadsOf, PoolInv, Reading
      <3> QED  BY <3>1, <3>2
    <2> QED  BY <2>1, <2>2 DEF Reading
  <1>9. Broken' = Broken
    BY DEF Broken
  <1>10. Calls'
    <2> SUFFICES ASSUME NEW d \in Connection  PROVE CallsOf(d)'
      BY DEF Calls
    <2>1. CallsOf(d)
      BY DEF PoolInv, Calls
    <2>2. CASE d = c
      <3>1. ~inTransaction[c]
        BY <2>1, <2>2, PoolAssumption DEF CallsOf
      <3>2. t \notin Transaction => at'[c] \in 1..LastRow(t)
        BY <1>1, <1>3, <1>5
      <3>3. t \in Transaction => at'[c] # 1 /\ at'[c] \notin 2..COMMIT(t)
        BY <1>1, <1>3, <1>5
      <3> QED  BY <1>2, <1>5, <2>2, <3>1, <3>2, <3>3 DEF CallsOf
    <2>3. CASE d # c
      BY <1>2, <1>5, <1>9, <2>1, <2>3 DEF CallsOf
    <2> QED  BY <2>2, <2>3
  <1>11. OutcomeTrue'
    <2>1. \A u \in Task : outcome'[u] = "done" <=> outcome[u] = "done"
      BY <1>5
    <2> QED  BY <1>9, <2>1 DEF PoolInv, OutcomeTrue
  <1> QED  BY <1>6, <1>7, <1>8, <1>10, <1>11 DEF PoolInv

\* Every step keeps the invariant.
LEMMA NextPoolInv == PoolInv /\ [Next]_vars => PoolInv'
  <1> SUFFICES ASSUME PoolInv, [Next]_vars  PROVE PoolInv'
    OBVIOUS
  <1>a. /\ queue \in Seq(Task) /\ Len(queue) \in Nat /\ Len(queue) <= HighWater
        /\ HighWater \in Nat /\ Distinct(queue) /\ Range(queue) \subseteq Task
        /\ outcome \in [Task -> {"unused", "waiting", "direct", "done", "dropped",
                                 "flushed"}]
        /\ task \in [Connection -> Task \union {None}]
    BY LenProperties, PoolAssumption DEF PoolInv, TypeOK, OneConnection, Range
  <1>1. ASSUME NEW t \in Task, Enqueue(t)  PROVE PoolInv'
    <2>1. /\ outcome[t] = "unused"
          /\ Len(queue) < HighWater
          /\ queue' = Append(queue, t)
          /\ outcome' = [outcome EXCEPT ![t] = "waiting"]
          /\ UNCHANGED <<opened, closed, exited, clientVars, serverVars, met, applied>>
      BY <1>1 DEF Enqueue, Unused
    <2>2. t \notin Range(queue) /\ \A c \in Connection : task[c] # t
      BY <2>1, PoolAssumption DEF PoolInv, OneConnection
    <2>3. /\ queue' \in Seq(Task) /\ Len(queue') = Len(queue) + 1 /\ Distinct(queue')
          /\ Range(queue') = Range(queue) \union {t}
      BY <1>a, <2>1, <2>2, AppendLast
    <2>4. /\ outcome'[t] = "waiting"
          /\ \A u \in Task \ {t} : outcome'[u] = outcome[u]
          /\ outcome' \in [Task -> {"unused", "waiting", "direct", "done", "dropped",
                                    "flushed"}]
      BY <1>a, <2>1
    <2>5. TypeOK' /\ Shapes'
      <3>1. Len(queue') <= HighWater
        BY <1>a, <2>1, <2>3
      <3> QED
        BY <2>1, <2>3, <2>4, <3>1 DEF PoolInv, TypeOK, Shapes, clientVars, serverVars
    <2>6. OneConnection'
      <3>1. task' = task
        BY <2>1 DEF clientVars
      <3> QED  BY <1>a, <2>2, <2>3, <2>4, <3>1 DEF PoolInv, OneConnection
    <2>7. Reading'
      BY <1>a, <2>1, <2>3, <2>4 DEF PoolInv, Reading, ReadsOf, clientVars, serverVars
    <2>8. Broken' = Broken
      BY <2>1 DEF Broken
    <2>9. Calls'
      BY <2>1, <2>8 DEF PoolInv, Calls, CallsOf, clientVars, serverVars
    <2>10. OutcomeTrue'
      BY <2>1, <2>4, <2>8 DEF PoolInv, OutcomeTrue
    <2> QED  BY <2>5, <2>6, <2>7, <2>9, <2>10 DEF PoolInv
  <1>2. ASSUME NEW t \in Task, NEW s \in Synch, GetFreeConnection(s, t)  PROVE PoolInv'
    <2>1. /\ s \in Connection /\ task[s] = None
          /\ outcome[t] = "unused" /\ Take(s, t)
          /\ outcome' = [outcome EXCEPT ![t] = "direct"]
          /\ UNCHANGED <<poolVars, serverVars, met, applied>>
      BY <1>2 DEF GetFreeConnection, Unused, Connection
    <2>2. t \notin Range(queue) /\ \A c \in Connection : task[c] # t
      BY <2>1, PoolAssumption DEF PoolInv, OneConnection
    <2>3. outcome'[t] = "direct"
      BY <1>a, <2>1
    <2>4. answer[t] = <<>>
      BY <2>1 DEF PoolInv, Reading
    <2> QED
      BY <1>a, <2>1, <2>2, <2>3, <2>4, TakeKeeps DEF poolVars
  <1>3. ASSUME NEW w \in Connection, svc(w)  PROVE PoolInv'
    <2> DEFINE t == Head(queue)
    <2>1. /\ task[w] = None /\ queue # <<>> /\ Take(w, t)
          /\ queue' = Tail(queue)
          /\ UNCHANGED <<opened, closed, exited, serverVars, outcome, met, applied>>
      BY <1>3 DEF svc, history
    <2>2. /\ t \in Task /\ Distinct(queue') /\ queue' \in Seq(Task)
          /\ Range(queue) = Range(queue') \union {t} /\ t \notin Range(queue')
          /\ Len(queue') = Len(queue) - 1
      BY <1>a, <2>1, TakeFirst
    <2>3. outcome[t] = "waiting" /\ \A c \in Connection : task[c] # t
      BY <2>2, PoolAssumption DEF PoolInv, OneConnection
    <2>4. answer[t] = <<>>
      BY <2>2 DEF PoolInv, Reading
    <2>5. outcome' = [outcome EXCEPT ![t] = outcome'[t]] /\ outcome'[t] = "waiting"
      BY <1>a, <2>1, <2>2, <2>3
    <2>6. PICK u \in Task : u = t
      BY <2>2
    <2>7. Len(queue') <= HighWater
      BY <1>a, <2>2
    <2>8. /\ Take(w, u) /\ \A d \in Connection : task[d] # u
          /\ u \notin Range(queue') /\ answer[u] = <<>>
          /\ outcome'[u] \in {"waiting", "direct"} /\ outcome[u] # "done"
          /\ outcome' = [outcome EXCEPT ![u] = outcome'[u]]
      BY <2>1, <2>2, <2>3, <2>4, <2>5, <2>6
    <2> HIDE DEF t
    <2> QED
      BY <2>1, <2>2, <2>7, <2>8, TakeKeeps
  <1>4. ASSUME NEW w \in Connection, svc_exit(w)  PROVE PoolInv'
    <2>1. /\ exited' \subseteq Worker
          /\ UNCHANGED <<opened, queue, closed, clientVars, serverVars, outcome, met, applied>>
      BY <1>4 DEF svc_exit, Threads, history, PoolInv, TypeOK
    <2>2. Broken' = Broken
      BY <2>1 DEF Broken
    <2> QED
      BY <2>1, <2>2 DEF PoolInv, TypeOK, Shapes, OneConnection, Reading, ReadsOf, Calls,
                        CallsOf, OutcomeTrue, clientVars, serverVars
  <1>5. CASE Close
    <2>1. /\ closed' = TRUE /\ queue' = <<>>
          /\ outcome' = [t \in Task |-> IF t \in Range(queue) THEN "flushed" ELSE outcome[t]]
          /\ UNCHANGED <<opened, exited, clientVars, serverVars, met, applied>>
      BY <1>5 DEF Close
    <2>2. Range(queue') = {} /\ Len(queue') = 0 /\ Distinct(queue') /\ queue' \in Seq(Task)
      BY <2>1 DEF Range, Distinct
    <2>3. /\ outcome' \in [Task -> {"unused", "waiting", "direct", "done", "dropped",
                                    "flushed"}]
          /\ \A t \in Task : \/ outcome'[t] = outcome[t]
                             \/ outcome'[t] = "flushed" /\ outcome[t] = "waiting"
          /\ \A t \in Task \ Range(queue) : outcome'[t] = outcome[t]
      BY <1>a, <2>1 DEF PoolInv, OneConnection
    <2>4. TypeOK' /\ Shapes'
      BY <1>a, <2>1, <2>2, <2>3 DEF PoolInv, TypeOK, Shapes, clientVars, serverVars
    <2>5. OneConnection'
      <3>1. task' = task
        BY <2>1 DEF clientVars
      <3>2. \A c \in Connection : task[c] # None => outcome'[task[c]] = outcome[task[c]]
        BY <1>a, <2>3 DEF PoolInv, OneConnection
      <3> QED  BY <2>2, <3>1, <3>2 DEF PoolInv, OneConnection
    <2>6. Reading'
      BY <2>1, <2>2, <2>3 DEF PoolInv, Reading, ReadsOf, clientVars, serverVars
    <2>7. Broken' = Broken
      BY <2>1 DEF Broken
    <2>8. Calls'
      BY <2>1, <2>7 DEF PoolInv, Calls, CallsOf, clientVars, serverVars
    <2>9. OutcomeTrue'
      BY <2>1, <2>3, <2>7 DEF PoolInv, OutcomeTrue
    <2> QED  BY <2>4, <2>5, <2>6, <2>8, <2>9 DEF PoolInv
  <1>6. CASE UNCHANGED vars
    <2>1. Broken' = Broken
      BY <1>6 DEF Broken, vars, history
    <2> QED
      BY <1>6, <2>1 DEF PoolInv, TypeOK, Shapes, OneConnection, Reading, ReadsOf, Calls,
                        CallsOf, OutcomeTrue, vars, poolVars, clientVars, serverVars, history
  <1>7. ASSUME NEW c \in Connection, Call(c) \/ Refused(c) \/ LoseConnection(c)
        PROVE  PoolInv'
    BY <1>7, QuietCalls, ExecuteCall, QueryCall, CommitCall, LostCall DEF Call
  <1> QED
    BY <1>1, <1>2, <1>3, <1>4, <1>5, <1>6, <1>7 DEF Next, Thread

\* In every behaviour the state of the pool is well-typed, and what it reports is what
\* happened: whatever deadlocks, refused statements and retries an operation met, and
\* whatever the other connections did between its calls, all its rows are in the tables
\* if it is done and none is if it was given up or freed with the queue.  Only an
\* operation that lost its connection is excepted.
THEOREM PoolReportsTruth == Spec => [](TypeOK /\ OutcomeTrue)
  <1>1. PoolInv => TypeOK /\ OutcomeTrue
    BY DEF PoolInv
  <1> QED  BY <1>1, InitPoolInv, NextPoolInv, PTL DEF Spec

-----------------------------------------------------------------------------
(* The pool implements the store                                           *)

\* An operation is queued once.
AcceptedOnce ==
    /\ accepted \in Seq(Task)
    /\ Distinct(accepted)
    /\ \A i \in 1..Len(accepted) : outcome[accepted[i]] # "unused"

\* The queue is what was accepted last.
QueueIsEnd ==
    /\ Len(queue) <= Len(accepted)
    /\ \A n \in 1..Len(queue) : queue[n] = accepted[Len(accepted) - Len(queue) + n]

\* A worker has an operation that was queued, a synchronous connection one that a
\* caller waits for; what was queued and is not over is in the queue or with a worker.
WhoHolds ==
    /\ \A c \in Connection : task[c] # None =>
          /\ c \in opened
          /\ outcome[task[c]] = IF c \in Worker THEN "waiting" ELSE "direct"
    /\ \A t \in Task : outcome[t] = "waiting" =>
          t \in Range(queue) \/ \E c \in Worker : task[c] = t

\* A transaction that is open has written the rows of the statements so far.
RowsOfCall(c) ==
    /\ ~inTransaction[c] => written[c] = {}
    /\ inTransaction[c] /\ at[c] \in 1..COMMIT(task[c]) =>
          written[c] = {Rows[task[c]][i] : i \in 1..at[c] - 1}

RowsWritten == \A c \in Connection : RowsOfCall(c)

QueueInv == AcceptedOnce /\ QueueIsEnd /\ WhoHolds

StoreInv == PoolInv /\ QueueInv /\ RowsWritten

\* At the start nothing is queued and no transaction is open.
LEMMA InitStoreInv == Init => StoreInv
  <1> SUFFICES ASSUME Init  PROVE StoreInv
    OBVIOUS
  <1>1. PoolInv
    BY InitPoolInv
  <1>2. Len(accepted) = 0 /\ Len(queue) = 0 /\ accepted \in Seq(Task)
    BY DEF Init
  <1>3. QueueInv
    BY <1>2 DEF Init, QueueInv, AcceptedOnce, QueueIsEnd, WhoHolds, Distinct
  <1>4. RowsWritten
    BY DEF Init, RowsWritten, RowsOfCall
  <1> QED  BY <1>1, <1>3, <1>4 DEF StoreInv

\* The step is a call of c for its operation t: the operation is over or goes on.
CallOf(c, t) ==
    /\ task[c] = t
    /\ UNCHANGED <<poolVars, accepted>>
    /\ \/ \E call : Proceed(c, call)
       \/ \E result \in {"done", "dropped"} : Finish(c, result)

\* Every call of a connection is one for its operation.
LEMMA EveryCall ==
    ASSUME PoolInv, NEW c \in Connection, Call(c) \/ Refused(c) \/ LoseConnection(c)
    PROVE  \E t \in Task : CallOf(c, t)
  <1>1. UNCHANGED <<poolVars, accepted>>
    BY DEF Call, BeginTransaction, Execute, ExecuteQuery, CommitTransaction, Deadlock, NoHandle,
           RollbackTransaction, TryAgain, Refused, LoseConnection
  <1>2. task[c] \in Task
    <2>1. AtStatement(c) \/ IsTransaction(c) \/ task[c] # None
      BY DeadlockedWrites DEF Call, BeginTransaction, Execute, ExecuteQuery, CommitTransaction,
           Deadlock, NoHandle, RollbackTransaction, TryAgain, Refused, LoseConnection
    <2>2. task[c] # None
      BY <2>1, PoolAssumption DEF AtStatement, IsTransaction
    <2> QED  BY <2>2 DEF PoolInv, TypeOK
  <1>3. \/ \E call : Proceed(c, call)
        \/ \E result \in {"done", "dropped"} : Finish(c, result)
    <2>1. CASE LoseConnection(c)
      <3>1. at = [at EXCEPT ![c] = at[c]]
        BY DEF PoolInv, Shapes
      <3>2. Proceed(c, at[c])
        BY <2>1, <3>1 DEF LoseConnection, Proceed
      <3> QED  BY <3>2
    <2>2. CASE StatementFails(c)
      BY <2>2 DEF StatementFails
    <2>3. CASE StatementSucceeds(c)
      BY <2>3 DEF StatementSucceeds
    <2>4. CASE BeginTransaction(c)
      BY <2>4 DEF BeginTransaction
    <2>5. CASE CommitTransaction(c)
      BY <2>5 DEF CommitTransaction
    <2>6. CASE RollbackTransaction(c)
      BY <2>6 DEF RollbackTransaction
    <2>7. CASE TryAgain(c)
      BY <2>7 DEF TryAgain
    <2> QED
      BY <2>1, <2>2, <2>3, <2>4, <2>5, <2>6, <2>7
      DEF Call, Execute, ExecuteQuery, Deadlock, NoHandle, Refused
  <1> QED  BY <1>1, <1>2, <1>3 DEF CallOf

\* What a call does to the operations that wait
LEMMA CallLeaves ==
    ASSUME PoolInv, NEW c \in Connection, NEW t \in Task, CallOf(c, t)
    PROVE  /\ \/ UNCHANGED <<task, outcome>>
              \/ /\ task'[c] = None /\ outcome'[t] \in {"done", "dropped"}
                 /\ \A d \in Connection \ {c} : task'[d] = task[d]
                 /\ \A u \in Task \ {t} : outcome'[u] = outcome[u]
           /\ t # None
  <1>1. CASE \E call : Proceed(c, call)
    BY <1>1, PoolAssumption DEF Proceed
  <1>2. CASE \E result \in {"done", "dropped"} : Finish(c, result)
    BY <1>2, PoolAssumption DEF Finish, CallOf, PoolInv, TypeOK
  <1> QED  BY <1>1, <1>2 DEF CallOf

\* It leaves the order of the operations alone.
LEMMA CallKeepsQueue ==
    ASSUME PoolInv, QueueInv, NEW c \in Connection, NEW t \in Task, CallOf(c, t)
    PROVE  QueueInv'
  <1>1. /\ queue' = queue /\ opened' = opened /\ accepted' = accepted
        /\ task[c] = t
    BY DEF CallOf, poolVars
  <1>2. CASE UNCHANGED <<task, outcome>>
    BY <1>1, <1>2 DEF QueueInv, AcceptedOnce, QueueIsEnd, WhoHolds
  <1>3. CASE /\ task'[c] = None /\ outcome'[t] \in {"done", "dropped"}
             /\ \A d \in Connection \ {c} : task'[d] = task[d]
             /\ \A u \in Task \ {t} : outcome'[u] = outcome[u]
    <2>1. \A i \in 1..Len(accepted) : accepted[i] \in Task
      BY DEF QueueInv, AcceptedOnce
    <2>2. AcceptedOnce' /\ QueueIsEnd'
      BY <1>1, <1>3, <2>1 DEF QueueInv, AcceptedOnce, QueueIsEnd
    <2>3. ASSUME NEW d \in Connection, task'[d] # None
          PROVE  /\ d \in opened'
                 /\ outcome'[task'[d]] = IF d \in Worker THEN "waiting" ELSE "direct"
      <3>1. d # c /\ task'[d] = task[d]
        BY <1>3, <2>3
      <3>2. task[d] \in Task /\ task[d] # t
        BY <1>1, <2>3, <3>1 DEF PoolInv, TypeOK, OneConnection
      <3> QED  BY <1>1, <1>3, <2>3, <3>1, <3>2 DEF QueueInv, WhoHolds
    <2>4. ASSUME NEW u \in Task, outcome'[u] = "waiting"
          PROVE  u \in Range(queue') \/ \E d \in Worker : task'[d] = u
      <3>1. u # t /\ outcome[u] = "waiting"
        BY <1>3, <2>4
      <3>2. CASE u \in Range(queue)
        BY <1>1, <3>2
      <3>3. CASE \E d \in Worker : task[d] = u
        <4>1. PICK d \in Worker : task[d] = u
          BY <3>3
        <4> QED  BY <1>1, <1>3, <3>1, <4>1 DEF Connection
      <3> QED  BY <3>1, <3>2, <3>3 DEF QueueInv, WhoHolds
    <2> QED  BY <2>2, <2>3, <2>4 DEF QueueInv, WhoHolds
  <1> QED  BY <1>2, <1>3, CallLeaves

\* Enqueue, GetFreeConnection, svc, svc_exit and Close keep it as well.
LEMMA NextQueueInv ==
    ASSUME PoolInv, QueueInv, [Next]_vars
    PROVE  QueueInv'
  <1>a. /\ queue \in Seq(Task) /\ Len(queue) \in Nat /\ Distinct(queue)
        /\ Range(queue) \subseteq Task
        /\ accepted \in Seq(Task) /\ Len(accepted) \in Nat /\ Distinct(accepted)
        /\ \A i \in 1..Len(accepted) : accepted[i] \in Task
        /\ outcome \in [Task -> {"unused", "waiting", "direct", "done", "dropped",
                                 "flushed"}]
        /\ task \in [Connection -> Task \union {None}]
        /\ Worker \subseteq Connection
    BY LenProperties DEF PoolInv, TypeOK, OneConnection, Range, QueueInv, AcceptedOnce,
                         Connection
  <1>1. ASSUME NEW t \in Task, Enqueue(t)  PROVE QueueInv'
    <2>1. /\ outcome[t] = "unused"
          /\ queue' = Append(queue, t) /\ accepted' = Append(accepted, t)
          /\ outcome' = [outcome EXCEPT ![t] = "waiting"]
          /\ opened' = opened /\ task' = task
      BY <1>1 DEF Enqueue, Unused, clientVars
    <2>2. /\ t \notin Range(queue) /\ \A c \in Connection : task[c] # t
      BY <2>1, PoolAssumption DEF PoolInv, OneConnection
    <2>3. t \notin Range(accepted)
      BY <1>a, <2>1, LenProperties DEF QueueInv, AcceptedOnce, Range
    <2>4. /\ Len(queue') = Len(queue) + 1 /\ queue'[Len(queue) + 1] = t
          /\ \A n \in 1..Len(queue) : queue'[n] = queue[n]
          /\ Range(queue') = Range(queue) \union {t}
          /\ accepted' \in Seq(Task)
          /\ Len(accepted') = Len(accepted) + 1 /\ accepted'[Len(accepted) + 1] = t
          /\ \A n \in 1..Len(accepted) : accepted'[n] = accepted[n]
          /\ Distinct(accepted')
      BY <1>a, <2>1, <2>3, AppendLast
    <2>5. outcome'[t] = "waiting" /\ \A u \in Task \ {t} : outcome'[u] = outcome[u]
      BY <1>a, <2>1
    <2>6. AcceptedOnce'
      <3>1. \A i \in 1..Len(accepted') : i \in 1..Len(accepted) \/ i = Len(accepted) + 1
        BY <1>a, <2>4
      <3> QED  BY <1>a, <2>4, <2>5, <3>1 DEF QueueInv, AcceptedOnce
    <2>7. QueueIsEnd'
      <3>1. Len(queue) <= Len(accepted)
        BY DEF QueueInv, QueueIsEnd
      <3>a. /\ Len(accepted') - Len(queue') = Len(accepted) - Len(queue)
            /\ Len(queue') <= Len(accepted')
        BY <1>a, <2>4, <3>1
      <3> SUFFICES ASSUME NEW n \in 1..Len(queue) + 1
                   PROVE  queue'[n] = accepted'[Len(accepted) - Len(queue) + n]
        BY <2>4, <3>a DEF QueueIsEnd
      <3>2. CASE n = Len(queue) + 1
        BY <1>a, <2>4, <3>2
      <3>3. CASE n # Len(queue) + 1
        <4>1. n \in 1..Len(queue) /\ Len(accepted) - Len(queue) + n \in 1..Len(accepted)
          BY <1>a, <3>1, <3>3
        <4> QED  BY <2>4, <4>1 DEF QueueInv, QueueIsEnd
      <3> QED  BY <3>2, <3>3
    <2>8. WhoHolds'
      <3>1. \A d \in Connection : task[d] # None => outcome'[task[d]] = outcome[task[d]]
        BY <1>a, <2>2, <2>5
      <3>2. \A u \in Task : outcome'[u] = "waiting" =>
               u \in Range(queue') \/ \E d \in Worker : task[d] = u
        BY <2>4, <2>5 DEF QueueInv, WhoHolds
      <3> QED  BY <2>1, <3>1, <3>2 DEF QueueInv, WhoHolds
    <2> QED  BY <2>6, <2>7, <2>8 DEF QueueInv
  <1>2. ASSUME NEW t \in Task, NEW s \in Synch, GetFreeConnection(s, t)  PROVE QueueInv'
    <2>1. /\ s \in Connection /\ task[s] = None /\ s \in opened /\ s \notin Worker
          /\ outcome[t] = "unused" /\ task' = [task EXCEPT ![s] = t]
          /\ outcome' = [outcome EXCEPT ![t] = "direct"]
          /\ queue' = queue /\ opened' = opened /\ accepted' = accepted
      BY <1>2, PoolAssumption DEF GetFreeConnection, Unused, Connection, Take, poolVars
    <2>2. \A c \in Connection : task[c] # t
      BY <2>1, PoolAssumption DEF PoolInv, OneConnection
    <2>3. outcome'[t] = "direct" /\ \A u \in Task \ {t} : outcome'[u] = outcome[u]
      BY <1>a, <2>1
    <2>4. task'[s] = t /\ \A c \in Connection \ {s} : task'[c] = task[c]
      BY <1>a, <2>1
    <2>5. AcceptedOnce' /\ QueueIsEnd'
      BY <1>a, <2>1, <2>3 DEF QueueInv, AcceptedOnce, QueueIsEnd
    <2>6. WhoHolds'
      <3>1. ASSUME NEW d \in Connection, task'[d] # None
            PROVE  /\ d \in opened'
                   /\ outcome'[task'[d]] = IF d \in Worker THEN "waiting" ELSE "direct"
        <4>1. CASE d = s
          BY <2>1, <2>3, <2>4, <4>1
        <4>2. CASE d # s
          <5>1. task'[d] = task[d] /\ task[d] \in Task \ {t}
            BY <1>a, <2>2, <2>4, <3>1, <4>2
          <5> QED  BY <2>1, <2>3, <3>1, <5>1 DEF QueueInv, WhoHolds
        <4> QED  BY <4>1, <4>2
      <3>2. ASSUME NEW u \in Task, outcome'[u] = "waiting"
            PROVE  u \in Range(queue') \/ \E d \in Worker : task'[d] = u
        <4>1. outcome[u] = "waiting"
          BY <2>3, <3>2
        <4> QED  BY <1>a, <2>1, <2>4, <4>1 DEF QueueInv, WhoHolds
      <3> QED  BY <3>1, <3>2 DEF WhoHolds
    <2> QED  BY <2>5, <2>6 DEF QueueInv
  <1>3. ASSUME NEW w \in Connection, svc(w)  PROVE QueueInv'
    <2>1. PICK t : t = Head(queue)
      OBVIOUS
    <2>2. /\ task[w] = None /\ queue # <<>> /\ task' = [task EXCEPT ![w] = t]
          /\ queue' = Tail(queue) /\ w \in opened /\ w \in Worker
          /\ opened' = opened /\ outcome' = outcome /\ accepted' = accepted
      BY <1>3, <2>1 DEF svc, history, Take, Threads
    <2>3. /\ t \in Task /\ Range(queue) = Range(queue') \union {t}
          /\ Len(queue') = Len(queue) - 1
          /\ \A i \in 1..Len(queue) - 1 : queue'[i] = queue[i + 1]
      BY <1>a, <2>1, <2>2, TakeFirst
    <2>4. outcome[t] = "waiting" /\ t # None
      BY <2>3, PoolAssumption DEF PoolInv, OneConnection
    <2>5. task'[w] = t /\ \A c \in Connection \ {w} : task'[c] = task[c]
      BY <1>a, <2>2
    <2>6. AcceptedOnce'
      BY <2>2 DEF QueueInv, AcceptedOnce
    <2>7. QueueIsEnd'
      <3>1. Len(queue) <= Len(accepted)
        BY DEF QueueInv, QueueIsEnd
      <3> SUFFICES ASSUME NEW n \in 1..Len(queue) - 1
                   PROVE  queue'[n] = accepted[Len(accepted) - (Len(queue) - 1) + n]
        BY <1>a, <2>2, <2>3, <3>1 DEF QueueIsEnd
      <3>2. /\ n + 1 \in 1..Len(queue)
            /\ Len(accepted) - (Len(queue) - 1) + n = Len(accepted) - Len(queue) + (n + 1)
        BY <1>a
      <3>3. queue[n + 1] = accepted[Len(accepted) - Len(queue) + (n + 1)]
        BY <3>2 DEF QueueInv, QueueIsEnd
      <3> QED  BY <2>3, <3>2, <3>3
    <2>8. WhoHolds'
      <3>1. \A d \in Connection : task'[d] # None =>
               /\ d \in opened
               /\ outcome[task'[d]] = IF d \in Worker THEN "waiting" ELSE "direct"
        BY <2>2, <2>4, <2>5 DEF QueueInv, WhoHolds
      <3>2. \A u \in Task : outcome[u] = "waiting" =>
               u \in Range(queue') \/ \E d \in Worker : task'[d] = u
        <4> SUFFICES ASSUME NEW u \in Task, outcome[u] = "waiting"
                     PROVE  u \in Range(queue') \/ \E d \in Worker : task'[d] = u
          OBVIOUS
        <4>1. CASE u \in Range(queue)
          BY <2>2, <2>3, <2>5, <4>1
        <4>2. CASE \E d \in Worker : task[d] = u
          <5>1. PICK d \in Worker : task[d] = u
            BY <4>2
          <5>2. d # w
            BY <2>2, <5>1, PoolAssumption
          <5> QED  BY <1>a, <2>5, <5>1, <5>2
        <4> QED  BY <4>1, <4>2 DEF QueueInv, WhoHolds
      <3> QED  BY <2>2, <3>1, <3>2 DEF WhoHolds
    <2> QED  BY <2>6, <2>7, <2>8 DEF QueueInv
  <1>4. ASSUME NEW w \in Connection, svc_exit(w)  PROVE QueueInv'
    BY <1>4 DEF svc_exit, clientVars, history, QueueInv, AcceptedOnce, QueueIsEnd, WhoHolds
  <1>5. CASE Close
    <2>1. /\ queue' = <<>> /\ accepted' = accepted /\ task' = task /\ opened' = opened
          /\ outcome' = [t \in Task |-> IF t \in Range(queue) THEN "flushed" ELSE outcome[t]]
      BY <1>5 DEF Close, clientVars
    <2>2. Len(queue') = 0
      BY <2>1
    <2>3. \A t \in Task : /\ t \in Range(queue) => outcome'[t] = "flushed"
                          /\ t \notin Range(queue) => outcome'[t] = outcome[t]
      BY <2>1
    <2>4. AcceptedOnce' /\ QueueIsEnd'
      BY <1>a, <2>1, <2>2, <2>3 DEF QueueInv, AcceptedOnce, QueueIsEnd
    <2>5. WhoHolds'
      <3>1. \A d \in Connection : task[d] # None => outcome'[task[d]] = outcome[task[d]]
        BY <1>a, <2>3 DEF PoolInv, OneConnection
      <3>2. \A u \in Task : outcome'[u] = "waiting" =>
               outcome[u] = "waiting" /\ u \notin Range(queue)
        BY <2>3
      <3> QED  BY <2>1, <3>1, <3>2 DEF QueueInv, WhoHolds
    <2> QED  BY <2>4, <2>5 DEF QueueInv
  <1>6. CASE UNCHANGED vars
    BY <1>6 DEF vars, poolVars, clientVars, history, QueueInv, AcceptedOnce, QueueIsEnd, WhoHolds
  <1>7. ASSUME NEW c \in Connection, Call(c) \/ Refused(c) \/ LoseConnection(c)
        PROVE  QueueInv'
    BY <1>7, EveryCall, CallKeepsQueue
  <1> QED
    BY <1>1, <1>2, <1>3, <1>4, <1>5, <1>6, <1>7 DEF Next, Thread

\* The rows of transactions are written one after the other and forgotten together.
LEMMA NextRowsWritten ==
    ASSUME PoolInv, RowsWritten, [Next]_vars
    PROVE  RowsWritten'
  <1>a. /\ inTransaction \in [Connection -> BOOLEAN]
        /\ written \in [Connection -> SUBSET Key]
        /\ at \in [Connection -> Nat]
        /\ task \in [Connection -> Task \union {None}]
    BY DEF PoolInv, TypeOK, Shapes
  \* a step of the connection c, which leaves the others alone
  <1>b. ASSUME NEW c \in Connection, RowsOfCall(c)',
               \A d \in Connection \ {c} :
                  /\ task'[d] = task[d] /\ at'[d] = at[d]
                  /\ inTransaction'[d] = inTransaction[d] /\ written'[d] = written[d]
        PROVE  RowsWritten'
    BY <1>b DEF RowsWritten, RowsOfCall
  <1>c. ASSUME NEW c \in Connection, ServerForgets(c)
        PROVE  /\ ~inTransaction'[c] /\ written'[c] = {}
               /\ \A d \in Connection \ {c} :
                     inTransaction'[d] = inTransaction[d] /\ written'[d] = written[d]
    BY <1>a, <1>c DEF ServerForgets
  <1>1. ASSUME NEW c \in Connection, Call(c) \/ Refused(c) \/ LoseConnection(c)
        PROVE  RowsWritten'
    <2>1. PICK t \in Task : CallOf(c, t)
      BY <1>1, EveryCall
    <2>2. /\ task[c] = t /\ t # None
          /\ \A d \in Connection \ {c} : task'[d] = task[d] /\ at'[d] = at[d]
      BY <1>a, <2>1, CallLeaves DEF CallOf, Proceed, Finish
    <2>3. RowsOfCall(c) /\ CallsOf(c)
      BY <1>1, <2>2, AtWork DEF RowsWritten
    <2>4. /\ LastRow(t) \in Nat \ {0} /\ COMMIT(t) = LastRow(t) + 1
          /\ ROLLBACK(t) = LastRow(t) + 2 /\ FAILED(t) = LastRow(t) + 3
      BY RowsOf
    <2>5. CASE CommitTransaction(c) \/ RollbackTransaction(c) \/ LoseConnection(c) \/ Deadlock(c)
      <3>1. ServerForgets(c)
        BY <2>5 DEF CommitTransaction, RollbackTransaction, LoseConnection, Deadlock
      <3>2. RowsOfCall(c)'
        BY <1>c, <3>1 DEF RowsOfCall
      <3> QED  BY <1>b, <1>c, <2>2, <3>1, <3>2
    <2>6. CASE BeginTransaction(c)
      <3>1. /\ at[c] = 0 /\ task' = task /\ at' = [at EXCEPT ![c] = 1] /\ t \in Transaction
            /\ inTransaction' = [inTransaction EXCEPT ![c] = handle[c]] /\ written' = written
        BY <2>2, <2>6 DEF BeginTransaction, Proceed, IsTransaction
      <3>2. ~inTransaction[c]
        BY <2>2, <2>3, <3>1 DEF CallsOf
      <3>3. written'[c] = {} /\ at'[c] = 1 /\ task'[c] = t
        BY <1>a, <2>2, <2>3, <3>1, <3>2 DEF RowsOfCall
      <3>4. {Rows[t][i] : i \in 1..1 - 1} = {}
        OBVIOUS
      <3>5. RowsOfCall(c)'
        BY <3>3, <3>4 DEF RowsOfCall
      <3> QED  BY <1>a, <1>b, <2>2, <3>1, <3>5
    <2>7. CASE TryAgain(c)
      <3>1. /\ at[c] = FAILED(t) /\ t \in Transaction
            /\ UNCHANGED <<inTransaction, written>>
        BY <2>2, <2>7 DEF TryAgain, IsTransaction, serverVars
      <3>2. ~inTransaction[c]
        BY <2>2, <2>3, <3>1 DEF CallsOf
      <3>3. RowsOfCall(c)'
        BY <2>3, <3>1, <3>2 DEF RowsOfCall
      <3> QED  BY <1>b, <2>2, <3>1, <3>3
    <2>8. CASE Refused(c) \/ NoHandle(c)
      <3>1. StatementFails(c) /\ UNCHANGED <<inTransaction, written>>
        BY <2>8 DEF Refused, NoHandle, serverVars
      <3>2. \/ task' = task /\ at' = [at EXCEPT ![c] = ROLLBACK(t)]
            \/ t \notin Transaction
        BY <2>2, <3>1 DEF StatementFails, Proceed, IsTransaction
      <3>3. CASE t \notin Transaction
        <4>1. ~inTransaction[c]
          BY <2>2, <2>3, <3>3 DEF CallsOf
        <4> QED  BY <1>b, <2>2, <2>3, <3>1, <4>1 DEF RowsOfCall
      <3>4. CASE task' = task /\ at' = [at EXCEPT ![c] = ROLLBACK(t)]
        <4>1. at'[c] = ROLLBACK(t) /\ task'[c] = t
          BY <1>a, <2>2, <3>4
        <4>2. ROLLBACK(t) \notin 1..COMMIT(t)
          BY <2>4
        <4>3. RowsOfCall(c)'
          BY <2>3, <3>1, <4>1, <4>2 DEF RowsOfCall
        <4> QED  BY <1>b, <2>2, <3>1, <4>3
      <3> QED  BY <3>2, <3>3, <3>4
    <2>9. CASE ExecuteQuery(c)
      <3>1. t \in Query /\ t \notin Transaction /\ UNCHANGED <<inTransaction, written>>
        BY <2>2, <2>9, PoolAssumption DEF ExecuteQuery
      <3>2. ~inTransaction[c]
        BY <2>2, <2>3, <3>1 DEF CallsOf
      <3> QED  BY <1>b, <2>2, <2>3, <3>1, <3>2 DEF RowsOfCall
    <2>10. CASE Execute(c)
      <3>1. /\ at[c] \in 1..LastRow(t) /\ inTransaction' = inTransaction
            /\ StatementSucceeds(c)
            /\ inTransaction[c] => written' = [written EXCEPT ![c] = @ \union {Rows[t][at[c]]}]
            /\ ~inTransaction[c] => written' = written
        BY <2>2, <2>10 DEF Execute, AtStatement
      <3>2. CASE ~inTransaction[c]
        BY <1>b, <2>2, <2>3, <3>1, <3>2 DEF RowsOfCall
      <3>3. CASE inTransaction[c]
        <4>1. t \in Transaction
          BY <2>2, <2>3, <3>3 DEF CallsOf
        <4>2. task' = task /\ at' = [at EXCEPT ![c] = at[c] + 1]
          BY <2>2, <3>1, <4>1 DEF StatementSucceeds, Proceed, IsTransaction
        <4>3. at'[c] = at[c] + 1 /\ task'[c] = t
          BY <1>a, <2>2, <4>2
        <4>4. written[c] = {Rows[t][i] : i \in 1..at[c] - 1}
          <5>1. at[c] \in 1..COMMIT(t)
            BY <2>4, <3>1
          <5> QED  BY <2>2, <2>3, <3>3, <5>1 DEF RowsOfCall
        <4>5. written'[c] = written[c] \union {Rows[t][at[c]]}
          BY <1>a, <3>1, <3>3
        <4>6. 1..(at[c] + 1) - 1 = (1..at[c] - 1) \union {at[c]}
          BY <2>4, <3>1
        <4>7. written'[c] = {Rows[t][i] : i \in 1..(at[c] + 1) - 1}
          BY ONLY <4>4, <4>5, <4>6
        <4>8. RowsOfCall(c)'
          BY <3>1, <3>3, <4>3, <4>7 DEF RowsOfCall
        <4> QED  BY <1>a, <1>b, <2>2, <3>1, <3>3, <4>8
      <3> QED  BY <3>2, <3>3
    <2> QED
      BY <1>1, <2>5, <2>6, <2>7, <2>8, <2>9, <2>10 DEF Call
  <1>2. ASSUME NEW c \in Connection, NEW t, Take(c, t), task[c] = None,
               UNCHANGED <<inTransaction, written>>
        PROVE  RowsWritten'
    <2>1. \A d \in Connection \ {c} : task'[d] = task[d] /\ at'[d] = at[d]
      BY <1>a, <1>2 DEF Take
    <2>2. ~inTransaction[c]
      BY <1>2, PoolAssumption DEF PoolInv, Calls, CallsOf
    <2>3. RowsOfCall(c)'
      BY <1>2, <2>2 DEF RowsWritten, RowsOfCall
    <2> QED  BY <1>2, <1>b, <2>1, <2>3
  <1>3. ASSUME UNCHANGED <<task, at, inTransaction, written>>  PROVE RowsWritten'
    BY <1>3 DEF RowsWritten, RowsOfCall
  <1>4. ASSUME NEW t \in Task, NEW s \in Synch, GetFreeConnection(s, t)  PROVE RowsWritten'
    BY <1>2, <1>4 DEF GetFreeConnection, serverVars, Connection
  <1>5. ASSUME NEW w \in Connection, svc(w)  PROVE RowsWritten'
    BY <1>2, <1>5 DEF svc, serverVars
  <1>6. ASSUME \/ \E t \in Task : Enqueue(t)
               \/ \E w \in Connection : svc_exit(w)
               \/ Close
               \/ UNCHANGED vars
        PROVE  RowsWritten'
    BY <1>3, <1>6 DEF Enqueue, svc_exit, Close, vars, clientVars, serverVars
  <1> QED
    BY <1>1, <1>4, <1>5, <1>6 DEF Next, Thread

\* Every step keeps the invariant.
LEMMA NextStoreInv == StoreInv /\ [Next]_vars => StoreInv'
BY NextPoolInv, NextQueueInv, NextRowsWritten DEF StoreInv

\* An operation that a connection has may be executed: with a single worker it is
\* the first of those that wait.
LEMMA Runs ==
    ASSUME StoreInv, NEW c \in Connection, NEW t \in Task, task[c] = t
    PROVE  Store!MayRun(t)
  <1>1. outcome[t] = IF c \in Worker THEN "waiting" ELSE "direct"
    BY PoolAssumption DEF StoreInv, QueueInv, WhoHolds
  <1>2. CASE c \notin Worker
    BY <1>1, <1>2 DEF Store!MayRun
  <1>3. CASE c \in Worker
    <2>1. ASSUME Cardinality(opened \intersect Worker) = 1,
                 NEW i \in 1..Len(accepted), NEW j \in 1..Len(accepted), i < j,
                 accepted[j] = t, outcome[accepted[i]] = "waiting"
          PROVE  FALSE
      <3>1. PICK u \in Task : u = accepted[i]
        BY DEF StoreInv, QueueInv, AcceptedOnce
      <3>2. t # None /\ u # t
        BY <2>1, <3>1, PoolAssumption DEF StoreInv, QueueInv, AcceptedOnce, Distinct
      <3>3. /\ queue \in Seq(Task) /\ Len(queue) \in Nat /\ Len(accepted) \in Nat
            /\ DOMAIN queue = 1..Len(queue)
            /\ t \notin Range(queue)
        BY <3>2, LenProperties
           DEF StoreInv, PoolInv, TypeOK, OneConnection, QueueInv, AcceptedOnce
      <3>4. CASE u \in Range(queue)
        <4>1. PICK n \in 1..Len(queue) : queue[n] = u
          BY <3>3, <3>4 DEF Range
        <4>2. /\ Len(queue) <= Len(accepted)
              /\ \A k \in 1..Len(queue) : queue[k] = accepted[Len(accepted) - Len(queue) + k]
          BY DEF StoreInv, QueueInv, QueueIsEnd
        <4>3. Len(accepted) - Len(queue) + n \in 1..Len(accepted)
          BY <3>3, <4>2
        <4>4. i = Len(accepted) - Len(queue) + n
          <5>1. Distinct(accepted)
            BY DEF StoreInv, QueueInv, AcceptedOnce
          <5>2. accepted[Len(accepted) - Len(queue) + n] = accepted[i]
            BY <3>1, <4>1, <4>2
          <5> QED  BY <4>3, <5>1, <5>2 DEF Distinct
        <4>5. PICK k \in 1..Len(queue) : j = Len(accepted) - Len(queue) + k
          <5>1. /\ j - (Len(accepted) - Len(queue)) \in 1..Len(queue)
                /\ j = Len(accepted) - Len(queue) + (j - (Len(accepted) - Len(queue)))
            BY <2>1, <3>3, <4>2, <4>4
          <5> QED  BY <5>1
        <4>6. queue[k] = t
          BY <2>1, <4>2, <4>5
        <4> QED  BY <3>3, <4>6 DEF Range
      <3>5. CASE \E d \in Worker : task[d] = u
        <4>1. PICK d \in Worker : task[d] = u
          BY <3>5
        <4>2. c \in opened /\ d \in opened
          BY <3>1, <3>2, <4>1, PoolAssumption DEF StoreInv, QueueInv, WhoHolds, Connection
        <4>3. IsFiniteSet(opened \intersect Worker)
          BY PoolAssumption, FS_Intersection
        <4>4. PICK x : opened \intersect Worker = {x}
          BY <2>1, <4>3, FS_Singleton
        <4>5. c = d
          BY <1>3, <4>2, <4>4
        <4> QED  BY <3>2, <4>1, <4>5
      <3> QED
        BY <2>1, <3>1, <3>4, <3>5 DEF StoreInv, QueueInv, WhoHolds
    <2>2. \A i \in 1..Len(accepted) : accepted[i] \in Task
      BY DEF StoreInv, QueueInv, AcceptedOnce
    <2>3. Cardinality(opened \intersect Worker) = 1 => Store!IsFirst(t)
      BY <2>1, <2>2 DEF Store!IsFirst
    <2> QED  BY <1>1, <1>3, <2>3 DEF Store!MayRun
  <1> QED  BY <1>2, <1>3

\* What the operations look like to the callers
Waiting == {t \in Task : outcome[t] = "waiting"}
Waited == {t \in Task : outcome[t] = "direct"}

\* A call is over with its operation or leaves it where it is.
LEMMA CallSeen ==
    ASSUME StoreInv, NEW c \in Connection, NEW t \in Task, CallOf(c, t)
    PROVE  /\ \A call : Proceed(c, call) => UNCHANGED <<Waiting, Waited>>
           /\ \A result \in {"done", "dropped"} : Finish(c, result) => Store!Leaves(t)
           /\ UNCHANGED <<opened, accepted>>
           /\ t \in Waiting \union Waited
           /\ Store!MayRun(t)
  <1>1. task[c] = t /\ UNCHANGED <<opened, accepted>>
    BY DEF CallOf, poolVars
  <1>2. outcome \in [Task -> {"unused", "waiting", "direct", "done", "dropped", "flushed"}]
    BY DEF StoreInv, PoolInv, TypeOK
  <1>3. ASSUME NEW call, Proceed(c, call)  PROVE UNCHANGED <<Waiting, Waited>>
    BY <1>3 DEF Proceed, Waiting, Waited
  <1>4. ASSUME NEW result \in {"done", "dropped"}, Finish(c, result)  PROVE Store!Leaves(t)
    <2>1. outcome' = [outcome EXCEPT ![t] = result]
      BY <1>1, <1>4 DEF Finish
    <2> QED  BY <1>2, <2>1 DEF Store!Leaves
  <1>5. t \in Waiting \union Waited
    BY <1>1, AtWork, PoolAssumption DEF StoreInv, Waiting, Waited
  <1> QED  BY <1>1, <1>3, <1>4, <1>5, Runs

\* Rows that an operation touches
LEMMA TouchedRows ==
    ASSUME NEW t \in Task
    PROVE  /\ Store!Touched(t) = {Rows[t][i] : i \in 1..LastRow(t)}
           /\ \A i \in 1..LastRow(t) : {Rows[t][i]} \in SUBSET Store!Touched(t)
           /\ LastRow(t) = 1 => Store!Touched(t) = {Rows[t][1]}
  <1>1. DOMAIN Rows[t] = 1..LastRow(t)
    BY PoolAssumption, LenProperties DEF LastRow
  <1>2. Store!Touched(t) = {Rows[t][i] : i \in 1..LastRow(t)}
    BY <1>1 DEF Store!Touched, Store!Range
  <1> QED  BY <1>2

\* Every call of a connection is a step of the store or none.
LEMMA CallImplements ==
    ASSUME StoreInv, NEW c \in Connection, Call(c) \/ Refused(c) \/ LoseConnection(c)
    PROVE  Store!Next \/ UNCHANGED <<opened, accepted, Waiting, Waited, table, answer, Broken>>
  <1>a. PoolInv
    BY DEF StoreInv
  <1>b. PICK t \in Task : CallOf(c, t)
    BY <1>a, EveryCall
  <1>c. /\ \A call : Proceed(c, call) => UNCHANGED <<Waiting, Waited>>
        /\ \A result \in {"done", "dropped"} : Finish(c, result) => Store!Leaves(t)
        /\ UNCHANGED <<opened, accepted>>
        /\ t \in Waiting \union Waited
        /\ Store!MayRun(t)
    BY <1>b, CallSeen
  <1>d. task[c] = t /\ t # None
    BY <1>a, <1>b, CallLeaves DEF CallOf
  <1>e. CallsOf(c) /\ ReadsOf(c) /\ RowsOfCall(c)
    BY <1>a, <1>d, AtWork DEF StoreInv, RowsWritten
  <1>f. /\ LastRow(t) \in Nat \ {0} /\ COMMIT(t) = LastRow(t) + 1
        /\ t \notin Transaction \union Query => LastRow(t) = 1
    BY RowsOf
  <1>g. met \in [Task -> SUBSET Nat] /\ answer \in [Task -> Seq(Task \union {None})]
    BY <1>a DEF PoolInv, Shapes
  \* an operation is given up
  <1>1. ASSUME Finish(c, "dropped"), UNCHANGED <<table, answer, Broken>>
        PROVE  Store!Next
    <2>1. Store!Drop(t)
      BY <1>1, <1>c DEF Store!Drop, Waiting, Waited
    <2> QED  BY <2>1 DEF Store!Next
  <1>2. ASSUME \/ BeginTransaction(c) \/ RollbackTransaction(c) \/ TryAgain(c)
               \/ Refused(c) \/ Deadlock(c) \/ NoHandle(c)
        PROVE  Store!Next \/ UNCHANGED <<opened, accepted, Waiting, Waited, table, answer, Broken>>
    <2>1. /\ UNCHANGED <<table, answer>>
          /\ \/ met' = met
             \/ met' = [met EXCEPT ![t] = @ \union {ER_DUP_ENTRY}]
             \/ met' = [met EXCEPT ![t] = @ \union {ER_LOCK_DEADLOCK}]
          /\ (\E call : Proceed(c, call)) \/ Finish(c, "dropped")
      BY <1>2, <1>d
      DEF BeginTransaction, RollbackTransaction, TryAgain, Refused, Deadlock, NoHandle,
          serverVars, StatementFails
    <2>2. Broken' = Broken
      <3>1. CR_SERVER_LOST \notin {ER_DUP_ENTRY, ER_LOCK_DEADLOCK}
        BY DEF ER_DUP_ENTRY, ER_LOCK_DEADLOCK, CR_SERVER_LOST
      <3>2. \A u \in Task : CR_SERVER_LOST \in met'[u] <=> CR_SERVER_LOST \in met[u]
        BY <1>g, <2>1, <3>1
      <3> QED  BY <3>2 DEF Broken
    <2> QED  BY <1>1, <1>c, <2>1, <2>2
  <1>3. ASSUME ExecuteQuery(c)  PROVE Store!Next
    <2>1. /\ t \in Query /\ at[c] \in 1..LastRow(t)
          /\ answer' = [answer EXCEPT ![t] = Append(@, table[Rows[t][at[c]]])]
          /\ StatementSucceeds(c)
          /\ UNCHANGED <<table, met>>
      BY <1>3, <1>d DEF ExecuteQuery, AtStatement
    <2>2. Len(answer[t]) + 1 = at[c]
      BY <1>d, <1>e, <1>g, <2>1 DEF ReadsOf
    <2>3. IF at[c] = LastRow(t) THEN Store!Leaves(t) ELSE UNCHANGED <<Waiting, Waited>>
      <3>1. IF at[c] < LastRow(t) THEN Proceed(c, at[c] + 1) ELSE Finish(c, "done")
        BY <1>d, <2>1, PoolAssumption DEF StatementSucceeds, IsTransaction
      <3>2. at[c] < LastRow(t) <=> at[c] # LastRow(t)
        BY <1>f, <2>1
      <3> QED  BY <1>c, <3>1, <3>2
    <2>4. Broken' = Broken
      BY <2>1 DEF Broken
    <2>5. Store!Read(t)
      BY <1>c, <2>1, <2>2, <2>3, <2>4 DEF Store!Read, LastRow, Waiting, Waited
    <2> QED  BY <2>5 DEF Store!Next
  <1>4. ASSUME Execute(c)
        PROVE  Store!Next \/ UNCHANGED <<opened, accepted, Waiting, Waited, table, answer, Broken>>
    <2>1. /\ t \notin Query /\ at[c] \in 1..LastRow(t) /\ handle[c]
          /\ inTransaction[c] => table' = table
          /\ ~inTransaction[c] => Apply(t, {Rows[t][at[c]]})
          /\ StatementSucceeds(c)
          /\ UNCHANGED <<answer, met>>
      BY <1>4, <1>d DEF Execute, AtStatement
    <2>2. Broken' = Broken
      BY <2>1 DEF Broken
    <2>3. CASE inTransaction[c]
      <3>1. Proceed(c, at[c] + 1)
        BY <1>d, <1>e, <2>1, <2>3 DEF CallsOf, StatementSucceeds, IsTransaction
      <3> QED  BY <1>c, <2>1, <2>2, <2>3, <3>1
    <2>4. CASE ~inTransaction[c] /\ t \in Transaction
      <3>1. t \in Broken
        <4>1. at[c] = 1 \/ at[c] \in 2..COMMIT(t)
          BY <1>f, <2>1
        <4>2. t \notin Broken => /\ at[c] = 1 => inTransaction[c] = handle[c]
                                 /\ at[c] \in 2..COMMIT(t) => inTransaction[c]
          BY <1>d, <1>e, <2>4, Zenon DEF CallsOf
        <4> QED  BY <2>1, <2>4, <4>1, <4>2, Zenon
      <3>2. Proceed(c, at[c] + 1)
        BY <1>d, <2>1, <2>4 DEF StatementSucceeds, IsTransaction
      <3>3. {Rows[t][at[c]]} \in SUBSET Store!Touched(t)
        BY <2>1, TouchedRows
      <3>4. Store!WriteBroken(t)
        BY <1>c, <2>1, <2>2, <2>4, <3>1, <3>2, <3>3
        DEF Store!WriteBroken, Store!Write, Apply, Waiting, Waited
      <3> QED  BY <3>4 DEF Store!Next
    <2>5. CASE ~inTransaction[c] /\ t \notin Transaction
      <3>1. at[c] = 1 /\ LastRow(t) = 1
        BY <1>f, <2>1, <2>5
      <3>2. Finish(c, "done")
        BY <1>d, <2>1, <2>5, <3>1 DEF StatementSucceeds, IsTransaction
      <3>3. Store!Touched(t) = {Rows[t][at[c]]}
        BY <3>1, TouchedRows
      <3>4. CASE t \in Broken
        <4>1. Store!WriteBroken(t)
          BY <1>c, <2>1, <2>2, <2>5, <3>2, <3>3, <3>4
          DEF Store!WriteBroken, Store!Write, Apply
        <4> QED  BY <4>1 DEF Store!Next
      <3>5. CASE t \notin Broken
        <4>1. Store!Execute(t)
          BY <1>c, <2>1, <2>2, <2>5, <3>2, <3>3, <3>5
          DEF Store!Execute, Store!Write, Apply
        <4> QED  BY <4>1 DEF Store!Next
      <3> QED  BY <3>4, <3>5
    <2> QED  BY <2>3, <2>4, <2>5
  \* a transaction that is open at its COMMIT has written all its rows
  <1>5. ASSUME at[c] = COMMIT(t), inTransaction[c]  PROVE written[c] = Store!Touched(t)
    <2>1. COMMIT(t) \in 1..COMMIT(t) /\ COMMIT(t) - 1 = LastRow(t)
      BY <1>f
    <2>2. written[c] = {Rows[t][i] : i \in 1..COMMIT(t) - 1}
      BY <1>5, <1>d, <1>e, <2>1 DEF RowsOfCall
    <2> QED  BY <2>1, <2>2, TouchedRows
  <1>6. ASSUME CommitTransaction(c)  PROVE Store!Next
    <2>1. /\ t \in Transaction /\ t \notin Query /\ at[c] = COMMIT(t)
          /\ Apply(t, written[c]) /\ Finish(c, "done")
          /\ UNCHANGED <<answer, met>>
      BY <1>6, <1>d, PoolAssumption DEF CommitTransaction, IsTransaction
    <2>2. Broken' = Broken
      BY <2>1 DEF Broken
    <2>3. CASE t \in Broken
      <3>1. written[c] \in SUBSET Store!Touched(t)
        BY <1>5, <1>e, <2>1 DEF RowsOfCall
      <3>2. Store!WriteBroken(t)
        BY <1>c, <2>1, <2>2, <2>3, <3>1 DEF Store!WriteBroken, Store!Write, Apply
      <3> QED  BY <3>2 DEF Store!Next
    <2>4. CASE t \notin Broken
      <3>1. COMMIT(t) \in 2..COMMIT(t)
        BY <1>f
      <3>2. inTransaction[c]
        BY <1>d, <1>e, <2>1, <2>4, <3>1 DEF CallsOf
      <3>3. Store!Execute(t)
        BY <1>5, <1>c, <2>1, <2>2, <2>4, <3>2 DEF Store!Execute, Store!Write, Apply
      <3> QED  BY <3>3 DEF Store!Next
    <2> QED  BY <2>3, <2>4
  <1>7. ASSUME LoseConnection(c)  PROVE Store!Next
    <2>1. /\ met' = [met EXCEPT ![t] = @ \union {CR_SERVER_LOST}]
          /\ UNCHANGED <<answer, outcome>> /\ handle[c]
          /\ \/ UNCHANGED table
             \/ /\ at[c] = COMMIT(t) /\ inTransaction[c]
                /\ Apply(t, written[c])
             \/ /\ at[c] \in 1..LastRow(t) /\ t \notin Query /\ ~inTransaction[c]
                /\ Apply(t, {Rows[t][at[c]]})
      BY <1>7, <1>d DEF LoseConnection, AtStatement
    <2>2. Broken' = Broken \union {t}
      BY <1>g, <2>1 DEF Broken, CR_SERVER_LOST
    <2>3. UNCHANGED <<Waiting, Waited>>
      BY <2>1 DEF Waiting, Waited
    <2>4. CASE UNCHANGED table
      <3>1. Store!Break(t)
        BY <1>c, <2>1, <2>2, <2>3, <2>4 DEF Store!Break, Waiting, Waited
      <3> QED  BY <3>1 DEF Store!Next
    <2>5. CASE at[c] = COMMIT(t) /\ inTransaction[c] /\ Apply(t, written[c])
      <3>1. t \notin Query
        BY <1>d, <1>e, <2>5, PoolAssumption DEF CallsOf
      <3>2. Store!Break(t)
        BY <1>5, <1>c, <2>1, <2>2, <2>3, <2>5, <3>1
        DEF Store!Break, Store!Write, Apply, Waiting, Waited
      <3> QED  BY <3>2 DEF Store!Next
    <2>6. CASE /\ at[c] \in 1..LastRow(t) /\ t \notin Query /\ ~inTransaction[c]
               /\ Apply(t, {Rows[t][at[c]]})
      <3>1. CASE t \notin Transaction
        <4>1. at[c] = 1 /\ LastRow(t) = 1
          BY <1>f, <2>6, <3>1
        <4>2. Store!Touched(t) = {Rows[t][at[c]]}
          BY <4>1, TouchedRows
        <4>3. Store!Break(t)
          BY <1>c, <2>1, <2>2, <2>3, <2>6, <4>2
          DEF Store!Break, Store!Write, Apply, Waiting, Waited
        <4> QED  BY <4>3 DEF Store!Next
      <3>2. CASE t \in Transaction
        <4>1. t \in Broken
          <5>1. at[c] = 1 \/ at[c] \in 2..COMMIT(t)
            BY <1>f, <2>6
          <5>2. t \notin Broken => /\ at[c] = 1 => inTransaction[c] = handle[c]
                                   /\ at[c] \in 2..COMMIT(t) => inTransaction[c]
            BY <1>d, <1>e, <3>2, Zenon DEF CallsOf
          <5> QED  BY <2>1, <2>6, <5>1, <5>2, Zenon
        <4>2. Broken' = Broken
          BY <2>2, <4>1
        <4>3. {Rows[t][at[c]]} \in SUBSET Store!Touched(t)
          BY <2>6, TouchedRows
        <4>4. Store!WriteBroken(t)
          BY <1>c, <2>1, <2>3, <2>6, <4>1, <4>2, <4>3
          DEF Store!WriteBroken, Store!Write, Apply, Waiting, Waited
        <4> QED  BY <4>4 DEF Store!Next
      <3> QED  BY <3>1, <3>2
    <2> QED  BY <2>1, <2>4, <2>5, <2>6
  <1> QED  BY <1>2, <1>3, <1>4, <1>6, <1>7 DEF Call

\* For any operations, rows, connections and faults the pool is a store in which
\* operations are atomic, unless they lose their connection, and those of a single
\* worker are executed in the order they were queued.
THEOREM StoreImplemented == Spec => ImplementsStore
  <1>1. Init => Store!Init
    BY DEF Init, Store!Init, Broken
  <1>2. StoreInv /\ [Next]_vars =>
           Store!Next \/ UNCHANGED <<opened, accepted, Waiting, Waited, table, answer, Broken>>
    <2> SUFFICES ASSUME StoreInv, [Next]_vars
                 PROVE  \/ Store!Next
                        \/ UNCHANGED <<opened, accepted, Waiting, Waited, table, answer, Broken>>
      OBVIOUS
    <2>a. /\ outcome \in [Task -> {"unused", "waiting", "direct", "done", "dropped", "flushed"}]
          /\ \A t \in Task : outcome[t] = "unused" => t \notin Range(accepted)
          /\ \A t \in Range(queue) : outcome[t] = "waiting"
      <3>1. DOMAIN accepted = 1..Len(accepted)
        BY LenProperties DEF StoreInv, QueueInv, AcceptedOnce
      <3> QED
        BY <3>1 DEF StoreInv, PoolInv, TypeOK, OneConnection, QueueInv, AcceptedOnce, Range
    <2>1. ASSUME NEW t \in Task, Enqueue(t)  PROVE Store!Next
      <3>1. /\ outcome[t] = "unused" /\ outcome' = [outcome EXCEPT ![t] = "waiting"]
            /\ accepted' = Append(accepted, t)
            /\ UNCHANGED <<opened, table, answer, met>>
        BY <2>1 DEF Enqueue, Unused, serverVars
      <3>2. Waiting' = Waiting \union {t} /\ Waited' = Waited /\ t \notin Waited
        BY <2>a, <3>1 DEF Waiting, Waited
      <3>3. Store!Accept(t)
        BY <2>a, <3>1, <3>2 DEF Store!Accept, Store!Range, Range, Waiting, Waited, Broken
      <3> QED  BY <3>3 DEF Store!Next
    <2>2. ASSUME NEW t \in Task, NEW s \in Synch, GetFreeConnection(s, t)  PROVE Store!Next
      <3>1. /\ outcome[t] = "unused" /\ outcome' = [outcome EXCEPT ![t] = "direct"]
            /\ UNCHANGED <<opened, accepted, table, answer, met>>
        BY <2>2 DEF GetFreeConnection, Unused, serverVars, poolVars
      <3>2. Waiting' = Waiting /\ Waited' = Waited \union {t} /\ t \notin Waited
        BY <2>a, <3>1 DEF Waiting, Waited
      <3>3. Store!Accept(t)
        BY <2>a, <3>1, <3>2 DEF Store!Accept, Store!Range, Range, Waiting, Waited, Broken
      <3> QED  BY <3>3 DEF Store!Next
    <2>3. ASSUME \E w \in Connection : svc(w) \/ svc_exit(w)
          PROVE  UNCHANGED <<opened, accepted, Waiting, Waited, table, answer, Broken>>
      BY <2>3 DEF svc, svc_exit, history, serverVars, Waiting, Waited, Broken
    <2>4. CASE Close
      <3>1. /\ outcome' = [t \in Task |-> IF t \in Range(queue) THEN "flushed" ELSE outcome[t]]
            /\ UNCHANGED <<opened, accepted, table, answer, met>>
        BY <2>4 DEF Close, serverVars
      <3>2. Waiting' \in SUBSET Waiting /\ Waited' = Waited
        BY <2>a, <3>1 DEF Waiting, Waited
      <3>3. Store!Close
        BY <3>1, <3>2 DEF Store!Close, Waiting, Waited, Broken
      <3> QED  BY <3>3 DEF Store!Next
    <2>5. CASE UNCHANGED vars
      BY <2>5 DEF vars, poolVars, serverVars, history, Waiting, Waited, Broken
    <2> QED
      BY <2>1, <2>2, <2>3, <2>4, <2>5, CallImplements DEF Next, Thread
  <1>3. StoreInv /\ [Next]_vars => [Store!Next]_Store!vars
    BY <1>2 DEF Store!vars, Waiting, Waited
  <1> QED
    BY <1>1, <1>3, InitStoreInv, NextStoreInv, PTL DEF Spec, ImplementsStore, Store!Spec
=============================================================================

--------------------------- MODULE TransactionStore ---------------------------
(***************************************************************************)
(* What the callers of a database pool rely on: an operation handed to the *)
(* pool is executed as a whole or not at all, unless its connection to the *)
(* server is lost meanwhile, and what is queued for a single background    *)
(* connection is executed in the order it was queued, so that a query      *)
(* queued after a save reads what the save wrote.                          *)
(***************************************************************************)
EXTENDS Naturals, Sequences, SequencesExt

CONSTANTS
    Task,       \* operations handed to the pool
    Key,        \* rows of the database
    Rows,       \* Rows[t]: the rows an operation writes, or reads if it is a query
    Query,      \* the operations that read
    None

VARIABLES
    serial,     \* one background connection only
    queued,     \* operations handed over to be executed in the background, in the
                \* order they came
    waiting,    \* those of them that are not over
    direct,     \* operations a caller waits for
    table,      \* the last operation that wrote each row
    answer,     \* what a query has read so far, row by row
    broken      \* operations whose connection to the server was lost meanwhile

vars == <<serial, queued, waiting, direct, table, answer, broken>>

Init ==
    /\ serial \in BOOLEAN
    /\ queued = <<>>
    /\ waiting = {}
    /\ direct = {}
    /\ table = [k \in Key |-> None]
    /\ answer = [t \in Task |-> <<>>]
    /\ broken = {}

Touched(t) == Range(Rows[t])

Accept(t) ==
    /\ t \notin Range(queued) \union direct
    /\ \/ /\ queued' = Append(queued, t)
          /\ waiting' = waiting \union {t}
          /\ UNCHANGED direct
       \/ direct' = direct \union {t} /\ UNCHANGED <<queued, waiting>>
    /\ UNCHANGED <<serial, table, answer, broken>>

\* An operation is over: it leaves the ones that are waited for
Leaves(t) ==
    /\ waiting' = waiting \ {t}
    /\ direct' = direct \ {t}

\* Everything that was queued before t is over
IsFirst(t) ==
    \A i, j \in 1..Len(queued) : i < j /\ queued[j] = t => queued[i] \notin waiting

\* An operation that may be executed now
MayRun(t) ==
    \/ t \in direct
    \/ t \in waiting /\ (serial => IsFirst(t))

Write(t, rows) == table' = [k \in Key |-> IF k \in rows THEN t ELSE table[k]]

Execute(t) ==
    /\ MayRun(t)
    /\ t \notin Query
    /\ t \notin broken
    /\ Write(t, Touched(t))
    /\ Leaves(t)
    /\ UNCHANGED <<serial, queued, answer, broken>>

\* An operation whose connection is lost may have been executed already; from then
\* on it writes its rows one by one, and may stop anywhere.
Break(t) ==
    /\ MayRun(t)
    /\ broken' = broken \union {t}
    /\ \/ UNCHANGED table
       \/ t \notin Query /\ Write(t, Touched(t))
    /\ UNCHANGED <<serial, queued, waiting, direct, answer>>

WriteBroken(t) ==
    /\ MayRun(t)
    /\ t \in broken \ Query
    /\ \E rows \in SUBSET Touched(t) : Write(t, rows)
    /\ Leaves(t) \/ UNCHANGED <<waiting, direct>>
    /\ UNCHANGED <<serial, queued, answer, broken>>

\* A query reads its rows one by one: what others write may come in between
Read(t) ==
    /\ MayRun(t)
    /\ t \in Query
    /\ LET row == Rows[t][Len(answer[t]) + 1]
       IN  answer' = [answer EXCEPT ![t] = Append(@, table[row])]
    /\ IF Len(answer[t]) + 1 = Len(Rows[t])
       THEN Leaves(t)
       ELSE UNCHANGED <<waiting, direct>>
    /\ UNCHANGED <<serial, queued, table, broken>>

\* Given up after an error: no row has changed
Drop(t) ==
    /\ t \in waiting \union direct
    /\ Leaves(t)
    /\ UNCHANGED <<serial, queued, table, answer, broken>>

\* The queue is closed over the operations nobody has begun
Close ==
    /\ \E begun \in SUBSET waiting : waiting' = begun
    /\ UNCHANGED <<serial, queued, direct, table, answer, broken>>

Next ==
    \/ \E t \in Task : Accept(t) \/ Execute(t) \/ Read(t) \/ Drop(t)
                   \/ Break(t) \/ WriteBroken(t)
    \/ Close

Spec == Init /\ [][Next]_vars
=============================================================================

----------------------------- MODULE LoginQueue -----------------------------
(***************************************************************************)
(* Admission of client sessions to the world (World.cpp, World.h).         *)
(*                                                                         *)
(* A network thread that has authenticated a client creates a WorldSession *)
(* and hands it to the world thread through addSessQueue.  Once per tick   *)
(* the world thread drains that queue (AddSession_): a new session replaces *)
(* the older session of its account, and is either admitted or, when the   *)
(* world is full, put at the end of the login queue m_QueuedPlayer.  Then  *)
(* it updates every session and removes the ones whose socket has closed,  *)
(* each removal letting the first waiting session in.                      *)
(*                                                                         *)
(* A session is a heap object: its identity is its address, which may be   *)
(* used again once the object has been deleted.                            *)
(***************************************************************************)
EXTENDS Integers, Sequences, FiniteSets, SequencesExt

CONSTANTS
    Account,    \* accounts; m_sessions has at most one session for each
    Staff,      \* accounts with RBAC_PERM_SKIP_QUEUE and a staff security level
    Session,    \* addresses a WorldSession object may have
    NoSession,  \* the null pointer
    NoAccount,  \* marks an address at which no session lives
    Limits,     \* values m_playerLimit is given; 0 means no limit
    Tolerance   \* CONFIG_INTERVAL_DISCONNECT_TOLERANCE is not zero

ASSUME LoginQueueAssumption ==
    /\ IsFiniteSet(Account)
    /\ Staff \subseteq Account
    /\ NoSession \notin Session
    /\ NoAccount \notin Account
    /\ Limits \subseteq Nat
    /\ Limits # {}
    /\ Tolerance \in BOOLEAN

VARIABLES
    account,        \* _accountId of each session object, NoAccount if none lives
                    \* at the address
    closed,         \* sessions whose socket is closed
    inQueue,        \* sessions with m_inQueue set
    loading,        \* sessions with m_playerLoading set
    told,           \* queue position last sent to the client of a session
    addSessQueue,   \* sessions handed over by the network threads
    m_sessions,     \* the session registered for each account
    m_QueuedPlayer, \* the login queue
    m_disconnects,  \* accounts with an entry in the map of disconnect times
    m_playerLimit,
    phase,          \* where the world thread is in its tick
    m_stopEvent,    \* the last UpdateSessions has begun
    todo            \* accounts the loop of UpdateSessions has still to visit

sessionVars == <<account, closed, inQueue, loading, told>>
worldVars   == <<m_sessions, m_QueuedPlayer, m_disconnects>>
tickVars    == <<phase, m_stopEvent, todo>>
vars == <<sessionVars, addSessQueue, worldVars, m_playerLimit, tickVars>>

-----------------------------------------------------------------------------
(* Helpers of World                                                        *)

Live == {s \in Session : account[s] # NoAccount}

Registered == {a \in Account : m_sessions[a] # NoSession}

\* GetActiveSessionCount, for the queue q
ActiveSessionCount(q) == Cardinality(Registered) - Len(q)

\* The entry is never too old: difftime(then, now) is negative or zero, so it
\* is below every tolerance and the arm that erases entries is never taken.
HasRecentlyDisconnected(a) == Tolerance /\ a \in m_disconnects

\* 1-based position of a session in the queue q, 0 if it does not wait
GetQueuePos(q, s) ==
    IF \E i \in 1..Len(q) : q[i] = s
    THEN CHOOSE i \in 1..Len(q) : q[i] = s /\ \A j \in 1..(i-1) : q[j] # s
    ELSE 0

\* Faulty TellPositions: the loop starts one place late.
TellPositionsLate(t, q, first) ==
    [s \in Session |-> IF GetQueuePos(q, s) > first THEN GetQueuePos(q, s)
                                                    ELSE t[s]]

\* The closing loop of RemoveQueuedPlayer: tell position i to the session at i,
\* for every i from first on.
TellPositions(t, q, first) ==
    [s \in Session |-> IF GetQueuePos(q, s) >= first THEN GetQueuePos(q, s)
                                                     ELSE t[s]]

\* Faulty SessionsLeft: the session that leaves is still counted.
SessionsLeftUncounted(active, found) == active

\* The sessions RemoveQueuedPlayer counts: the one that leaves counts no more,
\* unless it was waiting.
SessionsLeft(active, found) == IF ~found /\ active > 0 THEN active - 1 ELSE active

\* Faulty RemoveQueuedPlayer: the session that came last is let in.
RemoveQueuedPlayerBack(w, s) ==
    LET pos   == GetQueuePos(w.queue, s)
        found == pos > 0
        rest  == IF found THEN RemoveAt(w.queue, pos) ELSE w.queue
        admit == /\ \/ m_playerLimit = 0
                    \/ SessionsLeft(ActiveSessionCount(w.queue), found) < m_playerLimit
                 /\ rest # <<>>
        queue == IF admit THEN Front(rest) ELSE rest
        out   == (IF found THEN {s} ELSE {}) \union
                 (IF admit THEN {Last(rest)} ELSE {})
    IN  [found |-> found, queue |-> queue, inQueue |-> w.inQueue \ out,
         told |-> TellPositions(w.told, queue, 1)]

\* What RemoveQueuedPlayer makes of the queue, the flags and the positions w,
\* and the value it returns.
RemoveQueuedPlayer(w, s) ==
    LET pos      == GetQueuePos(w.queue, s)
        found    == pos > 0
        rest     == IF found THEN RemoveAt(w.queue, pos) ELSE w.queue
        sessions == SessionsLeft(ActiveSessionCount(w.queue), found)
        admit    == /\ m_playerLimit = 0 \/ sessions < m_playerLimit
                    /\ rest # <<>>
        queue    == IF admit THEN Tail(rest) ELSE rest
        first    == IF admit THEN 1 ELSE IF found THEN pos ELSE Len(queue) + 1
        admitted == IF admit THEN {Head(rest)} ELSE {}
    IN  [found   |-> found,
         queue   |-> queue,
         inQueue |-> w.inQueue \ ((IF found THEN {s} ELSE {}) \union admitted),
         told    |-> TellPositions([x \in Session |->
                                       IF x \in admitted THEN 0 ELSE w.told[x]],
                                   queue, first)]

Waiting == [found |-> FALSE, queue |-> m_QueuedPlayer, inQueue |-> inQueue,
            told |-> told]

AddQueuedPlayer(w, s) ==
    LET queue == Append(w.queue, s)
    IN  [w EXCEPT !.queue = queue, !.inQueue = @ \union {s},
                  !.told = [@ EXCEPT ![s] = GetQueuePos(queue, s)]]

\* Faulty RemoveOldSession: the replaced session stays in the queue.
RemoveOldSessionStays(old) == Waiting

\* AddSession_ takes the session it replaces, if any, out of the queue.
RemoveOldSession(old) ==
    IF old = NoSession THEN Waiting ELSE RemoveQueuedPlayer(Waiting, old)

\* Faulty WorldFull: one session too many.
WorldFullLate(a, sessions) ==
    /\ m_playerLimit > 0
    /\ sessions > m_playerLimit
    /\ a \notin Staff
    /\ ~HasRecentlyDisconnected(a)

\* AddSession_ lets the new session of account a wait.
WorldFull(a, sessions) ==
    /\ m_playerLimit > 0
    /\ sessions >= m_playerLimit
    /\ a \notin Staff
    /\ ~HasRecentlyDisconnected(a)

\* Faulty SetWaitingAndDelete: the session is unregistered and never deleted.
SetWaitingAndLeak(w, s) ==
    /\ m_QueuedPlayer' = w.queue
    /\ inQueue' = w.inQueue
    /\ told' = w.told
    /\ UNCHANGED <<account, closed, loading>>

\* Make w the state of the queue and delete the session s, or none.
SetWaitingAndDelete(w, s) ==
    /\ m_QueuedPlayer' = w.queue
    /\ inQueue' = w.inQueue \ {s}
    /\ told' = [x \in Session |-> IF x = s THEN 0 ELSE w.told[x]]
    /\ account' = [x \in Session |-> IF x = s THEN NoAccount ELSE account[x]]
    /\ closed' = closed \ {s}
    /\ loading' = loading \ {s}

-----------------------------------------------------------------------------
(* Network threads                                                         *)

\* HandleAuthSession succeeds: the session is constructed and handed over.
AddSession(s, a) ==
    /\ s \notin Live
    /\ account' = [account EXCEPT ![s] = a]
    /\ addSessQueue' = Append(addSessQueue, s)
    /\ UNCHANGED <<closed, inQueue, loading, told, worldVars, m_playerLimit,
                   tickVars>>

\* The socket closes: the client leaves, a write fails, or the world thread
\* calls KickPlayer from a handler of another session.
CloseSocket(s) ==
    /\ s \in Live \ closed
    /\ closed' = closed \union {s}
    /\ UNCHANGED <<account, inQueue, loading, told, addSessQueue, worldVars,
                   m_playerLimit, tickVars>>

-----------------------------------------------------------------------------
(* The world thread: UpdateSessions                                        *)

\* AddSession_ for an account whose session is loading a character:
\* RemoveSession refuses, and the new session is deleted.
RejectSession ==
    /\ phase = "add"
    /\ addSessQueue # <<>>
    /\ LET s   == Head(addSessQueue)
           old == m_sessions[account[s]]
       IN  /\ old # NoSession
           /\ old \in loading
           /\ SetWaitingAndDelete(Waiting, s)
    /\ addSessQueue' = Tail(addSessQueue)
    /\ UNCHANGED <<m_sessions, m_disconnects, m_playerLimit, tickVars>>

\* AddSession_ otherwise: the old session of the account, if any, is kicked,
\* taken out of the queue and deleted, and the new one admitted or queued.
AdmitSession ==
    /\ phase = "add"
    /\ addSessQueue # <<>>
    /\ LET s        == Head(addSessQueue)
           a        == account[s]
           old      == m_sessions[a]
           w        == RemoveOldSession(old)
           total    == Cardinality(Registered \union {a})
           sessions == IF w.found THEN total ELSE total - 1
       IN  /\ old \notin loading
           /\ m_sessions' = [m_sessions EXCEPT ![a] = s]
           /\ SetWaitingAndDelete(IF WorldFull(a, sessions)
                                  THEN AddQueuedPlayer(w, s) ELSE w, old)
    /\ addSessQueue' = Tail(addSessQueue)
    /\ UNCHANGED <<m_disconnects, m_playerLimit, tickVars>>

\* Faulty BeginUpdate: the loop passes over the sessions that wait.
BeginUpdateOfAdmitted ==
    /\ phase = "add"
    /\ addSessQueue = <<>>
    /\ phase' = "update"
    /\ todo' = {a \in Registered : m_sessions[a] \notin inQueue}
    /\ UNCHANGED <<sessionVars, addSessQueue, worldVars, m_playerLimit,
                   m_stopEvent>>

\* addSessQueue.next fails: the loop over m_sessions begins.
BeginUpdate ==
    /\ phase = "add"
    /\ addSessQueue = <<>>
    /\ phase' = "update"
    /\ todo' = Registered
    /\ UNCHANGED <<sessionVars, addSessQueue, worldVars, m_playerLimit,
                   m_stopEvent>>

\* WorldSession::Update returns true.  The packets it handles may start the
\* login of a character (not while m_inQueue is set), its callbacks end it.
KeepSession(a) ==
    /\ phase = "update"
    /\ a \in todo
    /\ LET s == m_sessions[a]
       IN  /\ s \notin closed
           /\ \/ UNCHANGED loading
              \/ s \notin inQueue /\ loading' = loading \union {s}
              \/ loading' = loading \ {s}
    /\ todo' = todo \ {a}
    /\ UNCHANGED <<account, closed, inQueue, told, addSessQueue, worldVars,
                   m_playerLimit, phase, m_stopEvent>>

\* WorldSession::Update returns false: the socket was closed, or the
\* connection is idle (never the case while m_inQueue is set) and is closed.
\* RemoveQueuedPlayer is called twice before the session is deleted.
DropSession(a) ==
    /\ phase = "update"
    /\ a \in todo
    /\ LET s  == m_sessions[a]
           w1 == RemoveQueuedPlayer(Waiting, s)
           w2 == RemoveQueuedPlayer(w1, s)
       IN  /\ s \in closed \/ s \notin inQueue
           /\ m_disconnects' = IF ~w1.found /\ Tolerance
                               THEN m_disconnects \union {a}
                               ELSE m_disconnects
           /\ SetWaitingAndDelete(w2, s)
           /\ m_sessions' = [m_sessions EXCEPT ![a] = NoSession]
    /\ todo' = todo \ {a}
    /\ UNCHANGED <<addSessQueue, m_playerLimit, phase, m_stopEvent>>

\* The loop ends, and with it the last call of UpdateSessions when stopping.
EndUpdate ==
    /\ phase = "update"
    /\ todo = {}
    /\ phase' = IF m_stopEvent THEN "stopped" ELSE "rest"
    /\ UNCHANGED <<sessionVars, addSessQueue, worldVars, m_playerLimit,
                   m_stopEvent, todo>>

\* WorldRunnable::run calls World::Update, hence UpdateSessions, again.
NextTick ==
    /\ phase = "rest"
    /\ phase' = "add"
    /\ UNCHANGED <<sessionVars, addSessQueue, worldVars, m_playerLimit,
                   m_stopEvent, todo>>

-----------------------------------------------------------------------------
(* The world thread: commands and shutdown                                 *)

\* ".server plimit" or a reload of the configuration
SetPlayerAmountLimit(n) ==
    /\ phase \in {"update", "rest"}
    /\ m_playerLimit' = n
    /\ UNCHANGED <<sessionVars, addSessQueue, worldVars, tickVars>>

\* SetPlayerSecurityLimit closes the world to the accounts below a staff level.
KickAllLess ==
    /\ phase \in {"update", "rest"}
    /\ closed' = closed \union {m_sessions[a] : a \in Registered \ Staff}
    /\ UNCHANGED <<account, inQueue, loading, told, addSessQueue, worldVars,
                   m_playerLimit, tickVars>>

\* World::IsStopped: WorldRunnable::run leaves its loop, kicks everyone and
\* calls UpdateSessions a last time.
KickAll ==
    /\ phase = "rest"
    /\ m_QueuedPlayer' = <<>>
    /\ closed' = closed \union {m_sessions[a] : a \in Registered}
    /\ phase' = "add"
    /\ m_stopEvent' = TRUE
    /\ UNCHANGED <<account, inQueue, loading, told, addSessQueue, m_sessions,
                   m_disconnects, m_playerLimit, todo>>

Stopped == phase = "stopped" /\ UNCHANGED vars

-----------------------------------------------------------------------------
Init ==
    /\ account = [s \in Session |-> NoAccount]
    /\ closed = {}
    /\ inQueue = {}
    /\ loading = {}
    /\ told = [s \in Session |-> 0]
    /\ addSessQueue = <<>>
    /\ m_sessions = [a \in Account |-> NoSession]
    /\ m_QueuedPlayer = <<>>
    /\ m_disconnects = {}
    /\ m_playerLimit \in Limits
    /\ phase = "add"
    /\ m_stopEvent = FALSE
    /\ todo = {}

Network ==
    \/ \E s \in Session, a \in Account : AddSession(s, a)
    \/ \E s \in Session : CloseSocket(s)

\* The steps the world thread takes of itself, tick after tick
UpdateSessions ==
    \/ RejectSession
    \/ AdmitSession
    \/ BeginUpdate
    \/ \E a \in Account : KeepSession(a) \/ DropSession(a)
    \/ EndUpdate
    \/ NextTick

Command ==
    \/ \E n \in Limits : SetPlayerAmountLimit(n)
    \/ KickAllLess
    \/ KickAll

Next == Network \/ UpdateSessions \/ Command \/ Stopped

Spec == Init /\ [][Next]_vars

-----------------------------------------------------------------------------
(* Properties                                                              *)

NoDuplicates(q) == \A i, j \in 1..Len(q) : q[i] = q[j] => i = j

TypeOK ==
    /\ account \in [Session -> Account \union {NoAccount}]
    /\ closed \subseteq Live
    /\ inQueue \subseteq Live
    /\ loading \subseteq Live
    /\ told \in [Session -> Nat]
    /\ addSessQueue \in Seq(Session)
    /\ m_sessions \in [Account -> Session \union {NoSession}]
    /\ m_QueuedPlayer \in Seq(Session)
    /\ m_disconnects \subseteq Account
    /\ m_playerLimit \in Limits
    /\ phase \in {"add", "update", "rest", "stopped"}
    /\ m_stopEvent \in BOOLEAN
    /\ todo \subseteq Registered

\* Every session object has exactly one owner: it waits in addSessQueue, once,
\* or it is the session registered for its own account.  Nothing leaks and
\* nothing is deleted twice, whatever the order of reconnects and removals.
SingleOwner ==
    /\ \A a \in Registered : account[m_sessions[a]] = a
    /\ Range(addSessQueue) \subseteq Live
    /\ NoDuplicates(addSessQueue)
    /\ \A s \in Live : s \in Range(addSessQueue) <=> m_sessions[account[s]] # s

\* The login queue holds each session at most once and only registered
\* sessions: no pointer in it dangles after a reconnect or a removal.
QueueRegistered ==
    /\ NoDuplicates(m_QueuedPlayer)
    /\ \A s \in Range(m_QueuedPlayer) :
           account[s] \in Account /\ m_sessions[account[s]] = s

\* m_inQueue, which makes Update refuse every packet of the session, is set
\* exactly while it waits: a connected client is never locked out for ever.
\* (KickAll empties the queue and leaves the flags, but closes the sockets.)
FlagWhileWaiting ==
    \A s \in Live : /\ s \in Range(m_QueuedPlayer) => s \in inQueue
                    /\ s \in inQueue => s \in Range(m_QueuedPlayer) \union closed

\* The queue, the registered sessions and the flags agree, whatever
\* AddQueuedPlayer and RemoveQueuedPlayer were called for.
QueueConsistent == QueueRegistered /\ FlagWhileWaiting

\* The position last sent to a waiting client is its position.
PositionsTold ==
    \A i \in 1..Len(m_QueuedPlayer) : told[m_QueuedPlayer[i]] = i

\* Nobody waits while m_playerLimit leaves a slot free, all sessions counted.
NoIdleSlot ==
    m_QueuedPlayer # <<>> =>
        m_playerLimit > 0 /\ ActiveSessionCount(m_QueuedPlayer) >= m_playerLimit

\* Players, staff apart, that do not wait in the login queue
PlayersIn ==
    {a \in Registered \ Staff : m_sessions[a] \notin Range(m_QueuedPlayer)}

\* Nobody waits unless as many players, staff apart, are in as PlayerLimit allows.
NoIdlePlayerSlot ==
    m_QueuedPlayer # <<>> =>
        m_playerLimit > 0 /\ Cardinality(PlayersIn) >= m_playerLimit

\* While no staff are in, no step leaves somebody waiting beside a free slot, in
\* spite of the removals, reconnects and double calls of RemoveQueuedPlayer, unless
\* it changes the limit (raising m_playerLimit lets nobody in by itself).
SlotsGivenAway ==
    [][Registered \intersect Staff = {} /\ NoIdlePlayerSlot /\ UNCHANGED m_playerLimit
          => NoIdlePlayerSlot']_vars

\* The same while staff are in, which is what worldserver.conf.dist says of
\* PlayerLimit ("Excluding Mods, GMs and Admins").  AddSession_ and
\* RemoveQueuedPlayer count the sessions of the staff too.
StaffTakeNoSlot ==
    [][NoIdlePlayerSlot /\ UNCHANGED m_playerLimit => NoIdlePlayerSlot']_vars

\* Players, staff apart, that have been let in
ActivePlayers ==
    {a \in Registered \ Staff : m_sessions[a] \notin inQueue}

\* No step lets a player in beyond the limit, in spite of the removals, reconnects
\* and double calls of RemoveQueuedPlayer, except a step that takes in a session of
\* an account in m_disconnects, one that has ever left, while the tolerance is on.
LimitRespected ==
    [][ \/ m_playerLimit = 0
        \/ Cardinality(ActivePlayers') <= Cardinality(ActivePlayers)
        \/ Cardinality(ActivePlayers') <= m_playerLimit
        \/ \E a \in ActivePlayers' :
               HasRecentlyDisconnected(a) /\ m_sessions'[a] # m_sessions[a] ]_vars

\* The queue is first in, first out: a session that leaves it alive leaves
\* nobody in it who was ahead, and those who stay keep their order.
NoOvertaking ==
    [][\A i, j \in 1..Len(m_QueuedPlayer) :
          i < j /\ m_QueuedPlayer[i] \in Range(m_QueuedPlayer') =>
             \/ m_QueuedPlayer[j] \notin Live'
             \/ /\ m_QueuedPlayer[j] \in Range(m_QueuedPlayer')
                /\ GetQueuePos(m_QueuedPlayer', m_QueuedPlayer[i])
                     < GetQueuePos(m_QueuedPlayer', m_QueuedPlayer[j])]_vars

\* A session whose socket has closed is removed and deleted, admitted, waiting
\* or not yet registered, unless the server stops.
ClosedSessionsLeave ==
    \A s \in Session : s \in closed ~> s \notin closed \/ phase = "stopped"
=============================================================================

--------------------------- MODULE SessionPackets ---------------------------
(***************************************************************************)
(* The packets of one session (WorldSession.cpp): a network thread puts    *)
(* them in _recvQueue, and WorldSession::Update handles them, called with  *)
(* WorldSessionFilter from World::UpdateSessions and, while the player is  *)
(* in the world, with MapSessionFilter from the worker that updates the    *)
(* player's map.  The barrier of MapUpdater keeps the two calls apart; the *)
(* network thread runs beside both.                                        *)
(*                                                                         *)
(* A packet is its number in the order of arrival and the kind of its      *)
(* opcode: what state the opcode demands, and where it may be processed.   *)
(***************************************************************************)
EXTENDS Integers, Sequences, FiniteSets, SequencesExt

CONSTANTS
    Kinds,          \* kinds of opcodes the client sends
    MaxPackets,     \* packets received in a behaviour
    MaxProcessed    \* MAX_PROCESSED_PACKETS_IN_SAME_WORLDSESSION_UPDATE

\* One representative for each case that Update tells apart
AllKinds == {"enum",    \* CMSG_CHAR_ENUM
             "login",   \* CMSG_PLAYER_LOGIN
             "unsafe",  \* STATUS_LOGGEDIN, PROCESS_THREADUNSAFE
             "safe",    \* STATUS_LOGGEDIN, PROCESS_THREADSAFE
             "inplace", \* STATUS_LOGGEDIN, PROCESS_INPLACE
             "ack",     \* MSG_MOVE_WORLDPORT_ACK
             "cancel",  \* CMSG_CANCEL_TRADE
             "never"}   \* STATUS_NEVER

ASSUME SessionPacketsAssumption ==
    /\ Kinds \subseteq AllKinds
    /\ MaxPackets \in Nat
    /\ MaxProcessed \in Nat

\* Opcodes.cpp: the state an opcode demands and the place it is processed at
Status(kind) ==
    CASE kind \in {"enum", "login"} -> "AUTHED"
      [] kind \in {"unsafe", "safe", "inplace"} -> "LOGGEDIN"
      [] kind = "ack" -> "TRANSFER"
      [] kind = "cancel" -> "LOGGEDIN_OR_RECENTLY_LOGGOUT"
      [] OTHER -> "NEVER"

ProcessingPlace(kind) ==
    CASE kind = "safe" -> "THREADSAFE"
      [] kind \in {"inplace", "never"} -> "INPLACE"
      [] OTHER -> "THREADUNSAFE"

Packet == [id : 1..MaxPackets, kind : Kinds]
NoPacket == [id |-> 0, kind |-> "never"]

VARIABLES
    received,               \* packets received so far
    recvQueue,              \* _recvQueue
    socket,                 \* "open" or "closed"; m_Socket is dropped at the end
    inQueue,                \* m_inQueue
    player,                 \* _player: "none", "world" or, out of the world,
                            \* "transfer"
    playerLoading,          \* m_playerLoading
    charLoginCallback,      \* a login query is under way
    playerRecentlyLogout,   \* m_playerRecentlyLogout
    logoutTime,             \* a logout has been requested
    step,                   \* where Update is; "rest" between two calls
    updater,                \* the filter of the current or of the last call
    packet,                 \* taken out of the queue and being processed
    firstDelayedPacket,
    processedPackets,
    handled,                \* packets whose handler was called, in this order
    discarded,              \* packets deleted without a call
    delayed,                \* packets this call of Update has put back
    raced                   \* packets that came while a call that has put back
                            \* some was still in its loop, or that it left

netVars    == <<received, socket>>
playerVars == <<player, playerLoading, charLoginCallback, playerRecentlyLogout,
                logoutTime>>
loopVars   == <<updater, firstDelayedPacket, processedPackets>>
fateVars   == <<handled, discarded>>
raceVars   == <<delayed, raced>>
vars == <<netVars, recvQueue, inQueue, playerVars, step, packet, loopVars, fateVars,
          raceVars>>

-----------------------------------------------------------------------------
(* Filters                                                                 *)

WorldSessionFilter(p) ==
    \/ ProcessingPlace(p.kind) \in {"INPLACE", "THREADUNSAFE"}
    \/ player # "world"

\* Faulty MapSessionFilter: what is not thread-safe passes too.
MapSessionFilterOpen(p) == ProcessingPlace(p.kind) = "INPLACE" \/ player = "world"

\* Faulty MapSessionFilter: only packets processed in place pass.
MapSessionFilterShut(p) == ProcessingPlace(p.kind) = "INPLACE"

MapSessionFilter(p) ==
    \/ ProcessingPlace(p.kind) = "INPLACE"
    \/ ProcessingPlace(p.kind) = "THREADSAFE" /\ player = "world"

Process(p) == IF updater = "world" THEN WorldSessionFilter(p)
                                   ELSE MapSessionFilter(p)

-----------------------------------------------------------------------------
(* Other threads, and the world thread outside Update                      *)

\* WorldSocket::ProcessIncoming, QueuePacket
Receive(kind) ==
    /\ socket = "open"
    /\ received < MaxPackets
    /\ received' = received + 1
    /\ recvQueue' = Append(recvQueue, [id |-> received + 1, kind |-> kind])
    /\ raced' = IF step \in {"loop", "packet"} /\ delayed # {}
                THEN raced \union {[id |-> received + 1, kind |-> kind]} ELSE raced
    /\ UNCHANGED <<socket, inQueue, playerVars, step, packet, loopVars, fateVars,
                   delayed>>

\* The client leaves, or KickPlayer from anywhere: AntiDOS, an idle connection,
\* a command.
CloseSocket ==
    /\ socket = "open"
    /\ socket' = "closed"
    /\ UNCHANGED <<received, recvQueue, inQueue, playerVars, step, packet,
                   loopVars, fateVars, raceVars>>

\* World::RemoveQueuedPlayer lets the session in.
LeaveQueue ==
    /\ step = "rest"
    /\ inQueue
    /\ inQueue' = FALSE
    /\ UNCHANGED <<netVars, recvQueue, playerVars, step, packet, loopVars, fateVars, raceVars>>

\* LogoutPlayer, as far as the session's state goes
LogoutPlayer ==
    /\ player' = "none"
    /\ playerRecentlyLogout' = TRUE
    /\ logoutTime' = FALSE

\* AccountMgr::DeleteAccount, from the console or from another session, kicks the
\* client and logs the player out on the spot.
DeleteAccount ==
    /\ step = "rest"
    /\ player # "none"
    /\ socket' = "closed"
    /\ LogoutPlayer
    /\ UNCHANGED <<received, recvQueue, inQueue, playerLoading, charLoginCallback,
                   step, packet, loopVars, fateVars, raceVars>>

\* The map update, too, sends players to other maps.
Teleport ==
    /\ step = "rest"
    /\ player = "world"
    /\ player' = "transfer"
    /\ UNCHANGED <<netVars, recvQueue, inQueue, playerLoading, charLoginCallback,
                   playerRecentlyLogout, logoutTime, step, packet, loopVars,
                   fateVars, raceVars>>

-----------------------------------------------------------------------------
(* WorldSession::Update                                                    *)

BeginUpdate(u) ==
    /\ step = "rest"
    /\ u = "map" => updater = "world" /\ player = "world"
    /\ updater' = u
    /\ firstDelayedPacket' = NoPacket
    /\ processedPackets' = 0
    /\ step' = "loop"
    /\ delayed' = {}
    /\ UNCHANGED <<netVars, recvQueue, inQueue, playerVars, packet, fateVars, raced>>

\* Faulty MayTake: a delayed packet is taken again in the same call.
MayTakeAgain ==
    /\ socket = "open"
    /\ recvQueue # <<>>
    /\ Process(Head(recvQueue))

\* The condition of the loop, up to and including _recvQueue.next
MayTake ==
    /\ socket = "open"
    /\ recvQueue # <<>>
    /\ Head(recvQueue) # firstDelayedPacket
    /\ Process(Head(recvQueue))

TakePacket ==
    /\ step = "loop"
    /\ MayTake
    /\ packet' = Head(recvQueue)
    /\ recvQueue' = Tail(recvQueue)
    /\ step' = "packet"
    /\ UNCHANGED <<netVars, inQueue, playerVars, loopVars, fateVars, raceVars>>

\* The end of the body of the loop: past the limit the call leaves the packets it
\* has not looked at in front of the ones it has put back.
Processed ==
    /\ packet' = NoPacket
    /\ processedPackets' = processedPackets + 1
    /\ step' = IF processedPackets + 1 > MaxProcessed THEN "callbacks" ELSE "loop"
    /\ raced' = IF step' = "callbacks" /\ delayed' # {}
                THEN raced \union (ToSet(recvQueue') \ delayed') ELSE raced
    /\ UNCHANGED <<received, updater>>

\* A STATUS_LOGGEDIN packet before the player is there goes to the end of the
\* queue, where the network thread may have put others meanwhile.
Delayed ==
    /\ Status(packet.kind) = "LOGGEDIN"
    /\ player = "none"
    /\ ~playerRecentlyLogout

\* Faulty DelayPacket: the packet is also deleted.
DelayPacketDeleted ==
    /\ step = "packet"
    /\ Delayed
    /\ recvQueue' = Append(recvQueue, packet)
    /\ discarded' = discarded \union {packet}
    /\ firstDelayedPacket' = IF firstDelayedPacket = NoPacket THEN packet
                                                             ELSE firstDelayedPacket
    /\ UNCHANGED <<socket, inQueue, playerVars, handled, delayed>>
    /\ Processed

DelayPacket ==
    /\ step = "packet"
    /\ Delayed
    /\ recvQueue' = Append(recvQueue, packet)
    /\ firstDelayedPacket' = IF firstDelayedPacket = NoPacket THEN packet
                                                             ELSE firstDelayedPacket
    /\ delayed' = delayed \union {packet}
    /\ UNCHANGED <<socket, inQueue, playerVars, fateVars>>
    /\ Processed

\* The state of the session is the one the opcode demands.
Accepted(kind) ==
    CASE Status(kind) = "LOGGEDIN" -> player = "world"
      [] Status(kind) = "LOGGEDIN_OR_RECENTLY_LOGGOUT" ->
            player # "none" \/ playerRecentlyLogout
      [] Status(kind) = "TRANSFER" -> player = "transfer"
      [] Status(kind) = "AUTHED" -> ~inQueue
      [] OTHER -> FALSE

DiscardPacket ==
    /\ step = "packet"
    /\ ~Delayed
    /\ ~Accepted(packet.kind)
    /\ discarded' = discarded \union {packet}
    /\ UNCHANGED <<socket, recvQueue, inQueue, playerVars, firstDelayedPacket,
                   handled, delayed>>
    /\ Processed

\* Faulty HandlePlayerLogin: a login that is under way is not looked at.
HandlePlayerLoginTwice ==
    IF playerLoading
    THEN UNCHANGED <<playerLoading, charLoginCallback, socket>>
    ELSE playerLoading' = TRUE /\ charLoginCallback' = TRUE /\ UNCHANGED socket

\* HandlePlayerLoginOpcode: refused while a player is there or on the way.  The
\* packet may end too early (m_playerLoading stays set), name a character of
\* another account (a kick), the queries may fail to be prepared, or start.
HandlePlayerLogin ==
    IF playerLoading \/ player # "none"
    THEN UNCHANGED <<playerLoading, charLoginCallback, socket>>
    ELSE \/ playerLoading' = TRUE /\ UNCHANGED <<charLoginCallback, socket>>
         \/ playerLoading' = TRUE /\ socket' = "closed" /\ UNCHANGED charLoginCallback
         \/ UNCHANGED <<playerLoading, charLoginCallback, socket>>
         \/ playerLoading' = TRUE /\ charLoginCallback' = TRUE /\ UNCHANGED socket

\* What the handlers do to the state of the session.  The acknowledgement of a
\* teleport ends it, starts another one to the homebind, or logs the player out
\* when the destination is invalid.  Handlers that are not thread-safe may send
\* the player to another map, request or cancel a logout, or log out at once.
Handle(kind) ==
    \/ /\ kind = "login"
       /\ HandlePlayerLogin
       /\ UNCHANGED <<player, playerRecentlyLogout, logoutTime>>
    \/ /\ kind = "enum"
       /\ playerRecentlyLogout' = FALSE
       /\ UNCHANGED <<player, playerLoading, charLoginCallback, logoutTime, socket>>
    \/ /\ kind = "ack"
       /\ \/ /\ player' \in {"world", "transfer"}
             /\ UNCHANGED <<playerRecentlyLogout, logoutTime>>
          \/ LogoutPlayer
       /\ UNCHANGED <<playerLoading, charLoginCallback, socket>>
    \/ /\ kind \in {"safe", "inplace", "cancel"}
       /\ UNCHANGED <<playerVars, socket>>
    \/ /\ kind = "unsafe"
       /\ \/ player' = "transfer" /\ UNCHANGED <<playerRecentlyLogout, logoutTime>>
          \/ logoutTime' \in BOOLEAN /\ UNCHANGED <<player, playerRecentlyLogout>>
          \/ LogoutPlayer
       /\ UNCHANGED <<playerLoading, charLoginCallback, socket>>

HandlePacket ==
    /\ step = "packet"
    /\ Accepted(packet.kind)
    /\ Handle(packet.kind)
    /\ handled' = Append(handled, packet)
    /\ UNCHANGED <<recvQueue, inQueue, firstDelayedPacket, discarded, delayed>>
    /\ Processed

EndLoop ==
    /\ step = "loop"
    /\ ~MayTake
    /\ step' = "callbacks"
    /\ UNCHANGED <<netVars, recvQueue, inQueue, playerVars, packet, loopVars, fateVars, raceVars>>

\* ProcessQueryCallbacks: the login queries may have been answered; then the
\* player enters the world, or cannot be loaded and the client is kicked.
ProcessQueryCallbacks ==
    /\ step = "callbacks"
    /\ \/ UNCHANGED <<player, playerLoading, charLoginCallback, socket>>
       \/ /\ charLoginCallback
          /\ charLoginCallback' = FALSE
          /\ playerLoading' = FALSE
          /\ \/ player' = "world" /\ UNCHANGED socket
             \/ player' = "none" /\ socket' = "closed"
    /\ step' = IF updater = "world" THEN "logout" ELSE "rest"
    /\ UNCHANGED <<received, recvQueue, inQueue, playerRecentlyLogout, logoutTime,
                   packet, loopVars, fateVars, raceVars>>

\* Faulty ProcessLogout: the session forgets that it has no socket any more.
ProcessLogoutKeeps ==
    /\ step = "logout"
    /\ step' = "rest"
    /\ UNCHANGED <<netVars, recvQueue, inQueue, playerVars, packet, loopVars, fateVars, raceVars>>

\* ProcessLogout in the world thread: the player is logged out once the time has
\* come; a session whose socket is closed is deleted, which logs the player out
\* and frees what the queue holds.
ProcessLogout ==
    /\ step = "logout"
    /\ \/ /\ socket = "open"
          /\ UNCHANGED <<player, playerRecentlyLogout, logoutTime>>
       \/ /\ \/ logoutTime /\ ~playerLoading
             \/ socket = "closed" /\ player # "none"
          /\ LogoutPlayer
       \/ /\ socket = "closed" /\ player = "none"
          /\ UNCHANGED <<player, playerRecentlyLogout, logoutTime>>
    /\ IF socket = "closed"
       THEN /\ step' = "deleted"
            /\ recvQueue' = <<>>
            /\ discarded' = discarded \union ToSet(recvQueue)
       ELSE step' = "rest" /\ UNCHANGED <<recvQueue, discarded>>
    /\ UNCHANGED <<netVars, inQueue, playerLoading, charLoginCallback, packet,
                   loopVars, handled, raceVars>>

Deleted == step = "deleted" /\ UNCHANGED vars

-----------------------------------------------------------------------------
Init ==
    /\ received = 0
    /\ recvQueue = <<>>
    /\ socket = "open"
    /\ inQueue \in BOOLEAN
    /\ player = "none"
    /\ playerLoading = FALSE
    /\ charLoginCallback = FALSE
    /\ playerRecentlyLogout = FALSE
    /\ logoutTime = FALSE
    /\ step = "rest"
    /\ updater = "world"
    /\ packet = NoPacket
    /\ firstDelayedPacket = NoPacket
    /\ processedPackets = 0
    /\ handled = <<>>
    /\ discarded = {}
    /\ delayed = {}
    /\ raced = {}

Update ==
    \/ BeginUpdate("world")
    \/ TakePacket
    \/ DelayPacket
    \/ DiscardPacket
    \/ HandlePacket
    \/ EndLoop
    \/ ProcessQueryCallbacks
    \/ ProcessLogout

Next ==
    \/ \E kind \in Kinds : Receive(kind)
    \/ CloseSocket
    \/ LeaveQueue
    \/ DeleteAccount
    \/ Teleport
    \/ BeginUpdate("map")
    \/ Update
    \/ Deleted

Spec == Init /\ [][Next]_vars

\* The world thread keeps ticking, and its timer for the map update passes now
\* and then.
FairSpec == Spec /\ WF_vars(Update) /\ SF_vars(BeginUpdate("map"))

-----------------------------------------------------------------------------
(* Properties                                                              *)

TypeOK ==
    /\ received \in 0..MaxPackets
    /\ recvQueue \in Seq(Packet)
    /\ socket \in {"open", "closed"}
    /\ inQueue \in BOOLEAN
    /\ player \in {"none", "world", "transfer"}
    /\ playerLoading \in BOOLEAN
    /\ charLoginCallback \in BOOLEAN
    /\ playerRecentlyLogout \in BOOLEAN
    /\ logoutTime \in BOOLEAN
    /\ step \in {"rest", "loop", "packet", "callbacks", "logout", "deleted"}
    /\ updater \in {"world", "map"}
    /\ packet \in Packet \union {NoPacket}
    /\ packet # NoPacket <=> step = "packet"
    /\ firstDelayedPacket \in Packet \union {NoPacket}
    /\ processedPackets \in 0..(MaxProcessed + 1)
    /\ handled \in Seq(Packet)
    /\ discarded \subseteq Packet
    /\ delayed \subseteq Packet
    /\ raced \subseteq Packet

\* Packets somewhere in the hands of the session
InHand == IF packet = NoPacket THEN {} ELSE {packet}

\* Every packet that was received is in exactly one place: it waits, is being
\* processed, was handled or was deleted.  None is lost, none handled or
\* deleted twice, however often it was delayed.
PacketsAccounted ==
    /\ {p.id : p \in Range(recvQueue) \union InHand \union Range(handled)
                    \union discarded} = 1..received
    /\ Len(recvQueue) + Cardinality(InHand) + Len(handled) + Cardinality(discarded)
          = received

\* Packets that demand a player in the world are handled in the order they came,
\* although those that come too early go to the end of the queue.  Only a packet
\* that comes while such a call of Update is still in its loop, or that the call
\* leaves for the next one at its limit, may overtake the ones put back.
OrderKept ==
    \A i, j \in 1..Len(handled) :
        /\ i < j
        /\ Status(handled[i].kind) = "LOGGEDIN"
        /\ Status(handled[j].kind) = "LOGGEDIN"
        => handled[i].id < handled[j].id \/ handled[i] \in raced

\* A session has one character at a time, even if the client asks to log in twice:
\* no login is under way when a player is there.
OneCharacter ==
    /\ charLoginCallback => playerLoading
    /\ playerLoading => player = "none"

\* A session that waits in the login queue can do nothing ("prevent cheating with
\* skip queue wait").
QueueNotSkipped ==
    inQueue => handled = <<>> /\ player = "none" /\ ~playerLoading

\* "logout procedure should happen only in World::UpdateSessions() method!!!": no
\* call of Update from a worker that updates maps removes the player, whatever
\* packets and callbacks it processes.  Between two calls the world thread may.
LogoutInWorldThread ==
    [][player # "none" /\ player' = "none" => updater = "world" \/ step = "rest"]_vars

\* If the player ends up staying in the world, every packet in the queue is
\* processed: neither filter blocks the queue for ever.
PacketsProcessed ==
    <>[](player = "world" /\ socket = "open") =>
        \A n \in 1..MaxPackets :
            [](n \in {p.id : p \in Range(recvQueue)} =>
                  <>(n \notin {p.id : p \in Range(recvQueue)}))

\* A session whose socket has closed is deleted.
ClosedSessionDeleted == socket = "closed" ~> step = "deleted"
=============================================================================

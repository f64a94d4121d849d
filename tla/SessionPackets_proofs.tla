------------------------ MODULE SessionPackets_proofs ------------------------
(***************************************************************************)
(* Proofs about SessionPackets, for every set of kinds, every number of    *)
(* packets and every limit of a call of Update.                            *)
(***************************************************************************)
EXTENDS SessionPackets, QueueLemmas, FiniteSetTheorems, SequenceTheorems, TLAPS

\* The part of the type invariant that the arguments below need
States ==
    /\ player \in {"none", "world", "transfer"}
    /\ step \in {"rest", "loop", "packet", "callbacks", "logout", "deleted"}
    /\ updater \in {"world", "map"}

\* A session in the login queue has no past: nothing ever logged in or out.
QueuedIdle ==
    inQueue => /\ handled = <<>>
               /\ player = "none"
               /\ playerLoading = FALSE
               /\ playerRecentlyLogout = FALSE
               /\ logoutTime = FALSE

\* A worker holds only packets that its filter let through, and does not reach
\* the logout.
WorkerLimits ==
    /\ step = "packet" /\ updater = "map" =>
          ProcessingPlace(packet.kind) # "THREADUNSAFE"
    /\ step = "logout" => updater = "world"

SInv == States /\ OneCharacter /\ QueuedIdle /\ WorkerLimits

\* The invariant holds in a new session.
LEMMA InitSInv == Init => SInv
  BY DEF Init, SInv, States, OneCharacter, QueuedIdle, WorkerLimits

\* The end of an iteration keeps the thread inside Update.
LEMMA ProcessedStep ==
    ASSUME Processed
    PROVE  step' \in {"callbacks", "loop"} /\ updater' = updater
  BY DEF Processed

\* What a handler makes of the session's state: there is still one character,
\* and only a packet that is not thread-safe logs a player out.
LEMMA HandleKeeps ==
    ASSUME States, OneCharacter, NEW kind, Accepted(kind), Handle(kind)
    PROVE  /\ player' \in {"none", "world", "transfer"}
           /\ OneCharacter'
           /\ player # "none" /\ player' = "none" =>
                 ProcessingPlace(kind) = "THREADUNSAFE"
  <1>1. CASE kind = "login"
    <2>1. HandlePlayerLogin /\ player' = player
      BY <1>1 DEF Handle
    <2> QED  BY <2>1 DEF HandlePlayerLogin, OneCharacter, States
  <1>2. CASE kind = "enum"
    BY <1>2 DEF Handle, OneCharacter, States
  <1>3. CASE kind = "ack"
    <2>1. player = "transfer"
      BY <1>3 DEF Accepted, Status
    <2> QED
      BY <1>3, <2>1 DEF Handle, OneCharacter, LogoutPlayer, ProcessingPlace
  <1>4. CASE kind \in {"safe", "inplace", "cancel"}
    BY <1>4 DEF Handle, OneCharacter, States, playerVars
  <1>5. CASE kind = "unsafe"
    <2>1. player = "world"
      BY <1>5 DEF Accepted, Status
    <2> QED
      BY <1>5, <2>1 DEF Handle, OneCharacter, LogoutPlayer, ProcessingPlace
  <1> QED  BY <1>1, <1>2, <1>3, <1>4, <1>5 DEF Handle

\* No packet is accepted from a session in the login queue.
LEMMA QueuedRefused ==
    ASSUME QueuedIdle, inQueue, NEW kind
    PROVE  ~Accepted(kind)
  BY DEF Accepted, QueuedIdle

\* Every step keeps the invariant, and none that a worker takes inside Update takes
\* a player away.
LEMMA NextSInv ==
    ASSUME SInv, [Next]_vars
    PROVE  /\ SInv'
           /\ player # "none" /\ player' = "none" => updater = "world" \/ step = "rest"
  <1> DEFINE Goal == /\ SInv'
                     /\ player # "none" /\ player' = "none" => updater = "world" \/ step = "rest"
  <1> SUFFICES Goal
    OBVIOUS
  <1> USE DEF SInv
  <1>1. ASSUME NEW kind \in Kinds, Receive(kind)  PROVE Goal
    BY <1>1 DEF Receive, States, OneCharacter, QueuedIdle, WorkerLimits,
                playerVars, loopVars, fateVars
  <1>2. CASE CloseSocket \/ LeaveQueue \/ Teleport
    BY <1>2 DEF CloseSocket, LeaveQueue, Teleport, States, OneCharacter, QueuedIdle,
                WorkerLimits, playerVars, loopVars, fateVars
  <1>3. CASE DeleteAccount
    BY <1>3 DEF DeleteAccount, LogoutPlayer, States, OneCharacter, QueuedIdle,
                WorkerLimits, loopVars, fateVars
  <1>4. ASSUME NEW u \in {"world", "map"}, BeginUpdate(u)  PROVE Goal
    BY <1>4 DEF BeginUpdate, States, OneCharacter, QueuedIdle, WorkerLimits,
                playerVars, fateVars
  <1>5. CASE TakePacket
    <2>1. updater = "map" => ProcessingPlace(Head(recvQueue).kind) # "THREADUNSAFE"
      BY <1>5 DEF TakePacket, MayTake, Process, MapSessionFilter
    <2> QED
      BY <1>5, <2>1 DEF TakePacket, States, OneCharacter, QueuedIdle, WorkerLimits,
                        playerVars, loopVars, fateVars
  <1>6. CASE DelayPacket
    BY <1>6, ProcessedStep DEF DelayPacket, States, OneCharacter, QueuedIdle,
                               WorkerLimits, playerVars, fateVars
  <1>7. CASE DiscardPacket
    BY <1>7, ProcessedStep DEF DiscardPacket, States, OneCharacter, QueuedIdle,
                               WorkerLimits, playerVars
  <1>8. CASE HandlePacket
    <2>1. /\ player' \in {"none", "world", "transfer"}
          /\ OneCharacter'
          /\ player # "none" /\ player' = "none" =>
                ProcessingPlace(packet.kind) = "THREADUNSAFE"
      BY <1>8, HandleKeeps DEF HandlePacket
    <2>2. ~inQueue /\ inQueue' = inQueue
      BY <1>8, QueuedRefused DEF HandlePacket
    <2>3. step' \in {"callbacks", "loop"} /\ updater' = updater
      BY <1>8, ProcessedStep DEF HandlePacket
    <2>4. QueuedIdle' /\ WorkerLimits'
      BY <2>2, <2>3 DEF QueuedIdle, WorkerLimits
    <2>5. States'
      BY <2>1, <2>3 DEF States
    <2> QED
      BY <1>8, <2>1, <2>4, <2>5 DEF HandlePacket, States, WorkerLimits
  <1>9. CASE EndLoop
    BY <1>9 DEF EndLoop, States, OneCharacter, QueuedIdle, WorkerLimits,
                playerVars, loopVars, fateVars
  <1>10. CASE ProcessQueryCallbacks
    BY <1>10 DEF ProcessQueryCallbacks, States, OneCharacter, QueuedIdle,
                 WorkerLimits, loopVars, fateVars
  <1>11. CASE ProcessLogout
    BY <1>11 DEF ProcessLogout, LogoutPlayer, States, OneCharacter, QueuedIdle,
                 WorkerLimits, loopVars
  <1>12. CASE Deleted \/ UNCHANGED vars
    BY <1>12 DEF Deleted, vars, States, OneCharacter, QueuedIdle, WorkerLimits,
                 playerVars, loopVars, fateVars
  <1> QED
    BY <1>1, <1>2, <1>3, <1>4, <1>5, <1>6, <1>7, <1>8, <1>9, <1>10, <1>11, <1>12
       DEF Next, Update

\* In every behaviour a session has at most one character, on the way or in the
\* world, and a session in the login queue has handled nothing.
THEOREM SessionState == Spec => [](OneCharacter /\ QueueNotSkipped)
  <1>1. SInv => OneCharacter /\ QueueNotSkipped
    BY DEF SInv, QueuedIdle, QueueNotSkipped
  <1>2. Spec => []SInv
    BY InitSInv, NextSInv, PTL DEF Spec
  <1> QED  BY <1>1, <1>2, PTL

\* In no behaviour does a worker that updates maps remove the player in its call of
\* Update.
THEOREM LogoutPlace == Spec => LogoutInWorldThread
  <1>1. SInv /\ [Next]_vars =>
            [player # "none" /\ player' = "none" => updater = "world" \/ step = "rest"]_vars
    BY NextSInv
  <1>2. Spec => []SInv
    BY InitSInv, NextSInv, PTL DEF Spec
  <1> QED  BY <1>1, <1>2, PTL DEF Spec, LogoutInWorldThread

-----------------------------------------------------------------------------
(* The type invariant                                                      *)

\* The loop goes on below the limit only, so that the counter never exceeds it
\* by more than one.
LoopCount == step \in {"loop", "packet"} => processedPackets <= MaxProcessed

TInv == TypeOK /\ LoopCount

LEMMA InitTInv == Init => TInv
  <1> SUFFICES ASSUME Init  PROVE TInv
    OBVIOUS
  <1>1. recvQueue \in Seq(Packet) /\ handled \in Seq(Packet)
    BY DEF Init
  <1>2. received \in 0..MaxPackets /\ processedPackets \in 0..(MaxProcessed + 1)
    BY SessionPacketsAssumption DEF Init
  <1>3. packet # NoPacket <=> step = "packet"
    BY DEF Init
  <1>4. packet \in Packet \union {NoPacket} /\ firstDelayedPacket \in Packet \union {NoPacket}
    BY DEF Init
  <1> QED  BY <1>1, <1>2, <1>3, <1>4 DEF Init, TInv, TypeOK, LoopCount

\* NoPacket is no packet.
LEMMA NoPacketApart == NoPacket \notin Packet
  BY DEF NoPacket, Packet

\* What a queue of packets holds, and what its ends are
LEMMA QueueOfPackets ==
    ASSUME NEW q \in Seq(Packet)
    PROVE  /\ ToSet(q) \subseteq Packet
           /\ q # <<>> => Head(q) \in Packet /\ Tail(q) \in Seq(Packet)
           /\ \A p \in Packet : Append(q, p) \in Seq(Packet)
  BY DEF ToSet

\* The end of an iteration, once the packet is out of hand
LEMMA ProcessedTypes ==
    ASSUME TInv, step = "packet", Processed,
           recvQueue' \in Seq(Packet), delayed' \subseteq Packet
    PROVE  /\ received' \in 0..MaxPackets
           /\ step' \in {"loop", "callbacks"}
           /\ updater' \in {"world", "map"}
           /\ packet' = NoPacket
           /\ processedPackets' \in 0..(MaxProcessed + 1)
           /\ raced' \subseteq Packet
           /\ LoopCount'
  <1>1. ToSet(recvQueue') \subseteq Packet
    BY QueueOfPackets
  <1>2. raced' \subseteq Packet
    BY <1>1 DEF Processed, TInv, TypeOK
  <1>3. /\ processedPackets' \in 0..(MaxProcessed + 1)
        /\ step' \in {"loop", "callbacks"}
        /\ LoopCount'
    BY SessionPacketsAssumption DEF Processed, TInv, TypeOK, LoopCount
  <1> QED  BY <1>2, <1>3 DEF Processed, TInv, TypeOK

\* What the handlers may leave behind
LEMMA HandleTypes ==
    ASSUME TInv, NEW kind, Handle(kind)
    PROVE  /\ socket' \in {"open", "closed"}
           /\ player' \in {"none", "world", "transfer"}
           /\ playerLoading' \in BOOLEAN
           /\ charLoginCallback' \in BOOLEAN
           /\ playerRecentlyLogout' \in BOOLEAN
           /\ logoutTime' \in BOOLEAN
  BY DEF TInv, TypeOK, Handle, HandlePlayerLogin, LogoutPlayer, playerVars

LEMMA NextTInv == TInv /\ [Next]_vars => TInv'
  <1> SUFFICES ASSUME TInv, [Next]_vars  PROVE TInv'
    OBVIOUS
  <1> USE NoPacketApart, SessionPacketsAssumption DEF TInv
  <1>1. ASSUME NEW kind \in Kinds, Receive(kind)  PROVE TInv'
    <2> DEFINE new == [id |-> received + 1, kind |-> kind]
    <2>1. new \in Packet /\ received' \in 0..MaxPackets
      BY <1>1 DEF Receive, Packet, TypeOK
    <2>2. recvQueue' \in Seq(Packet)
      BY <1>1, <2>1, QueueOfPackets DEF Receive, TypeOK
    <2>3. raced' \subseteq Packet
      BY <1>1, <2>1 DEF Receive, TypeOK
    <2> QED
      BY <1>1, <2>1, <2>2, <2>3 DEF Receive, TypeOK, LoopCount, playerVars, loopVars,
                                    fateVars
  <1>2. CASE CloseSocket \/ LeaveQueue \/ Teleport \/ DeleteAccount
    <2>1. /\ packet' = packet /\ step' = step
          /\ processedPackets' = processedPackets
          /\ UNCHANGED <<received, recvQueue, updater, firstDelayedPacket, fateVars, raceVars>>
      BY <1>2 DEF CloseSocket, LeaveQueue, Teleport, DeleteAccount, netVars, loopVars
    <2>2. /\ socket' \in {"open", "closed"}
          /\ inQueue' \in BOOLEAN
          /\ player' \in {"none", "world", "transfer"}
          /\ playerLoading' \in BOOLEAN
          /\ charLoginCallback' \in BOOLEAN
          /\ playerRecentlyLogout' \in BOOLEAN
          /\ logoutTime' \in BOOLEAN
      BY <1>2 DEF CloseSocket, LeaveQueue, Teleport, DeleteAccount, LogoutPlayer,
                  TypeOK, netVars, playerVars
    <2> QED  BY <2>1, <2>2 DEF TypeOK, LoopCount, fateVars, raceVars
  <1>3. ASSUME NEW u \in {"world", "map"}, BeginUpdate(u)  PROVE TInv'
    <2>1. processedPackets' \in 0..(MaxProcessed + 1) /\ LoopCount'
      BY <1>3 DEF BeginUpdate, LoopCount
    <2>2. packet = NoPacket /\ packet' = NoPacket /\ step' = "loop"
      BY <1>3 DEF BeginUpdate, TypeOK
    <2> QED
      BY <1>3, <2>1, <2>2 DEF BeginUpdate, TypeOK, netVars, playerVars, fateVars
  <1>4. CASE TakePacket
    <2>1. recvQueue' \in Seq(Packet) /\ packet' \in Packet
      BY <1>4, QueueOfPackets DEF TakePacket, MayTake, TypeOK
    <2> QED
      BY <1>4, <2>1 DEF TakePacket, TypeOK, LoopCount, netVars, playerVars, loopVars,
                        fateVars, raceVars
  <1>5. CASE DelayPacket
    <2>1. packet \in Packet
      BY <1>5 DEF DelayPacket, TypeOK
    <2>2. recvQueue' \in Seq(Packet) /\ delayed' \subseteq Packet
      BY <1>5, <2>1, QueueOfPackets DEF DelayPacket, TypeOK
    <2>3. firstDelayedPacket' \in Packet \union {NoPacket}
      BY <1>5, <2>1 DEF DelayPacket, TypeOK
    <2> QED
      BY <1>5, <2>2, <2>3, ProcessedTypes DEF DelayPacket, TypeOK, playerVars, fateVars
  <1>6. CASE DiscardPacket
    <2>1. packet \in Packet
      BY <1>6 DEF DiscardPacket, TypeOK
    <2> QED
      BY <1>6, <2>1, ProcessedTypes DEF DiscardPacket, TypeOK, playerVars
  <1>7. CASE HandlePacket
    <2>1. packet \in Packet
      BY <1>7 DEF HandlePacket, TypeOK
    <2>2. handled' \in Seq(Packet)
      BY <1>7, <2>1, QueueOfPackets DEF HandlePacket, TypeOK
    <2>3. /\ socket' \in {"open", "closed"}
          /\ player' \in {"none", "world", "transfer"}
          /\ playerLoading' \in BOOLEAN
          /\ charLoginCallback' \in BOOLEAN
          /\ playerRecentlyLogout' \in BOOLEAN
          /\ logoutTime' \in BOOLEAN
      BY <1>7, HandleTypes DEF HandlePacket
    <2>4. /\ received' \in 0..MaxPackets
          /\ step' \in {"loop", "callbacks"}
          /\ updater' \in {"world", "map"}
          /\ packet' = NoPacket
          /\ processedPackets' \in 0..(MaxProcessed + 1)
          /\ raced' \subseteq Packet
          /\ LoopCount'
      BY <1>7, ProcessedTypes DEF HandlePacket, TypeOK
    <2> QED
      BY <1>7, <2>2, <2>3, <2>4 DEF HandlePacket, TypeOK
  <1>8. CASE EndLoop \/ ProcessQueryCallbacks
    BY <1>8 DEF EndLoop, ProcessQueryCallbacks, TypeOK, LoopCount, netVars, playerVars,
                loopVars, fateVars, raceVars
  <1>9. CASE ProcessLogout
    <2>1. ToSet(recvQueue) \subseteq Packet
      BY QueueOfPackets DEF TypeOK
    <2>2. recvQueue' \in Seq(Packet) /\ discarded' \subseteq Packet
      <3>1. \/ recvQueue' = <<>> /\ discarded' = discarded \union ToSet(recvQueue)
            \/ recvQueue' = recvQueue /\ discarded' = discarded
        BY <1>9 DEF ProcessLogout
      <3>2. recvQueue \in Seq(Packet) /\ discarded \subseteq Packet
        BY DEF TypeOK
      <3>3. <<>> \in Seq(Packet)
        OBVIOUS
      <3> QED  BY <2>1, <3>1, <3>2, <3>3
    <2>3. /\ player' \in {"none", "world", "transfer"}
          /\ playerRecentlyLogout' \in BOOLEAN
          /\ logoutTime' \in BOOLEAN
      BY <1>9 DEF ProcessLogout, LogoutPlayer, TypeOK
    <2>4. /\ packet = NoPacket /\ packet' = NoPacket
          /\ step' \in {"rest", "deleted"}
      BY <1>9 DEF ProcessLogout, TypeOK
    <2> QED
      BY <1>9, <2>2, <2>3, <2>4 DEF ProcessLogout, TypeOK, LoopCount, netVars,
                                    loopVars, raceVars
  <1>10. CASE Deleted \/ UNCHANGED vars
    BY <1>10 DEF Deleted, vars, TypeOK, LoopCount, netVars, playerVars, loopVars,
                 fateVars, raceVars
  <1> QED
    BY <1>1, <1>2, <1>3, <1>4, <1>5, <1>6, <1>7, <1>8, <1>9, <1>10 DEF Next, Update

\* The state of a session is well-typed in every behaviour; in particular a call of
\* Update processes at most one packet more than its limit.
THEOREM SessionTyped == Spec => []TypeOK
  <1>1. TInv => TypeOK
    BY DEF TInv
  <1> QED  BY <1>1, InitTInv, NextTInv, PTL DEF Spec

-----------------------------------------------------------------------------
(* No packet is lost and none has two fates                                *)

\* Everything the session has or had of what it received
Fates == Range(recvQueue) \union InHand \union Range(handled) \union discarded

\* A packet is in one place, and no two packets have the same number.
OnePlace ==
    /\ Distinct(recvQueue)
    /\ Range(recvQueue) \intersect (InHand \union Range(handled) \union discarded) = {}
    /\ InHand \intersect (Range(handled) \union discarded) = {}
    /\ Range(handled) \intersect discarded = {}
    /\ \A p, q \in Fates : p.id = q.id => p = q

\* The accounts, and what keeps them right: deleting the queue adds the length of
\* the queue to the number of deleted packets only if the two have nothing in common.
PInv == /\ TInv
        /\ IsFiniteSet(discarded)
        /\ OnePlace
        /\ PacketsAccounted

\* How many packets the session holds in its hand
LEMMA HandCounts ==
    Cardinality(InHand) = IF packet = NoPacket THEN 0 ELSE 1
  BY FS_EmptySet, FS_Singleton DEF InHand

LEMMA InitPInv == Init => PInv
  <1> SUFFICES ASSUME Init  PROVE PInv
    OBVIOUS
  <1>1. Range(recvQueue) = {} /\ Range(handled) = {} /\ InHand = {} /\ Fates = {}
    BY DEF Init, Range, InHand, Fates
  <1>2. Len(recvQueue) = 0 /\ Len(handled) = 0 /\ Cardinality(discarded) = 0
    BY FS_EmptySet DEF Init
  <1>3. OnePlace
    BY <1>1, <1>2 DEF Init, OnePlace, Distinct
  <1>4. PacketsAccounted
    <2>1. 1..received = {}
      BY DEF Init
    <2> QED  BY <1>1, <1>2, <2>1, HandCounts DEF Init, PacketsAccounted
  <1> QED  BY <1>3, <1>4, InitTInv, FS_EmptySet DEF Init, PInv

\* A step that moves packets between places and leaves their number as it is
LEMMA MoveKeeps ==
    ASSUME PInv, Fates' = Fates, received' = received
    PROVE  /\ \A p, q \in Fates' : p.id = q.id => p = q
           /\ {p.id : p \in Fates'} = 1..received'
  BY DEF PInv, OnePlace, PacketsAccounted, Fates

\* Every step keeps the accounts.
LEMMA NextPInv == PInv /\ [Next]_vars => PInv'
  <1> SUFFICES ASSUME PInv, [Next]_vars  PROVE PInv'
    OBVIOUS
  <1>t. TInv /\ TInv'
    BY NextTInv DEF PInv
  <1>n. /\ received \in Nat /\ received' \in Nat
        /\ recvQueue \in Seq(Packet) /\ handled \in Seq(Packet)
        /\ recvQueue' \in Seq(Packet)
        /\ packet # NoPacket <=> step = "packet"
        /\ packet' # NoPacket <=> step' = "packet"
        /\ packet \in Packet \union {NoPacket}
        /\ Len(recvQueue) \in Nat /\ Len(handled) \in Nat
        /\ Cardinality(discarded) \in Nat
    BY <1>t, LenProperties, FS_CardinalityType DEF TInv, TypeOK, PInv
  <1>c. Len(recvQueue) + (IF packet = NoPacket THEN 0 ELSE 1) + Len(handled)
            + Cardinality(discarded) = received
    BY HandCounts DEF PInv, PacketsAccounted
  <1> DEFINE Goal ==
        /\ IsFiniteSet(discarded')
        /\ Distinct(recvQueue')
        /\ Range(recvQueue') \intersect
              (InHand' \union Range(handled') \union discarded') = {}
        /\ InHand' \intersect (Range(handled') \union discarded') = {}
        /\ Range(handled') \intersect discarded' = {}
        /\ \A p, q \in Fates' : p.id = q.id => p = q
        /\ {p.id : p \in Fates'} = 1..received'
        /\ Len(recvQueue') + (IF packet' = NoPacket THEN 0 ELSE 1)
              + Len(handled') + Cardinality(discarded') = received'
  <1>g. SUFFICES Goal
    <2>1. OnePlace'
      BY DEF OnePlace
    <2>2. Cardinality(InHand') = IF packet' = NoPacket THEN 0 ELSE 1
      BY FS_EmptySet, FS_Singleton DEF InHand
    <2>3. PacketsAccounted'
      BY <2>2 DEF PacketsAccounted, Fates
    <2> QED  BY <1>t, <2>1, <2>3 DEF PInv
  <1>1. ASSUME NEW kind \in Kinds, Receive(kind)  PROVE Goal
    <2> DEFINE new == [id |-> received + 1, kind |-> kind]
    <2>1. /\ recvQueue' = Append(recvQueue, new)
          /\ received' = received + 1
          /\ UNCHANGED <<packet, handled, discarded>>
          /\ InHand' = InHand
          /\ new \in Packet /\ new.id = received + 1
      BY <1>1, <1>t DEF Receive, fateVars, InHand, Packet, TInv, TypeOK
    <2>2. \A p \in Fates : p.id \in 1..received
      BY DEF PInv, PacketsAccounted, Fates
    <2>3. new \notin Fates
      BY <1>n, <2>1, <2>2
    <2>4. /\ Range(recvQueue') = Range(recvQueue) \union {new}
          /\ Distinct(recvQueue')
          /\ Len(recvQueue') = Len(recvQueue) + 1
      BY <1>n, <2>1, <2>3, AppendLast DEF PInv, OnePlace, Fates
    <2>5. Fates' = Fates \union {new}
      BY <2>1, <2>4 DEF Fates
    <2>6. \A p, q \in Fates' : p.id = q.id => p = q
      BY <1>n, <2>1, <2>2, <2>5 DEF PInv, OnePlace
    <2>7. {p.id : p \in Fates'} = 1..received'
      <3>1. {p.id : p \in Fates} = 1..received
        BY DEF PInv, PacketsAccounted, Fates
      <3>2. 1..received' = 1..received \union {received + 1}
        BY <1>n, <2>1
      <3>3. {p.id : p \in Fates'} = {p.id : p \in Fates} \union {new.id}
        BY <2>5
      <3> QED  BY <2>1, <3>1, <3>2, <3>3
    <2>8. Range(recvQueue') \intersect
              (InHand' \union Range(handled') \union discarded') = {}
      BY <2>1, <2>3, <2>4 DEF PInv, OnePlace, Fates
    <2>9. Len(recvQueue') + (IF packet' = NoPacket THEN 0 ELSE 1)
              + Len(handled') + Cardinality(discarded') = received'
      <3>1. /\ packet' = packet /\ Len(handled') = Len(handled)
            /\ Cardinality(discarded') = Cardinality(discarded)
            /\ Len(recvQueue') = Len(recvQueue) + 1
            /\ received' = received + 1
        BY <2>1, <2>4
      <3>2. /\ received \in Nat /\ Len(recvQueue) \in Nat
            /\ Len(handled) \in Nat /\ Cardinality(discarded) \in Nat
        BY <1>n
      <3> QED  BY <1>c, <3>1, <3>2
    <2>10. InHand' \intersect (Range(handled') \union discarded') = {}
      BY <2>1 DEF PInv, OnePlace
    <2> QED
      BY <2>1, <2>4, <2>6, <2>7, <2>8, <2>9, <2>10 DEF PInv, OnePlace
  <1>2. CASE UNCHANGED <<received, recvQueue, packet, handled, discarded>>
    <2>1. InHand' = InHand /\ Fates' = Fates
      BY <1>2 DEF InHand, Fates
    <2> QED
      BY <1>2, <1>c, <2>1, MoveKeeps DEF PInv, OnePlace
  <1>3. CASE TakePacket
    <2>1. /\ recvQueue # <<>>
          /\ packet' = Head(recvQueue)
          /\ recvQueue' = Tail(recvQueue)
          /\ packet = NoPacket
          /\ UNCHANGED <<received, handled, discarded>>
      BY <1>3, <1>n DEF TakePacket, MayTake, netVars, fateVars
    <2>2. /\ Range(recvQueue) = Range(recvQueue') \union {packet'}
          /\ packet' \notin Range(recvQueue')
          /\ Distinct(recvQueue')
          /\ Len(recvQueue') = Len(recvQueue) - 1
      BY <1>n, <2>1, TakeFirst DEF PInv, OnePlace
    <2>3. packet' # NoPacket /\ InHand = {} /\ InHand' = {packet'}
      BY <1>3, <1>n, <2>1 DEF TakePacket, InHand
    <2>4. Fates' = Fates
      BY <2>1, <2>2, <2>3 DEF Fates
    <2> QED
      BY <1>c, <1>n, <2>1, <2>2, <2>3, <2>4, MoveKeeps DEF PInv, OnePlace
  <1>4. CASE DelayPacket
    <2>1. /\ recvQueue' = Append(recvQueue, packet)
          /\ packet # NoPacket /\ packet' = NoPacket
          /\ UNCHANGED <<received, handled, discarded>>
      BY <1>4, <1>n DEF DelayPacket, Processed, fateVars
    <2>2. InHand = {packet} /\ InHand' = {} /\ packet \in Packet
      BY <1>n, <2>1 DEF InHand
    <2>3. /\ Range(recvQueue') = Range(recvQueue) \union {packet}
          /\ Distinct(recvQueue')
          /\ Len(recvQueue') = Len(recvQueue) + 1
      BY <1>n, <2>1, <2>2, AppendLast DEF PInv, OnePlace
    <2>4. Fates' = Fates
      BY <2>1, <2>2, <2>3 DEF Fates
    <2> QED
      BY <1>c, <1>n, <2>1, <2>2, <2>3, <2>4, MoveKeeps DEF PInv, OnePlace
  <1>5. CASE DiscardPacket
    <2>1. /\ discarded' = discarded \union {packet}
          /\ packet # NoPacket /\ packet' = NoPacket
          /\ UNCHANGED <<received, handled, recvQueue>>
      BY <1>5, <1>n DEF DiscardPacket, Processed
    <2>2. InHand = {packet} /\ InHand' = {}
      BY <2>1 DEF InHand
    <2>3. IsFiniteSet(discarded') /\ Cardinality(discarded') = Cardinality(discarded) + 1
      BY <2>1, <2>2, FS_AddElement DEF PInv, OnePlace
    <2>4. Fates' = Fates
      BY <2>1, <2>2 DEF Fates
    <2> QED
      BY <1>c, <1>n, <2>1, <2>2, <2>3, <2>4, MoveKeeps DEF PInv, OnePlace
  <1>6. CASE HandlePacket
    <2>1. /\ handled' = Append(handled, packet)
          /\ packet # NoPacket /\ packet' = NoPacket
          /\ UNCHANGED <<received, discarded, recvQueue>>
      BY <1>6, <1>n DEF HandlePacket, Processed
    <2>2. InHand = {packet} /\ InHand' = {} /\ packet \in Packet
      BY <1>n, <2>1 DEF InHand
    <2>3. /\ Range(handled') = Range(handled) \union {packet}
          /\ Len(handled') = Len(handled) + 1
      BY <1>n, <2>1, <2>2, AppendLast
    <2>4. Fates' = Fates
      BY <2>1, <2>2, <2>3 DEF Fates
    <2> QED
      BY <1>c, <1>n, <2>1, <2>2, <2>3, <2>4, MoveKeeps DEF PInv, OnePlace
  <1>7. CASE ProcessLogout /\ socket = "closed"
    <2>1. /\ recvQueue' = <<>>
          /\ discarded' = discarded \union Range(recvQueue)
          /\ packet = NoPacket /\ packet' = NoPacket
          /\ UNCHANGED <<received, handled>>
      <3>1. ToSet(recvQueue) = Range(recvQueue)
        BY <1>n, LenProperties DEF ToSet, Range
      <3> QED  BY <1>7, <1>n, <3>1 DEF ProcessLogout, netVars
    <2>2. InHand = {} /\ InHand' = {} /\ Range(recvQueue') = {} /\ Len(recvQueue') = 0
      BY <2>1 DEF InHand, Range
    <2>3. /\ IsFiniteSet(Range(recvQueue))
          /\ Cardinality(Range(recvQueue)) = Len(recvQueue)
      BY <1>n, CountElements DEF PInv, OnePlace
    <2>4. /\ IsFiniteSet(discarded')
          /\ Cardinality(discarded') = Cardinality(discarded) + Len(recvQueue)
      <3>1. discarded \intersect Range(recvQueue) = {} /\ IsFiniteSet(discarded)
        BY DEF PInv, OnePlace
      <3>2. IsFiniteSet(discarded \union Range(recvQueue))
        BY <2>3, <3>1, FS_Union
      <3>3. Cardinality(discarded \union Range(recvQueue))
              = Cardinality(discarded) + Cardinality(Range(recvQueue)) - Cardinality({})
        BY <2>3, <3>1, FS_Union
      <3> QED  BY <1>n, <2>1, <2>3, <3>2, <3>3, FS_EmptySet
    <2>5. Fates' = Fates
      BY <2>1, <2>2 DEF Fates
    <2>6. Distinct(recvQueue')
      BY <2>2 DEF Distinct
    <2> QED
      BY <1>c, <1>n, <2>1, <2>2, <2>4, <2>5, <2>6, MoveKeeps DEF PInv, OnePlace
  <1>8. CASE ProcessLogout /\ socket # "closed"
    BY <1>2, <1>8 DEF ProcessLogout, netVars
  <1>9. CASE \/ CloseSocket \/ LeaveQueue \/ DeleteAccount \/ Teleport
             \/ BeginUpdate("map") \/ BeginUpdate("world")
    BY <1>2, <1>9 DEF CloseSocket, LeaveQueue, DeleteAccount, Teleport, BeginUpdate,
                      netVars, fateVars
  <1>10. CASE EndLoop \/ ProcessQueryCallbacks \/ Deleted \/ UNCHANGED vars
    BY <1>2, <1>10 DEF EndLoop, ProcessQueryCallbacks, Deleted, vars, netVars, fateVars
  <1> QED
    BY <1>1, <1>3, <1>4, <1>5, <1>6, <1>7, <1>8, <1>9, <1>10 DEF Next, Update

\* In every behaviour each packet that was received waits, is being processed, was
\* handled or was deleted, and is in one of these places only once: no call of Update
\* loses a packet, or handles or deletes it twice, however often it puts it back.
THEOREM NoPacketLost == Spec => []PacketsAccounted
  <1>1. PInv => PacketsAccounted
    BY DEF PInv
  <1> QED  BY <1>1, InitPInv, NextPInv, PTL DEF Spec

-----------------------------------------------------------------------------
(* The order of the packets that demand a player in the world              *)

\* p may be handled before q, if the packets in r may overtake.
InOrder(r, p, q) ==
    Status(p.kind) = "LOGGEDIN" /\ Status(q.kind) = "LOGGEDIN"
        => p.id < q.id \/ p \in r

\* The queue, taken from the front
Sorted(r, q) == \A i, j \in 1..Len(q) : i < j => InOrder(r, q[i], q[j])

\* The queue, taken from position k on and then from the front up to k: the order
\* that a call which has put packets back will find when it is through
Rotated(r, q, k) ==
    \A i, j \in 1..Len(q) :
        (i < j /\ (j < k \/ k <= i)) \/ (j < k /\ k <= i) => InOrder(r, q[i], q[j])

\* The packet in hand has been looked at after what was put back, and before what
\* is in front of it.
HandOrder(r, q, k, p) ==
    \A i \in 1..Len(q) :
        IF i < k THEN InOrder(r, p, q[i]) ELSE InOrder(r, q[i], p)

\* From position k on the queue holds what this call has put back, d, and what has
\* come since; f is the first of them.
PutBackFrom(q, d, f, k) ==
    /\ k \in 1..Len(q) + 1
    /\ d = {} => f = NoPacket /\ k = Len(q) + 1
    /\ d # {} => k <= Len(q) /\ q[k] = f
    /\ \A i \in 1..Len(q) : i < k => q[i] \notin d

InLoop == step \in {"loop", "packet"}

\* Once a call has put a packet back it puts back every packet that demands a player,
\* since no player comes or goes before it is through.
PutsBack ==
    InLoop => /\ updater = "map" => player = "world"
              /\ delayed # {} => player = "none" /\ ~playerRecentlyLogout

QueueOrder ==
    /\ InLoop => \E k \in Nat :
          /\ PutBackFrom(recvQueue, delayed, firstDelayedPacket, k)
          /\ socket = "open" \/ step = "packet" => Rotated(raced, recvQueue, k)
          /\ step = "packet" => HandOrder(raced, recvQueue, k, packet)
    /\ ~InLoop /\ socket = "open" => Sorted(raced, recvQueue)

\* Nothing that waits should have come before a packet that was handled.
HandledFirst ==
    \A p \in Range(handled), q \in Range(recvQueue) \union InHand : InOrder(raced, p, q)

OInv == SInv /\ PInv /\ PutsBack /\ QueueOrder /\ HandledFirst /\ Sorted(raced, handled)

\* The order of the handled packets is what the property says.
LEMMA SortedIsKept == OInv => OrderKept
  BY DEF OInv, Sorted, InOrder, OrderKept

\* More packets may overtake, later on.
LEMMA OrderGrows ==
    ASSUME NEW r, NEW s, r \subseteq s
    PROVE  /\ \A p, q : InOrder(r, p, q) => InOrder(s, p, q)
           /\ \A q : Sorted(r, q) => Sorted(s, q)
           /\ \A q, k : Rotated(r, q, k) => Rotated(s, q, k)
           /\ \A q, k, p : HandOrder(r, q, k, p) => HandOrder(s, q, k, p)
  <1>1. \A p, q : InOrder(r, p, q) => InOrder(s, p, q)
    BY DEF InOrder
  <1> QED  BY <1>1 DEF Sorted, Rotated, HandOrder

\* A queue of which nothing was put back is rotated by nothing.
LEMMA SortedRotated ==
    ASSUME NEW r, NEW q \in Seq(Packet)
    PROVE  Sorted(r, q) <=> Rotated(r, q, Len(q) + 1)
  BY LenProperties DEF Sorted, Rotated

\* A queue that is left as it is when the packets in front of position k may overtake
LEMMA LeftAtLimit ==
    ASSUME NEW r, NEW q \in Seq(Packet), NEW k \in Nat, Rotated(r, q, k),
           \A i \in 1..Len(q) : i < k => q[i] \in r
    PROVE  Sorted(r, q)
  <1> SUFFICES ASSUME NEW i \in 1..Len(q), NEW j \in 1..Len(q), i < j
               PROVE  InOrder(r, q[i], q[j])
    BY DEF Sorted
  <1>1. CASE i < k
    BY <1>1 DEF InOrder
  <1>2. CASE k <= i
    BY <1>2 DEF Rotated
  <1> QED  BY <1>1, <1>2, LenProperties

\* No step takes the right to overtake away.
LEMMA RacedGrows == [Next]_vars => raced \subseteq raced'
  BY DEF Next, Update, Receive, CloseSocket, LeaveQueue, DeleteAccount, Teleport,
         BeginUpdate, TakePacket, DelayPacket, DiscardPacket, HandlePacket, Processed,
         EndLoop, ProcessQueryCallbacks, ProcessLogout, Deleted, vars, raceVars

\* The end of an iteration: what was put back is behind position k, and the queue is
\* in order from there on, whether the loop goes on or ends at its limit.
LEMMA ProcessedOrder ==
    ASSUME Processed, TypeOK', NEW k \in Nat,
           PutBackFrom(recvQueue', delayed', firstDelayedPacket', k),
           Rotated(raced, recvQueue', k)
    PROVE  QueueOrder'
  <1>1. /\ step' \in {"loop", "callbacks"}
        /\ raced \subseteq raced'
        /\ recvQueue' \in Seq(Packet)
    BY DEF Processed, TypeOK
  <1>2. Rotated(raced', recvQueue', k)
    BY <1>1, OrderGrows
  <1>3. CASE step' = "loop"
    BY <1>2, <1>3 DEF QueueOrder, InLoop
  <1>4. CASE step' = "callbacks" /\ delayed' = {}
    <2>1. Sorted(raced', recvQueue')
      BY <1>1, <1>2, <1>4, SortedRotated DEF PutBackFrom
    <2> QED  BY <1>4, <2>1 DEF QueueOrder, InLoop
  <1>5. CASE step' = "callbacks" /\ delayed' # {}
    <2>1. \A i \in 1..Len(recvQueue') : i < k => recvQueue'[i] \in raced'
      <3>1. \A i \in 1..Len(recvQueue') : recvQueue'[i] \in ToSet(recvQueue')
        BY <1>1, LenProperties DEF ToSet
      <3>2. raced' = raced \union (ToSet(recvQueue') \ delayed')
        BY <1>5 DEF Processed
      <3> QED  BY <3>1, <3>2 DEF PutBackFrom
    <2>2. Sorted(raced', recvQueue')
      BY <1>1, <1>2, <2>1, LeftAtLimit
    <2> QED  BY <1>5, <2>2 DEF QueueOrder, InLoop
  <1> QED  BY <1>1, <1>3, <1>4, <1>5

\* A step that neither handles a packet nor adds one keeps what was handled in order.
LEMMA HandledStays ==
    ASSUME OInv, [Next]_vars, handled' = handled,
           Range(recvQueue') \union InHand' \subseteq Range(recvQueue) \union InHand
    PROVE  HandledFirst' /\ Sorted(raced', handled')
  <1>1. raced \subseteq raced'
    BY RacedGrows
  <1> QED  BY <1>1, OrderGrows DEF OInv, HandledFirst

\* A packet comes: at the end of the queue, after everything that came before it,
\* or with the right to overtake.
LEMMA ReceiveOrder ==
    ASSUME OInv, NEW kind \in Kinds, Receive(kind)
    PROVE  PutsBack' /\ QueueOrder' /\ HandledFirst' /\ Sorted(raced', handled')
  <1> DEFINE new == [id |-> received + 1, kind |-> kind]
             n   == Len(recvQueue)
  <1>1. /\ recvQueue' = Append(recvQueue, new)
        /\ raced' = IF InLoop /\ delayed # {} THEN raced \union {new} ELSE raced
        /\ UNCHANGED <<socket, player, playerRecentlyLogout, updater, step, packet,
                       firstDelayedPacket, handled, delayed>>
        /\ socket = "open"
        /\ new.id = received + 1
    BY DEF Receive, InLoop, playerVars, loopVars, fateVars
  <1>2. /\ recvQueue \in Seq(Packet) /\ received \in Nat /\ n \in Nat
        /\ new \in Packet /\ handled \in Seq(Packet)
        /\ packet \in Packet \union {NoPacket}
        /\ packet # NoPacket <=> step = "packet"
    BY SessionPacketsAssumption, LenProperties
       DEF OInv, PInv, TInv, TypeOK, Packet, Receive
  <1>3. /\ Len(recvQueue') = n + 1
        /\ recvQueue'[n + 1] = new
        /\ \A i \in 1..n : recvQueue'[i] = recvQueue[i]
        /\ Range(recvQueue') = Range(recvQueue) \union {new}
    BY <1>1, <1>2, AppendLast
  <1>4. \A p \in Fates : \A r : InOrder(r, p, new)
    <2>1. \A p \in Fates : p.id \in 1..received
      BY DEF OInv, PInv, PacketsAccounted, Fates
    <2> QED  BY <1>1, <1>2, <2>1 DEF InOrder
  <1>5. /\ \A i \in 1..n : recvQueue[i] \in Fates
        /\ packet # NoPacket => packet \in Fates
        /\ Range(handled) \subseteq Fates
    BY <1>2, LenProperties DEF Fates, Range, InHand
  <1>6. raced \subseteq raced'
    BY <1>1
  <1> HIDE DEF new
  <1>7. HandledFirst' /\ Sorted(raced', handled')
    <2>1. InHand' = InHand
      BY <1>1 DEF InHand
    <2>2. HandledFirst'
      <3> SUFFICES ASSUME NEW p \in Range(handled),
                          NEW q \in Range(recvQueue') \union InHand'
                   PROVE  InOrder(raced', p, q)
        BY <1>1 DEF HandledFirst
      <3>1. CASE q = new
        BY <1>4, <1>5, <3>1
      <3>2. CASE q \in Range(recvQueue) \union InHand
        <4>1. InOrder(raced, p, q)
          BY <3>2 DEF OInv, HandledFirst
        <4> QED  BY <1>6, <4>1, OrderGrows
      <3> QED  BY <1>3, <2>1, <3>1, <3>2
    <2> QED  BY <1>1, <1>6, <2>2, OrderGrows DEF OInv
  <1>8. PutsBack'
    BY <1>1 DEF OInv, PutsBack, InLoop
  <1>9. CASE ~InLoop
    <2>1. Sorted(raced, recvQueue)
      BY <1>1, <1>9 DEF OInv, QueueOrder
    <2>2. Sorted(raced', recvQueue')
      <3> SUFFICES ASSUME NEW i \in 1..n + 1, NEW j \in 1..n + 1, i < j
                   PROVE  InOrder(raced', recvQueue'[i], recvQueue'[j])
        BY <1>3 DEF Sorted
      <3>1. i \in 1..n /\ (j \in 1..n \/ j = n + 1)
        BY <1>2
      <3>2. CASE j \in 1..n
        <4>1. InOrder(raced, recvQueue[i], recvQueue[j])
          BY <2>1, <3>1, <3>2 DEF Sorted
        <4> QED  BY <1>3, <1>6, <3>1, <3>2, <4>1, OrderGrows
      <3>3. CASE j = n + 1
        BY <1>3, <1>4, <1>5, <3>1, <3>3
      <3> QED  BY <3>1, <3>2, <3>3
    <2> QED  BY <1>1, <1>7, <1>8, <1>9, <2>2 DEF QueueOrder, InLoop
  <1>10. CASE InLoop
    <2>1. PICK k \in Nat : /\ PutBackFrom(recvQueue, delayed, firstDelayedPacket, k)
                           /\ Rotated(raced, recvQueue, k)
                           /\ step = "packet" => HandOrder(raced, recvQueue, k, packet)
      BY <1>1, <1>10 DEF OInv, QueueOrder
    <2> DEFINE l == IF delayed = {} THEN n + 2 ELSE k
    <2>2. /\ k \in 1..n + 1
          /\ l \in 1..n + 2
          /\ \A i \in 1..n : i < l <=> i < k
          /\ delayed = {} => l = n + 2 /\ k = n + 1
          /\ delayed # {} => l = k /\ k <= n /\ new \in raced'
      <3>1. /\ k \in 1..n + 1
            /\ delayed = {} => k = n + 1
            /\ delayed # {} => k <= n
        BY <2>1 DEF PutBackFrom
      <3>2. delayed # {} => new \in raced'
        BY <1>1, <1>10
      <3> QED  BY <1>2, <3>1, <3>2
    <2> HIDE DEF l
    <2>3. PutBackFrom(recvQueue', delayed', firstDelayedPacket', l)
      BY <1>1, <1>2, <1>3, <2>1, <2>2 DEF PutBackFrom
    <2>4. Rotated(raced', recvQueue', l)
      <3> SUFFICES ASSUME NEW i \in 1..n + 1, NEW j \in 1..n + 1,
                          (i < j /\ (j < l \/ l <= i)) \/ (j < l /\ l <= i)
                   PROVE  InOrder(raced', recvQueue'[i], recvQueue'[j])
        BY <1>3 DEF Rotated
      <3>1. CASE i \in 1..n /\ j \in 1..n
        <4>1. InOrder(raced, recvQueue[i], recvQueue[j])
          BY <1>2, <2>1, <2>2, <3>1 DEF Rotated
        <4> QED  BY <1>3, <1>6, <3>1, <4>1, OrderGrows
      <3>2. CASE i \in 1..n /\ j = n + 1
        BY <1>3, <1>4, <1>5, <3>2
      <3>3. CASE i = n + 1
        <4>1. delayed # {}
          BY <1>2, <2>2, <3>3
        <4> QED  BY <1>3, <2>2, <3>3, <4>1 DEF InOrder
      <3> QED  BY <1>2, <3>1, <3>2, <3>3
    <2>5. step = "packet" => HandOrder(raced', recvQueue', l, packet')
      <3> SUFFICES ASSUME step = "packet", NEW i \in 1..n + 1
                   PROVE  IF i < l THEN InOrder(raced', packet, recvQueue'[i])
                                   ELSE InOrder(raced', recvQueue'[i], packet)
        BY <1>1, <1>3 DEF HandOrder
      <3>1. CASE i \in 1..n
        <4>1. HandOrder(raced', recvQueue, k, packet)
          BY <1>6, <2>1, OrderGrows
        <4> QED  BY <1>3, <2>2, <3>1, <4>1 DEF HandOrder
      <3>2. CASE i = n + 1 /\ delayed = {}
        BY <1>2, <1>3, <1>4, <1>5, <2>2, <3>2
      <3>3. CASE i = n + 1 /\ delayed # {}
        BY <1>2, <1>3, <2>2, <3>3 DEF InOrder
      <3> QED  BY <1>2, <3>1, <3>2, <3>3
    <2>6. QueueOrder'
      <3>1. l \in Nat /\ step' = step /\ InLoop'
        BY <1>1, <1>2, <1>10, <2>2 DEF InLoop
      <3> QED  BY <2>3, <2>4, <2>5, <3>1 DEF QueueOrder
    <2> QED  BY <1>7, <1>8, <2>6
  <1> QED  BY <1>9, <1>10

\* A packet is taken from the front: it is in the hand before what is behind it.
LEMMA TakeOrder ==
    ASSUME OInv, [Next]_vars, TakePacket
    PROVE  PutsBack' /\ QueueOrder' /\ HandledFirst' /\ Sorted(raced', handled')
  <1> DEFINE n == Len(recvQueue)
  <1>1. /\ recvQueue # <<>> /\ Head(recvQueue) # firstDelayedPacket
        /\ packet' = Head(recvQueue) /\ recvQueue' = Tail(recvQueue)
        /\ step = "loop" /\ step' = "packet" /\ socket = "open"
        /\ UNCHANGED <<player, playerRecentlyLogout, updater, firstDelayedPacket,
                       handled, delayed, raced>>
    BY DEF TakePacket, MayTake, playerVars, loopVars, fateVars, raceVars
  <1>2. recvQueue \in Seq(Packet) /\ Distinct(recvQueue) /\ n \in Nat \ {0}
    BY <1>1, LenProperties, EmptySeq DEF OInv, PInv, TInv, TypeOK, OnePlace
  <1>3. /\ Len(recvQueue') = n - 1
        /\ packet' = recvQueue[1]
        /\ \A i \in 1..n - 1 : recvQueue'[i] = recvQueue[i + 1]
        /\ Range(recvQueue) = Range(recvQueue') \union {packet'}
    BY <1>1, <1>2, TakeFirst
  <1>4. HandledFirst' /\ Sorted(raced', handled')
    <2>1. InHand' \subseteq {packet'}
      BY DEF InHand
    <2> QED  BY <1>1, <1>3, <2>1, HandledStays
  <1>5. PutsBack'
    BY <1>1 DEF OInv, PutsBack, InLoop
  <1>6. PICK k \in Nat : /\ PutBackFrom(recvQueue, delayed, firstDelayedPacket, k)
                         /\ Rotated(raced, recvQueue, k)
    BY <1>1 DEF OInv, QueueOrder, InLoop
  <1>7. k \in 2..n + 1
    BY <1>1, <1>2, <1>3, <1>6 DEF PutBackFrom
  <1>8. PutBackFrom(recvQueue', delayed', firstDelayedPacket', k - 1)
    BY <1>1, <1>2, <1>3, <1>6, <1>7 DEF PutBackFrom
  <1>9. Rotated(raced', recvQueue', k - 1)
    <2> SUFFICES ASSUME NEW i \in 1..n - 1, NEW j \in 1..n - 1,
                        \/ i < j /\ (j < k - 1 \/ k - 1 <= i)
                        \/ j < k - 1 /\ k - 1 <= i
                 PROVE  InOrder(raced, recvQueue[i + 1], recvQueue[j + 1])
      BY <1>1, <1>2, <1>3 DEF Rotated
    <2>1. /\ i + 1 \in 1..n /\ j + 1 \in 1..n
          /\ \/ i + 1 < j + 1 /\ (j + 1 < k \/ k <= i + 1)
             \/ j + 1 < k /\ k <= i + 1
      BY <1>2, <1>7
    <2> QED  BY <1>6, <2>1 DEF Rotated
  <1>10. HandOrder(raced', recvQueue', k - 1, packet')
    <2> SUFFICES ASSUME NEW i \in 1..n - 1
                 PROVE  IF i < k - 1 THEN InOrder(raced, recvQueue[1], recvQueue[i + 1])
                                     ELSE InOrder(raced, recvQueue[i + 1], recvQueue[1])
      BY <1>1, <1>2, <1>3 DEF HandOrder
    <2>1. /\ 1 \in 1..n /\ i + 1 \in 1..n
          /\ IF i < k - 1 THEN 1 < i + 1 /\ i + 1 < k ELSE 1 < k /\ k <= i + 1
      BY <1>2, <1>7
    <2> QED  BY <1>6, <2>1 DEF Rotated
  <1>11. k - 1 \in Nat
    BY <1>7
  <1>12. QueueOrder'
    BY <1>1, <1>8, <1>9, <1>10, <1>11 DEF QueueOrder, InLoop
  <1> QED  BY <1>4, <1>5, <1>12

\* A packet is put back: behind what was put back before, and in front of what will
\* be put back.
LEMMA DelayOrder ==
    ASSUME OInv, [Next]_vars, TypeOK', DelayPacket
    PROVE  PutsBack' /\ QueueOrder' /\ HandledFirst' /\ Sorted(raced', handled')
  <1> DEFINE n == Len(recvQueue)
  <1>1. /\ step = "packet"
        /\ recvQueue' = Append(recvQueue, packet)
        /\ firstDelayedPacket' = IF firstDelayedPacket = NoPacket THEN packet
                                                                 ELSE firstDelayedPacket
        /\ delayed' = delayed \union {packet}
        /\ player = "none" /\ ~playerRecentlyLogout
        /\ UNCHANGED <<player, playerRecentlyLogout, updater, handled>>
        /\ packet' = NoPacket
        /\ Processed
    BY DEF DelayPacket, Delayed, Processed, playerVars, fateVars
  <1>2. /\ recvQueue \in Seq(Packet) /\ n \in Nat
        /\ packet \in Packet /\ InHand = {packet} /\ InHand' = {}
        /\ packet \notin Range(recvQueue)
    BY <1>1, LenProperties DEF OInv, PInv, TInv, TypeOK, OnePlace, InHand
  <1>3. /\ Len(recvQueue') = n + 1
        /\ recvQueue'[n + 1] = packet
        /\ \A i \in 1..n : recvQueue'[i] = recvQueue[i]
        /\ Range(recvQueue') = Range(recvQueue) \union {packet}
    BY <1>1, <1>2, AppendLast
  <1>4. HandledFirst' /\ Sorted(raced', handled')
    BY <1>1, <1>2, <1>3, HandledStays
  <1>5. PutsBack'
    BY <1>1 DEF OInv, PutsBack, InLoop
  <1>6. PICK k \in Nat : /\ PutBackFrom(recvQueue, delayed, firstDelayedPacket, k)
                         /\ Rotated(raced, recvQueue, k)
                         /\ HandOrder(raced, recvQueue, k, packet)
    BY <1>1 DEF OInv, QueueOrder, InLoop
  <1>7. \A i \in 1..n : recvQueue[i] \in Packet /\ recvQueue[i] # packet
    BY <1>2, LenProperties DEF Range
  <1>8. PutBackFrom(recvQueue', delayed', firstDelayedPacket', k)
    <2>1. k \in 1..n + 1 /\ delayed' # {}
      BY <1>1, <1>6 DEF PutBackFrom
    <2>2. \A i \in 1..n + 1 : i < k => recvQueue'[i] \notin delayed'
      BY <1>1, <1>2, <1>3, <1>6, <1>7, <2>1 DEF PutBackFrom
    <2>3. recvQueue'[k] = firstDelayedPacket'
      <3>1. CASE delayed = {}
        BY <1>1, <1>3, <1>6, <3>1 DEF PutBackFrom
      <3>2. CASE delayed # {}
        <4>1. k \in 1..n /\ recvQueue[k] = firstDelayedPacket
          BY <1>2, <1>6, <3>2 DEF PutBackFrom
        <4> QED  BY <1>1, <1>3, <1>7, <4>1, NoPacketApart
      <3> QED  BY <3>1, <3>2
    <2> QED  BY <1>2, <1>3, <2>1, <2>2, <2>3 DEF PutBackFrom
  <1>9. Rotated(raced, recvQueue', k)
    <2> SUFFICES ASSUME NEW i \in 1..n + 1, NEW j \in 1..n + 1,
                        (i < j /\ (j < k \/ k <= i)) \/ (j < k /\ k <= i)
                 PROVE  InOrder(raced, recvQueue'[i], recvQueue'[j])
      BY <1>3 DEF Rotated
    <2>1. k \in 1..n + 1
      BY <1>6 DEF PutBackFrom
    <2>2. CASE i \in 1..n /\ j \in 1..n
      BY <1>3, <1>6, <2>2 DEF Rotated
    <2>3. CASE i \in 1..n /\ j = n + 1
      BY <1>2, <1>3, <1>6, <2>1, <2>3 DEF HandOrder
    <2>4. CASE i = n + 1
      <3>1. j \in 1..n /\ j < k
        BY <1>2, <2>1, <2>4
      <3> QED  BY <1>3, <1>6, <2>4, <3>1 DEF HandOrder
    <2> QED  BY <1>2, <2>2, <2>3, <2>4
  <1> QED  BY <1>1, <1>4, <1>5, <1>8, <1>9, ProcessedOrder

\* A packet is deleted: the others keep their places.
LEMMA DiscardOrder ==
    ASSUME OInv, [Next]_vars, TypeOK', DiscardPacket
    PROVE  PutsBack' /\ QueueOrder' /\ HandledFirst' /\ Sorted(raced', handled')
  <1>1. /\ step = "packet"
        /\ UNCHANGED <<recvQueue, firstDelayedPacket, delayed, player,
                       playerRecentlyLogout, updater, handled>>
        /\ packet' = NoPacket
        /\ Processed
    BY DEF DiscardPacket, Processed, playerVars
  <1>2. HandledFirst' /\ Sorted(raced', handled')
    <2>1. InHand' = {}
      BY <1>1 DEF InHand
    <2> QED  BY <1>1, <2>1, HandledStays
  <1>3. PutsBack'
    BY <1>1 DEF OInv, PutsBack, InLoop
  <1>4. PICK k \in Nat : /\ PutBackFrom(recvQueue, delayed, firstDelayedPacket, k)
                         /\ Rotated(raced, recvQueue, k)
    BY <1>1 DEF OInv, QueueOrder, InLoop
  <1> QED  BY <1>1, <1>2, <1>3, <1>4, ProcessedOrder

\* A handler that a call reaches after it has put a packet back, or that a worker
\* calls, does not change whether there is a player.
LEMMA HandleKeepsPlayer ==
    ASSUME OInv, step = "packet", Accepted(packet.kind), Handle(packet.kind)
    PROVE  /\ updater = "map" => player' = "world"
           /\ delayed # {} => player' = "none" /\ ~playerRecentlyLogout'
           /\ delayed # {} => Status(packet.kind) # "LOGGEDIN"
  <1>1. /\ updater = "map" => player = "world"
        /\ delayed # {} => player = "none" /\ ~playerRecentlyLogout
    BY DEF OInv, PutsBack, InLoop
  <1>2. CASE updater = "map"
    <2>1. packet.kind \in {"safe", "inplace"}
      <3>1. ProcessingPlace(packet.kind) # "THREADUNSAFE"
        BY <1>2 DEF OInv, SInv, WorkerLimits
      <3> QED  BY <3>1 DEF Handle, ProcessingPlace
    <2>2. player' = player
      BY <2>1 DEF Handle, playerVars
    <2> QED  BY <1>1, <1>2, <2>2
  <1>3. CASE delayed # {}
    <2>1. player = "none" /\ ~playerRecentlyLogout
      BY <1>1, <1>3
    <2>2. packet.kind \in {"login", "enum"}
      BY <2>1 DEF Handle, Accepted, Status
    <2>3. player' = "none" /\ ~playerRecentlyLogout'
      BY <2>1, <2>2 DEF Handle
    <2>4. Status(packet.kind) # "LOGGEDIN"
      BY <2>2 DEF Status
    <2> QED  BY <1>1, <2>1, <2>3, <2>4
  <1> QED  BY <1>2, <1>3

\* A packet is handled: nothing that demands a player was put back before it.
LEMMA HandleOrder ==
    ASSUME OInv, [Next]_vars, TypeOK', HandlePacket
    PROVE  PutsBack' /\ QueueOrder' /\ HandledFirst' /\ Sorted(raced', handled')
  <1> DEFINE n == Len(recvQueue)
             h == Len(handled)
  <1>1. /\ step = "packet" /\ Accepted(packet.kind) /\ Handle(packet.kind)
        /\ handled' = Append(handled, packet)
        /\ UNCHANGED <<recvQueue, firstDelayedPacket, delayed, updater>>
        /\ packet' = NoPacket
        /\ Processed
    BY DEF HandlePacket, Processed
  <1>2. /\ recvQueue \in Seq(Packet) /\ n \in Nat /\ DOMAIN recvQueue = 1..n
        /\ handled \in Seq(Packet) /\ h \in Nat /\ DOMAIN handled = 1..h
        /\ packet \in Packet /\ InHand = {packet} /\ InHand' = {}
    BY <1>1, LenProperties DEF OInv, PInv, TInv, TypeOK, InHand
  <1>3. /\ Len(handled') = h + 1
        /\ handled'[h + 1] = packet
        /\ \A i \in 1..h : handled'[i] = handled[i]
        /\ Range(handled') = Range(handled) \union {packet}
    BY <1>1, <1>2, AppendLast
  <1>4. raced \subseteq raced'
    BY RacedGrows
  <1>5. /\ updater = "map" => player' = "world"
        /\ delayed # {} => player' = "none" /\ ~playerRecentlyLogout'
        /\ delayed # {} => Status(packet.kind) # "LOGGEDIN"
    BY <1>1, HandleKeepsPlayer
  <1>6. PutsBack'
    BY <1>1, <1>5 DEF PutsBack
  <1>7. PICK k \in Nat : /\ PutBackFrom(recvQueue, delayed, firstDelayedPacket, k)
                         /\ Rotated(raced, recvQueue, k)
                         /\ HandOrder(raced, recvQueue, k, packet)
    BY <1>1 DEF OInv, QueueOrder, InLoop
  <1>8. QueueOrder'
    BY <1>1, <1>7, ProcessedOrder
  <1>9. \A i \in 1..n : InOrder(raced, packet, recvQueue[i])
    <2> SUFFICES ASSUME NEW i \in 1..n  PROVE InOrder(raced, packet, recvQueue[i])
      OBVIOUS
    <2>1. CASE i < k
      BY <1>7, <2>1 DEF HandOrder
    <2>2. CASE ~(i < k)
      <3>1. delayed # {}
        BY <1>2, <1>7, <2>2 DEF PutBackFrom
      <3> QED  BY <1>5, <3>1 DEF InOrder
    <2> QED  BY <2>1, <2>2
  <1>10. HandledFirst'
    <2> SUFFICES ASSUME NEW p \in Range(handled'), NEW q \in Range(recvQueue)
                 PROVE  InOrder(raced', p, q)
      BY <1>1, <1>2 DEF HandledFirst
    <2>1. InOrder(raced, p, q)
      <3>1. CASE p = packet
        <4>1. PICK i \in 1..n : q = recvQueue[i]
          BY <1>2 DEF Range
        <4> QED  BY <1>9, <3>1, <4>1
      <3>2. CASE p \in Range(handled)
        BY <3>2 DEF OInv, HandledFirst
      <3> QED  BY <1>3, <3>1, <3>2
    <2> QED  BY <1>4, <2>1, OrderGrows
  <1>11. Sorted(raced', handled')
    <2> SUFFICES ASSUME NEW i \in 1..h + 1, NEW j \in 1..h + 1, i < j
                 PROVE  InOrder(raced, handled'[i], handled'[j])
      BY <1>3, <1>4, OrderGrows DEF Sorted
    <2>1. i \in 1..h /\ (j \in 1..h \/ j = h + 1)
      BY <1>2
    <2>2. CASE j \in 1..h
      BY <1>3, <2>1, <2>2 DEF OInv, Sorted
    <2>3. CASE j = h + 1
      <3>1. handled[i] \in Range(handled)
        BY <1>2, <2>1 DEF Range
      <3>2. InOrder(raced, handled[i], packet)
        BY <1>2, <3>1 DEF OInv, HandledFirst
      <3> QED  BY <1>3, <2>1, <2>3, <3>2
    <2> QED  BY <2>1, <2>2, <2>3
  <1> QED  BY <1>6, <1>8, <1>10, <1>11

\* The loop ends below its limit: if the call has put a packet back it has looked at
\* the whole queue, and what it has put back is at the front again.
LEMMA EndLoopOrder ==
    ASSUME OInv, [Next]_vars, EndLoop
    PROVE  PutsBack' /\ QueueOrder' /\ HandledFirst' /\ Sorted(raced', handled')
  <1>1. /\ step = "loop" /\ step' = "callbacks" /\ ~MayTake
        /\ UNCHANGED <<recvQueue, packet, handled, raced, socket>>
    BY DEF EndLoop, netVars, fateVars, raceVars
  <1>2. HandledFirst' /\ Sorted(raced', handled')
    <2>1. InHand' = InHand
      BY <1>1 DEF InHand
    <2> QED  BY <1>1, <2>1, HandledStays
  <1>3. ASSUME socket = "open"  PROVE Sorted(raced, recvQueue)
    <2>1. PICK k \in Nat : /\ PutBackFrom(recvQueue, delayed, firstDelayedPacket, k)
                           /\ Rotated(raced, recvQueue, k)
      BY <1>1, <1>3 DEF OInv, QueueOrder, InLoop
    <2>2. recvQueue \in Seq(Packet) /\ Distinct(recvQueue) /\ Len(recvQueue) \in Nat
      BY LenProperties DEF OInv, PInv, TInv, TypeOK, OnePlace
    <2>3. CASE delayed = {}
      BY <2>1, <2>2, <2>3, SortedRotated DEF PutBackFrom
    <2>4. CASE delayed # {}
      <3>1. k \in 1..Len(recvQueue) /\ recvQueue[k] = firstDelayedPacket
        BY <2>1, <2>2, <2>4 DEF PutBackFrom
      <3>2. recvQueue # <<>> /\ Head(recvQueue) = recvQueue[1]
        BY <2>2, <3>1
      <3>3. Process(Head(recvQueue))
        <4>1. updater = "world" /\ player = "none"
          BY <1>1, <2>4 DEF OInv, PutsBack, InLoop, SInv, States
        <4> QED  BY <4>1 DEF Process, WorldSessionFilter
      <3>4. recvQueue[1] = recvQueue[k]
        BY <1>1, <1>3, <3>1, <3>2, <3>3 DEF MayTake
      <3>5. k = 1
        BY <2>2, <3>1, <3>4 DEF Distinct
      <3> QED  BY <2>1, <2>2, <3>5 DEF Rotated, Sorted
    <2> QED  BY <2>3, <2>4
  <1> QED  BY <1>1, <1>2, <1>3 DEF QueueOrder, PutsBack, InLoop

LEMMA InitOInv == Init => OInv
  <1> SUFFICES ASSUME Init  PROVE OInv
    OBVIOUS
  <1>1. Range(handled) = {} /\ ~InLoop /\ Len(recvQueue) = 0 /\ Len(handled) = 0
    BY DEF Init, Range, InLoop
  <1>2. HandledFirst
    BY <1>1 DEF HandledFirst
  <1>3. Sorted(raced, recvQueue) /\ Sorted(raced, handled)
    BY <1>1 DEF Sorted
  <1> QED  BY <1>1, <1>2, <1>3, InitSInv, InitPInv DEF OInv, PutsBack, QueueOrder

\* Every step keeps the order.
LEMMA NextOInv == OInv /\ [Next]_vars => OInv'
  <1> SUFFICES ASSUME OInv, [Next]_vars  PROVE OInv'
    OBVIOUS
  <1> DEFINE Goal == PutsBack' /\ QueueOrder' /\ HandledFirst' /\ Sorted(raced', handled')
  <1>1. SInv' /\ PInv' /\ TypeOK'
    BY NextSInv, NextPInv DEF OInv, PInv, TInv
  <1>2. SUFFICES Goal
    BY <1>1 DEF OInv
  <1>3. ASSUME NEW kind \in Kinds, Receive(kind)  PROVE Goal
    BY <1>3, ReceiveOrder
  <1>4. CASE TakePacket
    BY <1>4, TakeOrder
  <1>5. CASE DelayPacket
    BY <1>1, <1>5, DelayOrder
  <1>6. CASE DiscardPacket
    BY <1>1, <1>6, DiscardOrder
  <1>7. CASE HandlePacket
    BY <1>1, <1>7, HandleOrder
  <1>8. CASE EndLoop
    BY <1>8, EndLoopOrder
  <1>9. ASSUME NEW u \in {"world", "map"}, BeginUpdate(u)  PROVE Goal
    <2>1. /\ step = "rest" /\ step' = "loop"
          /\ u = "map" => player = "world"
          /\ updater' = u /\ firstDelayedPacket' = NoPacket /\ delayed' = {}
          /\ UNCHANGED <<recvQueue, packet, handled, raced, socket, player>>
      BY <1>9 DEF BeginUpdate, netVars, playerVars, fateVars
    <2>2. InHand' = InHand
      BY <2>1 DEF InHand
    <2>3. recvQueue \in Seq(Packet) /\ Len(recvQueue) \in Nat
      BY LenProperties DEF OInv, PInv, TInv, TypeOK
    <2>4. PutBackFrom(recvQueue', delayed', firstDelayedPacket', Len(recvQueue) + 1)
      BY <2>1, <2>3 DEF PutBackFrom
    <2>5. socket' = "open" => Rotated(raced', recvQueue', Len(recvQueue) + 1)
      BY <2>1, <2>3, SortedRotated DEF OInv, QueueOrder, InLoop
    <2>6. QueueOrder'
      <3>1. Len(recvQueue) + 1 \in Nat
        BY <2>3
      <3> QED  BY <2>1, <2>4, <2>5, <3>1 DEF QueueOrder, InLoop
    <2>7. PutsBack'
      BY <2>1 DEF PutsBack, InLoop
    <2> QED  BY <2>1, <2>2, <2>6, <2>7, HandledStays
  <1>10. CASE CloseSocket \/ UNCHANGED vars \/ Deleted
    <2>1. /\ socket' = "open" => socket = "open"
          /\ UNCHANGED <<recvQueue, packet, handled, raced, player, updater, step,
                         playerRecentlyLogout, firstDelayedPacket, delayed>>
      BY <1>10 DEF CloseSocket, Deleted, vars, netVars, playerVars, loopVars, fateVars,
                   raceVars
    <2>2. InHand' = InHand
      BY <2>1 DEF InHand
    <2>3. QueueOrder'
      BY <2>1 DEF OInv, QueueOrder, InLoop
    <2>4. PutsBack'
      BY <2>1 DEF OInv, PutsBack, InLoop
    <2> QED  BY <2>1, <2>2, <2>3, <2>4, HandledStays
  <1>11. CASE LeaveQueue \/ DeleteAccount \/ Teleport \/ ProcessQueryCallbacks
    <2>1. /\ step \in {"rest", "callbacks"} /\ step' \in {"rest", "logout"}
          /\ socket' = "open" => socket = "open"
          /\ UNCHANGED <<recvQueue, packet, handled, raced>>
      BY <1>11 DEF LeaveQueue, DeleteAccount, Teleport, ProcessQueryCallbacks, netVars,
                   fateVars, raceVars
    <2>2. InHand' = InHand
      BY <2>1 DEF InHand
    <2> QED  BY <2>1, <2>2, HandledStays DEF OInv, QueueOrder, PutsBack, InLoop
  <1>12. CASE ProcessLogout
    <2>1. /\ step = "logout" /\ step' \in {"rest", "deleted"}
          /\ recvQueue' = recvQueue \/ (recvQueue' = <<>> /\ Range(recvQueue') = {})
          /\ UNCHANGED <<socket, packet, handled, raced>>
      BY <1>12 DEF ProcessLogout, netVars, raceVars, Range
    <2>2. InHand' = InHand
      BY <2>1 DEF InHand
    <2>3. Sorted(raced, <<>>)
      BY DEF Sorted
    <2>4. QueueOrder' /\ PutsBack'
      BY <2>1, <2>3 DEF OInv, QueueOrder, PutsBack, InLoop
    <2> QED  BY <2>1, <2>2, <2>4, HandledStays
  <1> QED
    BY <1>3, <1>4, <1>5, <1>6, <1>7, <1>8, <1>9, <1>10, <1>11, <1>12 DEF Next, Update

\* In every behaviour the packets that demand a player in the world are handled in
\* the order in which they came, although Update puts those that come too early back
\* at the end of the queue; only packets that came while such a call was in its loop,
\* or that it left at its limit, overtake.
THEOREM PacketOrder == Spec => []OrderKept
  BY InitOInv, NextOInv, SortedIsKept, PTL DEF Spec
=============================================================================

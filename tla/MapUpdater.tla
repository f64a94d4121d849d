----------------------------- MODULE MapUpdater -----------------------------
(***************************************************************************)
(* The parallel update of the maps: MapManager::Update in the world thread *)
(* (MapManager.cpp), MapUpdater and its request (MapUpdater.cpp), the pool  *)
(* of threads that executes requests (DelayExecutor.cpp), and the instanced *)
(* maps whose update, in a worker, asks for the update of their instances  *)
(* or destroys them (MapInstanced.cpp).                                    *)
(*                                                                         *)
(* The body of schedule_update and of update_finished runs under m_mutex,  *)
(* as does the test in wait: each is one step.  The queue of requests is   *)
(* ACE's, bounded, with its own lock: enqueue fails at once when it is     *)
(* full, dequeue waits, and fails once the queue has been deactivated.     *)
(***************************************************************************)
EXTENDS Integers, Sequences, FiniteSets, SequencesExt

CONSTANTS
    Map,        \* ids of base maps
    Instance,   \* ids of instances
    MapOf,      \* the instanced base map of each instance
    Worker,     \* threads of the executor (CONFIG_NUMTHREADS > 0)
    NoMap,      \* a worker that executes no request
    Capacity    \* requests the queue holds

AnyMap == Map \union Instance

ASSUME MapUpdaterAssumption ==
    /\ IsFiniteSet(Worker)
    /\ Map \intersect Instance = {}
    /\ NoMap \notin AnyMap
    /\ MapOf \in [Instance -> Map]
    /\ Capacity \in Nat \ {0}

VARIABLES
    manager,          \* where the world thread is
    toSchedule,       \* base maps its loop has not reached
    i_maps,           \* base maps that exist
    m_InstancedMaps,  \* instances that exist
    updated,          \* maps updated in this tick
    queue,            \* requests waiting in the executor, by their map
    pending_requests,
    refused,          \* maps whose request found the queue full in this tick
    activated,        \* DelayExecutor::activated_ and the queue accepts calls
    stage,            \* where each worker is
    running,          \* the map of the request a worker executes
    toVisit           \* instances the loop of MapInstanced::Update has to visit

managerVars == <<manager, toSchedule>>
mapVars     == <<i_maps, m_InstancedMaps, updated>>
updaterVars == <<queue, pending_requests, refused, activated>>
workerVars  == <<stage, running, toVisit>>
vars == <<managerVars, mapVars, updaterVars, workerVars>>

-----------------------------------------------------------------------------
(* MapUpdater, under m_mutex                                               *)

\* Faulty schedule_update: the count is not raised.
schedule_update_uncounted(m) ==
    IF Len(queue) < Capacity
    THEN queue' = Append(queue, m) /\ UNCHANGED <<pending_requests, refused>>
    ELSE refused' = refused \union {m} /\ UNCHANGED <<pending_requests, queue>>

\* schedule_update: the request is counted, then queued; if the queue is full
\* the count is taken back and the map is not updated in this tick.
schedule_update(m) ==
    IF Len(queue) < Capacity
    THEN /\ pending_requests' = pending_requests + 1
         /\ queue' = Append(queue, m)
         /\ UNCHANGED refused
    ELSE /\ refused' = refused \union {m}
         /\ UNCHANGED <<pending_requests, queue>>

\* Faulty update_finished: the world thread is not woken.
update_finished_silent ==
    /\ pending_requests' = IF pending_requests = 0 THEN 0 ELSE pending_requests - 1
    /\ UNCHANGED manager

\* update_finished: the count is lowered and the world thread woken, should it
\* wait on m_condition.  At zero the count is left alone.
update_finished ==
    IF pending_requests = 0
    THEN UNCHANGED <<pending_requests, manager>>
    ELSE /\ pending_requests' = pending_requests - 1
         /\ manager' = IF manager = "blocked" THEN "wait" ELSE manager

-----------------------------------------------------------------------------
(* The world thread: MapManager::Update                                    *)

\* The timer has passed: the loop over i_maps begins.
BeginUpdate ==
    /\ manager = "world"
    /\ manager' = "schedule"
    /\ toSchedule' = i_maps
    /\ updated' = {}
    /\ refused' = {}
    /\ UNCHANGED <<i_maps, m_InstancedMaps, queue, pending_requests, activated, workerVars>>

ScheduleMap(m) ==
    /\ manager = "schedule"
    /\ m \in toSchedule
    /\ toSchedule' = toSchedule \ {m}
    /\ schedule_update(m)
    /\ UNCHANGED <<manager, mapVars, activated, workerVars>>

\* Faulty EndSchedule: the loop leaves out its last map.
EndScheduleEarly ==
    /\ manager = "schedule"
    /\ Cardinality(toSchedule) <= 1
    /\ manager' = "wait"
    /\ UNCHANGED <<toSchedule, mapVars, updaterVars, workerVars>>

\* The loop ends, and m_updater.wait() begins.
EndSchedule ==
    /\ manager = "schedule"
    /\ toSchedule = {}
    /\ manager' = "wait"
    /\ UNCHANGED <<toSchedule, mapVars, updaterVars, workerVars>>

\* wait: block on m_condition while requests are pending.
Block ==
    /\ manager = "wait"
    /\ pending_requests > 0
    /\ manager' = "blocked"
    /\ UNCHANGED <<toSchedule, mapVars, updaterVars, workerVars>>

\* Faulty SpuriousWakeup: the count is tested with "if", not with "while".
SpuriousWakeupPasses ==
    /\ manager = "blocked"
    /\ manager' = "world"
    /\ UNCHANGED <<toSchedule, mapVars, updaterVars, workerVars>>

\* m_condition.wait may return without a broadcast.
SpuriousWakeup ==
    /\ manager = "blocked"
    /\ manager' = "wait"
    /\ UNCHANGED <<toSchedule, mapVars, updaterVars, workerVars>>

\* Faulty PassBarrier: wait returns once the queue of requests is empty.
PassBarrierEarly ==
    /\ manager = "wait"
    /\ queue = <<>>
    /\ manager' = "world"
    /\ UNCHANGED <<toSchedule, mapVars, updaterVars, workerVars>>

\* wait returns: the world thread goes on to DelayedUpdate, ObjectAccessor::Update
\* and the rest of its tick, with no further lock on the maps.
PassBarrier ==
    /\ manager = "wait"
    /\ pending_requests = 0
    /\ manager' = "world"
    /\ UNCHANGED <<toSchedule, mapVars, updaterVars, workerVars>>

\* A player enters a map: CreateBaseMap, then CreateInstance if it is instanced.
CreateMap(m) ==
    /\ manager = "world"
    /\ i_maps' = i_maps \union {m}
    /\ UNCHANGED <<managerVars, m_InstancedMaps, updated, updaterVars, workerVars>>

CreateInstance(i) ==
    /\ manager = "world"
    /\ i \notin m_InstancedMaps
    /\ i_maps' = i_maps \union {MapOf[i]}
    /\ m_InstancedMaps' = m_InstancedMaps \union {i}
    /\ UNCHANGED <<managerVars, updated, updaterVars, workerVars>>

\* MapManager::UnloadAll at shutdown: every map is deleted, then deactivate
\* begins with a wait of its own.
UnloadAll ==
    /\ manager = "world"
    /\ i_maps' = {}
    /\ m_InstancedMaps' = {}
    /\ manager' = "deactivate"
    /\ UNCHANGED <<toSchedule, updated, updaterVars, workerVars>>

\* MapUpdater::deactivate and DelayExecutor::deactivate: the queue is shut, and
\* the workers are joined.
Deactivate ==
    /\ manager = "deactivate"
    /\ pending_requests = 0
    /\ activated' = FALSE
    /\ manager' = "join"
    /\ UNCHANGED <<toSchedule, mapVars, queue, pending_requests, refused, workerVars>>

Join ==
    /\ manager = "join"
    /\ \A w \in Worker : stage[w] = "exited"
    /\ manager' = "stopped"
    /\ UNCHANGED <<toSchedule, mapVars, updaterVars, workerVars>>

Stopped == manager = "stopped" /\ UNCHANGED vars

-----------------------------------------------------------------------------
(* The workers: DelayExecutor::svc                                         *)

\* dequeue gives a request; call begins with Map::Update.
Dequeue(w) ==
    /\ stage[w] = "idle"
    /\ activated
    /\ queue # <<>>
    /\ queue' = Tail(queue)
    /\ stage' = [stage EXCEPT ![w] = "update"]
    /\ running' = [running EXCEPT ![w] = Head(queue)]
    /\ UNCHANGED <<managerVars, mapVars, pending_requests, refused, activated, toVisit>>

\* Faulty Exit: a failed dequeue is tried again.
ExitNever(w) ==
    /\ stage[w] = "idle"
    /\ ~activated
    /\ UNCHANGED vars

\* dequeue gives no request because the queue is deactivated: the thread ends.
Exit(w) ==
    /\ stage[w] = "idle"
    /\ ~activated
    /\ stage' = [stage EXCEPT ![w] = "exited"]
    /\ UNCHANGED <<managerVars, mapVars, updaterVars, running, toVisit>>

\* Map::Update; on an instanced map the loop over its instances follows.
UpdateMap(w) ==
    /\ stage[w] = "update"
    /\ updated' = updated \union {running[w]}
    /\ stage' = [stage EXCEPT ![w] = "instances"]
    /\ toVisit' = [toVisit EXCEPT ![w] =
                      {i \in m_InstancedMaps : MapOf[i] = running[w]}]
    /\ UNCHANGED <<managerVars, i_maps, m_InstancedMaps, updaterVars, running>>

\* Faulty DestroyInstance: the update of the destroyed instance is asked for.
DestroyInstanceAndUpdate(w, i) ==
    /\ stage[w] = "instances"
    /\ i \in toVisit[w]
    /\ m_InstancedMaps' = m_InstancedMaps \ {i}
    /\ schedule_update(i)
    /\ toVisit' = [toVisit EXCEPT ![w] = @ \ {i}]
    /\ UNCHANGED <<managerVars, i_maps, updated, activated, stage, running>>

\* CanUnload: DestroyInstance deletes the instance, or leaves it alone when
\* players remain in it.
DestroyInstance(w, i) ==
    /\ stage[w] = "instances"
    /\ i \in toVisit[w]
    /\ m_InstancedMaps' \in {m_InstancedMaps, m_InstancedMaps \ {i}}
    /\ toVisit' = [toVisit EXCEPT ![w] = @ \ {i}]
    /\ UNCHANGED <<managerVars, i_maps, updated, updaterVars, stage, running>>

\* Faulty ScheduleInstance: the iterator stays on the instance.
ScheduleInstanceAgain(w, i) ==
    /\ stage[w] = "instances"
    /\ i \in toVisit[w]
    /\ schedule_update(i)
    /\ UNCHANGED <<managerVars, mapVars, activated, workerVars>>

\* Otherwise an update of the instance is asked for.
ScheduleInstance(w, i) ==
    /\ stage[w] = "instances"
    /\ i \in toVisit[w]
    /\ schedule_update(i)
    /\ toVisit' = [toVisit EXCEPT ![w] = @ \ {i}]
    /\ UNCHANGED <<managerVars, mapVars, activated, stage, running>>

\* The request ends with update_finished, and is deleted.
FinishRequest(w) ==
    /\ stage[w] = "instances"
    /\ toVisit[w] = {}
    /\ update_finished
    /\ stage' = [stage EXCEPT ![w] = "idle"]
    /\ running' = [running EXCEPT ![w] = NoMap]
    /\ UNCHANGED <<toSchedule, mapVars, queue, refused, activated, toVisit>>

-----------------------------------------------------------------------------
Init ==
    /\ manager = "world"
    /\ toSchedule = {}
    /\ i_maps = {}
    /\ m_InstancedMaps = {}
    /\ updated = {}
    /\ queue = <<>>
    /\ pending_requests = 0
    /\ refused = {}
    /\ activated = TRUE
    /\ stage = [w \in Worker |-> "idle"]
    /\ running = [w \in Worker |-> NoMap]
    /\ toVisit = [w \in Worker |-> {}]

Update ==
    \/ BeginUpdate
    \/ \E m \in Map : ScheduleMap(m)
    \/ EndSchedule
    \/ Block
    \/ PassBarrier

Work(w) ==
    \/ Dequeue(w)
    \/ Exit(w)
    \/ UpdateMap(w)
    \/ \E i \in Instance : DestroyInstance(w, i) \/ ScheduleInstance(w, i)
    \/ FinishRequest(w)

World ==
    \/ \E m \in Map : CreateMap(m)
    \/ \E i \in Instance : CreateInstance(i)
    \/ UnloadAll
    \/ Deactivate
    \/ Join

Next ==
    \/ Update
    \/ SpuriousWakeup
    \/ \E w \in Worker : Work(w)
    \/ World
    \/ Stopped

Spec == Init /\ [][Next]_vars

\* Every runnable thread eventually runs.
Fairness ==
    /\ WF_vars(Update \/ Deactivate \/ Join)
    /\ \A w \in Worker : WF_vars(Work(w))

FairSpec == Spec /\ Fairness

-----------------------------------------------------------------------------
(* Properties                                                              *)

TypeOK ==
    /\ manager \in {"world", "schedule", "wait", "blocked", "deactivate",
                    "join", "stopped"}
    /\ toSchedule \subseteq Map
    /\ i_maps \subseteq Map
    /\ m_InstancedMaps \subseteq Instance
    /\ updated \subseteq AnyMap
    /\ queue \in Seq(AnyMap)
    /\ pending_requests \in Nat
    /\ refused \subseteq AnyMap
    /\ activated \in BOOLEAN
    /\ stage \in [Worker -> {"idle", "update", "instances", "exited"}]
    /\ running \in [Worker -> AnyMap \union {NoMap}]
    /\ \A w \in Worker : running[w] = NoMap <=> stage[w] \in {"idle", "exited"}
    /\ toVisit \in [Worker -> SUBSET Instance]

Busy == {w \in Worker : stage[w] \in {"update", "instances"}}

\* pending_requests counts the requests that wait or are executed, those that
\* updates in other workers have asked for included.  So update_finished never
\* meets a zero count ("BUG, report to devs").
PendingCount == pending_requests = Len(queue) + Cardinality(Busy)

\* When MapUpdater::wait has returned, no request waits and no worker is in an
\* update: the world thread is alone with the maps until the next tick.
BarrierHolds ==
    manager \notin {"schedule", "wait", "blocked"} => queue = <<>> /\ Busy = {}

\* A request never refers to a map that has been deleted, neither by
\* DestroyInstance in a worker nor by UnloadAll at shutdown.
RequestsAlive ==
    /\ Range(queue) \subseteq i_maps \union m_InstancedMaps
    /\ \A w \in Busy :
          /\ running[w] \in i_maps \union m_InstancedMaps
          /\ toVisit[w] \subseteq m_InstancedMaps

\* No map is updated twice in a tick, nor by two workers at a time.
OneUpdatePerTick ==
    /\ \A i, j \in 1..Len(queue) : queue[i] = queue[j] => i = j
    /\ \A v, w \in Busy : running[v] = running[w] => v = w
    /\ \A w \in Busy : running[w] \notin Range(queue) /\
                       (running[w] \in updated <=> stage[w] = "instances")
    /\ Range(queue) \intersect updated = {}

\* When the barrier is passed every base map has been updated, except those whose
\* request the full queue refused (schedule_update).
EveryMapUpdated ==
    [][manager = "wait" /\ manager' = "world" => i_maps \ refused \subseteq updated]_vars

\* The pool and the counter implement the barrier.
mode == CASE manager \in {"schedule", "wait", "blocked"} -> "parallel"
          [] manager = "world" -> "exclusive"
          [] OTHER -> "stopped"

Barrier == INSTANCE TickBarrier
              WITH mode <- mode, busy <- Range(queue) \union {running[w] : w \in Busy}

ImplementsBarrier == Barrier!Spec

\* Every tick passes the barrier: no wakeup is lost between the test of the
\* count in wait and the broadcast of update_finished.
TickEnds == manager = "schedule" ~> manager = "world"

\* Shutdown joins every worker.
ShutdownEnds == manager = "deactivate" ~> manager = "stopped"
=============================================================================

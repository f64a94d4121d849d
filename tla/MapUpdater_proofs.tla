-------------------------- MODULE MapUpdater_proofs --------------------------
(***************************************************************************)
(* Proofs about MapUpdater, for every set of maps, instances and workers   *)
(* and every capacity of the queue.                                        *)
(***************************************************************************)
EXTENDS MapUpdater, QueueLemmas, FiniteSetTheorems, SequenceTheorems, TLAPS

\* The count is right and the barrier holds: together inductive, since the
\* world thread passes the barrier on the word of the count.
CountInv == TypeOK /\ PendingCount /\ BarrierHolds

\* There are finitely many busy workers.
LEMMA BusyFinite == /\ IsFiniteSet(Busy)
                    /\ Cardinality(Busy) \in Nat
                    /\ Cardinality(Busy) = 0 <=> Busy = {}
  <1>1. IsFiniteSet(Busy)
    BY MapUpdaterAssumption, FS_Subset DEF Busy
  <1> QED  BY <1>1, FS_CardinalityType, FS_EmptySet

\* The invariant holds before the first tick.
LEMMA InitCountInv == Init => CountInv
  <1> SUFFICES ASSUME Init PROVE CountInv
    OBVIOUS
  <1>1. Busy = {}
    BY DEF Init, Busy
  <1>2. TypeOK
    BY DEF Init, TypeOK
  <1>3. PendingCount
    BY <1>1, FS_EmptySet DEF Init, PendingCount
  <1> QED  BY <1>1, <1>2, <1>3 DEF Init, CountInv, BarrierHolds

\* schedule_update counts exactly the request it queues.
LEMMA ScheduleCounts ==
    ASSUME TypeOK, NEW m \in AnyMap, schedule_update(m)
    PROVE  /\ queue' \in Seq(AnyMap)
           /\ refused' \subseteq AnyMap
           /\ pending_requests' \in Nat
           /\ pending_requests' - Len(queue') = pending_requests - Len(queue)
  <1>1. CASE Len(queue) < Capacity
    <2>1. /\ queue' = Append(queue, m)
          /\ pending_requests' = pending_requests + 1
          /\ refused' = refused
      BY <1>1 DEF schedule_update
    <2>2. queue' \in Seq(AnyMap) /\ Len(queue') = Len(queue) + 1 /\ Len(queue) \in Nat
      BY <2>1 DEF TypeOK
    <2> QED  BY <2>1, <2>2 DEF TypeOK
  <1>2. CASE ~(Len(queue) < Capacity)
    BY <1>2 DEF schedule_update, TypeOK
  <1> QED  BY <1>1, <1>2

\* Every step keeps the types.
LEMMA TypeStep == ASSUME TypeOK, [Next]_vars PROVE TypeOK'
  <1> USE MapUpdaterAssumption DEF TypeOK
  <1>1. CASE Update
    <2>1. ASSUME NEW m \in Map, ScheduleMap(m)  PROVE TypeOK'
      BY <2>1, ScheduleCounts DEF ScheduleMap, mapVars, workerVars, AnyMap
    <2> QED
      BY <1>1, <2>1 DEF Update, BeginUpdate, EndSchedule, Block, PassBarrier,
                        mapVars, updaterVars, workerVars
  <1>2. ASSUME NEW w \in Worker, Work(w)  PROVE TypeOK'
    <2>1. CASE Dequeue(w)
      BY <2>1 DEF Dequeue, managerVars, mapVars
    <2>2. CASE Exit(w)
      BY <2>2 DEF Exit, managerVars, mapVars, updaterVars
    <2>3. CASE UpdateMap(w)
      BY <2>3 DEF UpdateMap, managerVars, updaterVars
    <2>4. ASSUME NEW i \in Instance, DestroyInstance(w, i)  PROVE TypeOK'
      BY <2>4 DEF DestroyInstance, managerVars, updaterVars
    <2>5. ASSUME NEW i \in Instance, ScheduleInstance(w, i)  PROVE TypeOK'
      BY <2>5, ScheduleCounts DEF ScheduleInstance, managerVars, mapVars, AnyMap
    <2>6. CASE FinishRequest(w)
      BY <2>6 DEF FinishRequest, update_finished, mapVars
    <2> QED  BY <1>2, <2>1, <2>2, <2>3, <2>4, <2>5, <2>6 DEF Work
  <1>3. CASE World
    <2>1. ASSUME NEW m \in Map, CreateMap(m)  PROVE TypeOK'
      BY <2>1 DEF CreateMap, managerVars, updaterVars, workerVars
    <2>2. ASSUME NEW i \in Instance, CreateInstance(i)  PROVE TypeOK'
      BY <2>2 DEF CreateInstance, managerVars, updaterVars, workerVars
    <2>3. CASE UnloadAll \/ Deactivate \/ Join
      BY <2>3 DEF UnloadAll, Deactivate, Join, mapVars, updaterVars, workerVars
    <2> QED  BY <1>3, <2>1, <2>2, <2>3 DEF World
  <1>4. CASE SpuriousWakeup \/ Stopped \/ UNCHANGED vars
    BY <1>4 DEF SpuriousWakeup, Stopped, vars, managerVars, mapVars, updaterVars, workerVars
  <1> QED  BY <1>1, <1>2, <1>3, <1>4 DEF Next

\* A worker becomes busy or idle: the number of busy workers follows.
LEMMA BusyChange ==
    ASSUME NEW w \in Worker
    PROVE  /\ w \notin Busy /\ Busy' = Busy \union {w}
                 => Cardinality(Busy') = Cardinality(Busy) + 1
           /\ w \in Busy /\ Busy' = Busy \ {w}
                 => Cardinality(Busy') = Cardinality(Busy) - 1
  BY BusyFinite, FS_AddElement, FS_RemoveElement

\* While a worker is busy or a request waits the count is positive.
LEMMA BusyCounts ==
    ASSUME CountInv
    PROVE  /\ Len(queue) \in Nat
           /\ pending_requests = 0 <=> queue = <<>> /\ Busy = {}
  <1>1. queue \in Seq(AnyMap) /\ pending_requests = Len(queue) + Cardinality(Busy)
    BY DEF CountInv, TypeOK, PendingCount
  <1>2. Len(queue) \in Nat /\ (Len(queue) = 0 <=> queue = <<>>)
    BY <1>1, EmptySeq, LenProperties
  <1> QED  BY <1>1, <1>2, BusyFinite

\* Every step of the world thread and of a worker keeps the count right, and
\* no request appears once the barrier has been passed.
LEMMA CountStep == ASSUME CountInv, [Next]_vars PROVE CountInv'
  <1> USE MapUpdaterAssumption
  <1>0. TypeOK /\ TypeOK'
    BY TypeStep DEF CountInv
  <1>a. /\ pending_requests = Len(queue) + Cardinality(Busy)
        /\ pending_requests \in Nat
        /\ Len(queue) \in Nat
        /\ Cardinality(Busy) \in Nat
    BY BusyFinite, BusyCounts DEF CountInv, PendingCount, TypeOK
  <1>b. ASSUME stage' = stage PROVE Busy' = Busy
    BY <1>b DEF Busy
  <1>s. ASSUME NEW m \in AnyMap, schedule_update(m), stage' = stage, manager' = manager,
               manager \in {"schedule", "wait", "blocked"}
        PROVE  PendingCount' /\ BarrierHolds'
    <2>1. pending_requests' = Len(queue') + Cardinality(Busy')
      <3>1. Len(queue') \in Nat /\ pending_requests' \in Nat
           /\ pending_requests' - Len(queue') = pending_requests - Len(queue)
        BY <1>0, <1>s, ScheduleCounts DEF TypeOK
      <3>2. Busy' = Busy
        BY <1>b, <1>s
      <3> QED  BY <3>1, <3>2, <1>a
    <2> QED  BY <2>1, <1>s DEF PendingCount, BarrierHolds
  <1>w. ASSUME NEW w \in Busy  PROVE manager \in {"schedule", "wait", "blocked"}
    BY DEF CountInv, BarrierHolds
  <1>1. CASE Update
    <2>1. ASSUME NEW m \in Map, ScheduleMap(m)  PROVE PendingCount' /\ BarrierHolds'
      BY <2>1, <1>s DEF ScheduleMap, AnyMap, workerVars
    <2>2. CASE BeginUpdate \/ EndSchedule \/ Block
      <3>1. queue' = queue /\ pending_requests' = pending_requests /\ stage' = stage
           /\ manager' \in {"schedule", "wait", "blocked"}
        BY <2>2 DEF BeginUpdate, EndSchedule, Block, updaterVars, workerVars
      <3> QED  BY <1>0, <3>1, <1>b, <1>a DEF PendingCount, BarrierHolds, CountInv
    <2>3. CASE PassBarrier
      <3>1. queue' = queue /\ pending_requests' = pending_requests /\ stage' = stage
           /\ pending_requests = 0
        BY <2>3 DEF PassBarrier, updaterVars, workerVars
      <3>2. queue = <<>> /\ Busy = {}
        BY <3>1, BusyCounts
      <3> QED  BY <1>0, <3>1, <3>2, <1>b, <1>a DEF PendingCount, BarrierHolds, CountInv
    <2> QED  BY <1>0, <1>1, <2>1, <2>2, <2>3 DEF Update, CountInv
  <1>2. ASSUME NEW w \in Worker, Work(w)  PROVE CountInv'
    <2>1. CASE Dequeue(w)
      <3>1. w \notin Busy /\ Busy' = Busy \union {w}
        BY <2>1, <1>0 DEF Dequeue, Busy, TypeOK
      <3>2. /\ queue # <<>>
            /\ queue' = Tail(queue)
            /\ pending_requests' = pending_requests
            /\ manager' = manager
        BY <2>1 DEF Dequeue, managerVars
      <3>3. Len(queue') = Len(queue) - 1
        BY <3>2, <1>0 DEF TypeOK
      <3>a. Cardinality(Busy') = Cardinality(Busy) + 1
        BY <3>1, BusyChange
      <3>4. PendingCount'
        BY <3>2, <3>3, <3>a, <1>a DEF PendingCount
      <3>5. BarrierHolds'
        BY <3>2 DEF CountInv, BarrierHolds
      <3> QED  BY <1>0, <3>4, <3>5 DEF CountInv
    <2>2. CASE Exit(w) \/ UpdateMap(w) \/ \E i \in Instance : DestroyInstance(w, i)
      <3>1. Busy' = Busy
        BY <2>2, <1>0 DEF Exit, UpdateMap, DestroyInstance, Busy, TypeOK
      <3>2. queue' = queue /\ pending_requests' = pending_requests /\ manager' = manager
        BY <2>2 DEF Exit, UpdateMap, DestroyInstance, managerVars, updaterVars
      <3> QED  BY <1>0, <3>1, <3>2 DEF CountInv, PendingCount, BarrierHolds
    <2>3. ASSUME NEW i \in Instance, ScheduleInstance(w, i)  PROVE CountInv'
      <3>1. w \in Busy
        BY <2>3 DEF ScheduleInstance, Busy
      <3>2. PendingCount' /\ BarrierHolds'
        BY <2>3, <3>1, <1>s, <1>w DEF ScheduleInstance, AnyMap, managerVars
      <3> QED  BY <1>0, <3>2 DEF CountInv
    <2>4. CASE FinishRequest(w)
      <3>1. w \in Busy /\ Busy' = Busy \ {w} /\ queue' = queue
        BY <2>4, <1>0 DEF FinishRequest, Busy, TypeOK
      <3>2. pending_requests # 0
        BY <3>1, BusyCounts
      <3>3. /\ pending_requests' = pending_requests - 1
            /\ manager' \in {"schedule", "wait", "blocked"}
        BY <2>4, <3>1, <3>2, <1>w DEF FinishRequest, update_finished
      <3>a. Cardinality(Busy') = Cardinality(Busy) - 1
        BY <3>1, BusyChange
      <3>4. PendingCount'
        BY <3>1, <3>3, <3>a, <1>a DEF PendingCount
      <3> QED  BY <1>0, <3>3, <3>4 DEF CountInv, BarrierHolds
    <2> QED  BY <1>2, <2>1, <2>2, <2>3, <2>4 DEF Work
  <1>3. CASE World \/ SpuriousWakeup \/ Stopped \/ UNCHANGED vars
    <2>1. queue' = queue /\ pending_requests' = pending_requests
      BY <1>3 DEF World, CreateMap, CreateInstance, UnloadAll, Deactivate, Join,
                  SpuriousWakeup, Stopped, vars, updaterVars
    <2>2. stage' = stage
      BY <1>3 DEF World, CreateMap, CreateInstance, UnloadAll, Deactivate, Join,
                  SpuriousWakeup, Stopped, vars, workerVars
    <2>3. \/ manager' \in {"schedule", "wait", "blocked"}
          \/ manager \notin {"schedule", "wait", "blocked"}
      BY <1>3 DEF World, CreateMap, CreateInstance, UnloadAll, Deactivate, Join,
                  SpuriousWakeup, Stopped, vars, managerVars
    <2> QED  BY <1>0, <2>1, <2>2, <2>3, <1>b DEF CountInv, PendingCount, BarrierHolds
  <1> QED  BY <1>1, <1>2, <1>3 DEF Next

\* For every number of maps, instances and workers and every capacity of the
\* queue: pending_requests is the number of requests that wait or run, and once
\* MapUpdater::wait has returned the world thread is alone with the maps.
THEOREM BarrierSafe == Spec => [](TypeOK /\ PendingCount /\ BarrierHolds)
  <1>1. Spec => []CountInv
    BY InitCountInv, CountStep, PTL DEF Spec
  <1> QED  BY <1>1, PTL DEF CountInv

-----------------------------------------------------------------------------
(* Each map is updated once per tick, and no request outlives its map      *)

\* Maps with an update asked for and not finished
Asked == Range(queue) \union {running[w] : w \in Busy}

\* What the loop of the world thread has still to reach exists and has not been
\* touched in this tick.
LoopPlan ==
    /\ toSchedule \subseteq i_maps
    /\ toSchedule # {} => manager = "schedule"
    /\ toSchedule \intersect (Asked \union updated) = {}

\* What the loop of a worker has still to visit belongs to its map alone, and has
\* not been touched in this tick.
VisitPlan ==
    \A w \in Worker : \A i \in toVisit[w] :
        /\ stage[w] = "instances"
        /\ MapOf[i] = running[w]
        /\ i \notin Asked \union updated

\* An instance is asked for by the update of its base map only.
BaseFirst == \A i \in Instance \intersect (Asked \union updated) : MapOf[i] \in updated

\* No base map is forgotten between the loop and the barrier.
NoneForgotten ==
    manager \in {"schedule", "wait", "blocked"} =>
        i_maps \subseteq toSchedule \union Asked \union updated \union refused

\* The requests are alive and updates happen once: neither holds by itself in the
\* next state without the plans of the loops that ask for them.
TickInv ==
    /\ CountInv
    /\ RequestsAlive
    /\ OneUpdatePerTick
    /\ LoopPlan
    /\ VisitPlan
    /\ BaseFirst
    /\ NoneForgotten

\* The invariant holds before the first tick.
LEMMA InitTickInv == Init => TickInv
  <1> SUFFICES ASSUME Init PROVE TickInv
    OBVIOUS
  <1>1. Busy = {} /\ Range(queue) = {} /\ Asked = {}
    BY DEF Init, Busy, Asked, Range
  <1>2. LoopPlan /\ VisitPlan /\ BaseFirst /\ NoneForgotten
    BY <1>1 DEF Init, LoopPlan, VisitPlan, BaseFirst, NoneForgotten
  <1>3. RequestsAlive
    BY <1>1 DEF RequestsAlive
  <1>4. OneUpdatePerTick
    <2>1. \A i, j \in 1..Len(queue) : queue[i] = queue[j] => i = j
      BY DEF Init
    <2> QED  BY <1>1, <2>1 DEF OneUpdatePerTick
  <1> QED
    BY <1>2, <1>3, <1>4, InitCountInv DEF TickInv

\* An update of m, which is alive and untouched in this tick, is asked for: the
\* parts of the invariant about requests hold whether it is queued or refused.
LEMMA AskStep ==
    ASSUME TickInv, NEW m \in i_maps \union m_InstancedMaps, m \notin Asked \union updated,
           schedule_update(m), UNCHANGED <<i_maps, m_InstancedMaps, updated, stage, running>>
    PROVE  /\ Busy' = Busy
           /\ Range(queue') \subseteq Range(queue) \union {m}
           /\ Range(queue) \subseteq Range(queue')
           /\ OneUpdatePerTick'
           /\ \/ Asked' = Asked \union {m} /\ refused' = refused
              \/ Asked' = Asked /\ refused' = refused \union {m}
  <1>1. m \in AnyMap /\ queue \in Seq(AnyMap)
    BY DEF TickInv, CountInv, TypeOK, AnyMap
  <1>2. Busy' = Busy
    BY DEF Busy
  <1>3. m \notin Range(queue) /\ \A w \in Busy : running[w] # m
    BY DEF Asked
  <1>4. CASE Len(queue) < Capacity
    <2>1. queue' = Append(queue, m) /\ refused' = refused
      BY <1>4 DEF schedule_update
    <2>2. Range(queue') = Range(queue) \union {m} /\ Distinct(queue')
      BY <1>1, <1>3, <2>1, AppendLast DEF TickInv, OneUpdatePerTick, Distinct
    <2>3. Asked' = Asked \union {m}
      BY <1>2, <2>2 DEF Asked
    <2>4. OneUpdatePerTick'
      BY <1>2, <1>3, <2>2 DEF TickInv, OneUpdatePerTick, Distinct
    <2> QED  BY <1>2, <2>1, <2>2, <2>3, <2>4
  <1>5. CASE ~(Len(queue) < Capacity)
    <2>1. queue' = queue /\ refused' = refused \union {m}
      BY <1>5 DEF schedule_update
    <2>2. Asked' = Asked
      BY <1>2, <2>1 DEF Asked
    <2> QED  BY <1>2, <2>1, <2>2 DEF TickInv, OneUpdatePerTick
  <1> QED  BY <1>4, <1>5

\* Every step of the world thread keeps the invariant.
LEMMA ManagerTick ==
    ASSUME TickInv, CountInv',
           Update \/ SpuriousWakeup \/ World
    PROVE  TickInv'
  <1> USE MapUpdaterAssumption
  <1>t. TypeOK
    BY DEF TickInv, CountInv
  <1>1. ASSUME NEW m \in Map, ScheduleMap(m)  PROVE TickInv'
    <2>1. /\ m \in toSchedule
          /\ toSchedule' = toSchedule \ {m}
          /\ manager = "schedule" /\ manager' = manager
          /\ UNCHANGED <<i_maps, m_InstancedMaps, updated, stage, running, toVisit>>
          /\ schedule_update(m)
      BY <1>1 DEF ScheduleMap, mapVars, workerVars
    <2>2. m \in i_maps /\ m \notin Asked \union updated
      BY <2>1 DEF TickInv, LoopPlan
    <2>3. m \notin Instance
      BY <1>1
    <2>a. /\ Busy' = Busy
          /\ Range(queue') \subseteq Range(queue) \union {m}
          /\ OneUpdatePerTick'
          /\ \/ Asked' = Asked \union {m} /\ refused' = refused
             \/ Asked' = Asked /\ refused' = refused \union {m}
      BY <2>1, <2>2, AskStep
    <2>4. RequestsAlive'
      BY <2>1, <2>2, <2>a DEF TickInv, RequestsAlive
    <2>5. LoopPlan'
      BY <2>1, <2>2, <2>a DEF TickInv, LoopPlan
    <2>6. VisitPlan'
      <3>1. \A w \in Worker : toVisit[w] \subseteq Instance
        BY <1>t DEF TypeOK
      <3> QED  BY <2>1, <2>3, <2>a, <3>1 DEF TickInv, VisitPlan
    <2>7. BaseFirst'
      BY <2>1, <2>3, <2>a DEF TickInv, BaseFirst
    <2>8. NoneForgotten'
      BY <2>1, <2>a DEF TickInv, NoneForgotten
    <2> QED  BY <2>a, <2>4, <2>5, <2>6, <2>7, <2>8 DEF TickInv
  <1>a. ASSUME UNCHANGED <<queue, stage, running, updated>>
        PROVE  /\ Busy' = Busy
               /\ Asked' = Asked
               /\ OneUpdatePerTick'
               /\ BaseFirst'
               /\ toVisit' = toVisit => VisitPlan'
    <2>1. Busy' = Busy
      BY <1>a DEF Busy
    <2>2. Asked' = Asked
      BY <1>a, <2>1 DEF Asked
    <2> QED
      BY <1>a, <2>1, <2>2 DEF TickInv, OneUpdatePerTick, BaseFirst, VisitPlan
  <1>e. ASSUME manager \notin {"schedule", "wait", "blocked"}
        PROVE  queue = <<>> /\ Range(queue) = {} /\ Busy = {} /\ Asked = {} /\ toSchedule = {}
    <2>1. queue = <<>> /\ Busy = {}
      BY <1>e DEF TickInv, CountInv, BarrierHolds
    <2> QED  BY <1>e, <2>1 DEF Asked, Range, TickInv, LoopPlan
  <1>2. CASE BeginUpdate
    <2>1. /\ manager = "world" /\ manager' = "schedule"
          /\ toSchedule' = i_maps /\ updated' = {}
          /\ UNCHANGED <<i_maps, m_InstancedMaps, queue, stage, running, toVisit>>
      BY <1>2 DEF BeginUpdate, workerVars
    <2>2. Busy' = {} /\ Range(queue') = {} /\ Asked' = {} /\ queue' = <<>>
      BY <2>1, <1>e DEF Busy, Asked
    <2>3. VisitPlan'
      BY <2>1, <2>2 DEF TickInv, VisitPlan
    <2>4. RequestsAlive' /\ LoopPlan' /\ BaseFirst' /\ NoneForgotten'
      BY <2>1, <2>2 DEF RequestsAlive, LoopPlan, BaseFirst, NoneForgotten
    <2>5. OneUpdatePerTick'
      <3>1. \A i, j \in 1..Len(queue') : queue'[i] = queue'[j] => i = j
        BY <2>2
      <3> QED  BY <2>2, <3>1 DEF OneUpdatePerTick
    <2> QED  BY <2>3, <2>4, <2>5 DEF TickInv
  <1>3. CASE EndSchedule \/ Block \/ SpuriousWakeup \/ PassBarrier
    <2>1. /\ UNCHANGED <<toSchedule, i_maps, m_InstancedMaps, updated, queue, refused, stage,
                         running, toVisit>>
          /\ manager \in {"schedule", "wait", "blocked"}
          /\ toSchedule = {}
      BY <1>3 DEF EndSchedule, Block, SpuriousWakeup, PassBarrier, mapVars, updaterVars,
                  workerVars, TickInv, LoopPlan
    <2>2. RequestsAlive' /\ LoopPlan' /\ NoneForgotten'
      BY <1>a, <2>1 DEF TickInv, RequestsAlive, LoopPlan, NoneForgotten
    <2> QED  BY <1>a, <2>1, <2>2 DEF TickInv
  <1>4. CASE (\E m \in Map : CreateMap(m)) \/ (\E i \in Instance : CreateInstance(i))
    <2>1. /\ manager = "world" /\ manager' = manager
          /\ i_maps \subseteq i_maps' /\ m_InstancedMaps \subseteq m_InstancedMaps'
          /\ UNCHANGED <<toSchedule, updated, queue, refused, stage, running, toVisit>>
      BY <1>4 DEF CreateMap, CreateInstance, managerVars, updaterVars, workerVars
    <2>2. RequestsAlive' /\ LoopPlan' /\ NoneForgotten'
      BY <1>a, <2>1 DEF TickInv, RequestsAlive, LoopPlan, NoneForgotten
    <2> QED  BY <1>a, <2>1, <2>2 DEF TickInv
  <1>5. CASE UnloadAll \/ Deactivate \/ Join
    <2>1. /\ manager \in {"world", "deactivate", "join"}
          /\ manager' \in {"deactivate", "join", "stopped"}
          /\ UNCHANGED <<toSchedule, updated, queue, refused, stage, running, toVisit>>
      BY <1>5 DEF UnloadAll, Deactivate, Join, mapVars, updaterVars, workerVars
    <2>2. Busy' = {} /\ Range(queue') = {} /\ Asked' = {} /\ toSchedule' = {}
      BY <1>a, <1>e, <2>1
    <2>3. RequestsAlive' /\ LoopPlan' /\ NoneForgotten'
      BY <2>1, <2>2 DEF RequestsAlive, LoopPlan, NoneForgotten
    <2> QED  BY <1>a, <2>1, <2>3 DEF TickInv
  <1> QED  BY <1>1, <1>2, <1>3, <1>4, <1>5 DEF Update, World

\* Every step of a worker keeps the invariant.
LEMMA WorkerTick ==
    ASSUME TickInv, CountInv', NEW w \in Worker, Work(w)
    PROVE  TickInv'
  <1> USE MapUpdaterAssumption
  <1>t. TypeOK
    BY DEF TickInv, CountInv
  <1>d. Distinct(queue)
    BY DEF TickInv, OneUpdatePerTick, Distinct
  <1>1. CASE Dequeue(w)
    <2> DEFINE m == Head(queue)
    <2>1. /\ w \notin Busy /\ stage[w] = "idle"
          /\ queue # <<>> /\ queue' = Tail(queue)
          /\ stage' = [stage EXCEPT ![w] = "update"]
          /\ running' = [running EXCEPT ![w] = m]
          /\ UNCHANGED <<manager, toSchedule, i_maps, m_InstancedMaps, updated, refused, toVisit>>
      BY <1>1 DEF Dequeue, managerVars, mapVars, Busy
    <2>2. /\ m \in AnyMap
          /\ Range(queue) = Range(queue') \union {m}
          /\ m \notin Range(queue')
          /\ Distinct(queue')
      BY <1>t, <1>d, <2>1, TakeFirst DEF TypeOK
    <2>3. /\ Busy' = Busy \union {w}
          /\ stage'[w] = "update" /\ running'[w] = m
          /\ \A v \in Worker \ {w} : stage'[v] = stage[v] /\ running'[v] = running[v]
          /\ Busy \subseteq Worker \ {w}
      BY <1>t, <2>1 DEF TypeOK, Busy
    <2>4. Asked' = Asked
      BY <2>2, <2>3 DEF Asked
    <2>5. m \notin updated /\ \A v \in Busy : running[v] # m
      BY <2>2 DEF TickInv, OneUpdatePerTick
    <2>6. OneUpdatePerTick'
      BY <2>1, <2>2, <2>3, <2>5 DEF TickInv, OneUpdatePerTick, Distinct
    <2>7. VisitPlan'
      BY <2>1, <2>3, <2>4 DEF TickInv, VisitPlan
    <2>8. RequestsAlive'
      <3>1. toVisit[w] = {}
        BY <2>1 DEF TickInv, VisitPlan
      <3> QED  BY <2>1, <2>2, <2>3, <3>1 DEF TickInv, RequestsAlive
    <2>9. LoopPlan' /\ BaseFirst' /\ NoneForgotten'
      BY <2>1, <2>4 DEF TickInv, LoopPlan, BaseFirst, NoneForgotten
    <2> QED  BY <2>6, <2>7, <2>8, <2>9 DEF TickInv
  <1>2. CASE Exit(w)
    <2>1. /\ stage[w] = "idle" /\ stage' = [stage EXCEPT ![w] = "exited"]
          /\ UNCHANGED <<manager, toSchedule, i_maps, m_InstancedMaps, updated, queue, refused,
                         running, toVisit>>
      BY <1>2 DEF Exit, managerVars, mapVars, updaterVars
    <2>2. /\ Busy' = Busy
          /\ \A v \in Worker : v # w => stage'[v] = stage[v]
          /\ w \notin Busy
      BY <1>t, <2>1 DEF TypeOK, Busy
    <2>3. Asked' = Asked
      BY <2>1, <2>2 DEF Asked
    <2>4. OneUpdatePerTick'
      BY <2>1, <2>2 DEF TickInv, OneUpdatePerTick, Busy
    <2>5. VisitPlan'
      BY <2>1, <2>2, <2>3 DEF TickInv, VisitPlan
    <2>6. RequestsAlive' /\ LoopPlan' /\ BaseFirst' /\ NoneForgotten'
      BY <2>1, <2>2, <2>3 DEF TickInv, RequestsAlive, LoopPlan, BaseFirst, NoneForgotten
    <2> QED  BY <2>4, <2>5, <2>6 DEF TickInv
  <1>3. CASE UpdateMap(w)
    <2> DEFINE m == running[w]
    <2>1. /\ stage[w] = "update"
          /\ updated' = updated \union {m}
          /\ stage' = [stage EXCEPT ![w] = "instances"]
          /\ toVisit' = [toVisit EXCEPT ![w] = {i \in m_InstancedMaps : MapOf[i] = m}]
          /\ UNCHANGED <<manager, toSchedule, i_maps, m_InstancedMaps, queue, refused, running>>
      BY <1>3 DEF UpdateMap, managerVars, updaterVars
    <2>2. /\ w \in Busy /\ Busy' = Busy
          /\ stage'[w] = "instances"
          /\ toVisit'[w] = {i \in m_InstancedMaps : MapOf[i] = m}
          /\ \A v \in Worker \ {w} : stage'[v] = stage[v] /\ toVisit'[v] = toVisit[v]
      BY <1>t, <2>1 DEF TypeOK, Busy
    <2>3. Asked' = Asked /\ m \in Asked
      BY <2>1, <2>2 DEF Asked
    <2>4. m \notin updated /\ m \notin Range(queue) /\ \A v \in Busy \ {w} : running[v] # m
      BY <2>1, <2>2 DEF TickInv, OneUpdatePerTick
    <2>5. OneUpdatePerTick'
      BY <2>1, <2>2, <2>4 DEF TickInv, OneUpdatePerTick
    <2>6. BaseFirst'
      BY <2>1, <2>3 DEF TickInv, BaseFirst
    <2>7. VisitPlan'
      <3>1. ASSUME NEW i \in toVisit'[w]
            PROVE  /\ stage'[w] = "instances"
                   /\ MapOf[i] = running'[w]
                   /\ i \notin Asked' \union updated'
        <4>1. i \in Instance /\ MapOf[i] = m /\ MapOf[i] \in Map
          BY <1>t, <2>2 DEF TypeOK
        <4>2. i \notin Asked \union updated
          BY <2>4, <4>1 DEF TickInv, BaseFirst
        <4>3. i # m
          BY <2>3, <4>2
        <4> QED  BY <2>1, <2>2, <2>3, <4>1, <4>2, <4>3
      <3>2. ASSUME NEW v \in Worker \ {w}, NEW i \in toVisit'[v]
            PROVE  /\ stage'[v] = "instances"
                   /\ MapOf[i] = running'[v]
                   /\ i \notin Asked' \union updated'
        <4>1. /\ stage[v] = "instances" /\ MapOf[i] = running[v] /\ i \notin Asked \union updated
          BY <2>2, <3>2 DEF TickInv, VisitPlan
        <4> QED  BY <2>1, <2>2, <2>3, <4>1
      <3> QED  BY <3>1, <3>2 DEF VisitPlan
    <2>8. RequestsAlive'
      BY <2>1, <2>2 DEF TickInv, RequestsAlive
    <2>9. LoopPlan' /\ NoneForgotten'
      BY <2>1, <2>3 DEF TickInv, LoopPlan, NoneForgotten
    <2> QED  BY <2>5, <2>6, <2>7, <2>8, <2>9 DEF TickInv
  <1>v. ASSUME NEW i \in Instance, i \in toVisit[w]
        PROVE  /\ w \in Busy
               /\ i \in m_InstancedMaps
               /\ i \notin Asked \union updated
               /\ MapOf[i] \in updated
               /\ \A v \in Worker \ {w} : i \notin toVisit[v]
    <2>1. stage[w] = "instances" /\ MapOf[i] = running[w] /\ i \notin Asked \union updated
      BY <1>v DEF TickInv, VisitPlan
    <2>2. w \in Busy
      BY <2>1 DEF Busy
    <2>3. i \in m_InstancedMaps /\ MapOf[i] \in updated
      BY <1>v, <2>1, <2>2 DEF TickInv, RequestsAlive, OneUpdatePerTick
    <2>4. ASSUME NEW v \in Worker \ {w}, i \in toVisit[v]  PROVE FALSE
      <3>1. v \in Busy /\ running[v] = running[w]
        BY <2>1, <2>4 DEF TickInv, VisitPlan, Busy
      <3> QED  BY <2>2, <3>1 DEF TickInv, OneUpdatePerTick
    <2> QED  BY <2>1, <2>2, <2>3, <2>4
  <1>4. ASSUME NEW i \in Instance, DestroyInstance(w, i)  PROVE TickInv'
    <2>1. /\ i \in toVisit[w]
          /\ m_InstancedMaps \ {i} \subseteq m_InstancedMaps'
          /\ toVisit' = [toVisit EXCEPT ![w] = @ \ {i}]
          /\ UNCHANGED <<manager, toSchedule, i_maps, updated, queue, refused, stage, running>>
      BY <1>4 DEF DestroyInstance, managerVars, updaterVars
    <2>2. /\ Busy' = Busy
          /\ toVisit'[w] = toVisit[w] \ {i}
          /\ \A v \in Worker \ {w} : toVisit'[v] = toVisit[v] /\ i \notin toVisit[v]
          /\ i \notin Asked
      BY <1>t, <1>v, <2>1 DEF TypeOK, Busy
    <2>3. Asked' = Asked
      BY <2>1, <2>2 DEF Asked
    <2>4. \A v \in Worker : toVisit'[v] \subseteq toVisit[v] \ {i}
      BY <2>2
    <2>5. RequestsAlive'
      <3>1. \A v \in Busy : running[v] # i
        BY <2>2 DEF Asked
      <3>2. i \notin Range(queue)
        BY <2>2 DEF Asked
      <3> QED  BY <2>1, <2>2, <2>4, <3>1, <3>2 DEF TickInv, RequestsAlive, Busy
    <2>6. OneUpdatePerTick'
      BY <2>1, <2>2 DEF TickInv, OneUpdatePerTick
    <2>7. VisitPlan'
      BY <2>1, <2>3, <2>4 DEF TickInv, VisitPlan
    <2>8. LoopPlan' /\ BaseFirst' /\ NoneForgotten'
      BY <2>1, <2>3 DEF TickInv, LoopPlan, BaseFirst, NoneForgotten
    <2> QED  BY <2>5, <2>6, <2>7, <2>8 DEF TickInv
  <1>5. ASSUME NEW i \in Instance, ScheduleInstance(w, i)  PROVE TickInv'
    <2>1. /\ i \in toVisit[w]
          /\ schedule_update(i)
          /\ toVisit' = [toVisit EXCEPT ![w] = @ \ {i}]
          /\ UNCHANGED <<manager, toSchedule, i_maps, m_InstancedMaps, updated, stage, running>>
      BY <1>5 DEF ScheduleInstance, managerVars, mapVars
    <2>2. /\ toVisit'[w] = toVisit[w] \ {i}
          /\ \A v \in Worker \ {w} : toVisit'[v] = toVisit[v] /\ i \notin toVisit[v]
          /\ i \in m_InstancedMaps
          /\ i \notin Asked \union updated
          /\ MapOf[i] \in updated
      BY <1>t, <1>v, <2>1 DEF TypeOK
    <2>a. /\ Busy' = Busy
          /\ Range(queue') \subseteq Range(queue) \union {i}
          /\ OneUpdatePerTick'
          /\ \/ Asked' = Asked \union {i} /\ refused' = refused
             \/ Asked' = Asked /\ refused' = refused \union {i}
      BY <2>1, <2>2, AskStep
    <2>4. \A v \in Worker : toVisit'[v] \subseteq toVisit[v] \ {i}
      BY <2>2
    <2>5. RequestsAlive'
      BY <2>1, <2>2, <2>a, <2>4 DEF TickInv, RequestsAlive, Busy
    <2>6. VisitPlan'
      BY <2>1, <2>a, <2>4 DEF TickInv, VisitPlan
    <2>7. LoopPlan'
      <3>1. i \notin toSchedule
        BY <1>t DEF TypeOK
      <3> QED  BY <2>1, <2>a, <3>1 DEF TickInv, LoopPlan
    <2>8. BaseFirst' /\ NoneForgotten'
      BY <2>1, <2>2, <2>a DEF TickInv, BaseFirst, NoneForgotten
    <2> QED  BY <2>a, <2>5, <2>6, <2>7, <2>8 DEF TickInv
  <1>6. CASE FinishRequest(w)
    <2> DEFINE m == running[w]
    <2>1. /\ stage[w] = "instances" /\ toVisit[w] = {}
          /\ stage' = [stage EXCEPT ![w] = "idle"]
          /\ running' = [running EXCEPT ![w] = NoMap]
          /\ UNCHANGED <<toSchedule, i_maps, m_InstancedMaps, updated, queue, refused, toVisit>>
      BY <1>6 DEF FinishRequest, mapVars
    <2>2. /\ w \in Busy /\ Busy' = Busy \ {w}
          /\ \A v \in Worker \ {w} : stage'[v] = stage[v] /\ running'[v] = running[v]
          /\ m \in updated
      BY <1>t, <2>1 DEF TypeOK, Busy, TickInv, OneUpdatePerTick
    <2>3. Asked' \subseteq Asked /\ Asked \subseteq Asked' \union {m}
      BY <2>1, <2>2 DEF Asked, Busy
    <2>4. OneUpdatePerTick'
      BY <2>1, <2>2 DEF TickInv, OneUpdatePerTick, Busy
    <2>5. VisitPlan'
      BY <2>1, <2>2, <2>3 DEF TickInv, VisitPlan
    <2>6. RequestsAlive'
      BY <2>1, <2>2 DEF TickInv, RequestsAlive, Busy
    <2>7. /\ manager = "schedule" => manager' = "schedule"
          /\ manager' \in {"schedule", "wait", "blocked"}
                => manager \in {"schedule", "wait", "blocked"}
      BY <1>6 DEF FinishRequest, update_finished
    <2>8. LoopPlan' /\ BaseFirst' /\ NoneForgotten'
      BY <2>1, <2>2, <2>3, <2>7 DEF TickInv, LoopPlan, BaseFirst, NoneForgotten
    <2> QED  BY <2>4, <2>5, <2>6, <2>8 DEF TickInv
  <1> QED  BY <1>1, <1>2, <1>3, <1>4, <1>5, <1>6 DEF Work

LEMMA TickStep == TickInv /\ [Next]_vars => TickInv'
  <1> SUFFICES ASSUME TickInv, [Next]_vars  PROVE TickInv'
    OBVIOUS
  <1>1. CountInv'
    BY CountStep DEF TickInv
  <1>2. CASE Stopped \/ UNCHANGED vars
    <2>1. vars' = vars
      BY <1>2 DEF Stopped
    <2>2. /\ UNCHANGED <<manager, toSchedule, i_maps, m_InstancedMaps, updated, queue>>
          /\ UNCHANGED <<refused, stage, running, toVisit>>
      BY <2>1 DEF vars, managerVars, mapVars, updaterVars, workerVars
    <2>3. Busy' = Busy /\ Asked' = Asked
      BY <2>2 DEF Busy, Asked
    <2> QED
      BY <1>1, <2>2, <2>3 DEF TickInv, RequestsAlive, OneUpdatePerTick, LoopPlan,
                              VisitPlan, BaseFirst, NoneForgotten
  <1> QED  BY <1>1, <1>2, ManagerTick, WorkerTick DEF Next

\* For every number of maps, instances and workers: a request never refers to a map
\* that DestroyInstance or UnloadAll has deleted, and no map is updated twice in a
\* tick or by two workers at a time, also when the queue is full.
THEOREM RequestsSafe == Spec => [](RequestsAlive /\ OneUpdatePerTick)
  <1>1. TickInv => RequestsAlive /\ OneUpdatePerTick
    BY DEF TickInv
  <1> QED  BY <1>1, InitTickInv, TickStep, PTL DEF Spec

\* The barrier is passed by one step only.
LEMMA PassOnly ==
    ASSUME [Next]_vars, manager = "wait", manager' = "world"
    PROVE  PassBarrier
  <1>1. manager' # manager
    OBVIOUS
  <1>2. ASSUME NEW w \in Worker, Work(w)  PROVE manager' # "world"
    BY <1>2 DEF Work, Dequeue, Exit, UpdateMap, DestroyInstance, ScheduleInstance,
                FinishRequest, update_finished, managerVars
  <1> QED
    BY <1>1, <1>2 DEF Next, Update, World, BeginUpdate, ScheduleMap, EndSchedule, Block,
       SpuriousWakeup, CreateMap, CreateInstance, UnloadAll, Deactivate, Join, Stopped,
       vars, managerVars

\* Whenever the world thread passes the barrier every base map has been updated in
\* this tick, but for those whose request the full queue refused.
THEOREM NoMapSkipped == Spec => EveryMapUpdated
  <1>1. TickInv /\ [Next]_vars =>
          [manager = "wait" /\ manager' = "world" => i_maps \ refused \subseteq updated]_vars
    <2> SUFFICES ASSUME TickInv, [Next]_vars, manager = "wait", manager' = "world"
                 PROVE  i_maps \ refused \subseteq updated
      OBVIOUS
    <2>1. pending_requests = 0
      BY PassOnly DEF PassBarrier
    <2>2. queue = <<>> /\ Busy = {}
      BY <2>1, BusyCounts DEF TickInv
    <2>3. Asked = {} /\ toSchedule = {}
      BY <2>2 DEF Asked, Range, TickInv, LoopPlan
    <2> QED  BY <2>3 DEF TickInv, NoneForgotten
  <1> QED  BY <1>1, InitTickInv, TickStep, PTL DEF Spec, EveryMapUpdated

-----------------------------------------------------------------------------
(* The pool implements the abstract barrier                                *)

\* Every step of the world thread is a step of the barrier or leaves it alone.
LEMMA ManagerBarrier ==
    ASSUME TickInv, TickInv', Update \/ SpuriousWakeup \/ World
    PROVE  [Barrier!Next]_<<mode, Asked>>
  <1> USE MapUpdaterAssumption
  <1>a. ASSUME UNCHANGED <<queue, stage, running>>  PROVE Asked' = Asked
    BY <1>a DEF Asked, Busy
  <1>1. ASSUME NEW m \in Map, ScheduleMap(m)  PROVE [Barrier!Next]_<<mode, Asked>>
    <2>1. /\ m \in toSchedule /\ manager = "schedule" /\ manager' = manager
          /\ UNCHANGED <<i_maps, m_InstancedMaps, updated, stage, running>>
          /\ schedule_update(m)
      BY <1>1 DEF ScheduleMap, mapVars, workerVars
    <2>2. m \in i_maps /\ m \notin Asked \union updated
      BY <2>1 DEF TickInv, LoopPlan
    <2>3. Asked' = Asked \union {m} \/ Asked' = Asked
      BY <2>1, <2>2, AskStep
    <2>4. mode = "parallel" /\ mode' = "parallel"
      BY <2>1 DEF mode
    <2> QED  BY <1>1, <2>2, <2>3, <2>4 DEF Barrier!Next, Barrier!Ask, AnyMap, Asked
  <1>2. CASE BeginUpdate
    <2>1. mode = "exclusive" /\ mode' = "parallel"
      BY <1>2 DEF BeginUpdate, mode
    <2>2. Asked' = Asked
      BY <1>2, <1>a DEF BeginUpdate, workerVars
    <2> QED  BY <2>1, <2>2 DEF Barrier!Next, Barrier!Begin, Asked
  <1>3. CASE EndSchedule \/ Block \/ SpuriousWakeup
    <2>1. mode = "parallel" /\ mode' = "parallel"
      BY <1>3 DEF EndSchedule, Block, SpuriousWakeup, mode
    <2>2. Asked' = Asked
      BY <1>3, <1>a DEF EndSchedule, Block, SpuriousWakeup, updaterVars, workerVars
    <2> QED  BY <2>1, <2>2
  <1>4. CASE PassBarrier
    <2>1. mode = "parallel" /\ mode' = "exclusive" /\ pending_requests = 0
      BY <1>4 DEF PassBarrier, mode
    <2>2. Asked' = Asked
      BY <1>4, <1>a DEF PassBarrier, updaterVars, workerVars
    <2>3. queue = <<>> /\ Busy = {}
      BY <2>1, BusyCounts DEF TickInv
    <2>4. Asked = {}
      BY <2>3 DEF Asked, Range
    <2> QED  BY <2>1, <2>2, <2>4 DEF Barrier!Next, Barrier!End, Asked
  <1>5. CASE World
    <2>1. Asked' = Asked
      BY <1>5, <1>a DEF World, CreateMap, CreateInstance, UnloadAll, Deactivate, Join,
                        updaterVars, workerVars
    <2>2. CASE UnloadAll
      <3>1. mode = "exclusive" /\ mode' = "stopped"
        BY <2>2 DEF UnloadAll, mode
      <3> QED  BY <2>1, <3>1 DEF Barrier!Next, Barrier!Stop, Asked
    <2>3. CASE ~UnloadAll
      <3>1. mode' = mode
        BY <1>5, <2>3 DEF World, CreateMap, CreateInstance, Deactivate, Join, managerVars, mode
      <3> QED  BY <2>1, <3>1
    <2> QED  BY <2>2, <2>3
  <1> QED  BY <1>1, <1>2, <1>3, <1>4, <1>5 DEF Update

\* So is every step of a worker.
LEMMA WorkerBarrier ==
    ASSUME TickInv, TickInv', NEW w \in Worker, Work(w)
    PROVE  [Barrier!Next]_<<mode, Asked>>
  <1> USE MapUpdaterAssumption
  <1>t. TypeOK
    BY DEF TickInv, CountInv
  <1>m. ASSUME manager' = manager  PROVE mode' = mode
    BY <1>m DEF mode
  <1>1. CASE Dequeue(w)
    <2>1. /\ stage[w] = "idle"
          /\ queue # <<>> /\ queue' = Tail(queue)
          /\ stage' = [stage EXCEPT ![w] = "update"]
          /\ running' = [running EXCEPT ![w] = Head(queue)]
          /\ manager' = manager
      BY <1>1 DEF Dequeue, managerVars
    <2>2. Range(queue) = Range(queue') \union {Head(queue)}
      BY <1>t, <2>1, TakeFirst DEF TypeOK, TickInv, OneUpdatePerTick, Distinct
    <2>3. /\ Busy' = Busy \union {w} /\ w \notin Busy
          /\ running'[w] = Head(queue)
          /\ \A v \in Busy : running'[v] = running[v]
      BY <1>t, <2>1 DEF TypeOK, Busy
    <2>4. Asked' = Asked
      BY <2>2, <2>3 DEF Asked
    <2> QED  BY <1>m, <2>1, <2>4
  <1>2. CASE Exit(w) \/ UpdateMap(w) \/ \E i \in Instance : DestroyInstance(w, i)
    <2>1. Busy' = Busy
      BY <1>t, <1>2 DEF Exit, UpdateMap, DestroyInstance, Busy, TypeOK
    <2>2. queue' = queue /\ running' = running /\ manager' = manager
      BY <1>2 DEF Exit, UpdateMap, DestroyInstance, managerVars, updaterVars
    <2>3. Asked' = Asked
      BY <2>1, <2>2 DEF Asked
    <2> QED  BY <1>m, <2>2, <2>3
  <1>3. ASSUME NEW i \in Instance, ScheduleInstance(w, i)  PROVE [Barrier!Next]_<<mode, Asked>>
    <2>1. /\ i \in toVisit[w] /\ stage[w] = "instances"
          /\ manager' = manager
          /\ UNCHANGED <<i_maps, m_InstancedMaps, updated, stage, running>>
          /\ schedule_update(i)
      BY <1>3 DEF ScheduleInstance, managerVars, mapVars
    <2>2. w \in Busy
      BY <2>1 DEF Busy
    <2>3. i \in m_InstancedMaps /\ i \notin Asked \union updated
      BY <2>1, <2>2 DEF TickInv, RequestsAlive, VisitPlan
    <2>4. Asked' = Asked \union {i} \/ Asked' = Asked
      BY <2>1, <2>3, AskStep
    <2>5. manager \in {"schedule", "wait", "blocked"}
      BY <2>2 DEF TickInv, CountInv, BarrierHolds
    <2>6. mode = "parallel" /\ mode' = "parallel"
      BY <2>1, <2>5 DEF mode
    <2> QED  BY <1>3, <2>3, <2>4, <2>6 DEF Barrier!Next, Barrier!Ask, AnyMap, Asked
  <1>4. CASE FinishRequest(w)
    <2>1. /\ stage[w] = "instances"
          /\ stage' = [stage EXCEPT ![w] = "idle"]
          /\ running' = [running EXCEPT ![w] = NoMap]
          /\ queue' = queue
          /\ update_finished
      BY <1>4 DEF FinishRequest
    <2>2. /\ w \in Busy /\ Busy' = Busy \ {w}
          /\ \A v \in Busy \ {w} : running'[v] = running[v]
      BY <1>t, <2>1 DEF TypeOK, Busy
    <2>3. running[w] \notin Range(queue) /\ \A v \in Busy \ {w} : running[v] # running[w]
      BY <2>2 DEF TickInv, OneUpdatePerTick
    <2>4. running[w] \in Asked /\ Asked' = Asked \ {running[w]}
      BY <2>1, <2>2, <2>3 DEF Asked
    <2>5. running[w] \in AnyMap
      BY <1>t, <2>1 DEF TypeOK
    <2>6. mode' = mode
      BY <2>1 DEF update_finished, mode
    <2> QED  BY <2>4, <2>5, <2>6 DEF Barrier!Next, Barrier!Finish, Asked
  <1> QED  BY <1>1, <1>2, <1>3, <1>4 DEF Work

\* The counter, the condition variable and the pool of threads implement the barrier
\* that the world thread relies on, for every number of maps and workers.
THEOREM BarrierImplemented == Spec => ImplementsBarrier
  <1>1. Init => Barrier!Init
    BY DEF Init, Barrier!Init, mode, Busy, Range
  <1>2. TickInv /\ TickInv' /\ [Next]_vars => [Barrier!Next]_<<mode, Asked>>
    <2> SUFFICES ASSUME TickInv, TickInv', [Next]_vars
                 PROVE  [Barrier!Next]_<<mode, Asked>>
      OBVIOUS
    <2>1. CASE Stopped \/ UNCHANGED vars
      <3>1. UNCHANGED <<manager, queue, stage, running>>
        BY <2>1 DEF Stopped, vars, managerVars, updaterVars, workerVars
      <3>2. mode' = mode /\ Asked' = Asked
        BY <3>1 DEF mode, Asked, Busy
      <3> QED  BY <3>2
    <2> QED  BY <2>1, ManagerBarrier, WorkerBarrier DEF Next
  <1>3. TickInv /\ TickInv' /\ [Next]_vars => [Barrier!Next]_Barrier!barrierVars
    BY <1>2 DEF Barrier!barrierVars, Asked
  <1> QED
    BY <1>1, <1>3, InitTickInv, TickStep, PTL DEF Spec, ImplementsBarrier, Barrier!Spec
=============================================================================

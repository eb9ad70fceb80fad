----------------------------- MODULE DownloadProofs -----------------------------
(* The download process for every set of tasks, hosts, threads and limits, by   *)
(* itself and under its coordinator: what the scheduler's counters are, that no *)
(* task is fetched twice, who runs beside whom, and the slot held for a fetch.  *)
EXTENDS DownloadCoordinator, FiniteSetTheorems, TLAPS

-----------------------------------------------------------------------------
(* The scheduler                                                                *)

\* What a thread has claimed is not changed.
SameTallies(q, r) == /\ r.keys = q.keys /\ r.byHost = q.byHost /\ r.active = q.active
                     /\ r.exclusive = q.exclusive /\ r.overdue = q.overdue

Apart(q) == q.pending \cap q.keys = {}

\* What the calls below share: only what waits, or a limit, is different.
Waits(q, r) == r \in QueueState /\ SameTallies(q, r) /\ (Apart(q) => Apart(r))

LEMMA EnqueueWaits ==
    ASSUME NEW q \in QueueState, NEW tasks \in SUBSET Task, NEW order \in SUBSET (Task \X Task)
    PROVE  /\ Waits(q, EnqueueMany(q, tasks, order))
           /\ \A t \in tasks : Waits(q, Enqueue(q, t))
<1> DEFINE fresh == tasks \ (q.keys \cup q.pending)
           inner == order \cap (fresh \X fresh)
<1>1. ASSUME NEW some \in SUBSET Task, some \cap q.keys = {}, NEW o \in SUBSET (Task \X Task)
      PROVE  Waits(q, Behind(q, some, o))
  <2>1. q.pending \cup some \in SUBSET Task
        /\ q.before \cup (q.pending \X some) \cup o \in SUBSET (Task \X Task)
    BY <1>1 DEF QueueState
  <2>2. Behind(q, some, o) \in QueueState
    BY <2>1 DEF Behind, QueueState
  <2>3. SameTallies(q, Behind(q, some, o)) /\ Behind(q, some, o).pending = q.pending \cup some
    BY DEF SameTallies, Behind, QueueState
  <2> QED BY <1>1, <2>2, <2>3 DEF Waits, Apart, SameTallies
<1>2. Waits(q, q)
  BY DEF Waits, SameTallies
<1>3. Waits(q, EnqueueMany(q, tasks, order))
  BY <1>1 DEF EnqueueMany
<1>4. ASSUME NEW t \in tasks PROVE Waits(q, Enqueue(q, t))
  BY <1>1, <1>2 DEF Enqueue
<1> QED BY <1>3, <1>4

LEMMA LimitsWait ==
    ASSUME NEW q \in QueueState, NEW keep, NEW maxParallel \in Limit, NEW perHost \in Limit
    PROVE  /\ Waits(q, Prune(q, keep)) /\ Prune(q, keep).pending = q.pending \cap keep
           /\ Waits(q, SetLimits(q, maxParallel, perHost))
           /\ Waits(q, Close(q))
BY DEF Waits, SameTallies, Apart, QueueState, Prune, SetLimits, Close

LEMMA AdmissibleWaits ==
    ASSUME NEW q \in QueueState, NEW t \in FindAdmissible(q)
    PROVE  /\ t \in q.pending
           /\ t \in Exclusive => q.active = 0
           /\ t \notin Exclusive => ~ExclusivityActive(q)
BY DEF FindAdmissible, First, QueueState

LEMMA AcquireTakes ==
    ASSUME NEW q \in QueueState, NEW t \in q.pending, NEW r, r = Acquire(q, t)
    PROVE  /\ r \in QueueState
           /\ r.pending = q.pending \ {t} /\ r.keys = q.keys \cup {t}
           /\ r.active = q.active + 1
           /\ r.byHost = [q.byHost EXCEPT ![HostOf[t]] = @ + 1]
           /\ r.exclusive = IF t \in Exclusive THEN q.exclusive + 1 ELSE q.exclusive
           /\ r.overdue <=> q.overdue /\ t \notin Exclusive
<1> DEFINE p == Prune(q, Task \ {t})
<1>1. p \in QueueState /\ p.pending = q.pending \ {t}
      /\ p.keys = q.keys /\ p.byHost = q.byHost /\ p.active = q.active
      /\ p.exclusive = q.exclusive /\ p.overdue = q.overdue
  BY DEF Prune, QueueState
<1>2. t \in Task /\ HostOf[t] \in Host
  BY SchedulerAssumption DEF QueueState
<1>3. r = [p EXCEPT !.keys = @ \cup {t}, !.byHost[HostOf[t]] = @ + 1, !.active = @ + 1,
                    !.exclusive = IF t \in Exclusive THEN @ + 1 ELSE @,
                    !.overdue = IF t \in Exclusive THEN FALSE ELSE @]
  BY DEF Acquire
<1> HIDE DEF p
<1>4. /\ r.pending = p.pending /\ r.keys = p.keys \cup {t} /\ r.active = p.active + 1
      /\ r.byHost = [p.byHost EXCEPT ![HostOf[t]] = @ + 1]
      /\ r.exclusive = IF t \in Exclusive THEN p.exclusive + 1 ELSE p.exclusive
      /\ r.overdue = IF t \in Exclusive THEN FALSE ELSE p.overdue
  BY <1>1, <1>3 DEF QueueState
<1>5. [p.byHost EXCEPT ![HostOf[t]] = @ + 1] \in [Host -> Nat]
  BY <1>1, <1>2 DEF QueueState
<1>6. r \in QueueState
  <2> DEFINE more == IF t \in Exclusive THEN p.exclusive + 1 ELSE p.exclusive
             late == IF t \in Exclusive THEN FALSE ELSE p.overdue
             hosts == [p.byHost EXCEPT ![HostOf[t]] = @ + 1]
  <2>1. more \in Nat /\ p.active + 1 \in Nat /\ p.keys \cup {t} \in SUBSET Task
    BY <1>1, <1>2 DEF QueueState
  <2>2. late \in BOOLEAN
    <3>1. p.overdue \in BOOLEAN
      BY <1>1 DEF QueueState
    <3> QED BY <3>1, Zenon
  <2>3. r = [p EXCEPT !.keys = p.keys \cup {t}, !.byHost = hosts, !.active = p.active + 1,
                      !.exclusive = more, !.overdue = late]
    BY <1>1, <1>3 DEF QueueState
  <2>4. hosts \in [Host -> Nat] /\ more \in Nat
    BY <1>5, <2>1
  <2> HIDE DEF more, late, hosts
  <2>5. /\ r = [pending |-> p.pending, before |-> p.before, keys |-> p.keys \cup {t},
                byHost |-> hosts, active |-> p.active + 1, exclusive |-> more,
                overdue |-> late, maxParallel |-> p.maxParallel, perHost |-> p.perHost,
                closed |-> p.closed]
        /\ p.pending \in SUBSET Task /\ p.before \in SUBSET (Task \X Task)
        /\ p.maxParallel \in Limit /\ p.perHost \in Limit /\ p.closed \in BOOLEAN
    BY <1>1, <2>3 DEF QueueState
  <2> QED BY <2>1, <2>2, <2>4, <2>5 DEF QueueState
<1> QED BY <1>1, <1>4, <1>6

LEMMA ReleaseGives ==
    ASSUME NEW q \in QueueState, NEW t \in Task, NEW r, r = Release(q, t),
           q.active > 0, q.byHost[HostOf[t]] > 0, t \in Exclusive => q.exclusive > 0
    PROVE  /\ r \in QueueState
           /\ r.pending = q.pending /\ r.keys = q.keys \ {t}
           /\ r.active = q.active - 1
           /\ r.byHost = [q.byHost EXCEPT ![HostOf[t]] = @ - 1]
           /\ r.exclusive = IF t \in Exclusive THEN q.exclusive - 1 ELSE q.exclusive
           /\ r.overdue <=> q.overdue /\ r.exclusive > 0
<1> DEFINE left == IF t \in Exclusive THEN q.exclusive - 1 ELSE q.exclusive
<1>1. HostOf[t] \in Host
  BY SchedulerAssumption
<1>2. [q.byHost EXCEPT ![HostOf[t]] = @ - 1] \in [Host -> Nat]
  BY <1>1 DEF QueueState
<1>3. left \in Nat /\ left = IF t \in Exclusive THEN LessOne(q.exclusive) ELSE q.exclusive
  BY DEF QueueState, LessOne
<1>4. r = [q EXCEPT !.active = q.active - 1, !.exclusive = left,
                    !.overdue = q.overdue /\ left > 0, !.keys = q.keys \ {t},
                    !.byHost = [q.byHost EXCEPT ![HostOf[t]] = @ - 1]]
  <2>1. LessOne(q.active) = q.active - 1
        /\ LessOne(q.byHost[HostOf[t]]) = q.byHost[HostOf[t]] - 1
    BY <1>1 DEF QueueState, LessOne
  <2> QED BY <1>3, <2>1 DEF Release, QueueState
<1> HIDE DEF left
<1>5. r \in QueueState
  <2> DEFINE late == q.overdue /\ left > 0
             hosts == [q.byHost EXCEPT ![HostOf[t]] = @ - 1]
  <2>1. late \in BOOLEAN /\ q.active - 1 \in Nat /\ q.keys \ {t} \in SUBSET Task
    BY DEF QueueState
  <2>2. r = [q EXCEPT !.active = q.active - 1, !.exclusive = left, !.overdue = late,
                      !.keys = q.keys \ {t}, !.byHost = hosts]
    BY <1>4
  <2> HIDE DEF late, hosts
  <2> QED BY <1>2, <1>3, <2>1, <2>2 DEF QueueState, hosts
<1>6. /\ r.pending = q.pending /\ r.keys = q.keys \ {t} /\ r.active = q.active - 1
      /\ r.byHost = [q.byHost EXCEPT ![HostOf[t]] = @ - 1] /\ r.exclusive = left
      /\ r.overdue = (q.overdue /\ left > 0)
  BY <1>4 DEF QueueState
<1> QED BY <1>5, <1>6 DEF left

-----------------------------------------------------------------------------
(* The inductive invariant                                                      *)

ThreadState == [phase: Phase, task: Task \cup {NoTask}, cancelled: BOOLEAN,
                outcome: {"none", "ok", "failed", "aborted"}]

RunningAlone == {e \in Running : exec[e].task \in Exclusive}
RegisteredThreads == {e \in Executor : Registered(e)}

\* A thread that runs has a task; what waits is not in flight.
TasksHeld == /\ \A e \in Executor : exec[e].phase # "idle" => exec[e].task \in Task
             /\ Apart(queue)

\* A fetch told to stop is one that _end_task has not dropped yet.
StopsDropped ==
    \A e \in Executor : exec[e].cancelled => Registered(e) /\ exec[e].task \in ImageModel \ desired

\* The slot is held from the first thread's acquisition until the last one's
\* release; the semaphore is the process's until the thread that released it gave
\* it back.  At shutdown threads fetch without it.
SlotOk ==
    /\ slot.count = Cardinality(RegisteredThreads)
    /\ slot.held => /\ semaphore = "download" /\ slot.count > 0
                    /\ \A e \in Executor : exec[e].phase # "releasing"
    /\ \A e \in Executor : exec[e].phase = "releasing" =>
          /\ semaphore = "download"
          /\ \A f \in Executor : exec[f].phase = "releasing" => e = f
    /\ semaphore = "download" => slot.held \/ \E e \in Executor : exec[e].phase = "releasing"
    /\ ~ending /\ (slot.ready \/ \E e \in Executor : exec[e].phase = "fetching") => slot.held

\* Nothing can be claimed during a reload.
ReloadQuiet == main = "reloading" => Running = {} /\ queue.pending = {}

Tallies == CountersExact /\ OneFetchPerTask /\ ExclusiveAlone /\ TasksHeld

Inv == TypeOK /\ Tallies /\ StopsDropped /\ SlotOk /\ ReloadQuiet

LEMMA Finite ==
    /\ IsFiniteSet(Running) /\ IsFiniteSet(RunningAlone) /\ IsFiniteSet(RegisteredThreads)
    /\ \A h : IsFiniteSet(RunningOn(h))
BY ProcessAssumption, FS_Subset DEF Running, RunningAlone, RegisteredThreads, RunningOn

-----------------------------------------------------------------------------
(* What a step does to the threads                                              *)

\* The same threads run the same tasks.
SameRuns == \A e \in Executor : /\ exec'[e].phase = "idle" <=> exec[e].phase = "idle"
                                /\ exec'[e].task = exec[e].task

LEMMA TalliesStay ==
    ASSUME Tallies, SameRuns, Apart(queue'),
           UNCHANGED <<queue.keys, queue.byHost, queue.active, queue.exclusive>>,
           queue.overdue => queue'.overdue
    PROVE  Tallies' /\ Running' = Running
<1>1. Running' = Running
  BY DEF Running, SameRuns
<1>2. (\A h : RunningOn(h)' = RunningOn(h)) /\ RunningAlone' = RunningAlone
  BY <1>1 DEF RunningOn, RunningAlone, Running, SameRuns
<1>3. {exec'[e].task : e \in Running'} = {exec[e].task : e \in Running}
  BY <1>1 DEF Running, SameRuns
<1>4. CountersExact'
  BY <1>1, <1>2, <1>3 DEF Tallies, CountersExact, RunningAlone
<1>5. OneFetchPerTask'
  BY <1>1 DEF Tallies, OneFetchPerTask, SameRuns, Running
<1>6. ExclusiveAlone'
  BY <1>1 DEF Tallies, ExclusiveAlone, SameRuns, Running
<1>7. TasksHeld'
  BY DEF Tallies, TasksHeld, SameRuns
<1> QED BY <1>1, <1>4, <1>5, <1>6, <1>7 DEF Tallies

\* No thread enters or leaves the part where it is registered or has the slot to
\* give back.
SamePlaces ==
    \A e \in Executor : /\ Registered(e)' <=> Registered(e)
                        /\ exec'[e].phase = "releasing" <=> exec[e].phase = "releasing"
                        /\ exec'[e].phase = "fetching" => exec[e].phase = "fetching"

LEMMA SlotStays ==
    ASSUME SlotOk, SamePlaces, UNCHANGED bandwidth, ending => ending'
    PROVE  SlotOk'
<1>1. RegisteredThreads' = RegisteredThreads
  BY DEF RegisteredThreads, SamePlaces
<1>2. /\ \A e \in Executor : exec'[e].phase = "releasing" <=> exec[e].phase = "releasing"
      /\ \A e \in Executor : exec'[e].phase = "fetching" => exec[e].phase = "fetching"
      /\ slot' = slot /\ semaphore' = semaphore
  BY DEF SamePlaces, bandwidth
<1> QED BY <1>1, <1>2 DEF SlotOk

LEMMA GotoMoves ==
    ASSUME TypeOK, NEW e \in Executor, NEW phase \in Phase, Goto(e, phase)
    PROVE  /\ exec' \in [Executor -> ThreadState]
           /\ exec'[e] = [exec[e] EXCEPT !.phase = phase]
           /\ exec'[e].phase = phase /\ exec'[e].task = exec[e].task
           /\ exec'[e].cancelled = exec[e].cancelled
           /\ \A f \in Executor \ {e} : exec'[f] = exec[f]
<1>1. exec \in [Executor -> ThreadState]
  BY DEF TypeOK, ThreadState
<1>2. [exec[e] EXCEPT !.phase = phase] \in ThreadState
  BY <1>1 DEF ThreadState
<1> QED BY <1>1, <1>2 DEF Goto, ThreadState

-----------------------------------------------------------------------------
(* The control thread and the main loop                                         *)

LEMMA ConfigureKeeps ==
    ASSUME Inv, messages' \in 0 .. MaxMessages,
           NEW wanted \in SUBSET ImageModel, NEW asked \in SUBSET ImageModel,
           Configure(wanted, asked)
    PROVE  Inv'
<1> USE DEF Configure, Inv
<1>1. \A e \in Executor : /\ exec'[e].phase = exec[e].phase /\ exec'[e].task = exec[e].task
                          /\ exec'[e] \in ThreadState
                          /\ exec'[e].cancelled => /\ exec[e].task \in ImageModel \ wanted
                                                   /\ Registered(e)
  <2> SUFFICES ASSUME NEW e \in Executor
               PROVE  /\ exec'[e].phase = exec[e].phase /\ exec'[e].task = exec[e].task
                      /\ exec'[e] \in ThreadState
                      /\ exec'[e].cancelled => exec[e].task \in ImageModel \ wanted /\ Registered(e)
    OBVIOUS
  <2>1. exec[e] \in ThreadState
    BY DEF TypeOK, ThreadState
  <2>2. CASE Registered(e) /\ exec[e].task \in ImageModel
    <3>1. exec'[e] = [exec[e] EXCEPT !.cancelled = Cancelled(e, wanted)]
      BY <2>2
    <3>2. Cancelled(e, wanted) \in BOOLEAN
      BY DEF Cancelled
    <3> QED BY <2>1, <2>2, <3>1, <3>2 DEF ThreadState, Cancelled
  <2>3. CASE ~(Registered(e) /\ exec[e].task \in ImageModel)
    BY <2>1, <2>3 DEF StopsDropped
  <2> QED BY <2>2, <2>3
<1>2. SameRuns /\ SamePlaces
  BY <1>1 DEF SameRuns, SamePlaces, Registered
<1>3. /\ Waits(queue, queue') /\ queue'.pending \subseteq queue.pending
  BY LimitsWait, ProcessAssumption DEF TypeOK, Limit
<1>4. Tallies' /\ Running' = Running
  BY <1>2, <1>3, TalliesStay DEF Waits, SameTallies, Tallies, TasksHeld
<1>5. exec' \in [Executor -> ThreadState]
  BY <1>1
<1>6. TypeOK'
  BY <1>3, <1>5 DEF TypeOK, Waits, ThreadState, bandwidth
<1>7. StopsDropped'
  BY <1>1 DEF StopsDropped, Registered
<1>8. SlotOk'
  BY <1>2, SlotStays
<1>9. ReloadQuiet'
  BY <1>3, <1>4 DEF ReloadQuiet
<1> QED BY <1>4, <1>6, <1>7, <1>8, <1>9

\* A step that changes no thread, slot or counter.
LEMMA QuietStep ==
    ASSUME Inv, UNCHANGED <<exec, bandwidth, desired>>, ending => ending', TypeOK',
           SameTallies(queue, queue'), Apart(queue'),
           main' = "reloading" => Running = {} /\ queue'.pending = {}
    PROVE  Inv'
<1> USE DEF Inv
<1>1. SameRuns /\ SamePlaces
  BY DEF SameRuns, SamePlaces, Registered
<1>2. Tallies' /\ Running' = Running
  BY <1>1, TalliesStay DEF SameTallies
<1>3. SlotOk'
  BY <1>1, SlotStays
<1>4. StopsDropped'
  BY DEF StopsDropped, Registered
<1>5. ReloadQuiet'
  BY <1>2 DEF ReloadQuiet
<1> QED BY <1>2, <1>3, <1>4, <1>5

LEMMA Unchanged == ASSUME Inv, UNCHANGED vars PROVE Inv'
<1>1. UNCHANGED <<queue, staging, present, attempts, exec, bandwidth, ending, main, reload, messages>>
  BY DEF vars
<1>2. TypeOK'
  BY <1>1 DEF Inv, TypeOK, staging, bandwidth
<1>3. SameTallies(queue, queue')
  BY <1>1 DEF SameTallies
<1> QED BY <1>1, <1>2, <1>3, QuietStep DEF Inv, Tallies, TasksHeld, ReloadQuiet, staging

LEMMA NoThreads == ASSUME Inv, NothingRuns PROVE Running = {} /\ queue.pending = {}
<1>1. queue.active = 0 /\ queue.pending = {}
  BY DEF NothingRuns, HasWork, Inv, TypeOK, QueueState
<1>2. Cardinality(Running) = 0
  BY <1>1 DEF Inv, Tallies, CountersExact
<1> QED BY <1>1, <1>2, Finite, FS_EmptySet

LEMMA ControlKeeps ==
    ASSUME Inv, messages' \in 0 .. MaxMessages,
           \/ \E limits \in Limits : Retune(limits[1], limits[2])
           \/ Retune(queue.maxParallel, queue.perHost)
           \/ RequestReload \/ EndProcess
    PROVE  Inv'
<1>1. Waits(queue, queue)
  BY DEF Waits, SameTallies, Inv, TypeOK
<1>2. ASSUME NEW m \in Limit, NEW h \in Limit, Retune(m, h) PROVE Inv'
  <2>1. Waits(queue, queue') /\ queue'.pending = queue.pending
    BY <1>2, LimitsWait DEF Retune, SetLimits, Inv, TypeOK, QueueState
  <2>2. TypeOK'
    BY <1>2, <2>1 DEF Retune, Inv, TypeOK, Waits, staging, bandwidth
  <2> QED BY <1>2, <2>1, <2>2, QuietStep
          DEF Retune, Waits, Inv, Tallies, TasksHeld, ReloadQuiet, staging
<1>3. ASSUME NEW limits \in Limits PROVE limits[1] \in Limit /\ limits[2] \in Limit
  BY ProcessAssumption
<1>4. queue.maxParallel \in Limit /\ queue.perHost \in Limit
  BY DEF Inv, TypeOK, QueueState
<1>5. CASE RequestReload \/ EndProcess
  <2>1. TypeOK'
    BY <1>5 DEF RequestReload, EndProcess, Inv, TypeOK, staging, bandwidth
  <2> QED BY <1>1, <1>5, <2>1, QuietStep
          DEF RequestReload, EndProcess, Waits, Inv, Tallies, TasksHeld, ReloadQuiet, staging
<1> QED BY <1>2, <1>3, <1>4, <1>5

LEMMA MainLoopKeeps ==
    ASSUME Inv, TakeBatch \/ StartReload \/ EndReload \/ QueueBatch \/ CloseScheduler
    PROVE  Inv'
<1> USE DEF staging, bandwidth
<1>1. Waits(queue, queue) /\ Apart(queue)
  BY DEF Waits, SameTallies, Inv, TypeOK, Tallies, TasksHeld
<1>2. CASE TakeBatch
  <2>1. TypeOK'
    BY <1>2, ProcessAssumption, SchedulerAssumption DEF TakeBatch, Inv, TypeOK, OneShot
  <2> QED BY <1>1, <1>2, <2>1, QuietStep DEF TakeBatch, Waits
<1>3. CASE StartReload
  <2>1. TypeOK'
    BY <1>3 DEF StartReload, Inv, TypeOK
  <2> QED BY <1>1, <1>3, <2>1, NoThreads, QuietStep DEF StartReload, Waits
<1>4. CASE EndReload
  <2>1. TypeOK'
    BY <1>4 DEF EndReload, Inv, TypeOK
  <2> QED BY <1>1, <1>4, <2>1, QuietStep DEF EndReload, Waits
<1>5. CASE QueueBatch
  <2>1. PICK inImages \in Orders((building \cap ImageModel) \ present),
             inOthers \in Orders(building \cap OneShot),
             verify \in {{}} \cup {{t} : t \in Exclusive \ offered} :
          /\ queue' = EnqueueMany(queue,
                         ((building \cap ImageModel) \ present) \cup (building \cap OneShot) \cup verify,
                         inImages \cup inOthers
                           \cup (((building \cap ImageModel) \ present) \X (building \cap OneShot))
                           \cup ((((building \cap ImageModel) \ present) \cup (building \cap OneShot))
                                   \X verify))
          /\ offered' = offered \cup verify
    BY <1>5 DEF QueueBatch
  <2>2. verify \subseteq Exclusive /\ building \subseteq Task
    BY DEF Inv, TypeOK
  <2>3. inImages \subseteq Task \X Task /\ inOthers \subseteq Task \X Task
    BY <2>2 DEF Orders
  <2>4. verify \subseteq Task /\ verify \subseteq OneShot
    BY <2>2, SchedulerAssumption, ProcessAssumption DEF OneShot
  <2>5. Waits(queue, queue')
    BY <2>1, <2>2, <2>3, <2>4, EnqueueWaits DEF Inv, TypeOK
  <2>6. TypeOK'
    BY <1>5, <2>1, <2>4, <2>5 DEF QueueBatch, Inv, TypeOK, Waits
  <2> QED BY <1>1, <1>5, <2>5, <2>6, QuietStep DEF QueueBatch, Waits
<1>6. CASE CloseScheduler
  <2>1. Waits(queue, queue')
    BY <1>6, LimitsWait, ProcessAssumption DEF CloseScheduler, Inv, TypeOK, Limit
  <2>2. TypeOK'
    BY <1>6, <2>1 DEF CloseScheduler, Inv, TypeOK, Waits
  <2> QED BY <1>1, <1>6, <2>1, <2>2, QuietStep DEF CloseScheduler, Waits
<1> QED BY <1>2, <1>3, <1>4, <1>5, <1>6

-----------------------------------------------------------------------------
(* The threads                                                                  *)

LEMMA SlotCounts ==
    ASSUME Inv, NEW f \in RegisteredThreads
    PROVE  /\ slot.count > 0
           /\ \A e \in RegisteredThreads \ {f} : slot.count > 1
<1>1. slot.count = Cardinality(RegisteredThreads) /\ slot.count \in Nat
  BY DEF Inv, SlotOk, TypeOK
<1>2. /\ IsFiniteSet(RegisteredThreads \ {f})
      /\ Cardinality(RegisteredThreads \ {f}) = Cardinality(RegisteredThreads) - 1
  BY Finite, FS_RemoveElement
<1>3. Cardinality(RegisteredThreads \ {f}) \in Nat
      /\ (RegisteredThreads \ {f} # {} => Cardinality(RegisteredThreads \ {f}) # 0)
  BY <1>2, FS_CardinalityType, FS_EmptySet
<1> QED BY <1>1, <1>2, <1>3

\* A thread with a task goes on with it.
LEMMA MovingKeepsTallies ==
    ASSUME Inv, NEW e \in Executor, exec[e].phase # "idle", NEW phase \in Phase \ {"idle"},
           Goto(e, phase), Waits(queue, queue'), UNCHANGED main
    PROVE  Tallies' /\ Running' = Running /\ ReloadQuiet'
<1>1. SameRuns
  BY GotoMoves DEF SameRuns, Inv
<1>2. Tallies' /\ Running' = Running
  BY <1>1, TalliesStay DEF Waits, SameTallies, Inv, Tallies, TasksHeld
<1>3. e \in Running
  BY DEF Running
<1> QED BY <1>2, <1>3 DEF Inv, ReloadQuiet

LEMMA Unqueued == ASSUME Inv, UNCHANGED queue PROVE Waits(queue, queue')
BY DEF Waits, SameTallies, Inv, TypeOK

LEMMA ClaimKeeps == ASSUME Inv, NEW e \in Executor, Claim(e) PROVE Inv'
<1> USE DEF Inv
<1>1. PICK t \in FindAdmissible(queue) :
            /\ queue' = Acquire(queue, t)
            /\ exec' = [exec EXCEPT ![e] = [Idle EXCEPT !.phase = "claimed", !.task = t]]
  BY DEF Claim
<1>2. /\ t \in queue.pending /\ t \in Task /\ t \notin queue.keys
      /\ t \in Exclusive => queue.active = 0
      /\ t \notin Exclusive => queue.exclusive = 0 \/ queue.overdue
  BY AdmissibleWaits DEF TypeOK, Tallies, TasksHeld, Apart, ExclusivityActive, QueueState
<1>3. /\ queue' \in QueueState
      /\ queue'.pending = queue.pending \ {t} /\ queue'.keys = queue.keys \cup {t}
      /\ queue'.active = queue.active + 1
      /\ queue'.byHost = [queue.byHost EXCEPT ![HostOf[t]] = @ + 1]
      /\ queue'.exclusive = IF t \in Exclusive THEN queue.exclusive + 1 ELSE queue.exclusive
      /\ queue'.overdue <=> queue.overdue /\ t \notin Exclusive
  <2>1. queue \in QueueState
    BY DEF TypeOK
  <2> QED BY <1>1, <1>2, <2>1, AcquireTakes
<1>4. /\ exec'[e].phase = "claimed" /\ exec'[e].task = t /\ exec'[e].cancelled = FALSE
      /\ exec[e].phase = "idle"
      /\ \A f \in Executor \ {e} : exec'[f] = exec[f]
      /\ exec' \in [Executor -> ThreadState]
  <2>1. exec \in [Executor -> ThreadState]
    BY DEF TypeOK, ThreadState
  <2>2. [Idle EXCEPT !.phase = "claimed", !.task = t] \in ThreadState
    BY <1>2 DEF Idle, ThreadState, Phase
  <2> QED BY <1>1, <2>1, <2>2 DEF Claim, Idle
<1>5. Running' = Running \cup {e} /\ e \notin Running
  BY <1>4 DEF Running
<1>6. /\ \A f \in Running : exec'[f] = exec[f] /\ f # e
      /\ \A f \in Running : exec[f].task # t
  BY <1>2, <1>4, <1>5 DEF Tallies, CountersExact, Running
<1>7. ReloadQuiet' /\ main # "reloading"
  BY <1>2 DEF Claim, ReloadQuiet
<1>8. CountersExact'
  <2>1. queue'.active = Cardinality(Running')
    <3>1. Cardinality(Running \cup {e}) = Cardinality(Running) + 1
      BY <1>5, Finite, FS_AddElement
    <3> QED BY <1>3, <1>5, <3>1 DEF Tallies, CountersExact
  <2>2. queue'.keys = {exec'[f].task : f \in Running'}
    BY <1>3, <1>4, <1>5, <1>6 DEF Tallies, CountersExact
  <2>3. ASSUME NEW h \in Host PROVE queue'.byHost[h] = Cardinality(RunningOn(h)')
    <3>1. queue.byHost[h] = Cardinality(RunningOn(h)) /\ IsFiniteSet(RunningOn(h))
          /\ queue.byHost \in [Host -> Nat]
      BY Finite DEF Tallies, CountersExact, TypeOK, QueueState
    <3>2. CASE h = HostOf[t]
      <4>1. RunningOn(h)' = RunningOn(h) \cup {e} /\ e \notin RunningOn(h)
        BY <1>4, <1>5, <1>6, <3>2 DEF RunningOn
      <4>2. queue'.byHost[h] = queue.byHost[h] + 1
        BY <1>3, <3>1, <3>2
      <4> QED BY <3>1, <4>1, <4>2, FS_AddElement
    <3>3. CASE h # HostOf[t]
      <4>1. RunningOn(h)' = RunningOn(h)
        BY <1>4, <1>5, <1>6, <3>3 DEF RunningOn
      <4>2. queue'.byHost[h] = queue.byHost[h]
        BY <1>3, <3>1, <3>3
      <4> QED BY <3>1, <4>1, <4>2
    <3> QED BY <3>2, <3>3
  <2>4. queue'.exclusive = Cardinality(RunningAlone')
    <3>1. queue.exclusive = Cardinality(RunningAlone)
      BY DEF Tallies, CountersExact, RunningAlone
    <3>2. RunningAlone' = (IF t \in Exclusive THEN RunningAlone \cup {e} ELSE RunningAlone)
          /\ e \notin RunningAlone
      BY <1>4, <1>5, <1>6 DEF RunningAlone
    <3>3. Cardinality(RunningAlone \cup {e}) = Cardinality(RunningAlone) + 1
      BY <3>2, Finite, FS_AddElement
    <3> QED BY <1>3, <3>1, <3>2, <3>3
  <2> QED BY <2>1, <2>2, <2>3, <2>4 DEF CountersExact, RunningAlone
<1>9. OneFetchPerTask'
  BY <1>4, <1>5, <1>6 DEF Tallies, OneFetchPerTask
<1>10. ExclusiveAlone'
  <2>1. CASE t \in Exclusive
    <3>1. Running = {}
      BY <1>2, <2>1, Finite, FS_EmptySet DEF Tallies, CountersExact
    <3> QED BY <1>5, <3>1 DEF ExclusiveAlone
  <2>2. CASE t \notin Exclusive
    <3>1. ASSUME NEW f \in Running, exec[f].task \in Exclusive PROVE queue.overdue
      <4>1. f \in RunningAlone
        BY <3>1 DEF RunningAlone
      <4>2. queue.exclusive # 0
        BY <4>1, Finite, FS_EmptySet DEF Tallies, CountersExact, RunningAlone
      <4> QED BY <1>2, <2>2, <4>2
    <3> QED BY <1>3, <1>4, <1>5, <1>6, <2>2, <3>1 DEF ExclusiveAlone
  <2> QED BY <2>1, <2>2
<1>11. TasksHeld'
  BY <1>2, <1>3, <1>4 DEF Tallies, TasksHeld, Apart
<1>12. TypeOK'
  BY <1>3, <1>4 DEF TypeOK, Claim, ThreadState, staging, bandwidth
<1>13. StopsDropped'
  BY <1>4 DEF StopsDropped, Registered, Claim, staging
<1>14. SlotOk'
  <2>1. SamePlaces
    BY <1>4 DEF SamePlaces, Registered
  <2> QED BY <2>1, SlotStays DEF Claim
<1> QED BY <1>7, <1>8, <1>9, <1>10, <1>11, <1>12, <1>13, <1>14 DEF Tallies

LEMMA FinishKeeps == ASSUME Inv, NEW e \in Executor, Finish(e) PROVE Inv'
<1> USE DEF Inv
<1> DEFINE t == exec[e].task
<1>1. /\ t \in Task /\ HostOf[t] \in Host
      /\ e \in Running /\ t \in queue.keys
      /\ e \in RunningOn(HostOf[t])
      /\ t \in Exclusive => e \in RunningAlone
  BY SchedulerAssumption
     DEF Finish, Tallies, TasksHeld, CountersExact, Running, RunningOn, RunningAlone
<1>2. /\ queue.active = Cardinality(Running)
      /\ \A h \in Host : queue.byHost[h] = Cardinality(RunningOn(h))
      /\ queue.exclusive = Cardinality(RunningAlone)
  BY DEF Tallies, CountersExact, RunningAlone
<1>3. ASSUME NEW S, IsFiniteSet(S), NEW f \in S
      PROVE  Cardinality(S) \in Nat /\ Cardinality(S) > 0
             /\ Cardinality(S \ {f}) = Cardinality(S) - 1
  BY <1>3, FS_CardinalityType, FS_EmptySet, FS_RemoveElement
<1>4. /\ queue' \in QueueState
      /\ queue'.pending = queue.pending /\ queue'.keys = queue.keys \ {t}
      /\ queue'.active = queue.active - 1
      /\ queue'.byHost = [queue.byHost EXCEPT ![HostOf[t]] = @ - 1]
      /\ queue'.exclusive = IF t \in Exclusive THEN queue.exclusive - 1 ELSE queue.exclusive
      /\ queue'.overdue <=> queue.overdue /\ queue'.exclusive > 0
  <2>1. queue.active > 0 /\ queue.byHost[HostOf[t]] > 0 /\ (t \in Exclusive => queue.exclusive > 0)
    BY <1>1, <1>2, <1>3, Finite
  <2>2. queue \in QueueState /\ queue' = Release(queue, t)
    BY DEF Finish, TypeOK
  <2> QED BY <1>1, <2>1, <2>2, ReleaseGives
<1>5. /\ exec'[e] = Idle
      /\ \A f \in Executor \ {e} : exec'[f] = exec[f]
      /\ exec' \in [Executor -> ThreadState]
  <2>1. exec \in [Executor -> ThreadState] /\ Idle \in ThreadState
    BY DEF TypeOK, ThreadState, Idle, Phase
  <2> QED BY <2>1 DEF Finish
<1>6. Running' = Running \ {e}
  BY <1>5 DEF Running, Idle
<1>7. \A f \in Running' : exec'[f] = exec[f] /\ exec[f].task # t
  BY <1>1, <1>5, <1>6 DEF Running, Tallies, OneFetchPerTask
<1>8. CountersExact'
  <2>1. queue'.active = Cardinality(Running')
    BY <1>1, <1>2, <1>3, <1>4, <1>6, Finite
  <2>2. queue'.keys = {exec'[f].task : f \in Running'}
    <3>1. queue.keys = {exec[f].task : f \in Running}
      BY DEF Tallies, CountersExact
    <3>2. {exec'[f].task : f \in Running'} = {exec[f].task : f \in Running} \ {t}
      BY <1>6, <1>7
    <3> QED BY <1>4, <3>1, <3>2
  <2>3. ASSUME NEW h \in Host PROVE queue'.byHost[h] = Cardinality(RunningOn(h)')
    <3>1. queue.byHost \in [Host -> Nat]
      BY DEF TypeOK, QueueState
    <3>2. CASE h = HostOf[t]
      <4>1. RunningOn(h)' = RunningOn(h) \ {e}
        BY <1>6, <1>7, <3>2 DEF RunningOn
      <4>2. queue'.byHost[h] = queue.byHost[h] - 1
        BY <1>4, <3>1, <3>2
      <4> QED BY <1>1, <1>2, <1>3, <3>2, <4>1, <4>2, Finite
    <3>3. CASE h # HostOf[t]
      <4>1. RunningOn(h)' = RunningOn(h)
        BY <1>6, <1>7, <3>3 DEF RunningOn
      <4>2. queue'.byHost[h] = queue.byHost[h]
        BY <1>4, <3>1, <3>3
      <4> QED BY <1>2, <4>1, <4>2
    <3> QED BY <3>2, <3>3
  <2>4. queue'.exclusive = Cardinality(RunningAlone')
    <3>1. RunningAlone' = IF t \in Exclusive THEN RunningAlone \ {e} ELSE RunningAlone
      BY <1>6, <1>7 DEF RunningAlone
    <3> QED BY <1>1, <1>2, <1>3, <1>4, <3>1, Finite
  <2> QED BY <2>1, <2>2, <2>3, <2>4 DEF CountersExact, RunningAlone
<1>9. OneFetchPerTask'
  BY <1>6, <1>7 DEF Tallies, OneFetchPerTask
<1>10. ExclusiveAlone'
  <2> SUFFICES ASSUME NEW f \in Running', exec'[f].task \in Exclusive, ~queue'.overdue
               PROVE  Running' = {f}
    BY DEF ExclusiveAlone
  <2>1. exec[f].task \in Exclusive /\ f \in Running /\ f # e
    BY <1>6, <1>7
  <2>2. queue.overdue
    BY <1>1, <2>1 DEF Tallies, ExclusiveAlone
  <2>3. f \in RunningAlone' /\ queue'.exclusive = Cardinality(RunningAlone')
    BY <1>8 DEF RunningAlone, CountersExact
  <2>4. IsFiniteSet(RunningAlone')
    BY <1>6, ProcessAssumption, FS_Subset DEF RunningAlone, Running
  <2>5. queue'.exclusive > 0
    BY <1>3, <2>3, <2>4
  <2> QED BY <1>4, <2>2, <2>5
<1>11. TasksHeld'
  BY <1>4, <1>5 DEF Tallies, TasksHeld, Apart, Idle
<1>12. TypeOK'
  BY <1>4, <1>5 DEF TypeOK, Finish, ThreadState, staging, bandwidth
<1>13. StopsDropped'
  BY <1>5 DEF StopsDropped, Registered, Finish, staging, Idle
<1>14. SlotOk'
  <2>1. SamePlaces
    BY <1>5 DEF SamePlaces, Registered, Finish, Idle
  <2> QED BY <2>1, SlotStays DEF Finish
<1>15. ReloadQuiet'
  BY <1>1 DEF ReloadQuiet, Finish
<1> QED BY <1>8, <1>9, <1>10, <1>11, <1>12, <1>13, <1>14, <1>15 DEF Tallies

LEMMA SlotStepsKeep ==
    ASSUME Inv, NEW e \in Executor, Begin(e) \/ TakeSlot(e) \/ WaitForSlot(e) \/ ReleaseSlot(e)
    PROVE  Inv'
<1> USE DEF Inv
<1>1. PICK phase \in Phase \ {"idle"} : Goto(e, phase)
  BY DEF Begin, TakeSlot, WaitForSlot, ReleaseSlot, Phase
<1>2. exec[e].phase # "idle" /\ UNCHANGED <<queue, main>>
  BY DEF Begin, TakeSlot, WaitForSlot, ReleaseSlot
<1>3. Tallies' /\ Running' = Running /\ ReloadQuiet'
  BY <1>1, <1>2, MovingKeepsTallies, Unqueued
<1>4. /\ exec' \in [Executor -> ThreadState]
      /\ exec'[e].phase = phase /\ exec'[e].task = exec[e].task
      /\ exec'[e].cancelled = exec[e].cancelled
      /\ \A f \in Executor \ {e} : exec'[f] = exec[f]
  BY <1>1, GotoMoves
<1>5. slot \in [count: Nat, held: BOOLEAN, ready: BOOLEAN]
  BY DEF TypeOK
<1>6. CASE Begin(e)
  <2>1. /\ exec[e].phase = "claimed" /\ exec'[e].phase \in {"first", "waiting"}
        /\ semaphore' = semaphore
    BY <1>1, <1>4, <1>6 DEF Begin, Goto, TypeOK
  <2>2. /\ slot' \in [count: Nat, held: BOOLEAN, ready: BOOLEAN]
        /\ slot'.count = slot.count + 1 /\ slot'.held = slot.held /\ slot'.ready = slot.ready
    BY <1>5, <1>6 DEF Begin
  <2>3. TypeOK'
    BY <1>4, <1>6, <2>2 DEF TypeOK, Begin, ThreadState, staging
  <2>4. StopsDropped'
    BY <1>4, <1>6, <2>1 DEF StopsDropped, Registered, Begin, staging
  <2>5. RegisteredThreads' = RegisteredThreads \cup {e} /\ e \notin RegisteredThreads
    BY <1>4, <2>1 DEF RegisteredThreads, Registered
  <2>6. slot'.count = Cardinality(RegisteredThreads')
    <3>1. Cardinality(RegisteredThreads \cup {e}) = Cardinality(RegisteredThreads) + 1
      BY <2>5, Finite, FS_AddElement
    <3> QED BY <2>2, <2>5, <3>1 DEF SlotOk
  <2>7. \A f \in Executor : /\ exec'[f].phase = "releasing" <=> exec[f].phase = "releasing"
                            /\ exec'[f].phase = "fetching" <=> exec[f].phase = "fetching"
    BY <1>4, <2>1
  <2>8. slot.held => slot'.count > 0
    BY <1>5, <2>2
  <2>9. ending' = ending
    BY <1>6 DEF Begin
  <2>10. SlotOk'
    BY <2>1, <2>2, <2>6, <2>7, <2>8, <2>9 DEF SlotOk
  <2> QED BY <1>3, <2>3, <2>4, <2>10
<1>7. CASE TakeSlot(e)
  <2>1. exec[e].phase = "first" /\ exec'[e].phase = "fetching" /\ ending' = ending
    BY <1>4, <1>7, GotoMoves DEF TakeSlot, Phase
  <2>2. /\ slot' \in [count: Nat, held: BOOLEAN, ready: BOOLEAN] /\ slot'.count = slot.count
        /\ semaphore' \in {"free", "download", "other"}
        /\ \/ semaphore = "free" /\ semaphore' = "download" /\ slot'.held = TRUE
           \/ ending /\ semaphore' = semaphore /\ slot'.held = slot.held
    BY <1>5, <1>7 DEF TakeSlot, TypeOK
  <2>3. TypeOK'
    BY <1>4, <1>7, <2>2 DEF TypeOK, TakeSlot, ThreadState, staging
  <2>4. StopsDropped'
    BY <1>4, <1>7, <2>1 DEF StopsDropped, Registered, TakeSlot, staging
  <2>5. RegisteredThreads' = RegisteredThreads /\ e \in RegisteredThreads
    BY <1>4, <2>1 DEF RegisteredThreads, Registered
  <2>6. slot'.count = Cardinality(RegisteredThreads') /\ slot'.count > 0
    BY <2>2, <2>5, SlotCounts DEF SlotOk
  <2>7. \A f \in Executor : exec'[f].phase = "releasing" <=> exec[f].phase = "releasing"
    BY <1>4, <2>1
  <2>8. SlotOk'
    BY <2>1, <2>2, <2>6, <2>7 DEF SlotOk
  <2> QED BY <1>3, <2>3, <2>4, <2>8
<1>8. CASE WaitForSlot(e)
  <2>1. /\ exec[e].phase = "waiting" /\ exec'[e].phase = "fetching"
        /\ UNCHANGED <<slot, semaphore, ending>> /\ (slot.ready \/ ending)
    BY <1>8, GotoMoves DEF WaitForSlot, Phase, bandwidth
  <2>2. TypeOK'
    BY <1>4, <1>8 DEF TypeOK, WaitForSlot, ThreadState, staging, bandwidth
  <2>3. StopsDropped'
    BY <1>4, <1>8, <2>1 DEF StopsDropped, Registered, WaitForSlot, staging
  <2>4. RegisteredThreads' = RegisteredThreads
    BY <1>4, <2>1 DEF RegisteredThreads, Registered
  <2>5. \A f \in Executor : exec'[f].phase = "releasing" <=> exec[f].phase = "releasing"
    BY <1>4, <2>1
  <2>6. SlotOk'
    BY <2>1, <2>4, <2>5 DEF SlotOk
  <2> QED BY <1>3, <2>2, <2>3, <2>6
<1>9. CASE ReleaseSlot(e)
  <2>1. /\ exec[e].phase = "releasing" /\ exec'[e].phase = "ended"
        /\ UNCHANGED <<slot, ending>> /\ semaphore' = "free"
    BY <1>9, GotoMoves DEF ReleaseSlot, Phase
  <2>2. TypeOK'
    BY <1>4, <1>9 DEF TypeOK, ReleaseSlot, ThreadState, staging, bandwidth
  <2>3. StopsDropped'
    BY <1>4, <1>9, <2>1 DEF StopsDropped, Registered, ReleaseSlot, staging
  <2>4. RegisteredThreads' = RegisteredThreads
    BY <1>4, <2>1 DEF RegisteredThreads, Registered
  <2>5. \A f \in Executor : /\ exec'[f].phase # "releasing"
                            /\ exec'[f].phase = "fetching" <=> exec[f].phase = "fetching"
    BY <1>4, <2>1 DEF SlotOk
  <2>6. ~slot.held
    BY <2>1 DEF SlotOk
  <2>7. SlotOk'
    BY <2>1, <2>4, <2>5, <2>6 DEF SlotOk
  <2> QED BY <1>3, <2>2, <2>3, <2>7
<1> QED BY <1>6, <1>7, <1>8, <1>9

LEMMA FetchKeeps == ASSUME Inv, NEW e \in Executor, Fetch(e) PROVE Inv'
<1> USE DEF Inv
<1> DEFINE last == slot.held /\ ~(slot.count > 1)
<1>1. PICK outcome \in {"ok", "failed", "aborted"} :
            exec' = [exec EXCEPT ![e].outcome = outcome, ![e].cancelled = FALSE,
                        ![e].phase = IF slot.held /\ ~SlotLeft.held THEN "releasing" ELSE "ended"]
  BY DEF Fetch
<1>2. e \in RegisteredThreads /\ exec[e].phase = "fetching" /\ e \in Running
  BY DEF Fetch, RegisteredThreads, Registered, Running
<1>3. slot \in [count: Nat, held: BOOLEAN, ready: BOOLEAN]
  BY DEF TypeOK
<1>4. slot.count > 0 /\ \A f \in RegisteredThreads \ {e} : slot.count > 1
  BY <1>2, SlotCounts
<1>5. /\ slot' \in [count: Nat, held: BOOLEAN, ready: BOOLEAN]
      /\ slot'.count = slot.count - 1
      /\ slot'.held <=> slot.held /\ slot.count > 1
      /\ slot'.ready <=> slot.ready /\ slot.count > 1
      /\ SlotLeft.held <=> slot.held /\ slot.count > 1
  <2> DEFINE stays == slot.held /\ slot.count > 1
             open == slot.ready /\ slot.count > 1
  <2>1. slot' = [count |-> slot.count - 1, held |-> stays, ready |-> open]
        /\ SlotLeft = [count |-> slot.count - 1, held |-> stays, ready |-> open]
    BY DEF Fetch, SlotLeft
  <2>2. stays \in BOOLEAN /\ open \in BOOLEAN /\ slot.count - 1 \in Nat
    BY <1>3, <1>4
  <2>3. slot' \in [count: Nat, held: BOOLEAN, ready: BOOLEAN]
        /\ slot'.count = slot.count - 1 /\ slot'.held = stays /\ slot'.ready = open
        /\ SlotLeft.held = stays
    <3> HIDE DEF stays, open
    <3> QED BY <2>1, <2>2
  <2> QED BY <2>3
<1>6. /\ exec' \in [Executor -> ThreadState]
      /\ exec'[e].phase = (IF last THEN "releasing" ELSE "ended")
      /\ exec'[e].task = exec[e].task /\ exec'[e].cancelled = FALSE
      /\ \A f \in Executor \ {e} : exec'[f] = exec[f]
  <2>1. exec \in [Executor -> ThreadState]
    BY DEF TypeOK, ThreadState
  <2>2. (IF slot.held /\ ~SlotLeft.held THEN "releasing" ELSE "ended")
          = IF last THEN "releasing" ELSE "ended"
    BY <1>5
  <2> DEFINE next == IF last THEN "releasing" ELSE "ended"
             there == [exec[e] EXCEPT !.outcome = outcome, !.cancelled = FALSE, !.phase = next]
  <2>3. next \in Phase
    BY DEF Phase
  <2>4. exec' = [exec EXCEPT ![e] = there]
    BY <1>1, <2>2
  <2> HIDE DEF next
  <2>5. /\ there \in ThreadState /\ there.phase = next
        /\ there.task = exec[e].task /\ there.cancelled = FALSE
    BY <2>1, <2>3 DEF ThreadState
  <2> HIDE DEF there
  <2> QED BY <2>1, <2>4, <2>5 DEF next
<1>7. SameRuns
  BY <1>2, <1>6 DEF SameRuns
<1>8. Tallies' /\ Running' = Running
  BY <1>7, TalliesStay DEF Fetch, Tallies, TasksHeld, Apart
<1>9. TypeOK'
  <2>1. exec[e].task \in Task
    BY <1>2 DEF Tallies, TasksHeld
  <2> QED BY <1>5, <1>6, <2>1 DEF TypeOK, Fetch, ThreadState, staging
<1>10. StopsDropped'
  BY <1>6 DEF StopsDropped, Registered, Fetch, staging
<1>11. SlotOk'
  <2>1. RegisteredThreads' = RegisteredThreads \ {e}
    BY <1>6 DEF RegisteredThreads, Registered
  <2>2. slot'.count = Cardinality(RegisteredThreads')
    BY <1>2, <1>5, <2>1, Finite, FS_RemoveElement DEF SlotOk
  <2>3. semaphore' = semaphore /\ ending' = ending
    BY DEF Fetch
  <2>4. /\ slot'.held => slot.held /\ ~last
        /\ last => slot.held /\ ~slot'.held
        /\ slot.held => slot'.held \/ last
        /\ slot'.ready => slot.ready /\ slot.count > 1
    BY <1>3, <1>5
  <2>5. slot'.held => semaphore' = "download" /\ slot'.count > 0
                      /\ \A f \in Executor : exec'[f].phase # "releasing"
    BY <1>3, <1>5, <1>6, <2>3, <2>4 DEF SlotOk
  <2>6. \A f \in Executor : exec'[f].phase = "releasing" =>
             /\ semaphore' = "download"
             /\ \A g \in Executor : exec'[g].phase = "releasing" => f = g
    BY <1>6, <2>3, <2>4 DEF SlotOk
  <2>7. semaphore' = "download" => slot'.held \/ \E f \in Executor : exec'[f].phase = "releasing"
    BY <1>2, <1>6, <2>3, <2>4 DEF SlotOk
  <2>8. ASSUME ~ending', slot'.ready \/ \E f \in Executor : exec'[f].phase = "fetching"
        PROVE  slot'.held
    <3>1. slot.held
      BY <1>2, <2>3, <2>8 DEF SlotOk
    <3>2. slot.count > 1
      BY <1>4, <1>6, <2>4, <2>8 DEF RegisteredThreads, Registered
    <3> QED BY <1>5, <3>1, <3>2
  <2> QED BY <2>2, <2>5, <2>6, <2>7, <2>8 DEF SlotOk
<1>12. ReloadQuiet'
  BY <1>2 DEF ReloadQuiet, Fetch
<1> QED BY <1>8, <1>9, <1>10, <1>11, <1>12

\* A thread past its fetch: the slot is not its concern any more.
LEMMA AfterFetch ==
    ASSUME Inv, NEW e \in Executor, exec[e].phase \in {"ended", "retrying"},
           NEW phase \in {"retrying", "finished"}, Goto(e, phase), Waits(queue, queue'),
           UNCHANGED <<staging, bandwidth, ending, main, present, reload, messages>>,
           attempts' \in [Task -> Nat]
    PROVE  Inv'
<1> USE DEF Inv
<1>1. /\ exec' \in [Executor -> ThreadState]
      /\ exec'[e].phase = phase /\ exec'[e].task = exec[e].task
      /\ exec'[e].cancelled = exec[e].cancelled
      /\ \A f \in Executor \ {e} : exec'[f] = exec[f]
  BY GotoMoves DEF Phase
<1>2. Tallies' /\ Running' = Running /\ ReloadQuiet'
  BY MovingKeepsTallies DEF Phase
<1>3. TypeOK'
  BY <1>1 DEF TypeOK, ThreadState, Waits, staging, bandwidth
<1>4. StopsDropped'
  BY <1>1 DEF StopsDropped, Registered, staging
<1>5. SlotOk'
  <2>1. SamePlaces
    BY <1>1 DEF SamePlaces, Registered
  <2> QED BY <2>1, SlotStays
<1> QED BY <1>2, <1>3, <1>4, <1>5

LEMMA EndStepsKeep ==
    ASSUME Inv, NEW e \in Executor, CountFailure(e) \/ Retry(e) \/ OfferVerify(e)
    PROVE  Inv'
<1>1. /\ exec[e].phase # "idle" /\ exec[e].task \in Task /\ e \in Running
      /\ queue \in QueueState
  BY DEF CountFailure, Retry, OfferVerify, Inv, Tallies, TasksHeld, Running, TypeOK
<1>2. Waits(queue, queue)
  BY <1>1 DEF Waits, SameTallies
<1>3. CASE CountFailure(e)
  <2>1. attempts' \in [Task -> Nat]
    BY <1>1, <1>3 DEF CountFailure, Inv, TypeOK
  <2>2. PICK phase \in {"retrying", "finished"} : Goto(e, phase)
    BY <1>3 DEF CountFailure
  <2> QED BY <1>2, <1>3, <2>1, <2>2, AfterFetch DEF CountFailure
<1>4. CASE Retry(e)
  <2>1. Waits(queue, queue')
    BY <1>1, <1>2, <1>4, EnqueueWaits DEF Retry
  <2>2. attempts' \in [Task -> Nat]
    BY <1>4 DEF Retry, Inv, TypeOK
  <2> QED BY <1>4, <2>1, <2>2, AfterFetch DEF Retry
<1>5. CASE OfferVerify(e)
  <2>1. PICK t \in Exclusive \ offered : offered' = offered \cup {t} /\ queue' = Enqueue(queue, t)
    BY <1>5 DEF OfferVerify
  <2>2. t \in Task /\ t \in OneShot
    BY SchedulerAssumption, ProcessAssumption DEF OneShot
  <2>3. Waits(queue, queue')
    BY <1>1, <2>1, <2>2, EnqueueWaits
  <2>4. TypeOK'
    BY <1>5, <2>1, <2>2, <2>3 DEF OfferVerify, Inv, TypeOK, Waits, bandwidth
  <2>5. main # "reloading"
    BY <1>1 DEF Inv, ReloadQuiet
  <2> QED BY <1>5, <2>3, <2>4, <2>5, QuietStep
          DEF OfferVerify, Waits, Inv, Tallies, TasksHeld, staging
<1> QED BY <1>3, <1>4, <1>5

LEMMA OutsideKeeps == ASSUME Inv, ExclusiveTimeout \/ OtherDownload PROVE Inv'
<1> USE DEF Inv
<1>1. SameRuns /\ SamePlaces
  BY DEF ExclusiveTimeout, OtherDownload, SameRuns, SamePlaces, Registered
<1>2. /\ UNCHANGED <<queue.pending, queue.keys, queue.byHost, queue.active, queue.exclusive>>
      /\ queue.overdue => queue'.overdue
      /\ queue' \in QueueState
  BY DEF ExclusiveTimeout, ExclusiveTimesOut, OtherDownload, TypeOK, QueueState
<1>3. Tallies' /\ Running' = Running
  BY <1>1, <1>2, TalliesStay DEF Tallies, TasksHeld, Apart
<1>4. TypeOK'
  BY <1>2 DEF ExclusiveTimeout, OtherDownload, TypeOK, staging, bandwidth
<1>5. StopsDropped'
  BY DEF StopsDropped, Registered, ExclusiveTimeout, OtherDownload, staging
<1>6. SlotOk'
  <2>1. CASE ExclusiveTimeout
    BY <1>1, <2>1, SlotStays DEF ExclusiveTimeout
  <2>2. CASE OtherDownload
    <3>1. UNCHANGED <<exec, slot, ending>> /\ semaphore # "download" /\ semaphore' # "download"
      BY <2>2 DEF OtherDownload
    <3>2. RegisteredThreads' = RegisteredThreads
      BY <3>1 DEF RegisteredThreads, Registered
    <3> QED BY <3>1, <3>2 DEF SlotOk
  <2> QED BY <2>1, <2>2
<1>7. ReloadQuiet'
  BY <1>2, <1>3 DEF ReloadQuiet, ExclusiveTimeout, OtherDownload
<1> QED BY <1>3, <1>4, <1>5, <1>6, <1>7

-----------------------------------------------------------------------------
(* The process by itself                                                        *)

\* Nothing runs, nothing is queued and the slot is free.
AtRest ==
    /\ \E limits \in Limits : queue = Queue(limits[1], limits[2])
    /\ exec = [e \in Executor |-> Idle]
    /\ slot = [count |-> 0, held |-> FALSE, ready |-> FALSE]
    /\ semaphore = "free"

LEMMA RestIsSafe == ASSUME AtRest, TypeOK PROVE Inv
<1>1. PICK limits \in Limits : queue = Queue(limits[1], limits[2])
  BY DEF AtRest
<1>2. \A e \in Executor : exec[e] = Idle
  BY DEF AtRest
<1>3. Running = {} /\ RegisteredThreads = {} /\ (\A h : RunningOn(h) = {}) /\ RunningAlone = {}
  BY <1>2 DEF Running, RegisteredThreads, Registered, RunningOn, RunningAlone, Idle
<1>4. CountersExact
  BY <1>1, <1>3, FS_EmptySet DEF CountersExact, Queue, RunningAlone
<1>5. OneFetchPerTask /\ ExclusiveAlone /\ TasksHeld
  BY <1>1, <1>2, <1>3 DEF OneFetchPerTask, ExclusiveAlone, TasksHeld, Apart, Queue, Idle
<1>6. StopsDropped
  BY <1>2 DEF StopsDropped, Idle
<1>7. SlotOk
  BY <1>2, <1>3, FS_EmptySet DEF SlotOk, AtRest, Idle
<1>8. ReloadQuiet
  BY <1>1, <1>3 DEF ReloadQuiet, Queue
<1> QED BY <1>4, <1>5, <1>6, <1>7, <1>8 DEF Inv, Tallies

LEMMA ProcessStarts == Init => Inv
<1> SUFFICES ASSUME Init PROVE Inv
  OBVIOUS
<1>1. AtRest
  BY DEF AtRest, Init
<1>2. TypeOK
  <2>1. PICK limits \in Limits : queue = Queue(limits[1], limits[2])
    BY DEF Init
  <2>2. limits[1] \in Limit /\ limits[2] \in Limit
    BY ProcessAssumption
  <2>3. queue \in QueueState
    BY <2>1, <2>2 DEF Queue, QueueState, Limit
  <2>4. Idle \in ThreadState
    BY DEF Idle, ThreadState, Phase
  <2>5. messages \in 0 .. MaxMessages
    BY ProcessAssumption DEF Init
  <2> QED BY <2>3, <2>4, <2>5, ProcessAssumption, SchedulerAssumption
          DEF Init, TypeOK, ThreadState
<1> QED BY <1>1, <1>2, RestIsSafe

LEMMA ThreadKeeps == ASSUME Inv, NEW e \in Executor, Thread(e) PROVE Inv'
BY ClaimKeeps, SlotStepsKeep, EndStepsKeep, FinishKeeps DEF Thread

LEMMA ProcessKeeps == Inv /\ [Next]_vars => Inv'
<1> SUFFICES ASSUME Inv, [Next]_vars PROVE Inv'
  OBVIOUS
<1>1. CASE Control
  <2>1. messages' \in 0 .. MaxMessages
    BY <1>1, ProcessAssumption DEF Control, Inv, TypeOK
  <2>2. CASE \E wanted \in SUBSET ImageModel : \E asked \in SUBSET wanted :
               Configure(wanted, asked)
    BY <2>1, <2>2, ConfigureKeeps
  <2>3. CASE (\E limits \in Limits : Retune(limits[1], limits[2])) \/ RequestReload \/ EndProcess
    BY <2>1, <2>3, ControlKeeps
  <2> QED BY <1>1, <2>2, <2>3 DEF Control
<1>2. CASE TakeBatch \/ StartReload \/ EndReload \/ QueueBatch \/ CloseScheduler
  BY <1>2, MainLoopKeeps
<1>3. CASE \E e \in Executor : Thread(e) \/ Fetch(e) \/ OfferVerify(e) \/ CountFailure(e)
  BY <1>3, ThreadKeeps, FetchKeeps, EndStepsKeep
<1>4. CASE ExclusiveTimeout \/ OtherDownload
  BY <1>4, OutsideKeeps
<1>5. CASE UNCHANGED vars
  BY <1>5, Unchanged
<1> QED BY <1>1, <1>2, <1>3, <1>4, <1>5 DEF Next

\* What a state of the invariant promises
LEMMA Promises ==
    Inv => /\ TypeOK /\ CountersExact /\ OneFetchPerTask /\ ExclusiveAlone
           /\ SlotHeldToFetch /\ ReloadAlone /\ CancelledIsDropped
<1> SUFFICES ASSUME Inv PROVE SlotHeldToFetch /\ ReloadAlone /\ CancelledIsDropped
  BY DEF Inv, Tallies
<1>1. ASSUME Running = {} PROVE semaphore # "download"
  <2>1. \A e \in Executor : exec[e].phase = "idle"
    BY <1>1 DEF Running
  <2>2. RegisteredThreads = {}
    BY <2>1 DEF RegisteredThreads, Registered
  <2> QED BY <2>1, <2>2, FS_EmptySet DEF Inv, SlotOk
<1>2. SlotHeldToFetch
  BY <1>1 DEF SlotHeldToFetch, Inv, SlotOk
<1> QED BY <1>2 DEF ReloadAlone, CancelledIsDropped, Inv, ReloadQuiet, StopsDropped

\* However control messages, passes of the main loop and threads interleave, the
\* process stays in the inductive invariant.
THEOREM ProcessIsSafe == Spec => []Inv
BY ProcessStarts, ProcessKeeps, PTL DEF Spec

\* Every variable of the process keeps its type: no counter goes below zero, no
\* limit is zero.
THEOREM ProcessTypes == Spec => []TypeOK
BY ProcessIsSafe, Promises, PTL

\* Admission is decided by what the threads really run (acquire, release).
THEOREM AdmissionCountsRuns == Spec => []CountersExact
BY ProcessIsSafe, Promises, PTL

\* The dedup key and the queue together keep a task to one thread.
THEOREM NoTaskTwice == Spec => []OneFetchPerTask
BY ProcessIsSafe, Promises, PTL

\* The annotator verify shares the process with no download within its time bound.
THEOREM VerifyRunsAlone == Spec => []ExclusiveAlone
BY ProcessIsSafe, Promises, PTL

\* _acquire_bandwidth_slot and _release_bandwidth_slot: one acquisition for all
\* running fetches, and one release.
THEOREM SlotCoversFetches == Spec => []SlotHeldToFetch
BY ProcessIsSafe, Promises, PTL

\* _maybe_reload_reference_database waits for the scheduler to be empty.
THEOREM NothingReadsDuringReload == Spec => []ReloadAlone
BY ProcessIsSafe, Promises, PTL

\* A fetch is aborted only if the configuration dropped its model.
THEOREM NoWantedFetchStopped == Spec => []CancelledIsDropped
BY ProcessIsSafe, Promises, PTL

-----------------------------------------------------------------------------
(* The channels between the parent and the process                              *)

RequestState == [kind: {"request"}, desired: SUBSET ImageModel, missing: SUBSET ImageModel]
Message == {Controls, ReloadDatabase} \cup RequestState
ReportState == [snapshot: SnapshotState, refChanged: BOOLEAN]

\* The set the process works to when it has read the messages p, and had d.
RequestsIn(p) == {i \in DOMAIN p : p[i].kind = "request"}
Goal(p, d) == IF RequestsIn(p) = {} THEN d
              ELSE p[CHOOSE i \in RequestsIn(p) : \A j \in RequestsIn(p) : j <= i].desired

HasLast(p) == RequestsIn(p) # {} => \E i \in RequestsIn(p) : \A j \in RequestsIn(p) : j <= i

SystemTypes ==
    /\ disk \in Disks /\ {ensured, refChanged} \subseteq BOOLEAN
    /\ configured \subseteq ImageModel /\ picked \subseteq ImageModel
    /\ view \in SnapshotState \cup {NoReport}
    /\ pipe \in Seq(Message) /\ reports \in Seq(ReportState)

\* However old a report is when it is read, what it has is on disk.
ReportsTrue ==
    /\ \A i \in DOMAIN reports : reports[i].snapshot.present \subseteq present
    /\ view # NoReport => view.present \subseteq present
    /\ requested => view # NoReport
    /\ boot \in {"starting", "loading", "scanning"} => present = {}

SystemInv == Inv /\ SystemTypes /\ HasLast(pipe) /\ ReportsTrue /\ TargetsAgree

LEMMA GoalIsLast ==
    ASSUME NEW p, NEW d, NEW i \in RequestsIn(p), \A j \in RequestsIn(p) : j <= i,
           DOMAIN p \subseteq Nat
    PROVE  Goal(p, d) = p[i].desired
<1>1. \A k \in RequestsIn(p) : (\A j \in RequestsIn(p) : j <= k) => k = i
  BY DEF RequestsIn
<1>2. (CHOOSE k \in RequestsIn(p) : \A j \in RequestsIn(p) : j <= k) = i
  BY <1>1
<1> QED BY <1>2 DEF Goal

\* A message put behind the others: the last one decides.
LEMMA Sent ==
    ASSUME NEW p \in Seq(Message), HasLast(p), NEW m \in Message, NEW d
    PROVE  /\ p \o <<m>> \in Seq(Message) /\ HasLast(p \o <<m>>)
           /\ Goal(p \o <<m>>, d) = IF m.kind = "request" THEN m.desired ELSE Goal(p, d)
<1> DEFINE q == p \o <<m>>
<1> SUFFICES /\ q \in Seq(Message) /\ HasLast(q)
             /\ Goal(q, d) = IF m.kind = "request" THEN m.desired ELSE Goal(p, d)
  OBVIOUS
<1>1. /\ q \in Seq(Message) /\ Len(p) \in Nat /\ Len(q) = Len(p) + 1
      /\ \A i \in 1 .. Len(p) : q[i] = p[i]
      /\ q[Len(p) + 1] = m
      /\ DOMAIN p = 1 .. Len(p) /\ DOMAIN q = 1 .. Len(p) + 1
      /\ DOMAIN p \subseteq Nat /\ DOMAIN q \subseteq Nat
  OBVIOUS
<1> HIDE DEF q
<1>2. CASE m.kind = "request"
  <2>1. Len(p) + 1 \in RequestsIn(q) /\ \A j \in RequestsIn(q) : j <= Len(p) + 1
    BY <1>1, <1>2 DEF RequestsIn
  <2>2. HasLast(q)
    BY <2>1 DEF HasLast
  <2>3. Goal(q, d) = q[Len(p) + 1].desired
    BY <1>1, <2>1, GoalIsLast
  <2> QED BY <1>1, <1>2, <2>2, <2>3
<1>3. CASE m.kind # "request"
  <2>1. RequestsIn(q) = RequestsIn(p)
    BY <1>1, <1>3 DEF RequestsIn
  <2>2. CASE RequestsIn(p) = {}
    BY <1>1, <1>3, <2>1, <2>2 DEF HasLast, Goal
  <2>3. CASE RequestsIn(p) # {}
    <3>1. PICK i \in RequestsIn(p) : \A j \in RequestsIn(p) : j <= i
      BY <2>3 DEF HasLast
    <3>2. Goal(p, d) = p[i].desired
      BY <1>1, <3>1, GoalIsLast
    <3>3. i \in RequestsIn(q) /\ \A j \in RequestsIn(q) : j <= i
      BY <2>1, <3>1
    <3>4. Goal(q, d) = q[i].desired
      BY <1>1, <3>3, GoalIsLast
    <3>5. q[i] = p[i]
      BY <1>1 DEF RequestsIn
    <3> QED BY <1>1, <1>3, <3>2, <3>3, <3>4, <3>5 DEF HasLast
  <2> QED BY <2>2, <2>3
<1> QED BY <1>2, <1>3

\* A message taken from the front: a request taken is what the process has.
LEMMA Taken ==
    ASSUME NEW p \in Seq(Message), HasLast(p), p # <<>>, NEW d, NEW q, q = Tail(p)
    PROVE  /\ q \in Seq(Message) /\ HasLast(q) /\ Head(p) \in Message
           /\ Goal(p, d) = Goal(q, IF Head(p).kind = "request" THEN Head(p).desired ELSE d)
<1> DEFINE e == IF Head(p).kind = "request" THEN Head(p).desired ELSE d
<1>1. /\ q \in Seq(Message) /\ Len(p) \in Nat \ {0} /\ Len(q) = Len(p) - 1
      /\ \A i \in 1 .. Len(p) - 1 : q[i] = p[i + 1]
      /\ Head(p) = p[1] /\ Head(p) \in Message
      /\ DOMAIN p = 1 .. Len(p) /\ DOMAIN q = 1 .. Len(p) - 1
      /\ DOMAIN p \subseteq Nat /\ DOMAIN q \subseteq Nat
  OBVIOUS
<1>2. /\ \A i \in RequestsIn(q) : i \in Nat /\ i >= 1 /\ i + 1 \in RequestsIn(p)
      /\ \A i \in RequestsIn(p) \ {1} : i \in Nat /\ i > 1 /\ i - 1 \in RequestsIn(q)
  BY <1>1 DEF RequestsIn
<1>3. CASE RequestsIn(p) = {}
  <2>1. RequestsIn(q) = {} /\ Head(p).kind # "request"
    BY <1>1, <1>2, <1>3 DEF RequestsIn
  <2> QED BY <1>1, <1>3, <2>1 DEF HasLast, Goal
<1>4. CASE RequestsIn(p) # {}
  <2>1. PICK i \in RequestsIn(p) : \A j \in RequestsIn(p) : j <= i
    BY <1>4 DEF HasLast
  <2>2. Goal(p, d) = p[i].desired
    BY <1>1, <2>1, GoalIsLast
  <2>3. i \in 1 .. Len(p) /\ p[i].kind = "request"
    BY <1>1 DEF RequestsIn
  <2>4. CASE i = 1
    <3>1. ASSUME NEW k \in RequestsIn(q) PROVE FALSE
      <4>1. k + 1 <= 1 /\ k \in Nat /\ k >= 1
        BY <1>2, <2>1, <2>4
      <4> QED BY <4>1
    <3>2. Goal(q, e) = e /\ HasLast(q)
      BY <3>1 DEF HasLast, Goal
    <3>3. e = p[i].desired
      BY <1>1, <2>3, <2>4
    <3> QED BY <1>1, <2>2, <3>2, <3>3
  <2>5. CASE i # 1
    <3>1. i - 1 \in RequestsIn(q) /\ \A j \in RequestsIn(q) : j <= i - 1
      BY <1>2, <2>1, <2>5
    <3>2. Goal(q, e) = q[i - 1].desired
      BY <1>1, <3>1, GoalIsLast
    <3>3. q[i - 1] = p[i]
      BY <1>1, <2>3, <2>5
    <3> QED BY <1>1, <2>2, <3>1, <3>2, <3>3 DEF HasLast
  <2> QED BY <2>4, <2>5
<1> QED BY <1>3, <1>4

LEMMA TargetIsGoal == Target = Goal(pipe, desired) /\ Target' = Goal(pipe', desired')
BY DEF Target, Requests, Goal, RequestsIn

\* What is sent, or not sent, for the set wanted: the process then works to a
\* set of wanted models, and lacks no more than the report has on disk.
LEMMA ReconcileSends ==
    ASSUME NEW report \in SnapshotState \cup {NoReport},
           NEW models \in SUBSET ImageModel, NEW extra \in SUBSET ImageModel, NEW previous,
           NEW p \in Seq(Message), HasLast(p), NEW d,
           Goal(p, d) \subseteq models \cup extra \cup previous
    PROVE  LET q == p \o Reconcile(report, models, extra, previous)
           IN /\ q \in Seq(Message) /\ HasLast(q)
              /\ Goal(q, d) \subseteq models \cup extra
              /\ (models \cup extra) \ Goal(q, d) \subseteq Known(report).present
<1> DEFINE q == p \o Reconcile(report, models, extra, previous)
<1> SUFFICES /\ q \in Seq(Message) /\ HasLast(q)
             /\ Goal(q, d) \subseteq models \cup extra
             /\ (models \cup extra) \ Goal(q, d) \subseteq Known(report).present
  OBVIOUS
<1> DEFINE wanted == models \cup extra
           missing == wanted \ Known(report).present
           m == Request(wanted, missing)
<1>1. m \in Message /\ m.kind = "request" /\ m.desired = wanted
  BY DEF Request, Message, RequestState
<1>2. CASE Reconcile(report, models, extra, previous) = <<m>>
  <2>1. q = p \o <<m>>
    BY <1>2
  <2> HIDE DEF m, wanted, missing, q
  <2>2. /\ p \o <<m>> \in Seq(Message) /\ HasLast(p \o <<m>>)
        /\ Goal(p \o <<m>>, d) = IF m.kind = "request" THEN m.desired ELSE Goal(p, d)
    BY <1>1, Sent
  <2> QED BY <1>1, <2>1, <2>2 DEF wanted
<1>3. CASE /\ Reconcile(report, models, extra, previous) = <<>>
           /\ missing = {} /\ previous \ wanted = {}
  <2>1. q = p
    BY <1>3
  <2> HIDE DEF q
  <2> QED BY <1>3, <2>1
<1> QED BY <1>2, <1>3 DEF Reconcile

-----------------------------------------------------------------------------
(* The process under the coordinator                                            *)

Booting == boot \in {"starting", "loading", "scanning"}

LEMMA QuietReports ==
    ASSUME ReportsTrue, UNCHANGED <<reports, view, requested>>, present \subseteq present',
           Booting' => present' = {}
    PROVE  ReportsTrue'
BY DEF ReportsTrue, Booting

\* Wherever a report is put among the others, nothing but it is new.
LEMMA Inserted ==
    ASSUME NEW S, NEW s \in Seq(S), NEW e \in S, NEW i \in 1 .. Len(s) + 1
    PROVE  /\ InsertAt(s, i, e) \in Seq(S)
           /\ \A k \in DOMAIN InsertAt(s, i, e) :
                InsertAt(s, i, e)[k] = e \/ \E j \in DOMAIN s : InsertAt(s, i, e)[k] = s[j]
<1> DEFINE front == SubSeq(s, 1, i - 1)
           back == SubSeq(s, i, Len(s))
<1>1. /\ front \in Seq(S) /\ Len(front) = i - 1 /\ \A k \in 1 .. i - 1 : front[k] = s[k]
      /\ i \in Nat /\ i >= 1 /\ Len(s) \in Nat
  OBVIOUS
<1>2. /\ back \in Seq(S) /\ Len(back) = Len(s) + 1 - i
      /\ \A k \in 1 .. Len(s) + 1 - i : back[k] = s[i + k - 1]
  OBVIOUS
<1>3. InsertAt(s, i, e) = (front \o <<e>>) \o back
  BY DEF InsertAt
<1> HIDE DEF front, back
<1> DEFINE most == front \o <<e>>
<1>4. /\ most \in Seq(S) /\ Len(most) = i
      /\ \A k \in 1 .. i - 1 : most[k] = s[k]
      /\ most[i] = e
  BY <1>1
<1>5. InsertAt(s, i, e) = most \o back
  BY <1>3
<1> HIDE DEF most
<1>6. /\ most \o back \in Seq(S) /\ DOMAIN (most \o back) = 1 .. Len(s) + 1
      /\ \A k \in 1 .. i : (most \o back)[k] = most[k]
      /\ \A k \in i + 1 .. Len(s) + 1 : (most \o back)[k] = back[k - i]
  BY <1>1, <1>2, <1>4
<1>7. ASSUME NEW k \in 1 .. Len(s) + 1
      PROVE  (most \o back)[k] = e \/ \E j \in DOMAIN s : (most \o back)[k] = s[j]
  <2>1. CASE k < i
    <3>1. k \in 1 .. i - 1 /\ k \in 1 .. i /\ k \in DOMAIN s
      BY <1>1, <2>1
    <3>2. (most \o back)[k] = most[k] /\ most[k] = s[k]
      BY <1>4, <1>6, <3>1
    <3> QED BY <3>1, <3>2
  <2>2. CASE k = i
    <3>1. i \in 1 .. i
      BY <1>1
    <3> QED BY <1>4, <1>6, <2>2, <3>1
  <2>3. CASE k > i
    <3>1. /\ k - i \in 1 .. Len(s) + 1 - i /\ i + (k - i) - 1 = k - 1
          /\ k - 1 \in DOMAIN s
      BY <1>1, <2>3
    <3>2. k \in i + 1 .. Len(s) + 1
      BY <1>1, <2>3
    <3>3. (most \o back)[k] = back[k - i] /\ back[k - i] = s[k - 1]
      BY <1>2, <1>6, <3>1, <3>2
    <3> QED BY <3>1, <3>3
  <2>4. k < i \/ k = i \/ k > i
    BY <1>1
  <2> QED BY <2>1, <2>2, <2>3, <2>4
<1> QED BY <1>5, <1>6, <1>7

\* A report tells what is on disk when it is built.
LEMMA EmitKeeps ==
    ASSUME SystemTypes, ReportsTrue, Inv', NEW thread, NEW scanned \in BOOLEAN,
           Emit(thread, scanned), ensured' \in BOOLEAN,
           UNCHANGED <<view, requested>>, present \subseteq present', Booting' => present' = {}
    PROVE  ReportsTrue' /\ reports' \in Seq(ReportState) /\ refChanged' \in BOOLEAN
<1> DEFINE new == Snapshot(scanned)'
           last == [snapshot |-> new, refChanged |-> refChanged]
<1>1. new \in SnapshotState /\ new.present = present' \cap ImageModel
  <2> DEFINE going == staged' \cup (queue').pending \cup ActiveTasks'
             safe == Safety \in present'
             there == present' \cap ImageModel
  <2>1. new = [scan |-> scanned, present |-> there, inFlight |-> going, safety |-> safe,
               attempted |-> ensured']
    BY DEF Snapshot
  <2>2. there \in SUBSET ImageModel /\ safe \in BOOLEAN
    OBVIOUS
  <2>3. going \in SUBSET Task
    <3>1. staged' \subseteq Task /\ (queue').pending \subseteq Task
      BY ProcessAssumption DEF Inv, TypeOK, QueueState
    <3>2. ActiveTasks' \subseteq Task
      BY DEF ActiveTasks, Registered, Inv, Tallies, TasksHeld
    <3> QED BY <3>1, <3>2
  <2>4. new \in SnapshotState /\ new.present = there
    <3> HIDE DEF there, going, safe, new
    <3> QED BY <2>1, <2>2, <2>3 DEF SnapshotState
  <2> QED BY <2>4
<1> HIDE DEF new
<1>2. PICK i \in DOMAIN reports \cup {Len(reports) + 1} : reports' = InsertAt(reports, i, last)
  BY DEF Emit, new
<1>3. /\ last \in ReportState /\ last.snapshot = new /\ refChanged' = FALSE
      /\ reports \in Seq(ReportState) /\ i \in 1 .. Len(reports) + 1
  BY <1>1, <1>2 DEF SystemTypes, ReportState, Emit
<1> HIDE DEF last
<1>4. /\ reports' \in Seq(ReportState)
      /\ \A k \in DOMAIN reports' :
           reports'[k] = last \/ \E j \in DOMAIN reports : reports'[k] = reports[j]
  BY <1>2, <1>3, Inserted
<1>5. ASSUME NEW k \in DOMAIN reports' PROVE reports'[k].snapshot.present \subseteq present'
  BY <1>1, <1>3, <1>4 DEF ReportsTrue
<1> QED BY <1>3, <1>4, <1>5 DEF ReportsTrue, Booting

\* A step of the process that takes no message.
LEMMA ProcessStep ==
    ASSUME SystemInv, Inv', UNCHANGED <<desired, configured, picked, requested, view, pipe, disk>>,
           ensured' \in BOOLEAN, present \subseteq present', Booting' => present' = {},
           \/ UNCHANGED reports /\ refChanged' \in BOOLEAN
           \/ \E thread, scanned : scanned \in BOOLEAN /\ Emit(thread, scanned)
    PROVE  SystemInv'
<1> USE DEF SystemInv
<1>1. ReportsTrue' /\ reports' \in Seq(ReportState) /\ refChanged' \in BOOLEAN
  <2>1. CASE UNCHANGED reports /\ refChanged' \in BOOLEAN
    BY <2>1, QuietReports DEF SystemTypes
  <2>2. CASE \E thread, scanned : scanned \in BOOLEAN /\ Emit(thread, scanned)
    BY <2>2, EmitKeeps
  <2> QED BY <2>1, <2>2
<1>2. SystemTypes'
  BY <1>1 DEF SystemTypes
<1>3. Target' = Target
  BY TargetIsGoal
<1>4. TargetsAgree'
  BY <1>3 DEF TargetsAgree, Wanted
<1> QED BY <1>1, <1>2, <1>4

LEMMA BootingNothing == SystemInv /\ Booting => present = {}
BY DEF SystemInv, ReportsTrue, Booting

LEMMA BootSteps ==
    ASSUME SystemInv, Start \/ Load \/ Scan \/ Report \/ Die
    PROVE  SystemInv'
<1> USE DEF parent, process, child
<1>1. ensured \in BOOLEAN /\ refChanged \in BOOLEAN /\ disk \subseteq Task
      /\ disk \cap {Safety} \subseteq OneShot
  BY CoordinatorAssumption, ProcessAssumption DEF SystemInv, SystemTypes, OneShot
<1>2. CASE Start \/ Load \/ Report \/ Die
  <2>1. UNCHANGED vars
    BY <1>2 DEF Start, Load, Report, Die
  <2>2. Inv'
    BY <2>1, Unchanged DEF SystemInv
  <2>3. present' = present /\ desired' = desired
    BY <2>1 DEF vars, staging
  <2>4. Booting' => Booting
    BY <1>2 DEF Start, Load, Report, Die, Booting
  <2>5. \/ UNCHANGED <<reports, refChanged>>
        \/ \E thread, scanned : scanned \in BOOLEAN /\ Emit(thread, scanned)
    BY <1>2 DEF Start, Load, Report, Die
  <2>6. UNCHANGED <<configured, picked, requested, view, pipe, disk, ensured>>
    BY <1>2 DEF Start, Load, Report, Die
  <2> QED BY <1>1, <2>2, <2>3, <2>4, <2>5, <2>6, BootingNothing, ProcessStep
<1>3. CASE Scan
  <2>1. TypeOK'
    BY <1>1, <1>3 DEF Scan, SystemInv, Inv, TypeOK
  <2>2. UNCHANGED <<exec, bandwidth, desired, ending, queue, main>>
    BY <1>3 DEF Scan, bandwidth
  <2>3. Inv'
    BY <2>1, <2>2, QuietStep
       DEF SystemInv, Inv, SameTallies, Tallies, TasksHeld, ReloadQuiet
  <2>4. /\ ~Booting' /\ present = {}
        /\ \E thread, scanned : scanned \in BOOLEAN /\ Emit(thread, scanned)
        /\ UNCHANGED <<configured, picked, requested, view, pipe, disk>>
    BY <1>3, BootingNothing DEF Scan, Booting
  <2>5. ensured' \in BOOLEAN
    BY <1>3 DEF Scan
  <2> QED BY <2>2, <2>3, <2>4, <2>5, ProcessStep
<1> QED BY <1>2, <1>3

LEMMA WorkSteps ==
    ASSUME SystemInv,
           MainLoop \/ \E e \in Executor : ChildFetch(e) \/ EndTask(e) \/ ChildThread(e)
    PROVE  SystemInv'
<1> USE DEF Works, parent
<1>1. ensured \in BOOLEAN /\ refChanged \in BOOLEAN /\ Inv
  BY DEF SystemInv, SystemTypes
<1>2. Works /\ UNCHANGED <<configured, picked, requested, view, pipe, disk, reports>> /\ ~Booting'
  BY DEF MainLoop, ChildFetch, EndTask, ChildThread, Booting
<1>3. CASE MainLoop
  <2>1. Inv'
    BY <1>1, <1>3, MainLoopKeeps DEF MainLoop
  <2>2. UNCHANGED <<desired, present, ensured, refChanged>>
    BY <1>3 DEF MainLoop, TakeBatch, QueueBatch, StartReload, EndReload, staging
  <2> QED BY <1>1, <1>2, <2>1, <2>2, ProcessStep
<1>4. ASSUME NEW e \in Executor, ChildFetch(e) PROVE SystemInv'
  <2>1. Inv'
    BY <1>1, <1>4, FetchKeeps DEF ChildFetch
  <2>2. desired' = desired /\ present \subseteq present'
    BY <1>4 DEF ChildFetch, Fetch, staging
  <2>3. ensured' \in BOOLEAN /\ refChanged' = refChanged
    BY <1>1, <1>4 DEF ChildFetch
  <2> QED BY <1>1, <1>2, <2>1, <2>2, <2>3, ProcessStep
<1>5. ASSUME NEW e \in Executor, EndTask(e) PROVE SystemInv'
  <2>1. Inv'
    BY <1>1, <1>5, EndStepsKeep DEF EndTask
  <2>2. UNCHANGED <<desired, present, ensured>> /\ refChanged' = TRUE
    BY <1>5 DEF EndTask, CountFailure, staging
  <2> QED BY <1>1, <1>2, <2>1, <2>2, ProcessStep
<1>6. ASSUME NEW e \in Executor, ChildThread(e) PROVE SystemInv'
  <2>1. Inv'
    BY <1>1, <1>6, ThreadKeeps DEF ChildThread
  <2>2. UNCHANGED <<desired, present, ensured, refChanged>>
    BY <1>6 DEF ChildThread, Thread, Claim, Begin, TakeSlot, WaitForSlot, ReleaseSlot, Retry,
                Finish, staging
  <2> QED BY <1>1, <1>2, <2>1, <2>2, ProcessStep
<1> QED BY <1>3, <1>4, <1>5, <1>6

LEMMA ReceiveSteps ==
    ASSUME SystemInv, ReceiveRequest \/ ReceiveControls \/ ReceiveReload
    PROVE  SystemInv'
<1> USE DEF parent
<1>1. PICK message : Receive(message)
  BY DEF ReceiveRequest, ReceiveControls, ReceiveReload
<1>2. /\ pipe # <<>> /\ message = Head(pipe) /\ pipe' = Tail(pipe) /\ pipe \in Seq(Message)
      /\ UNCHANGED <<messages, boot, ensured, disk, configured, picked, requested, view>>
      /\ messages' \in 0 .. MaxMessages
  BY <1>1 DEF Receive, SystemInv, SystemTypes, Inv, TypeOK
<1>3. /\ pipe' \in Seq(Message) /\ HasLast(pipe') /\ message \in Message
      /\ Goal(pipe, desired)
           = Goal(pipe', IF message.kind = "request" THEN message.desired ELSE desired)
  BY <1>2, Taken DEF SystemInv
<1>4. /\ Inv' /\ present' = present
      /\ desired' = IF message.kind = "request" THEN message.desired ELSE desired
      /\ UNCHANGED <<reports, refChanged>> \/ Emit("control", TRUE)
  <2>1. CASE ReceiveRequest
    <3>1. PICK m \in ToSet(pipe) : /\ m.kind = "request" /\ Receive(m)
                                   /\ Configure(m.desired, m.missing)
                                   /\ UNCHANGED <<reports, refChanged>> \/ Emit("control", TRUE)
      BY <2>1 DEF ReceiveRequest, Answer
    <3>2. m = message
      BY <1>2, <3>1 DEF Receive
    <3>3. m.desired \in SUBSET ImageModel /\ m.missing \in SUBSET ImageModel
      BY <1>3, <3>1, <3>2 DEF Message, RequestState, Controls, ReloadDatabase
    <3>4. Inv'
      BY <1>2, <3>1, <3>3, ConfigureKeeps DEF SystemInv
    <3> QED BY <3>1, <3>2, <3>4 DEF Configure
  <2>2. CASE ReceiveControls
    <3>1. Retune(queue.maxParallel, queue.perHost) /\ message = Controls
          /\ (UNCHANGED <<reports, refChanged>> \/ Emit("control", TRUE))
      BY <1>2, <2>2 DEF ReceiveControls, Receive, Answer
    <3>2. Inv'
      BY <1>2, <3>1, ControlKeeps DEF SystemInv
    <3> QED BY <3>1, <3>2 DEF Retune, Controls, staging
  <2>3. CASE ReceiveReload
    <3>1. message = ReloadDatabase /\ UNCHANGED <<reports, refChanged>>
          /\ (RequestReload \/ UNCHANGED vars)
      BY <1>2, <2>3 DEF ReceiveReload, Receive, child
    <3>2. Inv'
      BY <1>2, <3>1, ControlKeeps, Unchanged DEF SystemInv
    <3> QED BY <3>1, <3>2 DEF RequestReload, ReloadDatabase, staging, vars
  <2> QED BY <2>1, <2>2, <2>3
<1>5. Target' = Target
  BY <1>3, <1>4, TargetIsGoal
<1>6. TargetsAgree'
  BY <1>2, <1>4, <1>5 DEF TargetsAgree, Wanted, SystemInv
<1>7. ReportsTrue' /\ reports' \in Seq(ReportState) /\ refChanged' \in BOOLEAN
  <2>1. Booting' => present' = {}
    BY <1>2, <1>4, BootingNothing DEF Booting
  <2>2. CASE UNCHANGED <<reports, refChanged>>
    BY <1>2, <1>4, <2>1, <2>2, QuietReports DEF SystemInv, SystemTypes
  <2>3. CASE Emit("control", TRUE)
    <3>1. ensured' \in BOOLEAN
      BY <1>2 DEF SystemInv, SystemTypes
    <3> QED BY <1>2, <1>4, <2>1, <2>3, <3>1, EmitKeeps DEF SystemInv
  <2> QED BY <1>4, <2>2, <2>3
<1>8. SystemTypes'
  BY <1>2, <1>3, <1>7 DEF SystemTypes, SystemInv
<1> QED BY <1>3, <1>4, <1>6, <1>7, <1>8 DEF SystemInv

\* A step of the parent that sends nothing and reads nothing.
LEMMA PoolSteps ==
    ASSUME SystemInv, Tick \/ GraceOver \/ EnterHold \/ LeaveHold \/ UNCHANGED systemVars
    PROVE  SystemInv'
<1>1. UNCHANGED <<vars, disk, boot, ensured, refChanged, configured, picked, requested, view,
                  pipe, reports>>
  BY DEF Tick, GraceOver, EnterHold, LeaveHold, systemVars, process, parent, child
<1>2. UNCHANGED <<present, desired>>
  BY <1>1 DEF vars, staging
<1>3. Inv'
  BY <1>1, Unchanged DEF SystemInv
<1>4. ensured' \in BOOLEAN /\ refChanged' \in BOOLEAN /\ (Booting' => present' = {})
  BY <1>1, <1>2, BootingNothing DEF Booting, SystemInv, SystemTypes
<1> QED BY <1>1, <1>2, <1>3, <1>4, ProcessStep

LEMMA ReadReportKeeps == ASSUME SystemInv, ReadReport PROVE SystemInv'
<1> USE DEF process
<1>1. UNCHANGED <<vars, disk, boot, ensured, refChanged, configured, picked>>
  BY DEF ReadReport, child
<1>2. UNCHANGED <<present, desired>>
  BY <1>1 DEF vars, staging
<1>3. Inv'
  BY <1>1, Unchanged DEF SystemInv
<1>4. /\ reports \in Seq(ReportState) /\ reports # <<>> /\ reports' = Tail(reports)
      /\ view' = reports[1].snapshot /\ view' \in SnapshotState /\ 1 \in DOMAIN reports
      /\ view' # NoReport
  <2>1. reports \in Seq(ReportState) /\ reports # <<>> /\ reports' = Tail(reports)
        /\ view' = Head(reports).snapshot
    BY DEF ReadReport, SystemInv, SystemTypes
  <2>2. Head(reports) = reports[1] /\ reports[1] \in ReportState /\ 1 \in DOMAIN reports
    BY <2>1
  <2>3. reports[1].snapshot \in SnapshotState
    BY <2>2 DEF ReportState
  <2> QED BY <2>1, <2>2, <2>3, CoordinatorAssumption
<1>5. /\ reports' \in Seq(ReportState)
      /\ \A i \in DOMAIN reports' : i + 1 \in DOMAIN reports /\ i \in Nat /\ i >= 1
                                    /\ reports'[i] = reports[i + 1]
  BY <1>4
<1>7. ReportsTrue' /\ view'.present \subseteq present'
  BY <1>1, <1>2, <1>4, <1>5 DEF SystemInv, ReportsTrue
<1>8. /\ pipe' \in Seq(Message) /\ HasLast(pipe') /\ TargetsAgree'
  <2> DEFINE first == IF Head(reports).refChanged THEN <<ReloadDatabase>> ELSE <<>>
             rest == IF view'.scan /\ ~requested
                     THEN Reconcile(view', configured, picked, {}) ELSE <<>>
             mid == pipe \o first
  <2>1. pipe' = mid \o rest /\ requested' = (requested \/ view'.scan)
    BY DEF ReadReport
  <2>2. mid \in Seq(Message) /\ HasLast(mid) /\ Goal(mid, desired) = Target
    <3>1. pipe \in Seq(Message) /\ HasLast(pipe) /\ Target = Goal(pipe, desired)
      BY TargetIsGoal DEF SystemInv, SystemTypes
    <3>2. CASE first = <<>>
      <4>1. pipe \o <<>> = pipe
        BY <3>1
      <4> QED BY <3>1, <3>2, <4>1
    <3>3. CASE first = <<ReloadDatabase>>
      <4>1. ReloadDatabase \in Message /\ ReloadDatabase.kind # "request"
        BY DEF Message, ReloadDatabase
      <4> QED BY <3>1, <3>3, <4>1, Sent
    <3> QED BY <3>2, <3>3
  <2> HIDE DEF mid
  <2>3. /\ configured \in SUBSET ImageModel /\ picked \in SUBSET ImageModel
        /\ Target \subseteq Wanted /\ Wanted' = Wanted
        /\ requested => Wanted \ Target \subseteq present
    BY <1>1 DEF SystemInv, SystemTypes, TargetsAgree, Wanted, ReportsTrue
  <2>4. Target' = Goal(pipe', desired)
    BY <1>2, TargetIsGoal
  <2>5. CASE view'.scan /\ ~requested
    <3>1. pipe' = mid \o Reconcile(view', configured, picked, {})
      BY <2>1, <2>5
    <3>2. Goal(mid, desired) \subseteq (configured \cup picked \cup {})
      BY <2>2, <2>3 DEF Wanted
    <3>3. /\ pipe' \in Seq(Message) /\ HasLast(pipe')
          /\ Goal(pipe', desired) \subseteq configured \cup picked
          /\ (configured \cup picked) \ Goal(pipe', desired) \subseteq Known(view').present
      BY <1>4, <2>2, <2>3, <3>1, <3>2, ReconcileSends
    <3>4. Known(view').present = view'.present
      BY <1>4 DEF Known
    <3> QED BY <1>7, <2>3, <2>4, <3>3, <3>4 DEF TargetsAgree, Wanted
  <2>6. CASE ~(view'.scan /\ ~requested)
    <3>1. pipe' = mid /\ Target' = Target
      <4>1. rest = <<>>
        BY <2>6
      <4>2. mid \o <<>> = mid
        BY <2>2
      <4> QED BY <2>1, <2>2, <2>4, <4>1, <4>2
    <3>2. requested' => requested
      BY <2>1, <2>6
    <3> QED BY <1>2, <2>2, <2>3, <3>1, <3>2 DEF TargetsAgree
  <2> QED BY <2>5, <2>6
<1> QED BY <1>1, <1>3, <1>4, <1>5, <1>7, <1>8 DEF SystemInv, SystemTypes

LEMMA ChangesKeep ==
    ASSUME SystemInv, NEW models \in SUBSET ImageModel, ReloadConfig(models) \/ Pick(models)
    PROVE  SystemInv'
<1> USE DEF process
<1>1. UNCHANGED <<vars, disk, boot, ensured, refChanged, requested, view, reports>>
  BY DEF ReloadConfig, Pick, child
<1>2. UNCHANGED <<present, desired>>
  BY <1>1 DEF vars, staging
<1>3. Inv'
  BY <1>1, Unchanged DEF SystemInv
<1>4. ReportsTrue'
  BY <1>1, <1>2 DEF SystemInv, ReportsTrue
<1>5. /\ pipe \in Seq(Message) /\ HasLast(pipe) /\ view \in SnapshotState \cup {NoReport}
      /\ configured \in SUBSET ImageModel /\ picked \in SUBSET ImageModel
      /\ Goal(pipe, desired) \subseteq configured \cup picked
      /\ requested => Known(view).present \subseteq present
  BY TargetIsGoal DEF SystemInv, SystemTypes, TargetsAgree, Wanted, ReportsTrue, Known
<1>6. /\ pipe' \in Seq(Message) /\ HasLast(pipe')
      /\ configured' \in SUBSET ImageModel /\ picked' \in SUBSET ImageModel
      /\ Goal(pipe', desired) \subseteq configured' \cup picked'
      /\ (configured' \cup picked') \ Goal(pipe', desired) \subseteq Known(view).present
  <2>1. CASE ReloadConfig(models)
    <3> DEFINE mid == pipe \o <<Controls>>
    <3>1. /\ pipe' = mid \o Reconcile(view, models, picked, configured)
          /\ configured' = models /\ picked' = picked
      BY <2>1 DEF ReloadConfig
    <3>2. Controls \in Message /\ Controls.kind # "request"
      BY DEF Message, Controls
    <3>3. mid \in Seq(Message) /\ HasLast(mid) /\ Goal(mid, desired) = Goal(pipe, desired)
      BY <1>5, <3>2, Sent
    <3> HIDE DEF mid
    <3>4. Goal(mid, desired) \subseteq (models \cup picked \cup configured)
      BY <1>5, <3>3
    <3>5. /\ pipe' \in Seq(Message) /\ HasLast(pipe')
          /\ Goal(pipe', desired) \subseteq models \cup picked
          /\ (models \cup picked) \ Goal(pipe', desired) \subseteq Known(view).present
      BY <1>5, <3>1, <3>3, <3>4, ReconcileSends
    <3> QED BY <1>5, <3>1, <3>5
  <2>2. CASE Pick(models)
    <3>1. /\ pipe' = pipe \o Reconcile(view, configured, picked', {})
          /\ configured' = configured /\ picked' = picked \cup models
      BY <2>2 DEF Pick
    <3>2. Goal(pipe, desired) \subseteq (configured \cup picked' \cup {})
          /\ picked' \in SUBSET ImageModel
      BY <1>5, <3>1
    <3>3. /\ pipe' \in Seq(Message) /\ HasLast(pipe')
          /\ Goal(pipe', desired) \subseteq configured \cup picked'
          /\ (configured \cup picked') \ Goal(pipe', desired) \subseteq Known(view).present
      <4> DEFINE extra == picked'
      <4>1. /\ extra \in SUBSET ImageModel /\ Goal(pipe, desired) \subseteq configured \cup extra \cup {}
            /\ pipe' = pipe \o Reconcile(view, configured, extra, {})
        BY <3>1, <3>2
      <4> HIDE DEF extra
      <4>2. LET q == pipe \o Reconcile(view, configured, extra, {})
            IN /\ q \in Seq(Message) /\ HasLast(q)
               /\ Goal(q, desired) \subseteq configured \cup extra
               /\ (configured \cup extra) \ Goal(q, desired) \subseteq Known(view).present
        BY <1>5, <4>1, ReconcileSends
      <4> QED BY <4>1, <4>2 DEF extra
    <3> QED BY <1>5, <3>1, <3>2, <3>3
  <2> QED BY <2>1, <2>2
<1>7. TargetsAgree'
  BY <1>1, <1>2, <1>5, <1>6, TargetIsGoal DEF TargetsAgree, Wanted
<1> QED BY <1>1, <1>3, <1>4, <1>5, <1>6, <1>7 DEF SystemInv, SystemTypes

LEMMA SystemStarts == SystemInit => SystemInv
<1> SUFFICES ASSUME SystemInit PROVE SystemInv
  OBVIOUS
<1>1. AtRest
  BY DEF AtRest, SystemInit
<1>2. TypeOK
  <2>1. PICK limits \in Limits : queue = Queue(limits[1], limits[2])
    BY DEF SystemInit
  <2>2. limits[1] \in Limit /\ limits[2] \in Limit
    BY ProcessAssumption
  <2>3. queue \in QueueState
    BY <2>1, <2>2 DEF Queue, QueueState, Limit
  <2>4. Idle \in ThreadState
    BY DEF Idle, ThreadState, Phase
  <2>5. messages \in 0 .. MaxMessages
    BY ProcessAssumption DEF SystemInit
  <2> QED BY <2>3, <2>4, <2>5 DEF SystemInit, TypeOK, ThreadState
<1>3. Inv
  BY <1>1, <1>2, RestIsSafe
<1>4. pipe = <<>> /\ reports = <<>> /\ desired = {} /\ requested = FALSE /\ view = NoReport
      /\ present = {}
  BY DEF SystemInit
<1>5. SystemTypes
  <2>1. pipe \in Seq(Message) /\ reports \in Seq(ReportState)
    BY <1>4
  <2> QED BY <1>4, <2>1 DEF SystemInit, SystemTypes
<1>6. HasLast(pipe) /\ Target = {}
  <2>1. RequestsIn(pipe) = {}
    BY <1>4 DEF RequestsIn
  <2> QED BY <1>4, <2>1, TargetIsGoal DEF HasLast, Goal
<1>7. ReportsTrue
  BY <1>4 DEF ReportsTrue
<1>8. TargetsAgree
  BY <1>4, <1>6 DEF TargetsAgree
<1> QED BY <1>3, <1>5, <1>6, <1>7, <1>8 DEF SystemInv

LEMMA SystemKeeps == SystemInv /\ [SystemNext]_systemVars => SystemInv'
<1> SUFFICES ASSUME SystemInv, [SystemNext]_systemVars PROVE SystemInv'
  OBVIOUS
<1>1. CASE ReadReport
  BY <1>1, ReadReportKeeps
<1>2. CASE Tick \/ GraceOver \/ EnterHold \/ LeaveHold \/ UNCHANGED systemVars
  BY <1>2, PoolSteps
<1>3. CASE \E models \in SUBSET ImageModel : ReloadConfig(models) \/ Pick(models)
  BY <1>3, ChangesKeep
<1>4. CASE Start \/ Load \/ Scan \/ Report \/ Die
  BY <1>4, BootSteps
<1>5. CASE ReceiveRequest \/ ReceiveControls \/ ReceiveReload
  BY <1>5, ReceiveSteps
<1>6. CASE MainLoop \/ \E e \in Executor : ChildFetch(e) \/ EndTask(e) \/ ChildThread(e)
  BY <1>6, WorkSteps
<1> QED BY <1>1, <1>2, <1>3, <1>4, <1>5, <1>6 DEF SystemNext

\* With the parent's messages and reports in between, too, the process stays in
\* its inductive invariant, and no report has what is not on disk.
THEOREM SystemIsSafe == SystemSpec => []SystemInv
BY SystemStarts, SystemKeeps, PTL DEF SystemSpec

\* on_download_availability, _apply_reloaded_bridge_data and
\* download_models_on_demand: what was sent last is what is wanted now.
THEOREM TargetsStayAgreed == SystemSpec => []TargetsAgree
<1>1. SystemInv => TargetsAgree
  BY DEF SystemInv
<1> QED BY <1>1, SystemIsSafe, PTL

\* A fetch is aborted only if the last set the process has read lacks its model.
THEOREM SystemStopsDropped == SystemSpec => []CancelledIsDropped
<1>1. SystemInv => CancelledIsDropped
  BY Promises DEF SystemInv
<1> QED BY <1>1, SystemIsSafe, PTL

================================================================================

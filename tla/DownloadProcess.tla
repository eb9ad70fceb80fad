---------------------------- MODULE DownloadProcess ----------------------------
(* The download process (workers/download_process.py): its main loop, its    *)
(* control thread and its executor threads share the scheduler, the staging  *)
(* buffer and the size-1 bandwidth semaphore they hold against the inference *)
(* processes.  Every action is one critical section of one thread.           *)
(* Left out: pausing and rates (they delay a fetch), status reports, and     *)
(* which models a feature needs.                                             *)
EXTENDS DownloadScheduler, FiniteSets

CONSTANTS ImageModel,           \* tasks of kind IMAGE_MODEL: requested by name
          Retryable,            \* per-file tasks: IMAGE_MODEL and AUX_MODEL
          Executor,             \* executor threads
          NoTask,
          MaxDownloadAttempts,  \* _MAX_DOWNLOAD_ATTEMPTS
          Limits,               \* pairs max_parallel_downloads, per_host_concurrency
          MaxMessages           \* bound: control messages in a behaviour

ASSUME ProcessAssumption ==
    /\ ImageModel \subseteq Retryable /\ Retryable \subseteq Task \ Exclusive
    /\ NoTask \notin Task
    /\ IsFiniteSet(Executor)
    /\ Limits # {} /\ Limits \subseteq Limit \X Limit
    /\ {MaxDownloadAttempts, MaxMessages} \subseteq Nat

VARIABLES
    queue,      \* the scheduler
    desired,    \* image models of the last control message: the configuration
    staged,     \* _pending_image_models
    building,   \* the batch _orchestrate took and has not queued yet
    offered,    \* one-shot tasks (safety, aux, verify) taken so far
    present,    \* models on disk
    attempts,   \* _attempts
    exec,       \* executor threads: where they are, their task, whether cancelled
    slot,       \* _bandwidth_count, _bandwidth_held, _bandwidth_ready
    semaphore,  \* who holds the cross-process download slot
    ending,     \* _end_process
    main,       \* the main loop: between two passes of _orchestrate, in one that saw
                \* no reload request, in one that saw it, or reloading
    reload,     \* _reload_requested
    messages    \* bounded by MaxMessages

staging == <<desired, staged, building, offered>>
bandwidth == <<slot, semaphore>>
vars == <<queue, staging, present, attempts, exec, bandwidth, ending, main, reload, messages>>

\* claimed:  acquire returned, _begin_task not run     first, waiting: for the slot
\* fetching: in _dispatch_task                         releasing: the semaphore, as the last
\* ended:    _end_task is over                         retrying: in the retry's backoff
Phase == {"idle", "claimed", "first", "waiting", "fetching", "releasing", "ended",
          "retrying", "finished"}
Idle == [phase |-> "idle", task |-> NoTask, cancelled |-> FALSE, outcome |-> "none"]

\* After the start-up scan and the coordinator's first request: what the
\* configuration wants and the disk lacks is staged.
Init ==
    /\ \E limits \in Limits : queue = Queue(limits[1], limits[2])
    /\ desired = ImageModel
    /\ staged \in SUBSET ImageModel /\ present = ImageModel \ staged
    /\ building = {} /\ offered = {}
    /\ attempts = [t \in Task |-> 0]
    /\ exec = [e \in Executor |-> Idle]
    /\ slot = [count |-> 0, held |-> FALSE, ready |-> FALSE]
    /\ semaphore = "free"
    /\ ending = FALSE
    /\ main = "between" /\ reload = FALSE
    /\ messages = 0

\* The tasks in _active: registered by _begin_task, dropped by _end_task.
Registered(e) == exec[e].phase \in {"first", "waiting", "fetching"}
ActiveTasks == {exec[e].task : e \in {x \in Executor : Registered(x)}}

-----------------------------------------------------------------------------
(* The control thread                                                        *)

\* Mutant: a cancelled fetch is not reprieved when its model is wanted again.
CancelledForGood(e, wanted) == exec[e].cancelled \/ exec[e].task \notin wanted

Cancelled(e, wanted) == exec[e].task \notin wanted

\* The image models of the configuration are now those wanted, and some of them
\* are requested.  (Its two critical sections are one step: a claim or a batch
\* between them is as good as one just before or after.)
Configure(wanted, requested) ==
    /\ ~ending
    /\ desired' = wanted
    /\ staged' = (staged \cap wanted) \cup (requested \ (present \cup ActiveTasks))
    /\ exec' = [e \in Executor |->
                  IF Registered(e) /\ exec[e].task \in ImageModel
                  THEN [exec[e] EXCEPT !.cancelled = Cancelled(e, wanted)]
                  ELSE exec[e]]
    /\ queue' = Prune(queue, (Task \ ImageModel) \cup wanted)
    /\ UNCHANGED <<building, offered, present, attempts, bandwidth, ending, main, reload>>

Retune(maxParallel, perHost) ==
    /\ ~ending
    /\ queue' = SetLimits(queue, maxParallel, perHost)
    /\ UNCHANGED <<staging, present, attempts, exec, bandwidth, ending, main, reload>>

RequestReload ==
    /\ ~ending
    /\ ~reload /\ reload' = TRUE
    /\ UNCHANGED <<queue, staging, present, attempts, exec, bandwidth, ending, main>>

EndProcess ==
    /\ ~ending
    /\ ending' = TRUE
    /\ UNCHANGED <<queue, staging, present, attempts, exec, bandwidth, main, reload>>

-----------------------------------------------------------------------------
(* The main loop: _orchestrate                                               *)

OneShot == Task \ ImageModel

\* Under the lock: what is staged and the one-shot tasks that are due are taken,
\* and the reload request is read.
TakeBatch ==
    /\ main = "between" /\ ~ending
    /\ \E due \in SUBSET (OneShot \ (Exclusive \cup offered)) :
         /\ reload \/ staged \cup due # {} \/ ~(Exclusive \subseteq offered)
         /\ building' = staged \cup due
         /\ offered' = offered \cup due
    /\ staged' = {}
    /\ main' = IF reload THEN "asked" ELSE "building"
    /\ UNCHANGED <<queue, desired, present, attempts, exec, bandwidth, ending, reload, messages>>

\* Mutant: _running_count is 0 between a claim and its _begin_task.
NothingRegistered == ActiveTasks = {}

NothingRuns == ActiveTasks = {} /\ ~HasWork(queue)

\* The deferred reload of the reference database, which no fetch may read then.
\* The pass returns after it, and its batch is gone.
StartReload ==
    /\ main = "asked" /\ NothingRuns
    /\ main' = "reloading" /\ reload' = FALSE
    /\ building' = {}
    /\ UNCHANGED <<queue, desired, staged, offered, present, attempts, exec, bandwidth,
                   ending, messages>>

EndReload ==
    /\ main = "reloading" /\ main' = "between"
    /\ UNCHANGED <<queue, staging, present, attempts, exec, bandwidth, ending, reload, messages>>

\* _enqueue_image_tasks, in the order the names were staged, which is any; then
\* the one-shot tasks, and the verify once its files are on disk.
QueueBatch ==
    /\ main = "building" \/ (main = "asked" /\ ~NothingRuns)
    /\ main' = "between" /\ building' = {}
    /\ LET images == (building \cap ImageModel) \ present
           others == building \cap OneShot
       IN \E inImages \in Orders(images), inOthers \in Orders(others),
             verify \in {{}} \cup {{t} : t \in Exclusive \ offered} :
            /\ queue' = EnqueueMany(queue, images \cup others \cup verify,
                                    inImages \cup inOthers \cup (images \X others)
                                      \cup ((images \cup others) \X verify))
            /\ offered' = offered \cup verify
    /\ UNCHANGED <<desired, staged, present, attempts, exec, bandwidth, ending, reload, messages>>

\* The end of main_loop
CloseScheduler ==
    /\ ending /\ main = "between" /\ ~queue.closed
    /\ queue' = Close(queue)
    /\ UNCHANGED <<staging, present, attempts, exec, bandwidth, ending, main, reload, messages>>

-----------------------------------------------------------------------------
(* An executor thread: _executor_loop, _run_task                             *)

Goto(e, phase) == exec' = [exec EXCEPT ![e].phase = phase]

Claim(e) ==
    /\ exec[e].phase = "idle" /\ ~queue.closed
    /\ \E t \in FindAdmissible(queue) :
         /\ queue' = Acquire(queue, t)
         /\ exec' = [exec EXCEPT ![e] = [Idle EXCEPT !.phase = "claimed", !.task = t]]
    /\ UNCHANGED <<staging, present, attempts, bandwidth, ending, main, reload, messages>>

\* _begin_task: the first running task takes the slot for all.
Begin(e) ==
    /\ exec[e].phase = "claimed"
    /\ Goto(e, IF slot.count = 0 THEN "first" ELSE "waiting")
    /\ slot' = [slot EXCEPT !.count = @ + 1]
    /\ UNCHANGED <<queue, staging, present, attempts, semaphore, ending, main, reload, messages>>

TakeSlot(e) ==
    /\ exec[e].phase = "first"
    /\ \/ /\ semaphore = "free"
          /\ semaphore' = "download"
          /\ slot' = [slot EXCEPT !.held = TRUE, !.ready = TRUE]
       \/ /\ ending
          /\ slot' = [slot EXCEPT !.ready = TRUE]
          /\ UNCHANGED semaphore
    /\ Goto(e, "fetching")
    /\ UNCHANGED <<queue, staging, present, attempts, ending, main, reload, messages>>

WaitForSlot(e) ==
    /\ exec[e].phase = "waiting" /\ (slot.ready \/ ending)
    /\ Goto(e, "fetching")
    /\ UNCHANGED <<queue, staging, present, attempts, bandwidth, ending, main, reload, messages>>

\* Mutant: the event stays set when the last task gives the slot back.
SlotLeftReady == [count |-> slot.count - 1, held |-> slot.held /\ slot.count > 1,
                  ready |-> slot.ready]

\* The count after _release_bandwidth_slot; the last task clears the gate.
SlotLeft == [count |-> slot.count - 1, held |-> slot.held /\ slot.count > 1,
             ready |-> slot.ready /\ slot.count > 1]

\* The fetch is over and _end_task drops the runtime.
Fetch(e) ==
    /\ exec[e].phase = "fetching"
    /\ \E outcome \in {"ok", "failed", "aborted"} :
         /\ outcome = "aborted" => exec[e].cancelled \/ ending
         /\ exec' = [exec EXCEPT ![e].outcome = outcome, ![e].cancelled = FALSE,
                        ![e].phase = IF slot.held /\ ~SlotLeft.held THEN "releasing" ELSE "ended"]
         /\ present' = IF outcome = "ok" THEN present \cup {exec[e].task} ELSE present
    /\ slot' = SlotLeft
    /\ UNCHANGED <<queue, staging, attempts, semaphore, ending, main, reload, messages>>

ReleaseSlot(e) ==
    /\ exec[e].phase = "releasing"
    /\ semaphore' = "free"
    /\ Goto(e, "ended")
    /\ UNCHANGED <<queue, staging, present, attempts, slot, ending, main, reload, messages>>

\* _refresh_feature_presence after a fetch: the verify is due now.
OfferVerify(e) ==
    /\ exec[e].phase = "ended"
    /\ \E t \in Exclusive \ offered :
         /\ offered' = offered \cup {t}
         /\ queue' = Enqueue(queue, t)
    /\ UNCHANGED <<desired, staged, building, present, attempts, exec, bandwidth, ending, main,
                   reload, messages>>

\* A failed per-file fetch is counted, and tried again within the bound.
CountFailure(e) ==
    LET t == exec[e].task
        retries == exec[e].outcome = "failed" /\ t \in Retryable /\ ~ending
    IN /\ exec[e].phase = "ended"
       /\ attempts' = [attempts EXCEPT ![t] =
                         IF retries THEN @ + 1 ELSE IF exec[e].outcome = "failed" THEN @ ELSE 0]
       /\ Goto(e, IF retries /\ attempts[t] < MaxDownloadAttempts THEN "retrying" ELSE "finished")
       /\ UNCHANGED <<queue, staging, present, bandwidth, ending, main, reload, messages>>

\* The end of the backoff in _maybe_retry: the task is queued by the thread that
\* still has it in flight.
Retry(e) ==
    /\ exec[e].phase = "retrying"
    /\ queue' = IF ending THEN queue ELSE Enqueue(queue, exec[e].task)
    /\ Goto(e, "finished")
    /\ UNCHANGED <<staging, present, attempts, bandwidth, ending, main, reload, messages>>

Finish(e) ==
    /\ exec[e].phase = "finished"
    /\ queue' = Release(queue, exec[e].task)
    /\ exec' = [exec EXCEPT ![e] = Idle]
    /\ UNCHANGED <<staging, present, attempts, bandwidth, ending, main, reload, messages>>

-----------------------------------------------------------------------------
(* Time, and the inference processes' own downloads                          *)

ExclusiveTimeout ==
    /\ queue.exclusive > 0 /\ ~queue.overdue
    /\ queue' = ExclusiveTimesOut(queue)
    /\ UNCHANGED <<staging, present, attempts, exec, bandwidth, ending, main, reload, messages>>

OtherDownload ==
    /\ semaphore' = IF semaphore = "free" THEN "other" ELSE "free"
    /\ semaphore # "download"
    /\ UNCHANGED <<queue, staging, present, attempts, exec, slot, ending, main, reload, messages>>

Thread(e) == \/ Claim(e) \/ Begin(e) \/ TakeSlot(e) \/ WaitForSlot(e)
             \/ ReleaseSlot(e) \/ Retry(e) \/ Finish(e)

\* The parent sends what it likes, MaxMessages times.
Control ==
    /\ messages < MaxMessages /\ messages' = messages + 1
    /\ \/ \E wanted \in SUBSET ImageModel : \E requested \in SUBSET wanted :
            Configure(wanted, requested)
       \/ \E limits \in Limits : Retune(limits[1], limits[2])
       \/ RequestReload \/ EndProcess

Next ==
    \/ Control
    \/ TakeBatch \/ StartReload \/ EndReload \/ QueueBatch \/ CloseScheduler
    \/ \E e \in Executor : Thread(e) \/ Fetch(e) \/ OfferVerify(e) \/ CountFailure(e)
    \/ ExclusiveTimeout \/ OtherDownload

Spec == Init /\ [][Next]_vars

\* Threads run, ordinary fetches end (they have socket timeouts) and the other
\* processes give the slot back; an exclusive task may be stuck for good.
Fairness ==
    /\ WF_vars(TakeBatch) /\ WF_vars(QueueBatch) /\ WF_vars(StartReload) /\ WF_vars(EndReload)
    /\ WF_vars(ExclusiveTimeout)
    /\ \A e \in Executor :
         /\ WF_vars(Claim(e)) /\ WF_vars(Begin(e)) /\ SF_vars(TakeSlot(e))
         /\ WF_vars(WaitForSlot(e)) /\ WF_vars(ReleaseSlot(e)) /\ WF_vars(CountFailure(e))
         /\ WF_vars(exec[e].task \notin Exclusive /\ Fetch(e))
         /\ WF_vars(Retry(e)) /\ WF_vars(Finish(e))
    /\ WF_vars(semaphore = "other" /\ OtherDownload)

FairSpec == Spec /\ Fairness

-----------------------------------------------------------------------------
(* Properties                                                                *)

Running == {e \in Executor : exec[e].phase # "idle"}
RunningOn(h) == {e \in Running : HostOf[exec[e].task] = h}

\* Every variable has its type.
TypeOK ==
    /\ queue \in QueueState
    /\ {desired, staged} \subseteq SUBSET ImageModel
    /\ building \subseteq Task
    /\ offered \subseteq OneShot
    /\ present \subseteq Task
    /\ attempts \in [Task -> Nat]
    /\ exec \in [Executor -> [phase: Phase, task: Task \cup {NoTask}, cancelled: BOOLEAN,
                              outcome: {"none", "ok", "failed", "aborted"}]]
    /\ slot \in [count: Nat, held: BOOLEAN, ready: BOOLEAN]
    /\ semaphore \in {"free", "download", "other"}
    /\ {ending, reload} \subseteq BOOLEAN
    /\ main \in {"between", "building", "asked", "reloading"}
    /\ messages \in 0 .. MaxMessages

\* The counters admission is decided by are what the threads really run, however
\* claims, releases, refused duplicates and prunes interleave: a drift would
\* block a host for good or let its limit be exceeded.
CountersExact ==
    /\ queue.active = Cardinality(Running)
    /\ queue.keys = {exec[e].task : e \in Running}
    /\ \A h \in Host : queue.byHost[h] = Cardinality(RunningOn(h))
    /\ queue.exclusive = Cardinality({e \in Running : exec[e].task \in Exclusive})

\* No model is fetched by two threads at once, requested twice, retried or
\* configured away and back as it may be.
OneFetchPerTask ==
    \A e, f \in Running : exec[e].task = exec[f].task => e = f

\* An exclusive task within its time bound runs alone: it starts only when
\* nothing runs, and nothing starts while it does.
ExclusiveAlone ==
    \A e \in Running : exec[e].task \in Exclusive /\ ~queue.overdue => Running = {e}

\* Nothing is fetched without the cross-process slot, and the slot is given
\* back: when no thread runs a task, the process does not hold the semaphore.
SlotHeldToFetch ==
    /\ ~ending /\ (\E e \in Executor : exec[e].phase = "fetching") => semaphore = "download"
    /\ Running = {} => semaphore # "download"

\* While the main loop reloads the reference database, which an executor reads
\* from the moment it has claimed a task, no executor has one.
ReloadAlone == main = "reloading" => Running = {}

\* An exclusive task past its bound stands before t for good when the one place,
\* of the pool or of the host of t, is its own: FindAdmissible counts it in both.
OverdueHoldsPlaceOf(t) ==
    \E e \in Running : /\ exec[e].task \in Exclusive /\ queue.overdue
                       /\ \/ queue.maxParallel = 1
                          \/ queue.perHost = 1 /\ HostOf[exec[e].task] = HostOf[t]

\* Whatever is queued leaves the queue, even when the exclusive task before it
\* never ends, unless that one then still holds the only place there is for it
\* (download_scheduler.py:224 and 237).
NoStarvation ==
    \A t \in Task : (t \in queue.pending)
                     ~> (t \notin queue.pending \/ ending \/ OverdueHoldsPlaceOf(t))

\* download_scheduler.py:41-42: "Past the bound the stuck task keeps running but
\* no longer blocks the queue."
OverdueBlocksNone ==
    \A t \in Task : (t \in queue.pending) ~> (t \notin queue.pending \/ ending)

\* A pass of _orchestrate puts what it took from the staging buffer into the
\* scheduler: what is requested and not on disk is queued or in flight after it.
BatchIsQueued ==
    [][\A t \in building \ building' :
          t \in queue'.pending \cup queue'.keys \cup present]_vars

\* A failed fetch within the bound of retries is queued again.
FailedIsQueuedAgain ==
    [][\A e \in Executor : exec[e].phase = "retrying" /\ exec'[e].phase # "retrying" /\ ~ending
          => exec[e].task \in queue'.pending]_vars

\* A fetch is told to stop only while the configuration does not want its model:
\* however often it is dropped and wanted again, a wanted model is not aborted.
CancelledIsDropped ==
    \A e \in Executor : exec[e].cancelled => exec[e].task \in ImageModel \ desired
=============================================================================

-------------------------- MODULE DownloadCoordinator --------------------------
(* ModelDownloadCoordinator (models/download_coordinator.py) with the         *)
(* DesiredState and the ModelAvailability it reads, composed with the         *)
(* download process: the parent sends what should be on disk, the process     *)
(* sends snapshots of what is, and the safety and inference processes are     *)
(* started from the snapshots.  The process's state and steps are those of    *)
(* DownloadProcess; its control messages are those in the pipe, so messages   *)
(* stays 0.                                                                   *)
(* Left out: auxiliary models and features, pausing and rates, the disk plan, *)
(* a worker without background downloads, and the operator's command that     *)
(* sets the number of inference processes.                                    *)
EXTENDS DownloadProcess, Sequences, SequencesExt

CONSTANTS
    Safety,          \* the safety task
    NoReport,        \* ModelAvailability before the first report
    Alchemist,       \* bridge_data.alchemist
    Disks,           \* sets of models that may be on disk at the start
    MaxChanges,      \* bound: commands of the operator and configuration changes
    MaxUnread,       \* bound: reports on their way when one is repeated
    MaxOvertaken     \* bound: reports that one built later is put ahead of

SnapshotState == [scan: BOOLEAN, present: SUBSET ImageModel, inFlight: SUBSET Task,
                  safety: BOOLEAN, attempted: BOOLEAN]

ASSUME CoordinatorAssumption ==
    /\ Safety \in Task \ (ImageModel \cup Exclusive)
    /\ Alchemist \in BOOLEAN
    /\ Disks \subseteq SUBSET (ImageModel \cup {Safety})
    /\ MaxChanges \in Nat /\ MaxUnread \in Nat \ {0} /\ MaxOvertaken \in Nat
    /\ NoReport \notin SnapshotState

VARIABLES
    disk,        \* models on disk when the process starts
    boot,        \* starting, loading, scanning, ready; failed: idle after the load
                 \* failed; dead
    ensured,     \* _safety_ensured
    refChanged,  \* _reference_changed_pending
    configured,  \* bridge_data.image_models_to_load
    picked,      \* _picker_additions
    hold,        \* downloads_only_hold
    requested,   \* initial_download_requested
    started,     \* safety_processes_started, inference_processes_started
    view,        \* ModelAvailability: the last report read
    pipe,        \* control messages on their way to the process
    reports,     \* reports on their way to the parent
    changes      \* bounded by MaxChanges

child == vars     \* the variables of DownloadProcess
process == <<disk, boot, ensured, refChanged>>
parent == <<configured, picked, hold, requested, started, view, changes>>
systemVars == <<child, process, parent, pipe, reports>>

SystemInit ==
    /\ \E limits \in Limits : queue = Queue(limits[1], limits[2])
    /\ desired = {} /\ staged = {} /\ building = {} /\ offered = {}
    /\ present = {}
    /\ attempts = [t \in Task |-> 0]
    /\ exec = [e \in Executor |-> Idle]
    /\ slot = [count |-> 0, held |-> FALSE, ready |-> FALSE]
    /\ semaphore = "free" /\ ending = FALSE
    /\ main = "between" /\ reload = FALSE /\ messages = 0
    /\ disk \in Disks /\ boot = "starting"
    /\ ensured = FALSE /\ refChanged = FALSE
    /\ configured \in SUBSET ImageModel /\ picked = {}
    /\ hold = FALSE /\ requested = FALSE
    /\ started = [safety |-> FALSE, inference |-> FALSE]
    /\ view = NoReport
    /\ pipe = <<>> /\ reports = <<>> /\ changes = 0

Wanted == configured \cup picked

-----------------------------------------------------------------------------
(* What goes over the two channels                                           *)

\* _send_status: what the process knows at the moment, and whether the caller
\* says the disk has been scanned.  (Of the running tasks the parent keeps the
\* first; there is no other where one thread runs.)
Snapshot(scanned) ==
    [scan |-> scanned, present |-> present \cap ImageModel,
     inFlight |-> staged \cup queue.pending \cup ActiveTasks,
     safety |-> Safety \in present, attempted |-> ensured]

\* The report that references have changed goes out once.  _send_status builds the
\* report and puts it into the queue without a lock: what another thread built
\* before may come behind it.  (Those before the scan are the main loop's.)
Emit(thread, scanned) ==
    /\ \E i \in DOMAIN reports \cup {Len(reports) + 1} :
         /\ Len(reports) < i + MaxOvertaken
         /\ thread = "main" => \A k \in i .. Len(reports) : reports[k].snapshot.scan
         /\ reports' = InsertAt(reports, i, [snapshot |-> Snapshot(scanned)', refChanged |-> refChanged])
    /\ refChanged' = FALSE

Controls == [kind |-> "controls"]
ReloadDatabase == [kind |-> "reload"]
Request(models, missing) == [kind |-> "request", desired |-> models, missing |-> missing]

Known(report) == IF report = NoReport THEN [present |-> {}, inFlight |-> {}]
                 ELSE [present |-> report.present, inFlight |-> report.inFlight]

\* Mutant: what the operator picked is not in the set sent.
ReconcileConfigured(report, models, extra, previous) ==
    LET missing == (models \cup extra) \ Known(report).present
    IN IF missing \cup (Known(report).inFlight \ models) \cup (previous \ models) = {}
       THEN <<>> ELSE <<Request(models, missing)>>

\* Mutant: what the reload removed is no reason to send.
ReconcileMissing(report, models, extra, previous) ==
    LET wanted  == models \cup extra
        missing == wanted \ Known(report).present
    IN IF missing \cup (Known(report).inFlight \ wanted) = {} THEN <<>>
       ELSE <<Request(wanted, missing)>>

\* reconcile_downloads: a request, unless there is nothing to fetch, nothing in
\* flight to cancel and nothing removed from the configuration.
Reconcile(report, models, extra, previous) ==
    LET wanted  == models \cup extra
        missing == wanted \ Known(report).present
    IN IF missing \cup (Known(report).inFlight \ wanted) \cup (previous \ wanted) = {}
       THEN <<>> ELSE <<Request(wanted, missing)>>

-----------------------------------------------------------------------------
(* The parent                                                                *)

\* Mutant: safety waits for its models however their fetch went.
SafetyModelsThere(report) == report.safety

SafetyMayStart(report) == report.safety \/ report.attempted

InferenceMayStart(report, models) ==
    report.scan /\ (report.present # {} \/ (models = {} /\ Alchemist))

\* maybe_start_safety_processes and maybe_start_inference_processes, with a report
StartPools(report, models, held) ==
    started' = IF held \/ report = NoReport THEN started
               ELSE [safety    |-> started.safety \/ SafetyMayStart(report),
                     inference |-> started.inference \/ InferenceMayStart(report, models)]

\* on_download_availability
ReadReport ==
    /\ reports # <<>> /\ reports' = Tail(reports)
    /\ view' = Head(reports).snapshot
    /\ requested' = (requested \/ view'.scan)
    /\ pipe' = pipe \o (IF Head(reports).refChanged THEN <<ReloadDatabase>> ELSE <<>>)
                    \o (IF view'.scan /\ ~requested
                        THEN Reconcile(view', configured, picked, {}) ELSE <<>>)
    /\ StartPools(view', configured, hold)
    /\ UNCHANGED <<child, process, configured, picked, hold, changes>>

\* The same two calls in the control loop
Tick ==
    /\ StartPools(view, configured, hold) /\ started' # started
    /\ UNCHANGED <<child, process, configured, picked, hold, requested, view, changes, pipe,
                   reports>>

\* DOWNLOAD_STARTUP_GRACE_SECONDS without any report
GraceOver ==
    /\ view = NoReport /\ ~hold
    /\ started' = [safety |-> TRUE, inference |-> TRUE] /\ started' # started
    /\ UNCHANGED <<child, process, configured, picked, hold, requested, view, changes, pipe,
                   reports>>

Change == changes < MaxChanges /\ changes' = changes + 1

\* _apply_reloaded_bridge_data: the download controls are sent before the set.
ReloadConfig(models) ==
    /\ Change
    /\ configured' = models
    /\ pipe' = pipe \o <<Controls>> \o Reconcile(view, models, picked, configured)
    /\ UNCHANGED <<child, process, picked, hold, requested, started, view, reports>>

\* download_models_on_demand
Pick(models) ==
    /\ Change
    /\ models # {}
    /\ picked' = picked \cup models
    /\ pipe' = pipe \o Reconcile(view, configured, picked', {})
    /\ UNCHANGED <<child, process, configured, hold, requested, started, view, reports>>

EnterHold ==
    /\ Change
    /\ ~hold /\ hold' = TRUE
    /\ UNCHANGED <<child, process, configured, picked, requested, started, view, pipe, reports>>

LeaveHold ==
    /\ hold /\ hold' = FALSE
    /\ StartPools(view, configured, FALSE)
    /\ UNCHANGED <<child, process, configured, picked, requested, view, changes, pipe, reports>>

-----------------------------------------------------------------------------
(* The download process                                                      *)

\* main_loop up to the first pass: every stage reports.
Start ==
    /\ boot = "starting" /\ boot' = "loading"
    /\ UNCHANGED <<child, parent, pipe, disk, ensured>>
    /\ Emit("main", FALSE)

Load ==
    /\ boot = "loading" /\ boot' \in {"scanning", "failed"}
    /\ UNCHANGED <<child, parent, pipe, disk, ensured>>
    /\ Emit("main", FALSE)

Scan ==
    /\ boot = "scanning" /\ boot' = "ready"
    /\ present' = disk
    /\ ensured' = (Safety \in disk)
    /\ offered' = disk \cap {Safety}
    /\ UNCHANGED <<queue, desired, staged, building, attempts, exec, slot, semaphore, ending,
                   main, reload, messages, disk, parent, pipe>>
    /\ Emit("main", TRUE)

\* The control thread runs from the start, whatever the main loop does.
Receive(message) ==
    /\ boot \notin {"starting", "dead"}
    /\ pipe # <<>> /\ message = Head(pipe) /\ pipe' = Tail(pipe)
    /\ UNCHANGED <<messages, disk, boot, ensured, parent>>

\* A message that changes something is answered by a report as of after the
\* scan, also before it.  (After it the answer is left to Report.)
Answer(changed) ==
    IF changed /\ boot # "ready" THEN Emit("control", TRUE) ELSE UNCHANGED <<reports, refChanged>>

ReceiveRequest ==
    \E message \in ToSet(pipe) :
        /\ message.kind = "request" /\ Receive(message)
        /\ Configure(message.desired, message.missing)
        /\ Answer(staged' # staged \/ queue' # queue)

ReceiveControls ==
    /\ Receive(Controls)
    /\ Retune(queue.maxParallel, queue.perHost)
    /\ Answer(TRUE)

ReceiveReload ==
    /\ Receive(ReloadDatabase)
    /\ IF reload THEN UNCHANGED child ELSE RequestReload
    /\ UNCHANGED <<reports, refChanged>>

\* A pass of the main loop, or a chunk of a fetch, reports now and then.  (A
\* report that says nothing new is left out.)
Report ==
    /\ boot = "ready" /\ Len(reports) < MaxUnread
    /\ refChanged \/ Snapshot(TRUE) \notin {view} \cup {report.snapshot : report \in ToSet(reports)}
    /\ UNCHANGED <<child, disk, boot, ensured, parent, pipe>>
    /\ Emit("executor", TRUE)

Works == boot = "ready" /\ UNCHANGED <<disk, boot, parent, pipe, reports>>

\* Downloads are not paused: the first pass takes the safety task.
MainLoop ==
    /\ Works
    /\ \/ TakeBatch /\ Safety \in offered'
       \/ QueueBatch \/ StartReload \/ EndReload
    /\ UNCHANGED <<ensured, refChanged>>

\* _ensure_safety_models sets its flag however the fetch ends.
ChildFetch(e) ==
    /\ Works /\ Fetch(e)
    /\ ensured' = (ensured \/ exec[e].task = Safety)
    /\ UNCHANGED refChanged

EndTask(e) ==
    /\ Works /\ CountFailure(e)
    /\ refChanged' = TRUE /\ UNCHANGED ensured

ChildThread(e) ==
    /\ Works /\ Thread(e)
    /\ UNCHANGED <<ensured, refChanged>>

\* The process may die as it starts, and nothing starts another.  (One that dies
\* later fetches no more and changes nothing else.)
Die ==
    /\ boot \notin {"ready", "dead"} /\ boot' = "dead"
    /\ UNCHANGED <<child, parent, pipe, reports, disk, ensured, refChanged>>

-----------------------------------------------------------------------------
SystemNext ==
    \/ ReadReport \/ Tick \/ GraceOver
    \/ \E models \in SUBSET ImageModel : ReloadConfig(models) \/ Pick(models)
    \/ EnterHold \/ LeaveHold
    \/ Start \/ Load \/ Scan \/ Report \/ Die
    \/ ReceiveRequest \/ ReceiveControls \/ ReceiveReload
    \/ MainLoop
    \/ \E e \in Executor : ChildFetch(e) \/ EndTask(e) \/ ChildThread(e)

SystemSpec == SystemInit /\ [][SystemNext]_systemVars

\* The threads that the fairness is about: the parent's loop, and the control
\* thread, the main loop and the executors of the process.
ParentStep == ReadReport \/ Tick \/ GraceOver
ControlStep == ReceiveRequest \/ ReceiveControls \/ ReceiveReload
MainStep == Start \/ Load \/ Scan \/ MainLoop
ExecutorStep(e) == ChildFetch(e) \/ EndTask(e) \/ ChildThread(e)

SystemFairness ==
    /\ WF_systemVars(ParentStep) /\ WF_systemVars(ControlStep) /\ WF_systemVars(MainStep)
    /\ WF_systemVars(Report)
    /\ \A e \in Executor : WF_systemVars(ExecutorStep(e))

SystemFairSpec == SystemSpec /\ SystemFairness

-----------------------------------------------------------------------------
(* Properties                                                                *)

Down == boot \in {"failed", "dead"}

Requests == {i \in DOMAIN pipe : pipe[i].kind = "request"}

\* The set the process works to, once it has read its messages
Target == IF Requests = {} THEN desired
          ELSE pipe[CHOOSE i \in Requests : \A j \in Requests : j <= i].desired

\* However configuration reloads, picks and reports interleave, the last set
\* sent to the process has nothing in it that nobody wants any more, and lacks
\* no more than what is on disk: a reload does not drop what was picked, a removal
\* is sent even when nothing is to be fetched, and a report that others overtook
\* does no harm.
TargetsAgree ==
    /\ Target \subseteq Wanted
    /\ requested => Wanted \ Target \subseteq present

\* A reload of the database is about to drop the batch a pass has taken.
ReloadDropsBatch == main = "asked" /\ building # {} /\ NothingRuns

Asked(m) == \E i \in Requests : m \in pipe[i].missing

\* m is asked for while a thread still has it, whose fetch was told to stop and did.
AskedWhileUnwinding(m) ==
    Asked(m) /\ \E e \in Executor : exec[e].task = m /\ exec[e].outcome = "aborted"

\* The first request is made, and a model that is asked for is fetched or its
\* fetch fails, unless it is dropped again or the process is down.  Two gaps of
\* the process are excepted: a reload that drops a batch, and a model asked for
\* while its last fetch unwinds.
AskedArrives ==
    /\ <>(requested \/ Down)
    /\ \A m \in ImageModel :
         Asked(m) ~> \/ m \in present \/ attempts[m] > 0 \/ m \notin Wanted
                     \/ Down \/ ReloadDropsBatch \/ AskedWhileUnwinding(m)

\* A model asked for again while its last fetch unwinds is fetched.
AskedAgainArrives ==
    \A m \in ImageModel :
        Asked(m) ~> \/ m \in present \/ attempts[m] > 0 \/ m \notin Wanted
                    \/ Down \/ ReloadDropsBatch

\* Outside the hold both pools are started: safety whatever becomes of its
\* models, inference as soon as a model is on disk, and both when the process
\* goes down before it has said anything.
PoolsStart ==
    /\ ~hold ~> started.safety \/ hold \/ (Down /\ view # NoReport)
    /\ (~hold /\ present \cap ImageModel # {})
         ~> started.inference \/ hold \/ (Down /\ view # NoReport)

\* Before the scan of the disk no report says that it is over.
ScanIsTold == view # NoReport /\ view.scan => boot \in {"ready", "dead"}

\* A process that goes down after its first report does not keep the pools from
\* starting.
PoolsStartWithoutProcess == ~hold ~> started.safety \/ hold
=============================================================================

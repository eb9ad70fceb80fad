# A TLA+ model of the AI Horde worker

The worker (`src/horde_worker_regen`) pops image jobs from the horde, has them
inferred by child processes, checks every image in a safety process, uploads
the images and reports the job. Around that sit a process that downloads
models, watchdogs that look for jobs and processes that were lost, and a
supervisor that escalates when nothing moves. The work is a matter of order: one
event loop, several child processes with message streams of their own, and
threads. This directory holds the models of that coordination, what TLC checks
of them, and what TLAPS proves. Paths below are relative to
`src/horde_worker_regen/process_management/` unless they start with `src/`.

- [1. The system](#1-the-system)
- [2. The modules](#2-the-modules)
- [3. The runs](#3-the-runs)
- [4. Where the code and its documentation differ](#4-where-the-code-and-its-documentation-differ)
- [5. Fairness](#5-fairness)
- [6. What is proved](#6-what-is-proved)
- [7. What is not modelled](#7-what-is-not-modelled)
- [8. Plan](#8-plan)

## 1. The system

### 1.1 Parts

| part | state it keeps | operations | talks to |
| --- | --- | --- | --- |
| Job tracker (`jobs/job_tracker.py`) | one `TrackedJob` per job: stage, stage sequence, attempts, degraded and over-budget flags, `HordeJobInfo` | one method per stage change, `handle_job_fault`, `purge_jobs` | called by everything below |
| Job popper (`jobs/job_popper.py`) and the pop governors | pop timing, back-off | pop | horde API, tracker |
| Inference scheduler (`scheduling/inference_scheduler.py`) | the whole-card residency, pending line skips, VRAM plan | preload, choose a job and a process, send `START_INFERENCE`, clear and restore a card | tracker, process map, lifecycle |
| Process lifecycle (`lifecycle/process_lifecycle.py`, `process_map.py`) | slots and launches, crash and start-failure counts, quarantine, the phases of a safety replacement | start, replace, reap, cycle, scale, pause and restore safety | children, tracker, GPU semaphores |
| GPU semaphores (made in `process_manager.py`) | permits to sample and to decode | acquire, release, release on behalf of a replaced child | inference children, lifecycle |
| Inference and safety children (`workers/*_process.py`) | the job they work on | run, answer, report state | the shared message queue |
| Message dispatcher (`ipc/message_dispatcher.py`) | none of its own | one handler per message kind | process map, tracker |
| Safety orchestrator (`workers/safety_orchestrator.py`) | none of its own | send one job at a time to the safety process | tracker, safety process |
| Job submitter (`jobs/job_submitter.py`) | the submission under way and its tries | check, upload, report, retry | horde API, tracker |
| Orphan watchdogs and recovery (`lifecycle/worker_recovery_coordinator.py`, `recovery_supervisor.py`) | when an orphan was first seen, the wedge episode, limp-by | requeue or fault an orphan, reset, reduce concurrency, abort | tracker, lifecycle, runtime config |
| Shutdown manager (`lifecycle/shutdown_manager.py`) and the loops of `process_manager.py` | whether the worker stops, the timer thread | wind down, drain, report what is left, kill | every loop, children, owned-process registry |
| Download process (`workers/download_process.py`, `models/download_scheduler.py`) | staging buffer, scheduler queue, running tasks, bandwidth slot | stage, enqueue, fetch, verify, reload, cancel, retry | the parent, the inference processes through a semaphore |
| Download coordinator (`models/download_coordinator.py`, `desired_state.py`, `model_availability.py`) | picked models, the last report, which pools are started, the hold | reconcile, start the pools, hold | download process, lifecycle |
| Configuration reloader, alchemy popper, model map, budgets, GPU placement, terminal interface | see PROJECT.json | | |

### 1.2 How they interact

The parent runs one asyncio event loop. A handler runs without interruption up
to its next `await`; the tracker's methods do not suspend, so a handler that
makes several calls on the tracker is one step as far as the other tasks are
concerned. The exceptions are the popper, which awaits the horde between its
decision to pop and the enqueueing of the job, and the submitter, which checks a
job, awaits the upload of its images and the report to the horde, and removes the
job last: everything else may happen in between. The shutdown timer is a thread
of its own and does not wait for anyone.

A child sends its messages in order into one queue; the parent reads the
messages of all children in any interleaving. Each launch of a child has an
identifier, and messages of a launch that was retired are dropped. The parent's
picture of a slot (`HordeProcessInfo`) is therefore always somewhat old.

The inference processes of a card share two semaphores. A child takes and gives
back its permits by itself; when the parent replaces it, the parent gives them
back on its behalf without knowing whether it held any.

The download process has a main loop, a thread that receives control messages,
and a pool of executor threads. They share the staging buffer and the
scheduler under locks, and one cross-process semaphore for bandwidth. The parent
tells it the whole set of models that is wanted, whenever that or the disk
changes; it answers with snapshots, from which the parent decides what to ask for
next and when to start the safety and the inference processes.

### 1.3 What is hard, and what makes each part correct

- **Tracker.** Every other part calls it. It must keep the order of every queue
  through requeues, bound the attempts on every path, and refuse what comes too
  late.
- **Pipeline.** A result, a verdict or a fault may be late, lost or about a
  process that was replaced; watchdogs act on what may only be slow. No job may
  be reported twice, uploaded unchecked, or forgotten.
- **Lifecycle.** A child can die or fall silent in every phase of its start, its
  work and its end, while a replacement, a pause or a scale-down is under way. No
  slot may stay dead, no healthy slot may be quarantined, and no process may
  live on that nobody will end.
- **Session.** A shutdown meets every loop at every point of its round. A drain
  must wait for the work it accepted, and the worker must end all the same.
- **Permits.** A permit that is lost stops the card; one that is invented lets
  two processes decode at once.
- **Residency.** A model that wants a card for itself takes away the processes,
  the safety check and the jobs of the others. It must get the card, they must
  get it back, and no job may wait for ever behind it.
- **Downloads.** Admission is decided by counters, so the counters must be what
  really runs; a task may be requested, cancelled and requested again while a
  thread holds it; an exclusive task must run alone and yet not starve the rest.
- **Download coordinator.** What it sends is computed from a report that is already
  old. What nobody wants any more must be told, what is wanted must arrive, and the
  pools must start whatever fails in the process that they wait for.
- **Recovery.** Three timers decide one escalation. A worker that cannot work
  must end, a worker that works again must get its concurrency back.

`PROJECT.json` lists the hazards by line, with the property that covers each.

## 2. The modules

| module | models | composed of |
| --- | --- | --- |
| `JobTracker` | every method of the tracker that moves a job, as operators on a tracker state | |
| `JobTrackerCalls` | the tracker under a caller that makes any call at any time | `JobTracker` |
| `JobLifecycle` | what is promised of every job, with no queue, process or message | |
| `JobPipeline` | the handlers, the children, their messages, the submitter and the watchdogs | `JobTracker`; implements `JobLifecycle` |
| `ProcessLifecycle` | inference slots and safety process: start, replacement, breakers, scaling, placement | |
| `WorkerSession` | pop, control and submit loops, shutdown, wind-down and exit | |
| `GpuPermits` | the sampling and the decode semaphore of a card | |
| `WholeCardResidency` | a scheduling cycle on one card and the whole-card residency | |
| `DownloadScheduler` | the host-aware scheduler as operators on its state | |
| `DownloadProcess` | main loop, control thread and executors of the download process | `DownloadScheduler` |
| `DownloadCoordinator` | the parent's half, the two channels, and the start-up of the process | `DownloadProcess` |
| `RecoveryCoordinator` | the supervisor's policy and the coordinator that carries it out | |
| `JobTrackerProofs` | what every tracker operator preserves, and the theorems on the tracker | `JobTrackerCalls` |
| `PipelineProofs` | theorems on the pipeline | `JobPipeline`, `JobTrackerProofs` |
| `LifecycleProofs`, `SessionProofs`, `PermitsProofs`, `ResidencyProofs`, `RecoveryProofs` | theorems on the module of that name | that module |
| `DownloadProofs` | theorems on the download process, by itself and under its coordinator | `DownloadCoordinator` |
| `MCJobTracker`, `MCJobPipeline`, `MCProcessLifecycle`, `MCWorkerSession`, `MCGpuPermits`, `MCWholeCardResidency`, `MCDownloadProcess`, `MCDownloadCoordinator` | the instances TLC checks | |

`PROJECT.json`, under "map", gives the lines each definition stands for.
Operators whose comment begins with "Mutant" are plausible bugs: each is the
definition it precedes with one guard or one assignment wrong, and serves to see
that a property would notice.

### 2.1 JobTracker

`t.job[j]` is the `TrackedJob` of `j`, with its stage, attempts, flags and
`HordeJobInfo`. `_ALLOWED_TRANSITIONS` is `AllowedTransitions`, `_set_stage` is
`SetStage`, and each method is the operator of its name.

The stage sequence (`_next_sequence`) is an ever-growing number that is only
ever compared. The model keeps the comparison: `t.ahead[j]` is the set of
tracked jobs with a smaller sequence. Taking a fresh number is then `ToBack`, and
the state space stays finite with no bound on the counter. The queue for
inference is read by pop order instead (`jobs/job_tracker.py:510`); of that one only the
members are used, as any of them may be the one that the scheduler picks.

A `HordeJobInfo` is its state, the attempt that made its images (or `NoImages`)
and `safety_evaluated`. Images are told apart by the attempt because that is
what the properties on uploads need. Timestamps, fault messages, the
resource-fault ledger that the pop governors read, and device indices are left
out.

`JobTrackerCalls` makes any call with any argument. Its invariants hold for any
caller, so they need not be argued again for the worker's own handlers. `granted` is a
history variable: how many degraded retries a job was given since its pop, also over
entries that were removed and made anew.

### 2.2 JobPipeline and JobLifecycle

One action per handler call; the guards are the handlers' conditions.

| action | code |
| --- | --- |
| `Pop` | a pop that succeeded, `record_popped_job` |
| `Dispatch` | `start_inference` and the stamp on the slot |
| `ChildStart`, `ChildFinish`, `ChildCrash` | `inference_process.py` |
| `Receive` | one message: launch guard, state change, `_reap_lost_inference_result`, result handler, fault |
| `Reap`, `KillAndReplace` | replacement of a dead or hung slot, `_replace_inference_process` |
| `WatchInProgress`, `PuntOrphan` | `reconcile_orphaned_in_progress_jobs` |
| `StartEvaluateSafety`, `SafetyPipeBreaks` | the orchestrator, with and without a broken pipe |
| `EvaluateSafety`, `SafetyCrash`, `ReplaceSafety`, `ReceiveVerdict` | the safety process and its messages |
| `WatchSafety`, `ReconcileSafety` | `reconcile_orphaned_safety_jobs` |
| `SubmitBegin`, `SubmitRetry`, `SubmitDone` | the submitter between its awaits |

`slot` is the parent's picture and `child` the process; they agree only through
`outbox`. `cleared`, `uploaded` and `reported` are history variables: which
images a verdict cleared, which were uploaded, how often the job was reported.

Watchdog graces are abstracted: a watchdog that noted a job in one tick may act
on it in any later one. The grace for jobs in progress (30 s) is longer than the
ticks needed to read what is queued and to replace what has died, hence
`InferenceGraceElapsed`. The grace for safety (45 s) gets no such assumption, as
a safety check can take longer than any fixed time.

Which job and slot the scheduler chooses depends on measured memory; any choice
is allowed.

`JobLifecycle` is the abstract specification. Its one variable is the phase of
each job, unknown, inference, safety, submit, reported; a step moves one job on, and
none moves one back. `PhaseOf` maps the pipeline to it: the inference queue and a
job in progress are one phase, whatever is lost and retried in between, and so are
the safety queue and the check. `LifecycleKept` says that the pipeline implements it.

### 2.3 ProcessLifecycle

A slot is a record: the parent's `view`, the `child` itself, the `mail` not yet read, the
counts of both breakers (replacements, and consecutive failures to start), and
whether it is quarantined. The safety process is one more record, with what its
replacement is at (`replace`, `ending`), whether it was told to end, is in the
owned-process registry, is on the GPU, and whether a pause is in force. `strays`
are safety processes that left the process map alive.

| action | code |
| --- | --- |
| `ChildReady`, `ChildWorks`, `ChildFinishes`, `ChildFailsToLoad`, `ChildLost` | what a child does; a lost one dies or falls silent |
| `Receive`, `ReceiveSafety` | the state messages, `on_process_state_change`, and what a first idle state resets |
| `ReapCrashed`, `ReplaceHung`, `ReplaceAllTimedOut` | the crash reap and the two hang checks |
| `Cycle`, `ScaleUp`, `ScaleDown`, `SoftReset`, `WindowPasses` | deliberate replacement, scaling, the recovery's reset, the breaker's window |
| `DriveSafetyReplacement` | one pass of `_replace_all_safety_process`: end, wait, start |
| `MoveSafety`, `SafetySendFails` | pause and restore of the safety process on the GPU; a broken pipe |
| `StrayMoves` | a safety process out of the map ends by itself |

Timeouts are choices, of a silent child only. What a replacement does to the slot's
job is in `JobPipeline`.

### 2.4 WorkerSession

The popper's await (`Pop`, `PopTakesLong`, `PopReturns`), the submitter's (`Send`,
`SubmitReturns`), the control loop's tick (`Schedule`, `DriveReplacement`,
`WindDown`, `TickFails`, `ControlEnds`), the shutdown manager (`Shutdown`, `Abort`,
`HardShutdown`) and its timer thread (`ShutdownTimedOut`, `GraceExpires`) meet over
the jobs' stages, one inference process (`engine`) and the safety process
(`checker`). A child's result and the parent's handling of it are one step here, as
`JobPipeline` has what lies between. `IsTimeForShutdown` is
`is_time_for_shutdown`, which every loop asks; `late` are jobs enqueued after the
wind-down began, and `outcome` is whether the drain ran to its end.

`strays` are the safety processes that a replacement took out of the process map
alive and untold: one that was still starting counts as unloaded, so the replacement
neither tells it to end nor kills it, and starts another
(`lifecycle/process_lifecycle.py:1086-1094`). Such a child is only in the
owned-process registry, until it ends by itself (`StrayEnds`) or a hard kill clears the
registry without looking at it (`ClearRegistry`).

### 2.5 GpuPermits

`pc` follows a child through a job: acquire to sample, sample, wait to decode, decode,
post-process, leave. `sampling` and `decoding` are the free permits, `samplers` and
`decoders` the children that owe a release. A replacement is two steps as in the
code: the permits are given back, then the process is ended, and until it has ended it
may still move.

| action | code |
| --- | --- |
| `StartInference`, `Prepare`, `AcquireSampling`, `SamplingDone`, `AcquireDecode`, `PostProcess`, `FinishJob`, `ReleaseDecode` | a job in the child |
| `Crash`, `Hang` | a child dies, or never moves again |
| `ReplaceDead`, `ReplaceStuck` | replacement of one that is dead or stands still |
| `ReplaceSilent` | the time-out of one that waits for a permit which nobody will give back |
| `ReplaceSlow` | the time-out of one that is only slow, or waits for a permit that would come |
| `ReplaceIdle` | a healthy idle slot is cycled |
| `Ended` | the replaced child has ended or was killed |

`late` and `lost` are history variables: at which semaphore the child under replacement
took a permit after the parent had given back for it, and where one ended with it.

### 2.6 WholeCardResidency

The state of the worker is a record `w`, and the steps of a cycle are operators on
it: `Restored`, `Converged` and `Relabelled` (the residency is given up, advanced,
or handed to a smaller head), `Preloads` (admission and the choice of a process),
`Dispatched` (the next job, exclusivity and overlap). `Tick` is
`run_scheduling_cycle`. Memory readings enter as choices: how many processes may
stay beside the heavy model, whether the card has drained, how much free memory has
settled. The weights of a heavy model are taken to fit an empty card.

### 2.7 DownloadScheduler and DownloadProcess

The scheduler's methods run under its own lock and are operators on its record. Its
queue is the set `pending` of the tasks that wait, and `before`, the pairs of them
in the order they were queued: that order is only ever used to find the first task
that fits (`First`), and what is queued goes behind all that waits (`Behind`). A
list of tasks that is queued at once comes in any of its `Orders`.
`DownloadProcess` gives each critical section of each thread an action: the
executor goes through `Claim`, `Begin`, `TakeSlot`/`WaitForSlot`, `Fetch`,
`ReleaseSlot`, `CountFailure`, `Retry`, `Finish`; the main loop through
`TakeBatch`, then `QueueBatch` or `StartReload` and `EndReload`. The main loop is
split in three because it reads the shared fields under the lock and acts on them
after it.

The outcome of a fetch is nondeterministic. Pausing, rates, reports and disk
space only delay a fetch or choose its outcome.

### 2.8 DownloadCoordinator

The module extends `DownloadProcess`: the variables of the process, its main loop, its
threads and the effect of its messages are that module's. Added are the parent, the
two channels (`pipe` down, `reports` up), and what the process does before its main
loop. The composition is `SystemSpec`, with `SystemNext`; the messages of
`DownloadProcess` are those in the pipe here, so its bound `MaxMessages` is 0.

| action | code |
| --- | --- |
| `ReadReport`, `Tick`, `GraceOver` | `on_download_availability`, the two calls of the control loop, the grace without any report |
| `ReloadConfig`, `Pick` | `_apply_reloaded_bridge_data`, `download_models_on_demand` |
| `EnterHold`, `LeaveHold` | the download-only hold |
| `Start`, `Load`, `Scan` | `main_loop` before its first pass, each with its report |
| `ReceiveRequest`, `ReceiveControls`, `ReceiveReload` | the control thread, which runs from the start |
| `Report`, `MainLoop`, `ChildFetch`, `EndTask`, `ChildThread` | a pass, and an executor thread |
| `Die` | the process ends while it starts |

`Reconcile` is `reconcile_downloads` with `DesiredState.reconcile`; `Wanted` is the
configured set with what was picked. A report is the snapshot that `_send_status`
takes, with the flag that references changed, which goes out once. It builds the report
and puts it into the queue without a lock, from the control thread, the main loop and
the executors, so an older report may come behind a newer one: `Emit` puts a report at
the end or ahead of at most `MaxOvertaken` others. A report names all that is in
flight, the safety task included, as the code's does. Once the disk is scanned,
reports that say nothing new are left out, and one more is sent only while fewer than
`MaxUnread` are under way; before, every report is sent, as their order decides when
the pools start. A death after the scan is left out: no fetch follows it, and the
parent's state changes no more than when the process is idle.

### 2.9 RecoveryCoordinator

A tick is half a second, the control loop's interval; ages saturate at the
threshold they are compared with, so time is finite without a bound. Between
ticks pools break and are rebuilt, the queue wedges and frees, jobs end, and the
configuration is reloaded. `Tick` evaluates the policy (`Evaluate`, `Action`) and
carries it out (`SoftReset`, `GiveUp`, `LiftLimp`).

## 3. The runs

| run | instance | properties | states |
| --- | --- | --- | --- |
| `tracker` | 2 jobs, 3 attempts, any caller, one completion counted | `RetryBound`, `DegradedGrantedOnce`, `SubmitIsFinal`, `NoOvertaking`, `NewcomersWait` | 53 000 |
| `pipeline_two_jobs` | 2 jobs, 1 slot, 1 attempt, 1 disruption | `ReportedOnce`, `NoneLeftDetached` | 1 375 000 |
| `pipeline_live` | 1 job, 2 slots, 2 attempts, 1 disruption, 1 submit retry, fair | `SafetyHasImages`, `EventuallyReported`, `LifecycleKept` | 223 000 |
| `lifecycle` | 1 slot and the safety process, 1 replacement per window, 2 start failures, 1 disruption, 2 requests, fair | `OwnedOrTold`, `PlacementFollows`, `BreakersEarned`, `DeadIsReplaced`, `SafetySucceeded` | 247 000 |
| `session` | 2 jobs, 2 disruptions, fair | `AcceptedIsReported`, `WorkKeepsItsProcess`, `ExitLeavesNoneUntold`, `ShutdownEnds` | 798 000 |
| `permits` | 2 children, 1 sampling permit, 3 faults, fair | `NoneOrphaned`, `WaitersServed` | 34 000 |
| `residency` | 3 processes, jobs light, heavy, light, 2 threads, 1 crash of the heavy one, fair | `TypeOK`, `HeavyHasTheCard`, `EveryJobRuns`, `CardRestored` | 19 000 |
| `downloads` | 1 image model, the safety task, verify, 2 threads, three pairs of limits, 1 message after the first, fair | `TypeOK`, `CountersExact`, `OneFetchPerTask`, `ExclusiveAlone`, `SlotHeldToFetch`, `ReloadAlone`, `NoStarvation` | 104 000 |
| `coordinator` | 1 image model and the safety task, 1 thread, 2 changes by the operator, either of the two missing, alchemy on, reports in order, fair | `TargetsAgree`, `CancelledIsDropped`, `AskedArrives`, `PoolsStart` | 176 000 |
| `recovery` | the default thresholds, 2 threads, fair | `LimpOnlyInEpisode`, `BrokenPoolEnds`, `LimpIsLifted` | 44 000 |
| `pipeline_late_result`, `residency_retried` | smaller instances | one each, violated: section 4 | |

Why the bounds are enough:

- *Two jobs in the tracker* are what a statement about order needs. *Three
  attempts* leave room for a second degraded retry, if one were granted, before the
  attempts run out. The theorems of section 6 remove both bounds for all five.
- *Two slots and two attempts* let the result of a first attempt and the run of
  a second coexist, the only way two results of one job meet. *Two jobs in one
  slot* let a slot's late message meet the next job. The theorems remove both bounds
  for every property of these two runs but `EventuallyReported`.
- *One disruption* (a crash of a child, a kill of a slot, a crash of the
  safety process, a broken pipe) puts one at every point of a job's life.
- *One safety requeue* gives every job both sides of `SAFETY_REQUEUE_MAX`, which
  is 3 in the code.
- *One slot in the lifecycle*: slots share only the phases of the safety
  replacement and the soft reset, which one slot meets at each point; the
  theorems hold for any number. *One replacement and two start failures* are the
  smallest limits for which there is a state below, at and above each breaker. *Two
  requests* are a pause and its restore, or a scale-down and a scale-up.
- *Two jobs in a session*: one that the drain waits for and one whose pop is still
  under way. *Two disruptions*: a failure, and a second one in the middle of its
  repair.
- *Two children and one permit*: one holds it or is being replaced, and one waits.
  *Three faults*: a permit is lost with a slow child, a second replacement invents or
  heals one, and a third meets the result. With three children and two faults (229 000
  states) the same properties hold.
- *Three processes and three jobs*: with one process fewer a heavy model that
  may keep a sibling need not stop any; a light job before and one behind the heavy
  one show both those that must drain and those that must wait.
- *The three pairs of limits*: one download at a time, two with one for a host, and two
  with two, separate the host's limit from the total; the verify and the safety task
  belong to the host "unknown", the image model to another. A behaviour begins after the
  coordinator's first request; one control message more withdraws a model at any point
  of its fetch, changes the limits or asks for a reload. With a second image model, so
  that two tasks of either host compete (`MCDownloadThreads`, 1 016 000 states, without
  fairness), the invariants hold as well.
- *One image model, one thread and two changes in the coordinator*: a model that is
  dropped and wanted again, or picked and then dropped from the configuration, at
  every point of its fetch and of the start-up. What several tasks and threads do
  to one another is the matter of `downloads`. *Either of the two missing*:
  the start-up finds the safety models or the image models, and has the others to
  fetch. *Alchemy on* covers the worker without image models and one with them.
  *Reports in order* is for the time it takes: with one report put ahead of another all
  four properties hold (`MCCoordinatorOvertaken`, 484 000 states), the
  two invariants also with two reports on their way after the scan
  (`MCCoordinatorStale`, 1 128 000 states), and `TargetsAgree` and
  `CancelledIsDropped` are theorems for any overtaking.
- *The thresholds of recovery* are the code's defaults, 1.5 s, 2 s, 1 reset, 7 s
  and 30 s, in half seconds.

Symmetry is used for jobs, slots, threads and image models, in safety runs only.
Deadlock is checked except in `lifecycle`, `session`, `recovery` and `coordinator`,
where a worker that halted, ended or has all it wants takes no further step.

What each property excludes is said above its definition. Those least obvious:

- `ReportedOnce` holds although a late result, a second verdict, and a
  watchdog's requeue all act on a job that may have been reported: every one of
  them finds it untracked or in a stage that refuses the transition.
- `EventuallyReported` covers every loss the handlers, watchdogs and replacement
  are meant for.
- `DegradedGrantedOnce` counts grants in a history variable and not in the flag that
  the code reads, and so notices a grant that does not look at the flag.
- `NewcomersWait` is what the code does with a requeued job, and not what a docstring
  says of it; section 4.
- `BreakersEarned` counts a slot's own crashes and hangs in a history variable that the
  breakers do not read, and lets the breakers count no more: no deliberate replacement,
  no load that failed, and of a soft reset the one charge that the code makes. A
  failed load is charged if its report was not yet read when the child was reaped: to
  the parent that is a crash.
- `SafetySucceeded` has an exception, the one way a replacement gets stuck; section 4.
- `AcceptedIsReported` speaks of drains that are not cut short: a second signal, the
  timer or a failing tick cut one short, and each has an `outcome` of its own.
- `ExitLeavesNoneUntold` excepts one child, a stray at a hard kill; section 4.
- `NoneOrphaned` does not ask that a permit is held by a child that is inside;
  it asks that someone will give it back. It excepts the semaphores at which a child
  took a permit after the parent had given back for it and ended with it, which happens
  when a time-out hits a child that is only slow; section 4. `WaitersServed` has no such
  exception: who waits for a permit that is lost is replaced.
- `NoStarvation` excepts the tasks for which a verify past its time bound holds the only
  place, in all or on their host, no more: behind two parallel downloads, or on another
  host, they start; section 4.
- `EveryJobRuns` needs the light job behind the residency to come back after the
  cooldown: with one crash of a light job it fails, which is a run of its own.
- `TargetsAgree` speaks of the last set on its way, or read if none is. Before the
  first complete report nothing need have been sent.
- `AskedArrives` has two exceptions, the two ways a request gets lost; section 4.
- `PoolsStart` has one, a process that goes down after it has reported; section 4.
- `BrokenPoolEnds` says that the worker ends, where the documentation says that it keeps
  running; section 4. A job that ends is no way out of it: the rebuild of the pools
  faults jobs and the code counts them as progress, which withdraws what the episode
  saw only until the pool is seen broken again.

## 4. Where the code and its documentation differ

Two runs end in a counterexample of what a comment or docstring promises.

1. `pipeline_late_result`. "The hard safety invariant: an image is uploaded only
   after the safety process returned a verdict for it"
   (`jobs/job_submitter.py:399`). The submitter checks the record and then
   suspends. A job that was faulted into `PENDING_SUBMIT` has no images and
   passes the check; if its late result is handled now, the handler writes the
   images into the same record (`ipc/message_dispatcher.py:729`) before the
   tracker refuses the transition, and the submitter goes on to upload them.
2. `residency_retried`. Of the jobs that make way for a whole-card model: "Those
   queued jobs wait and reload once the head drains"
   (`scheduling/inference_scheduler.py:1227-1228`). A light job that was running when
   the heavy head claimed the card, and that is queued again after its process
   died, is the head once more by its pop order. Preloading passes over every job
   but the exclusive one while that is pending (line 3025), and dispatch
   serves only the head: neither runs until the recovery resets the worker, which
   lines 1319-1321 say the claim is meant to avoid.

Fifteen more configurations stand beside the runs. Each states what a comment or a
document says, or what one would expect of the same modules, and ends in a
counterexample:

| configuration | property | what happens |
| --- | --- | --- |
| `MCPipelineFalseReap` | `ReapMeansLost` | "Only a return to idle from an inference-active state can mean a result was produced and then lost" (`ipc/message_dispatcher.py:523`). A slot that sent its result accepts the next job before its idle message is read; the new job is then faulted though it is in the child's pipe. |
| `MCPipelineRequeued` | `RequeuedToFront` | After a lost verdict "the job is sent back to the front of the safety queue for a fresh check" (`jobs/job_tracker.py:792-794`). The requeue takes a fresh sequence (`_set_stage`, line 386, called at 801): the job goes to the back, behind jobs that came later. |
| `MCDownloadsWedged` | `OverdueBlocksNone` | "Past the bound the stuck task keeps running but no longer blocks the queue" (`models/download_scheduler.py:41-42`, also 246-247). The bound lifts the exclusivity only: a verify that hangs still counts in all (line 224) and for its host (line 237). With one download at a time nothing starts any more, and on the host "unknown" with one per host the safety task does not. |
| `MCDownloadRetry` | `FailedIsQueuedAgain` | "Re-enqueue a failed per-file fetch a bounded number of times" (`workers/download_process.py:1063`). The task's key is still in flight when it is queued again, the scheduler refuses it as a duplicate, and the retry never happens. |
| `MCDownloadLost` | `BatchIsQueued` | The main loop "stages requested image models, the one-shot safety task, and (on request) the aux tasks into the scheduler" (line 629). A pass that took a batch and then finds a requested reload possible returns after the reload; the batch is gone, and the one-shot flags stay set. The coordinator sends a reload and a request back to back (`models/download_coordinator.py:99-107`). |
| `MCCoordinatorAgain` | `AskedAgainArrives` | "Adding a model fetches it in the background without a restart" (`docs/explanation/model_downloads.md:125`). A model that is dropped and added again while its aborted fetch unwinds is still registered: the request passes it over, and nothing repeats it. The test for adding a model again stops before the abort (`test_re_adding_a_model_uncancels_in_flight`). |
| `MCCoordinatorScan` | `ScanIsTold` | `scan_complete` is "Whether the latest report is an authoritative post-disk-scan one" (`models/model_availability.py:63`). A configuration reload during the start-up is answered by the control thread with the default, true (`workers/download_process.py:307`, `:465`); the first request is then made from an empty disk. |
| `MCCoordinatorDown` | `PoolsStartWithoutProcess` | The grace for a silent process (`models/download_coordinator.py:236`, `:275`) ends with its first report. A process that dies or fails to load after that keeps both pools from starting, and is not started again: `start_download_process` returns while its entry stands (`lifecycle/process_lifecycle.py:488`). |
| `MCRecoveryFixed` | `FixedWedgeNeverGivesUp` | "A transient wedge a soft reset actually fixed never reaches give-up (clean_streak is shorter than give_up_after for exactly this reason)" (`lifecycle/recovery_supervisor.py:129-130`). The defaults are 30 s and 7 s: the episode outlives the fix, and `evaluate` answers give-up while all is well. |
| `MCRecoveryGivesUp` | `GiveUpKeepsRunning` | Of giving up: "Fault the jobs that cannot be served so they drain; the worker keeps running." (`lifecycle/recovery_supervisor.py:63`, also 11-13). Of a crash-on-start that repeats, `docs/explanation/resilience_and_recovery.md:184-187`: "The worker keeps running and keeps popping", and `shutdown_and_faults.md:131-134`: "while continuing to run". The coordinator calls the abort callback when a pool is unrecoverable, was in this episode without a job ending since, or has no live inference process (`lifecycle/worker_recovery_coordinator.py:423-439`): the worker ends. |
| `MCLifecycleStuck` | `SafetyReplaced` | A replacement that begins while the safety process still starts enters its phase of ending without ordering an end. The process then reports that it is idle; it now looks loaded, nobody tells it to end, and the replacement waits for an end that never comes. |
| `MCSessionFailure` | `FailureAbandonsNothing` | After a tick that raised, the control loop ends as soon as no inference is pending, and the safety process with it. A job that waits for its check stays there: the submitter ends with the control loop, and the timer is not waited for. |
| `MCSessionStray` | `HardKillLeavesNone` | `_hard_kill_processes()` "kills all children immediately, joins them briefly, and clears the in-memory process/model maps and owned-PID registry" (`docs/explanation/shutdown_and_faults.md:64-66`). It kills those in the map (`lifecycle/process_lifecycle.py:1593-1604`). A safety process that was starting when its replacement deleted it from the map lives on, and the cleared registry (1606-1609) no longer names it. |
| `MCPermitsInflated` | `OneDecodes` | The release for a replaced child is said to be a "harmless no-op rather than inflating a limit" (`lifecycle/process_lifecycle.py:1135-1139`). An idle child that is recycled while another decodes gives back that other's permit, and a third decodes beside it. |
| `MCPermitsOrphaned` | `EveryPermitAccounted` | The parent gives back for a child "or that concurrency is lost for the lifetime of the worker", and does so without asking because "that exact race is what wedged the worker before" (`lifecycle/process_lifecycle.py:1129-1135`; "no semaphore is orphaned", `docs/explanation/resilience_and_recovery.md:267-268`). It does so before it ends the child (line 1405). A time-out also hits children that are only slow (lines 1725-1745, 1860-1897); such a child may take a permit in the second that the parent waits for it, and is killed with it. The loss heals only when a later replacement gives back for a child that holds none. |

The gap of `MCDownloadLost` has one more consequence, which `DownloadCoordinator`
leaves out as it needs a pause: a reload (the parent sends one whenever it refreshed
the references) that arrives in the same tenth of a second as the end of a pause drops
the one-shot safety task with its batch, and the safety process waits for it in vain.

Smaller differences seen while modelling:

- A job that a crash faulted, whose result is then accepted, is counted as
  completed twice (`jobs/job_tracker.py:1072-1078`).
- The job removed with a replaced slot is the slot's `last_job_referenced`
  (`lifecycle/process_lifecycle.py:1401`), which may already be in safety: a job
  whose inference finished is then faulted for the end of a process that no longer
  worked on it.
- A task that a thread has claimed and not yet registered is not seen by a
  cancellation (`workers/download_process.py:401`); it is fetched all the same.
- The coordinator aborts with both pools working if one was broken earlier in
  the episode and no job has ended since (`worker_recovery_coordinator.py:434`);
  and a job that faults counts as progress, though the docstring speaks of jobs
  completed.
- A residency that is claimed by reducing the context of a head whose weights do
  not fit alone (`scheduling/inference_scheduler.py:2789-2816`) parks that head, as
  the test for a prepared card asks for `fits_alone`.
- Switching `whole_card_residency_safety_off_gpu` off while a residency is held
  leaves the safety process off the GPU (lines 1553-1557).

## 5. Fairness

A temporal property is only as good as the fairness it assumes.

- **Pipeline.** Weak fairness of each handler per job or slot: the control loop
  calls them all every tick and drains the message queue. Weak fairness of a live
  child, of the submitter's next step, and of replacement, which the lifecycle
  attempts each tick. None of crashes, kills or pipe errors, which
  `MaxDisruptions` bounds, and none of `Pop`.
- **Lifecycle.** Weak fairness of what the control loop does every tick (reading
  mail, the crash reap, the next phase of a safety replacement), of a child that is
  starting, and of a safety process that was told to end. None of work, failures,
  hang checks, scaling or resets.
- **Session.** Weak fairness of the loops' own rounds and of the return of a request,
  as every request has a time limit; of the wind-down and of the timer. None of a
  signal, and none of the work of a child: `ShutdownEnds` must not need it.
- **Permits.** Weak fairness of a child that works and of the end of one that was told
  to; strong fairness of the replacement of one that is dead, stands still or waits in
  vain, since the parent does nothing else while it joins another but looks at every
  child in each pass (`lifecycle/process_lifecycle.py:1859`); strong fairness of each
  child's acquisition, since the permit is freed and taken by others in between. The
  semaphores of `multiprocessing` do not promise an order, but neither do they pass over
  a waiter for ever when a release wakes one. None of faults, and so none of `ReplaceSlow`
  or `ReplaceIdle`.
- **Residency.** Weak fairness of the cycle, of a process that starts, loads or
  runs, of the safety check, and of the clock (`CooldownEnds`, `DrainSettles`). None of
  `Pop` or of a crash.
- **Downloads.** Weak fairness of each thread's next step and of the main loop,
  whose waits all have timeouts. Strong fairness of `TakeSlot`, as the
  semaphore is freed and taken again by the inference processes, and the code
  polls for it without limit; weak fairness of its release by them. No fairness of
  a `Fetch` of an exclusive task: a verify may hang, and `NoStarvation` is
  about that. `ExclusiveTimeout` is the clock and is weakly fair.
- **Coordinator.** Weak fairness of each thread as a whole, as none of them waits for
  another: the parent's loop (`ParentStep`), the process's control thread
  (`ControlStep`), its main loop from the start-up on (`MainStep`), each executor
  (`ExecutorStep`), and of the report that a pass sends (`Report`). None of a change
  by the operator, of the hold, which may last for ever, or of `Die`.
- **Recovery.** Weak fairness of `Tick` only.

## 6. What is proved

Eight modules hold theorems. None of them bounds anything: jobs, slots, children,
permits, attempts, disruptions and thresholds are any that the assumptions allow.

**The tracker** (`JobTrackerProofs`), called by anyone in any order:

- `CallsTypeCorrect`: `CallsSpec => []CallsTypeOK`;
- `RetryBounded`: a job that is not final has an attempt left;
- `DegradedAtMostOnce`: no job is granted two degraded retries from its pop on;
- `SubmissionIsFinal`: no call takes a job out of `PENDING_SUBMIT` but into oblivion;
- `QueuesAreFifo`: no call lets a job pass another that stays in its queue;
- `NewcomersAreLast`: who comes into a queue goes behind all that stay in it.

The first two follow from `TrackerGood`, `CallsSpec => []CallsInv`, where `CallsInv` is
`Good(tracker)`: the type, the retry budget, and that the sequence orders the tracked
jobs. None of them is inductive alone. A fault keeps the attempts below the limit only
if they were before, and keeps their type only if the stage it moves to is one the table allows; removing or requeueing
a job keeps the order only if no untracked job is in it.

`DegradedAtMostOnce` needs that the tracker does not forget. A job's entry, with the flag
of its degraded retry, may be removed and made anew by a caller that still has the job.
The invariant (`GrantPaid`) is that a job with a grant either has the flag or has an
entry without a pop, and only a popped job is retried; that no call but a pop gives an
entry a pop, and none takes the flag back, is `Remembers`.

The three action properties need one more conjunct (`TrackerFine`): a job in
`PENDING_SUBMIT` has its `job_info`, without which registering it anew would take it to
the back of its queue.

The argument is by operator, not by action. The lemmas show first that
`ToBack`, removal and no change keep an order strict and total, then that
`SetStage`, `Register`, `Remove` and an update of one record keep `Good`, and then
each method from the ones it calls. The same lemmas serve the pipeline.

**The pipeline** (`PipelineProofs`):

- `TypeCorrect`, and `ReportsOnce`, `NeverDetached` and `CheckedHasImages`, the
  invariants of the two pipeline runs;
- `ImplementsLifecycle`: `Spec => LifecycleKept`, the refinement.

The inductive invariant (`PipelineInv`) has four parts: `World`, the types of all
that surrounds the tracker; `Sound(tracker)`, which adds to `Good` that every
tracked job was popped and has its `job_info`, that what is in safety has
images, and that no job is `DETACHED`; `Answered`, a job is tracked from its pop until
its one report; and `Submitting`, the job that the submitter holds over its awaits
still waits for it. The last is what makes the suspended submitter safe: it needs
that every other handler leaves a job in `PENDING_SUBMIT` there. Each handler is
therefore shown to be an `Advance` of one job (the others are untouched, and its stage
goes `Onward`) or, for a broken safety pipe, a move of several between the
two stages of safety. The refinement follows from the same two facts: an `Advance`
changes the phase of one job at most, and that in a way `JobLifecycle` allows.

**The processes** (`LifecycleProofs`): `TypeCorrect`; `NoneForgotten` (`OwnedOrTold`),
`PlacementSettled` (`PlacementFollows`) and `BreakersJust` (`BreakersEarned`), from
`LifecycleInv`, which adds to them that a new launch has no old mail and that a
count of a breaker is covered by crashes and hangs since the last reset. A dead child
that is not `Excused` (by a failed load, read or unread) has one of them still to be
counted, which is what a charge at its replacement needs.

**The session** (`SessionProofs`): `TypeCorrect`, `DrainReports` (`AcceptedIsReported`),
`WindDownWaits` (`WorkKeepsItsProcess`) and `ExitLeavesNone` (`ExitLeavesNoneUntold`),
from `SessionInv`: the types, what the inference process and the safety process
can be while work is queued, which loops may have ended at which point of a shutdown, and
(`StraysInv`) that only a forced end leaves a stray which nothing has on record.

**The permits** (`PermitsProofs`): `TypeCorrect` and `PermitsComeBack` (`NoneOrphaned`),
from `PermitsInv`: who owes a release is inside the guarded section, and only the child
that the parent waits for is late, with what it still holds (`LateHolds`). Nothing is
assumed of the children that are ended: they may stand still, be slow, or be idle. The
proof is about what a gate is owed. A release on behalf of a child takes that child out
of the reckoning and gives at most one permit back, so the sum does not fall; what the
child takes afterwards counts again, until it gives it back or ends with it, and the
second is what `lost` records.

**The downloads** (`DownloadProofs`). The theorems come twice: for the process under
any control messages (`Spec`), and for the process composed with its coordinator
(`SystemSpec`).

- `AdmissionCountsRuns` (`CountersExact`), `NoTaskTwice` (`OneFetchPerTask`),
  `VerifyRunsAlone` (`ExclusiveAlone`), `SlotCoversFetches` (`SlotHeldToFetch`),
  `NothingReadsDuringReload` (`ReloadAlone`), `ProcessTypes` and
  `NoWantedFetchStopped`, from `ProcessIsSafe`;
- `TargetsStayAgreed` (`TargetsAgree`) and `SystemStopsDropped`
  (`CancelledIsDropped`), from `SystemIsSafe`.

The five that concern admission hold only together. That no thread fetches a task twice
needs that what waits is not in flight, and that the in-flight keys are the tasks of the
running threads; that a verify starts alone needs that the count it waits for is
what runs; and that the counts are exact needs that a thread which releases a task was
counted for it, so that the floors at zero in `release` never hide a loss. `SlotOk` says
who must give the semaphore back: the holder count is the number of registered threads, and at most one thread is between dropping
the slot and releasing the semaphore. `StopsDropped` says more than
`CancelledIsDropped`, that the thread told to stop is still registered: only then
does a request that wants the model again find it and withdraw the stop.
`ReloadQuiet` adds that nothing waits in the queue during a reload, as an
executor could claim it.

`SystemInv` adds the channels. `TargetsAgree` speaks of the last request under way, and
a request is left unsent on the strength of the last report read. That is sound
because of `ReportsTrue`: whatever a report has is on disk, however old the report and
whichever others it overtook, as models are never removed; and there is nothing on disk,
as far as the process knows, before the scan. Each step of the
composition then either is a step of `Spec`, leaves the process as it is, or is one of
the three messages, which are steps of the process but for its bound on them; the lemmas
on those are shared.

**The residency** (`ResidencyProofs`): `TypeCorrect` and `HeavyRunsAlone`
(`HeavyHasTheCard`), from `ResidencyInv`. The invariant is a predicate on the worker's
record, and each operator of the cycle is shown to keep it, so a cycle keeps it as
their composition. Beside the types and what a slot can hold, it says that only one of
the queued jobs is exclusive, and that the card is held for the model of that job if
it is heavy. Both are needed for the moment between admission and dispatch: the job was
granted the device in one cycle and starts in a later one, after processes crashed,
the clock ran or the residency was converged. The first keeps another job from claiming
the card in between. The second is why the start of the job waits for the card:
`start_inference` tests whether the teardown is over only for the model that holds it.

**Recovery** (`RecoveryProofs`): `TypeCorrect` and `LimpNeedsEpisode`
(`LimpOnlyInEpisode`), inductive together.

The assumptions are the named ones of the modules: `TrackerAssumption`,
`CallerAssumption`, `PipelineAssumption`, `LifecycleAssumption`, `SessionAssumption`,
`PermitsAssumption`, `SchedulerAssumption`, `ProcessAssumption`, `CoordinatorAssumption`,
`ResidencyAssumption`, `RecoveryAssumption`. They say that counts and limits are
natural numbers, that what is counted (executors, processes of a card, jobs of a
residency) is finite, that placeholders are no members of the sets they stand outside
of, that there are as many images as attempts, and that a verify is never retried. TLC
evaluates each in a run.

Every invariant of a passing run is a theorem, and so are the action properties and
the refinement. Only model-checked are the properties that something eventually
happens (`EventuallyReported`, `DeadIsReplaced`, `SafetySucceeded`, `ShutdownEnds`,
`WaitersServed`, `EveryJobRuns`, `CardRestored`, `NoStarvation`, `AskedArrives`,
`PoolsStart`, `BrokenPoolEnds`, `LimpIsLifted`), which rest on fairness and so on
`ENABLED`, both out of the prover's reach; and the counterexamples of section 4.

## 7. What is not modelled

- What memory readings decide: VRAM and RAM admission, the governors, eviction of
  an idle model, the performance model, affinity. `WholeCardResidency` takes
  their verdicts as inputs and `JobPipeline` allows any choice.
- Of the residency: several cards, unloading without a residency, the reclaim
  for post-processing, LoRA line skips, batch waits and the override for starvation.
- When to pop: the throttler and the governors, which decide from rates and
  readings. `WorkerSession` lets the popper pop at any time.
- The cap and age limit of the retired-launch table
  (`lifecycle/process_map.py:165`): `JobPipeline` remembers all launches.
- The window of the runaway-recovery abort, which `RecoveryCoordinator` takes as a
  choice.
- The disk lock, the lock of auxiliary downloads and the sampling lease, which are
  taken and given back as the semaphores of `GpuPermits` are.
- Alchemy forms: their queue, their dispatch to the safety process, their submission.
- Of the download coordinator: auxiliary models and gated features, pausing and
  rates, the plan of the disk, LoRA back-off and the disk guard.
- The owned-process registry's file and the sweep of the next start.
- The map of loaded models, the readiness of features, GPU placement, budgets and
  metrics, configuration parsing, the supervisor channel.
- The terminal interface, statistics, telemetry, the test harness, simulation,
  benchmarks, packaging and installers.

The last group is about half of the implementation's lines, and of the scheduler and
the process manager, the two longest files, most lines weigh measurements, log, or
construct objects. The lines that the map covers are therefore a small share of
all; they are the ones where order matters.

## 8. Plan

Done: the tracker, the pipeline and its refinement, the processes, the session, the
permits, the residency, downloads and their coordinator, recovery; theorems about every
invariant and action property of the runs. Left, in this order:

1. Theorems that need no fairness and lie under the liveness properties: in the
   tracker, that the attempts of a job never fall while it is tracked; in the
   lifecycle, that no phase of a safety replacement is entered again without a new
   one; in recovery, that an abort follows an episode of the length the code asks for.
2. An abstract specification of the scheduler's admission (which tasks run, and the
   three limits), which the download process implements, as the pipeline does
   `JobLifecycle`.
3. In `DownloadCoordinator`: pausing, auxiliary models, and a second thread, of
   whose task a report says nothing.
4. The alchemy path beside the image jobs, which share the safety process.
5. `HordeModelMap`, the pop throttler and the large-model governor; the residency on
   several cards.
6. `ProcessLifecycle` composed with `RecoveryCoordinator`, whose inputs `broken` and
   `down` it then provides; the owned-process registry across restarts.

----------------------------- MODULE JobPipeline -----------------------------
(* A job's way through the worker: the control loop's handlers (message      *)
(* dispatch, scheduling, safety, replacement and the orphan watchdogs), the  *)
(* child processes they talk to, and the submitter.  Each action is one call *)
(* of a handler, atomic as no other task runs while it does; the loop's tick *)
(* order is not imposed, as every handler may find nothing to do in a tick.  *)
(* Children run in parallel; their messages reach the parent in the order    *)
(* each of them sent, interleaved in any way, and a child that dies loses    *)
(* what its queue feeder had not flushed.                                    *)
(* Timeouts are abstracted: a watchdog that saw a job in one tick may act on *)
(* it in any later one; the one of the jobs in progress, only when the ticks *)
(* of its grace have drained the messages and replaced the dead children     *)
(* there were.  Model loading, residency and VRAM decide which job and slot  *)
(* the scheduler picks: any may be picked.                                   *)
EXTENDS JobTracker, Sequences

CONSTANTS Slot,              \* inference process ids
          NoJob,
          MaxConcurrent,     \* max_threads: jobs in progress at once
          SafetyRequeueMax,  \* SAFETY_REQUEUE_MAX
          MaxSubmitTries,    \* attempts at one submission
          MaxDisruptions     \* bound: crashes, kills and pipe errors in a behaviour

ASSUME PipelineAssumption ==
    /\ NoJob \notin Job
    /\ 1 .. MaxInferenceAttempts \subseteq Image
    /\ {MaxConcurrent, SafetyRequeueMax, MaxSubmitTries, MaxDisruptions} \subseteq Nat

VARIABLES
    popped,       \* the IDs the horde has issued
    slot,         \* HordeProcessInfo: the parent's view of each inference slot
    child,        \* the inference children: alive, control pipe, the job they run
    outbox,       \* messages of each child not yet handled
    orphans,      \* keys of orphan_in_progress_since
    safety,       \* the safety process: launch, alive, control pipe
    verdicts,     \* safety messages not yet handled
    checking,     \* keys of orphan_safety_since
    requeues,     \* safety_requeue_count
    submission,   \* the submitter between its awaits: job and tries
    disruptions,  \* bounded by MaxDisruptions
    cleared,      \* history: images of a job that a safety check passed
    uploaded,     \* history: images of a job that were uploaded
    reported      \* history: how often a job was submitted to the horde

inference == <<slot, child, outbox>>
checks == <<safety, verdicts>>
history == <<cleared, uploaded, reported>>
vars == <<tracker, popped, inference, orphans, checks, checking, requeues,
          submission, disruptions, history>>

-----------------------------------------------------------------------------
(* State                                                                     *)

SlotView == {"PROCESS_STARTING", "WAITING_FOR_JOB", "INFERENCE_STARTING",
             "INFERENCE_COMPLETE", "INFERENCE_FAILED"}
CanAcceptJob == {"WAITING_FOR_JOB", "INFERENCE_COMPLETE"}
InferenceActiveStates == {"INFERENCE_STARTING", "INFERENCE_COMPLETE", "INFERENCE_FAILED"}

Launch == 0 .. MaxDisruptions
Work == [job: Job, image: Image]          \* START_INFERENCE and EVALUATE_SAFETY
Report == [launch: Launch, kind: SlotView \cup {"RESULT", "FAULT"}, job: Job \cup {NoJob},
           image: Image \cup {NoImages}]
Verdict == [launch: Launch, job: Job, image: Image, passed: BOOLEAN]

StateMessage(launch, state) ==
    [launch |-> launch, kind |-> state, job |-> NoJob, image |-> NoImages]

StartedSlot(launch) ==
    [launch |-> launch, view |-> "PROCESS_STARTING", job |-> NoJob, stamped |-> FALSE]
StartedChild == [alive |-> TRUE, inbox |-> <<>>, running |-> <<>>]

Init ==
    /\ tracker = EmptyTracker
    /\ popped = {}
    /\ slot = [s \in Slot |-> [StartedSlot(0) EXCEPT !.view = "WAITING_FOR_JOB"]]
    /\ child = [s \in Slot |-> StartedChild]
    /\ outbox = [s \in Slot |-> <<>>]
    /\ orphans = {}
    /\ safety = [launch |-> 0, alive |-> TRUE, inbox |-> <<>>]
    /\ verdicts = <<>>
    /\ checking = {}
    /\ requeues = [j \in Job |-> 0]
    /\ submission = [job |-> NoJob, tries |-> 0]
    /\ disruptions = 0
    /\ cleared = [j \in Job |-> {}]
    /\ uploaded = [j \in Job |-> {}]
    /\ reported = [j \in Job |-> 0]

JobInfoOf(j) == tracker.job[j].info
JobsInProgress == Listed(tracker, "INFERENCE_IN_PROGRESS")

\* One image per attempt: the one the child makes for this dispatch.
ImageOfAttempt(j) == tracker.job[j].attempts + 1

Disrupt == disruptions < MaxDisruptions /\ disruptions' = disruptions + 1

-----------------------------------------------------------------------------
(* Popping and dispatching                                                   *)

Pop(j) ==
    /\ j \notin popped
    /\ popped' = popped \cup {j}
    /\ tracker' = RecordPoppedJob(tracker, j)
    /\ UNCHANGED <<inference, orphans, checks, checking, requeues, submission, disruptions, history>>

\* start_inference: the parent's view of the slot is what it last heard, so a
\* slot that was sent a job and did not answer yet still looks free.
Dispatch(j, s) ==
    /\ j \in Listed(tracker, "PENDING_INFERENCE")
    /\ slot[s].view \in CanAcceptJob
    /\ Cardinality(JobsInProgress) < MaxConcurrent
    /\ tracker.job[j].needs_degraded_dispatch => JobsInProgress = {}
    /\ IF child[s].alive
       THEN /\ tracker' = ClearDegradedDispatch(MarkInferenceStarted(tracker, j), j)
            /\ slot' = [slot EXCEPT ![s].job = j, ![s].stamped = TRUE]
            /\ child' = [child EXCEPT ![s].inbox =
                            Append(@, [job |-> j, image |-> ImageOfAttempt(j)])]
       ELSE /\ tracker' = HandleJobFault(tracker, j, TRUE, FALSE)
            /\ UNCHANGED <<slot, child>>
    /\ UNCHANGED <<popped, outbox, orphans, checks, checking, requeues, submission,
                   disruptions, history>>

-----------------------------------------------------------------------------
(* The inference children                                                    *)

ChildStart(s) ==
    /\ child[s].alive /\ child[s].running = <<>> /\ child[s].inbox # <<>>
    /\ child' = [child EXCEPT ![s].running = <<Head(child[s].inbox)>>, ![s].inbox = Tail(@)]
    /\ outbox' = [outbox EXCEPT ![s] =
                    Append(@, StateMessage(slot[s].launch, "INFERENCE_STARTING"))]
    /\ UNCHANGED <<tracker, popped, slot, orphans, checks, checking, requeues, submission,
                   disruptions, history>>

\* send_inference_result_message: the result, the outcome as a state, then idle.
ChildFinish(s) ==
    /\ child[s].alive /\ child[s].running # <<>>
    /\ \E ok \in BOOLEAN :
         LET work == child[s].running[1]
             launch == slot[s].launch
             result == [launch |-> launch, kind |-> IF ok THEN "RESULT" ELSE "FAULT",
                        job |-> work.job, image |-> IF ok THEN work.image ELSE NoImages]
             outcome == IF ok THEN "INFERENCE_COMPLETE" ELSE "INFERENCE_FAILED"
         IN outbox' = [outbox EXCEPT ![s] = @ \o
                <<result, StateMessage(launch, outcome), StateMessage(launch, "WAITING_FOR_JOB")>>]
    /\ child' = [child EXCEPT ![s].running = <<>>]
    /\ UNCHANGED <<tracker, popped, slot, orphans, checks, checking, requeues, submission,
                   disruptions, history>>

ChildCrash(s) ==
    /\ child[s].alive
    /\ Disrupt
    /\ child' = [child EXCEPT ![s] = [alive |-> FALSE, inbox |-> <<>>, running |-> <<>>]]
    /\ \E n \in 0 .. Len(outbox[s]) : outbox' = [outbox EXCEPT ![s] = SubSeq(@, 1, n)]
    /\ UNCHANGED <<tracker, popped, slot, orphans, checks, checking, requeues, submission, history>>

-----------------------------------------------------------------------------
(* MessageDispatcher: one message of an inference slot                       *)

\* Mutant: the result of a job the tracker no longer knows is queued anyway.
AcceptResultUnknown(t, j, image) ==
    LET counted == IncrementJobsCompleted(DropPendingInference(ReleaseInProgress(t, j), j))
    IN QueueForSafety(counted, j, [counted.job[j].info EXCEPT !.state = "ok", !.images = image])

\* _handle_inference_result.  The result is written into the job_info the
\* tracker holds, whatever stage the job is in by then.
AcceptResult(t, j, image) ==
    LET detached == DropPendingInference(ReleaseInProgress(t, j), j)
        counted  == IncrementJobsCompleted(detached)
        info     == [counted.job[j].info EXCEPT !.state = "ok", !.images = image]
    IN IF t.job[j].informed
       THEN QueueForSafety(WriteInfo(counted, j, info), j, info)
       ELSE DropPendingInference(ReleaseInProgress(t, j), j)

\* _reap_lost_inference_result
ReapLostResult(t, s) ==
    LET j == slot[s].job
    IN IF /\ slot[s].view \in InferenceActiveStates
          /\ j # NoJob
          /\ j \in JobsInProgress
       THEN HandleJobFault(t, j, TRUE, FALSE)
       ELSE t

\* What a message of the slot's present launch does.  A fault is retryable
\* unless an aux-download incident is active, and may be a resource failure.
HandleReport(s, m) ==
    \/ /\ m.kind = "RESULT"
       /\ tracker' = AcceptResult(tracker, m.job, m.image)
       /\ slot' = [slot EXCEPT ![s].stamped = FALSE]
    \/ /\ m.kind = "FAULT"
       /\ \E retryable, resource \in BOOLEAN :
            tracker' = HandleJobFault(tracker, m.job, retryable, resource)
       /\ slot' = [slot EXCEPT ![s].stamped = FALSE]
    \/ /\ m.kind \in SlotView
       /\ tracker' = IF m.kind = "WAITING_FOR_JOB" THEN ReapLostResult(tracker, s) ELSE tracker
       /\ slot' = [slot EXCEPT ![s].view = m.kind]

\* A message of an earlier launch of the slot is dropped.
Receive(s) ==
    /\ outbox[s] # <<>>
    /\ outbox' = [outbox EXCEPT ![s] = Tail(@)]
    /\ IF Head(outbox[s]).launch = slot[s].launch
       THEN HandleReport(s, Head(outbox[s]))
       ELSE UNCHANGED <<tracker, slot>>
    /\ UNCHANGED <<popped, child, orphans, checks, checking, requeues, submission,
                   disruptions, history>>

-----------------------------------------------------------------------------
(* ProcessLifecycleManager: a slot's process is replaced                     *)

\* _replace_inference_process.  The job faulted is the one the slot references,
\* which dispatch sets and nothing clears when the slot's result is handled.
ReplaceInferenceProcess(s) ==
    LET j == slot[s].job
    IN /\ tracker' = IF j # NoJob THEN HandleJobFault(tracker, j, TRUE, FALSE) ELSE tracker
       /\ slot' = [slot EXCEPT ![s] = StartedSlot(disruptions')]
       /\ child' = [child EXCEPT ![s] = StartedChild]
       /\ outbox' = [outbox EXCEPT ![s] =
                       Append(@, StateMessage(disruptions', "WAITING_FOR_JOB"))]
       /\ UNCHANGED <<popped, orphans, checks, checking, requeues, submission, history>>

\* _reap_if_crashed: the child died on its own.
Reap(s) ==
    /\ ~child[s].alive
    /\ UNCHANGED disruptions
    /\ ReplaceInferenceProcess(s)

\* A live child is killed: it is slow enough to look hung, or its idle process
\* is cycled to give its RAM back or for a maintenance reload.
KillAndReplace(s) ==
    /\ child[s].alive
    /\ Disrupt
    /\ ReplaceInferenceProcess(s)

-----------------------------------------------------------------------------
(* WorkerRecoveryCoordinator: jobs in progress that no slot owns             *)

\* inference_slot_owns_job; the stamp stands for START_INFERENCE as the last
\* control flag with current_inference_started_at set.
SlotOwnsJob(j) ==
    \E s \in Slot :
        /\ child[s].alive
        /\ slot[s].job = j
        /\ slot[s].view \notin CanAcceptJob \/ slot[s].stamped

Ownerless == {j \in JobsInProgress : ~SlotOwnsJob(j)}

\* A tick of reconcile_orphaned_in_progress_jobs that punts nothing.
WatchInProgress ==
    /\ orphans' = Ownerless
    /\ UNCHANGED <<tracker, popped, inference, checks, checking, requeues, submission,
                   disruptions, history>>

\* ORPHAN_IN_PROGRESS_GRACE_SECONDS is many ticks long.
InferenceGraceElapsed == \A s \in Slot : child[s].alive /\ outbox[s] = <<>>

PuntOrphan(j) ==
    /\ j \in orphans \cap Ownerless
    /\ InferenceGraceElapsed
    /\ tracker' = HandleJobFault(tracker, j, TRUE, FALSE)
    /\ orphans' = Ownerless \ {j}
    /\ UNCHANGED <<popped, inference, checks, checking, requeues, submission,
                   disruptions, history>>

-----------------------------------------------------------------------------
(* Safety: SafetyOrchestrator, the safety process, its verdicts              *)

\* start_evaluate_safety.  The parent's view of the safety process stays
\* WAITING_FOR_JOB while it works, so it may be sent several jobs.
StartEvaluateSafety(j) ==
    /\ IsHead(tracker, "PENDING_SAFETY_CHECK", j)
    /\ \/ /\ JobInfoOf(j).images = NoImages
          /\ tracker' = AbandonPendingSafety(HandleJobFault(tracker, j, FALSE, FALSE), j)
          /\ UNCHANGED <<safety, disruptions>>
       \/ /\ JobInfoOf(j).images # NoImages /\ safety.alive
          /\ tracker' = BeginSafetyCheck(tracker, j)
          /\ safety' = [safety EXCEPT !.inbox =
                          Append(@, [job |-> j, image |-> JobInfoOf(j).images])]
          /\ UNCHANGED disruptions
    /\ UNCHANGED <<popped, inference, orphans, verdicts, checking, requeues, submission, history>>

\* The pipe to a live safety process fails: every checked job is requeued and
\* the process is replaced.
SafetyPipeBreaks ==
    /\ safety.alive /\ Listed(tracker, "PENDING_SAFETY_CHECK") # {}
    /\ Disrupt
    /\ tracker' = RequeueBeingSafetyChecked(tracker)
    /\ safety' = [safety EXCEPT !.alive = FALSE, !.inbox = <<>>]
    /\ UNCHANGED <<popped, inference, orphans, verdicts, checking, requeues, submission, history>>

EvaluateSafety ==
    /\ safety.alive /\ safety.inbox # <<>>
    /\ LET work == Head(safety.inbox)
       IN \E passed \in BOOLEAN :
            /\ verdicts' = Append(verdicts, [launch |-> safety.launch, job |-> work.job,
                                             image |-> work.image, passed |-> passed])
            /\ cleared' = IF passed THEN [cleared EXCEPT ![work.job] = @ \cup {work.image}]
                          ELSE cleared
    /\ safety' = [safety EXCEPT !.inbox = Tail(@)]
    /\ UNCHANGED <<tracker, popped, inference, orphans, checking, requeues, submission,
                   disruptions, uploaded, reported>>

SafetyCrash ==
    /\ safety.alive
    /\ Disrupt
    /\ safety' = [safety EXCEPT !.alive = FALSE, !.inbox = <<>>]
    /\ \E n \in 0 .. Len(verdicts) : verdicts' = SubSeq(verdicts, 1, n)
    /\ UNCHANGED <<tracker, popped, inference, orphans, checking, requeues, submission, history>>

\* _replace_all_safety_process, run to its end.
ReplaceSafety ==
    /\ ~safety.alive
    /\ safety' = [launch |-> disruptions, alive |-> TRUE, inbox |-> <<>>]
    /\ UNCHANGED <<tracker, popped, inference, orphans, verdicts, checking, requeues,
                   submission, disruptions, history>>

\* Mutant: the job whose check failed is taken and not queued for its report.
ApplyVerdictForgotten(t, v) ==
    LET taken == TakeBeingSafetyChecked(t, v.job)
        info  == [t.job[v.job].info EXCEPT !.safety_evaluated = TRUE]
    IN IF t.job[v.job].stage # "SAFETY_CHECKING" THEN t
       ELSE IF ~v.passed THEN taken
       ELSE QueueForSubmit(WriteInfo(taken, v.job, info), v.job, info)

\* _handle_safety_result: the verdict is matched to the job, not to the images
\* it was computed on.
ApplyVerdict(t, v) ==
    LET taken == TakeBeingSafetyChecked(t, v.job)
        info  == t.job[v.job].info
        final == IF v.passed THEN [info EXCEPT !.safety_evaluated = TRUE] ELSE FaultJob(info)
    IN IF t.job[v.job].stage # "SAFETY_CHECKING" THEN t
       ELSE IF info.images = NoImages THEN taken
       ELSE QueueForSubmit(WriteInfo(taken, v.job, final), v.job, final)

ReceiveVerdict ==
    /\ verdicts # <<>>
    /\ verdicts' = Tail(verdicts)
    /\ tracker' = IF Head(verdicts).launch = safety.launch
                  THEN ApplyVerdict(tracker, Head(verdicts)) ELSE tracker
    /\ UNCHANGED <<popped, inference, orphans, safety, checking, requeues, submission,
                   disruptions, history>>

-----------------------------------------------------------------------------
(* WorkerRecoveryCoordinator: safety checks without a verdict                *)

\* Mutant: the watchdog looks at the queue in front of the check.
WaitingForSafety == Listed(tracker, "PENDING_SAFETY_CHECK")

BeingSafetyChecked == Listed(tracker, "SAFETY_CHECKING")

\* A requeue count outlives SAFETY_CHECKING only in the safety queue.
KeptRequeues == [j \in Job |->
    IF tracker.job[j].stage \in {"SAFETY_CHECKING", "PENDING_SAFETY_CHECK"}
    THEN requeues[j] ELSE 0]

\* A tick of reconcile_orphaned_safety_jobs in which no grace has elapsed.
WatchSafety ==
    /\ checking' = BeingSafetyChecked
    /\ requeues' = KeptRequeues
    /\ UNCHANGED <<tracker, popped, inference, orphans, checks, submission, disruptions, history>>

RequeuesSpent(j) == requeues[j] >= SafetyRequeueMax

\* is_safety_pool_unrecoverable: whether a pool that is not ready has failed often
\* enough is the process lifecycle's account.
SafetyPoolMayBeUnrecoverable == ~safety.alive

\* A job whose grace elapsed is requeued, or faulted when it was often enough or
\* the safety pool is given up.  Requeueing while the process is dead also asks for
\* its replacement.
ReconcileSafety(j) ==
    /\ j \in checking \cap BeingSafetyChecked
    /\ \/ /\ RequeuesSpent(j) \/ SafetyPoolMayBeUnrecoverable
          /\ tracker' = HandleJobFault(WriteInfo(tracker, j, FaultJob(JobInfoOf(j))),
                                       j, FALSE, FALSE)
          /\ requeues' = [KeptRequeues EXCEPT ![j] = 0]
       \/ /\ ~RequeuesSpent(j)
          /\ tracker' = RequeueOneBeingSafetyChecked(tracker, j)
          /\ requeues' = [KeptRequeues EXCEPT ![j] = requeues[j] + 1]
    /\ checking' = BeingSafetyChecked \ {j}
    /\ UNCHANGED <<popped, inference, orphans, checks, submission, disruptions, history>>

-----------------------------------------------------------------------------
(* JobSubmitter: api_submit_job suspends at every upload and every request   *)

\* What it decides of the head before it first suspends: a job without a state,
\* or with images that no verdict covers, is faulted.
SubmitBegin(j) ==
    /\ submission.job = NoJob
    /\ IsHead(tracker, "PENDING_SUBMIT", j)
    /\ LET info == JobInfoOf(j)
           stated == IF info.state = "none" THEN [info EXCEPT !.state = "faulted"] ELSE info
           punted == stated.images # NoImages /\ ~stated.safety_evaluated
       IN tracker' = WriteInfo(tracker, j, IF punted THEN FaultJob(stated) ELSE stated)
    /\ submission' = [job |-> j, tries |-> 0]
    /\ UNCHANGED <<popped, inference, orphans, checks, checking, requeues, disruptions, history>>

\* submit_single_generation reads the images anew on each try.
Upload(j) ==
    uploaded' = IF JobInfoOf(j).images # NoImages
                THEN [uploaded EXCEPT ![j] = @ \cup {JobInfoOf(j).images}] ELSE uploaded

SubmitRetry ==
    /\ submission.job # NoJob /\ submission.tries < MaxSubmitTries
    /\ Upload(submission.job)
    /\ submission' = [submission EXCEPT !.tries = @ + 1]
    /\ UNCHANGED <<tracker, popped, inference, orphans, checks, checking, requeues,
                   disruptions, cleared, reported>>

\* Accepted, refused for good, or out of tries: the job leaves the tracker.
SubmitDone ==
    /\ submission.job # NoJob
    /\ LET j == submission.job
       IN /\ Upload(j)
          /\ tracker' = FinalizeSubmitted(EnsureSubmittedJobInfo(tracker, j, JobInfoOf(j)), j)
          /\ reported' = [reported EXCEPT ![j] = @ + 1]
    /\ submission' = [job |-> NoJob, tries |-> 0]
    /\ UNCHANGED <<popped, inference, orphans, checks, checking, requeues, disruptions, cleared>>

-----------------------------------------------------------------------------
Next ==
    \/ \E j \in Job : Pop(j)
    \/ \E j \in Job, s \in Slot : Dispatch(j, s)
    \/ \E s \in Slot : ChildStart(s) \/ ChildFinish(s) \/ ChildCrash(s)
    \/ \E s \in Slot : Receive(s) \/ Reap(s) \/ KillAndReplace(s)
    \/ WatchInProgress \/ \E j \in Job : PuntOrphan(j)
    \/ \E j \in Job : StartEvaluateSafety(j)
    \/ SafetyPipeBreaks \/ EvaluateSafety \/ SafetyCrash \/ ReplaceSafety \/ ReceiveVerdict
    \/ WatchSafety \/ \E j \in Job : ReconcileSafety(j)
    \/ \E j \in Job : SubmitBegin(j)
    \/ SubmitRetry \/ SubmitDone

Spec == Init /\ [][Next]_vars

\* The loop calls every handler in every tick, live children work off their
\* pipes, and the submitter's tries come to an end.  Nothing has to crash, to be
\* popped, or to look hung.
Fairness ==
    /\ \A j \in Job : /\ WF_vars(\E s \in Slot : Dispatch(j, s))
                     /\ WF_vars(PuntOrphan(j))
                     /\ WF_vars(StartEvaluateSafety(j))
                     /\ WF_vars(ReconcileSafety(j))
                     /\ WF_vars(SubmitBegin(j))
    /\ \A s \in Slot : /\ WF_vars(ChildStart(s)) /\ WF_vars(ChildFinish(s))
                      /\ WF_vars(Receive(s)) /\ WF_vars(Reap(s))
    /\ WF_vars(WatchInProgress) /\ WF_vars(WatchSafety)
    /\ WF_vars(EvaluateSafety) /\ WF_vars(ReplaceSafety) /\ WF_vars(ReceiveVerdict)
    /\ WF_vars(SubmitRetry \/ SubmitDone)

FairSpec == Spec /\ Fairness

-----------------------------------------------------------------------------
(* Properties                                                                *)

\* Every variable has its type: no handler brings the tracker into a stage or an
\* attempt count it does not know, and no bound of a counter is passed.
TypeOK ==
    /\ tracker \in TrackerState
    /\ popped \subseteq Job
    /\ slot \in [Slot -> [launch: Launch, view: SlotView, job: Job \cup {NoJob},
                          stamped: BOOLEAN]]
    /\ child \in [Slot -> [alive: BOOLEAN, inbox: Seq(Work), running: Seq(Work)]]
    /\ outbox \in [Slot -> Seq(Report)]
    /\ orphans \subseteq Job
    /\ safety \in [launch: Launch, alive: BOOLEAN, inbox: Seq(Work)]
    /\ verdicts \in Seq(Verdict)
    /\ checking \subseteq Job
    /\ requeues \in [Job -> 0 .. SafetyRequeueMax]
    /\ submission \in [job: Job \cup {NoJob}, tries: 0 .. MaxSubmitTries]
    /\ disruptions \in 0 .. MaxDisruptions
    /\ cleared \in [Job -> SUBSET Image]
    /\ uploaded \in [Job -> SUBSET Image]
    /\ reported \in [Job -> Nat]

\* The horde hears of a job once: no late result, verdict, watchdog or
\* replacement brings a reported job back into the tracker.
ReportedOnce ==
    \A j \in Job : reported[j] > 0 => reported[j] = 1 /\ ~IsTracked(tracker, j)

\* No job is left DETACHED, the stage between two of a handler's calls that no
\* queue lists and num_jobs_total leaves out: it would never be seen again.
NoneLeftDetached == \A j \in Job : tracker.job[j].stage # "DETACHED"

\* Every job waiting for or under a safety check has images to check, so the
\* orchestrator's critical fault and the early return of the verdict handler
\* (which would leave the job DETACHED) are never reached.
SafetyHasImages ==
    \A j \in Job : tracker.job[j].stage \in {"PENDING_SAFETY_CHECK", "SAFETY_CHECKING"}
        => JobInfoOf(j).images # NoImages /\ JobInfoOf(j).state = "ok"

\* Only images a safety check passed are uploaded.
UploadsCleared == \A j \in Job : uploaded[j] \subseteq cleared[j]

\* The watchdog sends a check without a verdict "back to the front of the safety
\* queue for a fresh check" (the docstring of requeue_one_being_safety_checked).
RequeuedToFront ==
    [][\A j \in Job : requeues'[j] > requeues[j]
          => IsHead(tracker', "PENDING_SAFETY_CHECK", j)]_vars

\* Every job the horde issued is answered for, whatever was lost on its way: no
\* job stays in a queue that nobody drains or in progress that nobody notices.
EventuallyReported == \A j \in Job : (j \in popped) ~> (reported[j] > 0)

\* The stage of a job as the horde sees it: the steps of JobLifecycle, in which
\* no stage comes twice.
PhaseOf(j) ==
    IF reported[j] > 0 THEN "reported"
    ELSE CASE tracker.job[j].stage \in {"PENDING_INFERENCE", "INFERENCE_IN_PROGRESS"} -> "inference"
           [] tracker.job[j].stage \in {"PENDING_SAFETY_CHECK", "SAFETY_CHECKING"} -> "safety"
           [] tracker.job[j].stage = "PENDING_SUBMIT" -> "submit"
           [] OTHER -> "unknown"

Lifecycle == INSTANCE JobLifecycle WITH phase <- [j \in Job |-> PhaseOf(j)]

\* The pipeline implements JobLifecycle: whatever is lost, retried or late, a
\* job's stages follow each other in one order, each handler moves one job by at
\* most one stage, and none is reported before it was submitted.
LifecycleKept == Lifecycle!Spec

\* A slot back at idle that still references a job in progress has lost that
\* job's result: the job is neither in its pipe nor running there.
ReapMeansLost ==
    \A s \in Slot :
        LET held == child[s].inbox \o child[s].running
        IN (/\ outbox[s] # <<>>
            /\ Head(outbox[s]) = StateMessage(slot[s].launch, "WAITING_FOR_JOB")
            /\ ReapLostResult(tracker, s) # tracker)
           => \A i \in DOMAIN held : held[i].job # slot[s].job
=============================================================================

----------------------------- MODULE JobTracker -----------------------------
(* The lifecycle of an image job as JobTracker (jobs/job_tracker.py) keeps   *)
(* it.  A tracker state is a record t                                        *)
(*   t.job[j]     the TrackedJob of j (stage "UNTRACKED": no entry),         *)
(*   t.ahead[j]   the tracked jobs whose stage_sequence is smaller than j's: *)
(*                the order of every stage's FIFO queue,                     *)
(*   t.completed  _total_num_completed_jobs.                                 *)
(* Every method is an operator from tracker state to tracker state, so that  *)
(* a handler that makes several calls is their composition, one atomic step  *)
(* (no method suspends between its reads and its writes): JobTrackerCalls    *)
(* makes the calls in any order, JobPipeline as the worker's handlers do.    *)
(* Left out: timestamps, fault metadata, the resource-fault ledger the pop   *)
(* governors read, and device indices.                                       *)
EXTENDS Naturals, FiniteSets

CONSTANTS Job,                  \* generation IDs the horde may issue
          Image,                \* image results, told apart by the attempt that made them
          NoImages,             \* job_image_results = None
          MaxInferenceAttempts  \* bridge_data.max_inference_attempts

ASSUME TrackerAssumption ==
    /\ NoImages \notin Image
    /\ MaxInferenceAttempts \in Nat \ {0}

VARIABLE tracker              \* the worker's JobTracker

Stage == {"PENDING_INFERENCE", "INFERENCE_IN_PROGRESS", "DETACHED",
          "PENDING_SAFETY_CHECK", "SAFETY_CHECKING", "PENDING_SUBMIT"}

\* Mutant: a job that waits for its safety check may be inferred again.
AllowedTransitionsSafetyRetry == [
    PENDING_INFERENCE     |-> {"INFERENCE_IN_PROGRESS", "DETACHED",
                               "PENDING_SAFETY_CHECK", "PENDING_SUBMIT"},
    INFERENCE_IN_PROGRESS |-> {"PENDING_INFERENCE", "DETACHED",
                               "PENDING_SAFETY_CHECK", "PENDING_SUBMIT"},
    DETACHED              |-> {"PENDING_SAFETY_CHECK", "PENDING_SUBMIT", "PENDING_INFERENCE"},
    PENDING_SAFETY_CHECK  |-> {"SAFETY_CHECKING", "PENDING_SUBMIT", "DETACHED",
                               "PENDING_INFERENCE"},
    SAFETY_CHECKING       |-> {"DETACHED", "PENDING_SAFETY_CHECK", "PENDING_SUBMIT"},
    PENDING_SUBMIT        |-> {}]

AllowedTransitions == [
    PENDING_INFERENCE     |-> {"INFERENCE_IN_PROGRESS", "DETACHED",
                               "PENDING_SAFETY_CHECK", "PENDING_SUBMIT"},
    INFERENCE_IN_PROGRESS |-> {"PENDING_INFERENCE", "DETACHED",
                               "PENDING_SAFETY_CHECK", "PENDING_SUBMIT"},
    DETACHED              |-> {"PENDING_SAFETY_CHECK", "PENDING_SUBMIT", "PENDING_INFERENCE"},
    PENDING_SAFETY_CHECK  |-> {"SAFETY_CHECKING", "PENDING_SUBMIT", "DETACHED"},
    SAFETY_CHECKING       |-> {"DETACHED", "PENDING_SAFETY_CHECK", "PENDING_SUBMIT"},
    PENDING_SUBMIT        |-> {}]

(* HordeJobInfo: the mutable object a job carries from pop to submission.    *)
JobInfo == [state: {"none", "ok", "faulted"},
            images: Image \cup {NoImages},
            safety_evaluated: BOOLEAN]

FreshInfo == [state |-> "none", images |-> NoImages, safety_evaluated |-> FALSE]

\* HordeJobInfo.fault_job()
FaultJob(info) == [info EXCEPT !.state = "faulted", !.images = NoImages]

TrackedJob == [stage: Stage \cup {"UNTRACKED"},
               informed: BOOLEAN,               \* job_info is not None
               info: JobInfo,
               popped: BOOLEAN,                 \* time_popped is not None
               attempts: 0 .. MaxInferenceAttempts,
               degraded_retry_used: BOOLEAN,
               needs_degraded_dispatch: BOOLEAN,
               admitted_over_budget: BOOLEAN]

NewTracked(stage, informed, info, popped) ==
    [stage |-> stage, informed |-> informed, info |-> info, popped |-> popped,
     attempts |-> 0, degraded_retry_used |-> FALSE,
     needs_degraded_dispatch |-> FALSE, admitted_over_budget |-> FALSE]

Untracked == NewTracked("UNTRACKED", FALSE, FreshInfo, FALSE)

TrackerState == [job: [Job -> TrackedJob],
                 ahead: [Job -> SUBSET Job],
                 completed: Nat]

EmptyTracker == [job |-> [j \in Job |-> Untracked],
                 ahead |-> [j \in Job |-> {}],
                 completed |-> 0]

-----------------------------------------------------------------------------
(* Reading the tracker                                                       *)

IsTracked(t, j) == t.job[j].stage # "UNTRACKED"
Tracked(t) == {j \in Job : IsTracked(t, j)}
InStage(t, stage) == {j \in Job : t.job[j].stage = stage}

\* jobs_pending_safety_check[0], jobs_pending_submit[0], ...: the FIFO head.
\* Jobs without a job_info are not listed by those properties.
\* jobs_pending_inference lists by pop order instead: of that queue only the
\* members are used here, as any of them may be the one the scheduler picks.
Listed(t, stage) == {j \in InStage(t, stage) : t.job[j].informed}
IsHead(t, stage, j) == j \in Listed(t, stage) /\ t.ahead[j] \cap Listed(t, stage) = {}

\* _set_stage answers True
MayEnter(t, j, stage) ==
    \/ t.job[j].stage = stage
    \/ IsTracked(t, j) /\ stage \in AllowedTransitions[t.job[j].stage]

-----------------------------------------------------------------------------
(* The private steps every mutation is made of                               *)

\* A fresh stage_sequence puts j behind every other tracked job.
ToBack(t, j) == [k \in Job |-> IF k = j THEN Tracked(t) \ {j} ELSE t.ahead[k] \ {j}]

Register(t, j, stage, informed, info, popped) ==
    [t EXCEPT !.job[j] = NewTracked(stage, informed, info, popped),
              !.ahead = ToBack(t, j)]

\* Mutant: the no-op of a job already in the stage takes a new sequence number.
SetStageResequences(t, j, stage) ==
    IF MayEnter(t, j, stage)
    THEN [t EXCEPT !.job[j].stage = stage, !.ahead = ToBack(t, j)]
    ELSE t

SetStage(t, j, stage) ==
    IF t.job[j].stage # stage /\ MayEnter(t, j, stage)
    THEN [t EXCEPT !.job[j].stage = stage, !.ahead = ToBack(t, j)]
    ELSE t

Remove(t, j) ==
    [t EXCEPT !.job[j] = Untracked,
              !.ahead = [k \in Job |-> IF k = j THEN {} ELSE t.ahead[k] \ {j}]]

\* A holder of the HordeJobInfo object writes to it in place.
WriteInfo(t, j, info) == [t EXCEPT !.job[j].info = info]

-----------------------------------------------------------------------------
(* The methods                                                               *)

RecordPoppedJob(t, j) == Register(t, j, "PENDING_INFERENCE", TRUE, FreshInfo, TRUE)

MarkInferenceStarted(t, j) ==
    IF IsTracked(t, j)
    THEN SetStage(t, j, "INFERENCE_IN_PROGRESS")
    ELSE Register(t, j, "INFERENCE_IN_PROGRESS", FALSE, FreshInfo, FALSE)

ReleaseInProgress(t, j) ==
    IF t.job[j].stage # "INFERENCE_IN_PROGRESS" THEN t
    ELSE IF t.job[j].popped THEN SetStage(t, j, "PENDING_INFERENCE") ELSE Remove(t, j)

DropPendingInference(t, j) ==
    IF t.job[j].stage = "PENDING_INFERENCE" THEN SetStage(t, j, "DETACHED") ELSE t

\* The shape of queue_for_safety and queue_for_submit: the stage move decides,
\* and only a move that is accepted adopts the caller's job_info.
Queue(t, j, stage, info) ==
    IF ~IsTracked(t, j) THEN Register(t, j, stage, TRUE, info, FALSE)
    ELSE IF ~MayEnter(t, j, stage) THEN t
    ELSE [SetStage(t, j, stage) EXCEPT !.job[j].informed = TRUE, !.job[j].info = info]

QueueForSafety(t, j, info) == Queue(t, j, "PENDING_SAFETY_CHECK", info)
QueueForSubmit(t, j, info) == Queue(t, j, "PENDING_SUBMIT", info)

BeginSafetyCheck(t, j) ==
    IF IsTracked(t, j) THEN SetStage(t, j, "SAFETY_CHECKING") ELSE t

AbandonPendingSafety(t, j) ==
    IF t.job[j].stage = "PENDING_SAFETY_CHECK" THEN SetStage(t, j, "DETACHED") ELSE t

RequeueOneBeingSafetyChecked(t, j) ==
    IF t.job[j].stage = "SAFETY_CHECKING" THEN SetStage(t, j, "PENDING_SAFETY_CHECK") ELSE t

\* Mutant: the checked jobs go back to the places they had in the queue.
RequeueToOldPlaces(t) ==
    [t EXCEPT !.job = [k \in Job |-> IF k \in InStage(t, "SAFETY_CHECKING")
                                     THEN [t.job[k] EXCEPT !.stage = "PENDING_SAFETY_CHECK"]
                                     ELSE t.job[k]]]

\* Every checked job goes to the back of the queue, in the order it held.
RequeueBeingSafetyChecked(t) ==
    LET checking == InStage(t, "SAFETY_CHECKING")
    IN [t EXCEPT
          !.job = [k \in Job |-> IF k \in checking
                                 THEN [t.job[k] EXCEPT !.stage = "PENDING_SAFETY_CHECK"]
                                 ELSE t.job[k]],
          !.ahead = [k \in Job |-> IF k \in checking
                                   THEN (Tracked(t) \ checking) \cup (t.ahead[k] \cap checking)
                                   ELSE t.ahead[k] \ checking]]

\* The job_info it returns is t.job[j].info, or None when it does not apply.
TakeBeingSafetyChecked(t, j) ==
    IF t.job[j].stage = "SAFETY_CHECKING" THEN SetStage(t, j, "DETACHED") ELSE t

IncrementJobsCompleted(t) == [t EXCEPT !.completed = @ + 1]

EnsureSubmittedJobInfo(t, j, info) ==
    IF IsTracked(t, j) /\ t.job[j].informed THEN t
    ELSE Register(t, j, "PENDING_SUBMIT", TRUE, info, FALSE)

FinalizeSubmitted(t, j) == IF IsTracked(t, j) THEN Remove(t, j) ELSE t

DiscardJob(t, j) == IF IsTracked(t, j) THEN Remove(t, j) ELSE t

PurgeJobs(t) == [EmptyTracker EXCEPT !.completed = t.completed]

ClearDegradedDispatch(t, j) ==
    IF IsTracked(t, j) THEN [t EXCEPT !.job[j].needs_degraded_dispatch = FALSE] ELSE t

MarkAdmittedOverBudget(t, j) ==
    IF IsTracked(t, j) THEN [t EXCEPT !.job[j].admitted_over_budget = TRUE] ELSE t

-----------------------------------------------------------------------------
(* handle_job_fault, handle_job_fault_now: what becomes of a failed job      *)

CountAttempt(t, j) == [t EXCEPT !.job[j].attempts = @ + 1]

\* Mutant: the budget is compared before the attempt counts.
MayRetryOnceTooOften(t, j, retryable) ==
    /\ retryable
    /\ t.job[j].popped
    /\ t.job[j].attempts <= MaxInferenceAttempts
    /\ MayEnter(t, j, "PENDING_INFERENCE")

MayRetry(t, j, retryable) ==
    /\ retryable
    /\ t.job[j].popped
    /\ t.job[j].attempts < MaxInferenceAttempts
    /\ MayEnter(t, j, "PENDING_INFERENCE")

\* Mutant: whether the degraded retry was used already is not asked.
DegradedWheneverResource(t, j, resource) == resource

\* RETRY_DEGRADED rather than RETRY
Degraded(t, j, resource) == resource /\ ~t.job[j].degraded_retry_used

Retry(t, j, resource) ==
    LET back == SetStage(t, j, "PENDING_INFERENCE")
    IN IF Degraded(t, j, resource)
       THEN [back EXCEPT !.job[j].degraded_retry_used = TRUE,
                         !.job[j].needs_degraded_dispatch = TRUE]
       ELSE back

\* Mutant: the job is faulted where it is.
FaultTerminallyInPlace(t, j) ==
    [WriteInfo(t, j, FaultJob(t.job[j].info)) EXCEPT !.completed = @ + 1]

FaultTerminally(t, j) ==
    LET faulted == WriteInfo(t, j, FaultJob(t.job[j].info))
    IN [SetStage(faulted, j, "PENDING_SUBMIT") EXCEPT !.completed = @ + 1]

\* Mutant: a late failure is counted against a job that is already final.
FaultAppliesLate(t, j) == IsTracked(t, j) /\ t.job[j].informed

\* The failure counts for a job that has a job_info and is not yet final.
FaultApplies(t, j) ==
    IsTracked(t, j) /\ t.job[j].informed /\ t.job[j].stage # "PENDING_SUBMIT"

ResourceFailure(t, j, is_resource_failure) ==
    is_resource_failure \/ t.job[j].admitted_over_budget

HandleJobFault(t, j, retryable, is_resource_failure) ==
    LET counted == CountAttempt(t, j)
    IN IF ~FaultApplies(t, j) THEN t
       ELSE IF MayRetry(counted, j, retryable)
            THEN Retry(counted, j, ResourceFailure(t, j, is_resource_failure))
       ELSE FaultTerminally(counted, j)

\* The caller is answered RETRY_DEGRADED.
GrantsDegraded(t, j, retryable, is_resource_failure) ==
    /\ FaultApplies(t, j)
    /\ MayRetry(CountAttempt(t, j), j, retryable)
    /\ Degraded(CountAttempt(t, j), j, ResourceFailure(t, j, is_resource_failure))

-----------------------------------------------------------------------------
(* What every tracker state satisfies, whatever calls made it                *)

\* A job that is still anywhere before PENDING_SUBMIT has an attempt left.
RetryBoundOf(t) ==
    \A j \in Job : t.job[j].stage # "PENDING_SUBMIT" => t.job[j].attempts < MaxInferenceAttempts

\* ahead is a strict total order of the tracked jobs.
StrictOrderOf(t) ==
    /\ \A j \in Job : t.ahead[j] \subseteq Tracked(t) \ {j}
    /\ \A j \in Job : ~IsTracked(t, j) => t.ahead[j] = {}
    /\ \A j, k \in Tracked(t) : j # k => (j \in t.ahead[k] <=> k \notin t.ahead[j])
    /\ \A i, j, k \in Job : i \in t.ahead[j] /\ j \in t.ahead[k] => i \in t.ahead[k]
=============================================================================

--------------------------- MODULE JobTrackerCalls ---------------------------
(* JobTracker under a caller that makes any call at any time with any        *)
(* arguments: what holds here holds for every caller in the worker.          *)
EXTENDS JobTracker

CONSTANT CallerInfo   \* the HordeJobInfo values the caller queues

ASSUME CallerAssumption == CallerInfo \subseteq JobInfo

VARIABLE granted      \* history: degraded retries granted to a job since it was popped

calls == <<tracker, granted>>

CallsInit ==
    /\ tracker = EmptyTracker
    /\ granted = [j \in Job |-> 0]

\* The horde gives every job an ID of its own; one it issues again, when the
\* worker has forgotten the job, is a new job.
PopCall(j) ==
    /\ ~IsTracked(tracker, j)
    /\ tracker' = RecordPoppedJob(tracker, j)
    /\ granted' = [granted EXCEPT ![j] = 0]

Infer(j) ==
    /\ UNCHANGED granted
    /\ \/ tracker' = MarkInferenceStarted(tracker, j)
       \/ tracker' = ReleaseInProgress(tracker, j)
       \/ tracker' = DropPendingInference(tracker, j)
       \/ tracker' = ClearDegradedDispatch(tracker, j)
       \/ tracker' = MarkAdmittedOverBudget(tracker, j)

Evaluate(j) ==
    /\ UNCHANGED granted
    /\ \/ \E info \in CallerInfo : tracker' = QueueForSafety(tracker, j, info)
       \/ tracker' = BeginSafetyCheck(tracker, j)
       \/ tracker' = AbandonPendingSafety(tracker, j)
       \/ tracker' = RequeueOneBeingSafetyChecked(tracker, j)
       \/ tracker' = TakeBeingSafetyChecked(tracker, j)

Submit(j) ==
    /\ UNCHANGED granted
    /\ \/ \E info \in CallerInfo : tracker' = QueueForSubmit(tracker, j, info)
       \/ \E info \in CallerInfo : tracker' = EnsureSubmittedJobInfo(tracker, j, info)
       \/ tracker' = FinalizeSubmitted(tracker, j)
       \/ tracker' = DiscardJob(tracker, j)

Fail(j) ==
    \E retryable, resource \in BOOLEAN :
        /\ tracker' = HandleJobFault(tracker, j, retryable, resource)
        /\ granted' = IF GrantsDegraded(tracker, j, retryable, resource)
                      THEN [granted EXCEPT ![j] = @ + 1] ELSE granted

All ==
    /\ UNCHANGED granted
    /\ \/ tracker' = RequeueBeingSafetyChecked(tracker)
       \/ tracker' = IncrementJobsCompleted(tracker)
       \/ tracker' = PurgeJobs(tracker)

CallsNext == All \/ \E j \in Job : PopCall(j) \/ Infer(j) \/ Evaluate(j) \/ Submit(j) \/ Fail(j)

CallsSpec == CallsInit /\ [][CallsNext]_calls

-----------------------------------------------------------------------------
(* Properties                                                                *)

\* Every field of the tracker has its type; attempts never exceeds the bound.
CallsTypeOK == tracker \in TrackerState

\* The retry budget: a job that is still anywhere before PENDING_SUBMIT has an
\* attempt left, whatever calls it went through; the last one leaves it final.
RetryBound == RetryBoundOf(tracker)

\* One resource-degraded retry in a job's life: from its pop on, no job is granted
\* a second one, also when its entry, which says that the first was used, was
\* removed and the job registered anew by a caller that still holds it.
DegradedGrantedOnce == \A j \in Job : granted[j] <= 1

\* PENDING_SUBMIT is final: a job leaves it only for good (finalized, discarded
\* or purged), and a failure reported for it late spends no attempt.
SubmitIsFinal ==
    [][\A j \in Job : tracker.job[j].stage = "PENDING_SUBMIT" =>
          \/ ~IsTracked(tracker', j)
          \/ /\ tracker'.job[j].stage = "PENDING_SUBMIT"
             /\ tracker'.job[j].attempts = tracker.job[j].attempts]_tracker

\* FIFO: two jobs of one stage that both stay in it, or that one call moves
\* together, keep their order, so no call lets a job overtake another in a queue.
NoOvertaking ==
    [][\A j, k \in Tracked(tracker) :
          (/\ tracker.job[j].stage = tracker.job[k].stage
           /\ tracker'.job[j].stage = tracker'.job[k].stage
           /\ IsTracked(tracker', j))
          => (j \in tracker'.ahead[k] <=> j \in tracker.ahead[k])]_tracker

\* FIFO: who comes into a queue goes behind those who stay in it, also a job that
\* comes back from a broken safety pipe or a lost verdict, or is registered anew.
NewcomersWait ==
    [][\A j, k \in Job :
          (/\ IsTracked(tracker, j)
           /\ tracker'.job[j].stage = tracker.job[j].stage
           /\ tracker'.job[k].stage = tracker.job[j].stage
           /\ tracker.job[k].stage # tracker.job[j].stage)
          => j \in tracker'.ahead[k] /\ k \notin tracker'.ahead[j]]_tracker
=============================================================================

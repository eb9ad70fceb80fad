-------------------------- MODULE JobTrackerProofs --------------------------
(* The tracker under any caller, for every number of jobs and attempts: what *)
(* its methods preserve, the invariants that follow, and what no call may do *)
(* to a job that is final or to the order of two jobs of one queue.          *)
EXTENDS JobTrackerCalls, TLAPS

-----------------------------------------------------------------------------
(* Order: the four ways a method touches the stage sequence numbers          *)

LEMMA OrderUnchanged ==
    ASSUME NEW t \in TrackerState, StrictOrderOf(t),
           NEW r \in TrackerState, r.ahead = t.ahead, Tracked(r) = Tracked(t)
    PROVE  StrictOrderOf(r)
  BY DEF StrictOrderOf, Tracked

LEMMA OrderToBack ==
    ASSUME NEW t \in TrackerState, StrictOrderOf(t), NEW j \in Job,
           NEW r \in TrackerState, r.ahead = ToBack(t, j), Tracked(r) = Tracked(t) \cup {j}
    PROVE  StrictOrderOf(r)
  BY DEF StrictOrderOf, Tracked, ToBack, TrackerState

LEMMA OrderRemoved ==
    ASSUME NEW t \in TrackerState, StrictOrderOf(t), NEW j \in Job
    PROVE  StrictOrderOf(Remove(t, j))
  BY DEF StrictOrderOf, Tracked, Remove, TrackerState, Untracked, NewTracked, IsTracked

-----------------------------------------------------------------------------
(* Types: each method maps tracker states to tracker states                  *)

LEMMA FreshType == FreshInfo \in JobInfo
  BY DEF FreshInfo, JobInfo

LEMMA UntrackedType == Untracked \in TrackedJob
  BY FreshType, TrackerAssumption DEF Untracked, NewTracked, TrackedJob

LEMMA EmptyType == EmptyTracker \in TrackerState
  BY UntrackedType DEF EmptyTracker, TrackerState

LEMMA ToBackType ==
    ASSUME NEW t \in TrackerState, NEW j \in Job
    PROVE  ToBack(t, j) \in [Job -> SUBSET Job]
  BY DEF ToBack, TrackerState, Tracked

LEMMA SetStageType ==
    ASSUME NEW t \in TrackerState, NEW j \in Job, NEW s \in Stage
    PROVE  SetStage(t, j, s) \in TrackerState
  <1>1. [t.job[j] EXCEPT !.stage = s] \in TrackedJob
    BY DEF TrackerState, TrackedJob
  <1>2. [t.job EXCEPT ![j].stage = s] \in [Job -> TrackedJob]
    BY <1>1 DEF TrackerState
  <1>3. [t EXCEPT !.job[j].stage = s, !.ahead = ToBack(t, j)] \in TrackerState
    BY <1>2, ToBackType DEF TrackerState
  <1> QED
    BY <1>3 DEF SetStage

LEMMA RegisterType ==
    ASSUME NEW t \in TrackerState, NEW j \in Job, NEW s \in Stage,
           NEW informed \in BOOLEAN, NEW info \in JobInfo, NEW popped \in BOOLEAN
    PROVE  Register(t, j, s, informed, info, popped) \in TrackerState
  <1>1. NewTracked(s, informed, info, popped) \in TrackedJob
    BY TrackerAssumption DEF NewTracked, TrackedJob
  <1> QED
    BY <1>1, ToBackType DEF Register, TrackerState

LEMMA RemoveType ==
    ASSUME NEW t \in TrackerState, NEW j \in Job
    PROVE  Remove(t, j) \in TrackerState
  BY UntrackedType DEF Remove, TrackerState

LEMMA FaultJobType ==
    ASSUME NEW info \in JobInfo
    PROVE  FaultJob(info) \in JobInfo
  BY DEF FaultJob, JobInfo

-----------------------------------------------------------------------------
(* Effects: what a private step leaves of every other job and of its own.    *)
(* Good collects the invariants of a tracker state.                    *)

Good(t) == t \in TrackerState /\ RetryBoundOf(t) /\ StrictOrderOf(t)

LEMMA GoodEmpty == Good(EmptyTracker)
  BY EmptyType, TrackerAssumption DEF Good, RetryBoundOf,
     StrictOrderOf, EmptyTracker, Untracked, NewTracked, Tracked, IsTracked

LEMMA GoodSetStage ==
    ASSUME NEW t, Good(t), NEW j \in Job, NEW s \in Stage
    PROVE  Good(SetStage(t, j, s))
  <1> DEFINE r == SetStage(t, j, s)
  <1>1. r \in TrackerState
    BY SetStageType DEF Good
  <1>2. CASE r = t
    BY <1>2 DEF Good
  <1>3. CASE t.job[j].stage # s /\ MayEnter(t, j, s)
    <2>1. /\ IsTracked(t, j)
          /\ r = [t EXCEPT !.job[j].stage = s, !.ahead = ToBack(t, j)]
      BY <1>3 DEF SetStage, MayEnter
    <2>2. t.job[j].stage # "PENDING_SUBMIT"
      BY <1>3, <2>1 DEF MayEnter, AllowedTransitions
    <2>3. RetryBoundOf(r)
      BY <2>1, <2>2 DEF Good, RetryBoundOf, TrackerState, TrackedJob
    <2>4. Tracked(r) = Tracked(t) \cup {j} /\ r.ahead = ToBack(t, j)
      BY <2>1 DEF Tracked, IsTracked, Good, TrackerState, TrackedJob, Stage
    <2> QED
      BY <1>1, <2>3, <2>4, OrderToBack DEF Good
  <1> QED
    BY <1>2, <1>3 DEF SetStage

LEMMA GoodRegister ==
    ASSUME NEW t, Good(t), NEW j \in Job, NEW s \in Stage,
           NEW informed \in BOOLEAN, NEW info \in JobInfo, NEW popped \in BOOLEAN
    PROVE  Good(Register(t, j, s, informed, info, popped))
  <1> DEFINE r == Register(t, j, s, informed, info, popped)
  <1>1. r \in TrackerState
    BY RegisterType DEF Good
  <1>2. RetryBoundOf(r)
    BY TrackerAssumption DEF Good, RetryBoundOf, Register,
       NewTracked, TrackerState, TrackedJob
  <1>3. Tracked(r) = Tracked(t) \cup {j} /\ r.ahead = ToBack(t, j)
    BY DEF Register, NewTracked, Tracked, IsTracked, Good, TrackerState, TrackedJob, Stage
  <1> QED
    BY <1>1, <1>2, <1>3, OrderToBack DEF Good

LEMMA GoodRemove ==
    ASSUME NEW t, Good(t), NEW j \in Job
    PROVE  Good(Remove(t, j))
  <1>1. RetryBoundOf(Remove(t, j))
    BY TrackerAssumption DEF Good, RetryBoundOf, Remove,
       Untracked, NewTracked, TrackerState
  <1> QED
    BY <1>1, RemoveType, OrderRemoved DEF Good

\* Updates of single fields of a job's record.
LEMMA RecordUpdates ==
    ASSUME NEW rec \in TrackedJob, NEW info \in JobInfo
    PROVE  /\ [rec EXCEPT !.informed = TRUE, !.info = info] \in TrackedJob
           /\ [rec EXCEPT !.info = info] \in TrackedJob
           /\ [rec EXCEPT !.needs_degraded_dispatch = FALSE] \in TrackedJob
           /\ [rec EXCEPT !.admitted_over_budget = TRUE] \in TrackedJob
           /\ [rec EXCEPT !.degraded_retry_used = TRUE,
                          !.needs_degraded_dispatch = TRUE] \in TrackedJob
  BY DEF TrackedJob

\* A rewrite of one job's record that keeps its stage and its attempts keeps the
\* tracker good.
LEMMA GoodRewrite ==
    ASSUME NEW t, Good(t), NEW j \in Job, NEW rec \in TrackedJob,
           rec.stage = t.job[j].stage, rec.attempts = t.job[j].attempts
    PROVE  Good([t EXCEPT !.job[j] = rec])
  <1> DEFINE r == [t EXCEPT !.job[j] = rec]
  <1>1. r \in TrackerState
    BY DEF Good, TrackerState
  <1>2. RetryBoundOf(r)
    BY DEF Good, RetryBoundOf, TrackerState
  <1>3. Tracked(r) = Tracked(t) /\ r.ahead = t.ahead
    BY DEF Tracked, IsTracked, Good, TrackerState
  <1> QED
    BY <1>1, <1>2, <1>3, OrderUnchanged DEF Good

-----------------------------------------------------------------------------
(* Methods: each one maps good tracker states to good tracker states         *)

LEMMA GoodMarkInferenceStarted ==
    ASSUME NEW t, Good(t), NEW j \in Job
    PROVE  Good(MarkInferenceStarted(t, j))
  BY GoodSetStage, GoodRegister, FreshType DEF MarkInferenceStarted, Stage

LEMMA GoodReleaseInProgress ==
    ASSUME NEW t, Good(t), NEW j \in Job
    PROVE  Good(ReleaseInProgress(t, j))
  BY GoodSetStage, GoodRemove DEF ReleaseInProgress, Stage

\* The five methods that are one guarded stage move.
LEMMA GoodStageMoves ==
    ASSUME NEW t, Good(t), NEW j \in Job
    PROVE  /\ Good(DropPendingInference(t, j))
           /\ Good(BeginSafetyCheck(t, j))
           /\ Good(AbandonPendingSafety(t, j))
           /\ Good(RequeueOneBeingSafetyChecked(t, j))
           /\ Good(TakeBeingSafetyChecked(t, j))
  BY GoodSetStage DEF DropPendingInference, BeginSafetyCheck, AbandonPendingSafety,
     RequeueOneBeingSafetyChecked, TakeBeingSafetyChecked, Stage

LEMMA GoodQueue ==
    ASSUME NEW t, Good(t), NEW j \in Job, NEW s \in Stage, NEW info \in JobInfo
    PROVE  Good(Queue(t, j, s, info))
  <1> DEFINE moved == SetStage(t, j, s)
             rec == [moved.job[j] EXCEPT !.informed = TRUE, !.info = info]
  <1>1. Good(moved)
    BY GoodSetStage
  <1>2. rec \in TrackedJob /\ rec.stage = moved.job[j].stage
        /\ rec.attempts = moved.job[j].attempts
    <2>1. moved.job[j] \in TrackedJob
      BY <1>1 DEF Good, TrackerState
    <2> HIDE DEF moved
    <2>2. rec \in TrackedJob
      BY <2>1, RecordUpdates
    <2>3. rec.stage = moved.job[j].stage /\ rec.attempts = moved.job[j].attempts
      BY <2>1 DEF TrackedJob
    <2> QED
      BY <2>2, <2>3
  <1>3. Good([moved EXCEPT !.job[j] = rec])
    BY <1>1, <1>2, GoodRewrite
  <1>4. [moved EXCEPT !.job[j] = rec]
          = [moved EXCEPT !.job[j].informed = TRUE, !.job[j].info = info]
    BY <1>1 DEF Good, TrackerState, TrackedJob
  <1> QED
    BY <1>3, <1>4, GoodRegister DEF Queue

LEMMA GoodRequeueAll ==
    ASSUME NEW t, Good(t)
    PROVE  Good(RequeueBeingSafetyChecked(t))
  <1> DEFINE r == RequeueBeingSafetyChecked(t)
             checking == InStage(t, "SAFETY_CHECKING")
  <1>1. \A k \in checking :
            [t.job[k] EXCEPT !.stage = "PENDING_SAFETY_CHECK"] \in TrackedJob
    BY DEF Good, TrackerState, TrackedJob, InStage, Stage
  <1>2. r.job \in [Job -> TrackedJob]
    BY <1>1 DEF Good, TrackerState, RequeueBeingSafetyChecked
  <1>3. r.ahead \in [Job -> SUBSET Job]
    BY DEF Good, TrackerState, RequeueBeingSafetyChecked, Tracked, InStage
  <1>4. r \in TrackerState
    BY <1>2, <1>3 DEF Good, TrackerState, RequeueBeingSafetyChecked
  <1>5. RetryBoundOf(r)
    BY DEF Good, RetryBoundOf, TrackerState, TrackedJob,
       RequeueBeingSafetyChecked, InStage
  <1>6. Tracked(r) = Tracked(t)
    BY DEF Good, TrackerState, TrackedJob, RequeueBeingSafetyChecked, InStage, Tracked, IsTracked
  <1>7. StrictOrderOf(r)
    <2>1. checking \subseteq Tracked(t)
      BY DEF InStage, Tracked, IsTracked
    <2>2. /\ \A k \in checking :
                r.ahead[k] = (Tracked(t) \ checking) \cup (t.ahead[k] \cap checking)
          /\ \A k \in Job \ checking : r.ahead[k] = t.ahead[k] \ checking
      BY DEF RequeueBeingSafetyChecked, Good, TrackerState, InStage
    <2> HIDE DEF r, checking
    <2> QED
      BY <1>6, <2>1, <2>2 DEF StrictOrderOf, Good, Tracked
  <1> QED
    BY <1>4, <1>5, <1>7 DEF Good

LEMMA GoodCounted ==
    ASSUME NEW t, Good(t)
    PROVE  Good([t EXCEPT !.completed = @ + 1])
  BY DEF Good, TrackerState, RetryBoundOf, StrictOrderOf,
     Tracked, IsTracked

LEMMA GoodPurge ==
    ASSUME NEW t, Good(t)
    PROVE  Good(PurgeJobs(t))
  BY GoodEmpty DEF PurgeJobs, Good, TrackerState, RetryBoundOf,
     StrictOrderOf, Tracked, IsTracked

LEMMA GoodFlags ==
    ASSUME NEW t, Good(t), NEW j \in Job
    PROVE  Good(ClearDegradedDispatch(t, j)) /\ Good(MarkAdmittedOverBudget(t, j))
  <1> DEFINE cleared == [t.job[j] EXCEPT !.needs_degraded_dispatch = FALSE]
             marked == [t.job[j] EXCEPT !.admitted_over_budget = TRUE]
  <1>1. cleared \in TrackedJob /\ marked \in TrackedJob
    BY RecordUpdates, FreshType DEF Good, TrackerState
  <1>2. Good([t EXCEPT !.job[j] = cleared]) /\ Good([t EXCEPT !.job[j] = marked])
    BY <1>1, GoodRewrite DEF Good, TrackerState, TrackedJob
  <1> QED
    BY <1>2 DEF ClearDegradedDispatch, MarkAdmittedOverBudget

LEMMA GoodWriteInfo ==
    ASSUME NEW t, Good(t), NEW j \in Job, NEW info \in JobInfo
    PROVE  Good(WriteInfo(t, j, info))
  <1> DEFINE rec == [t.job[j] EXCEPT !.info = info]
  <1>1. rec \in TrackedJob /\ rec.stage = t.job[j].stage
        /\ rec.attempts = t.job[j].attempts
    <2>1. t.job[j] \in TrackedJob
      BY DEF Good, TrackerState
    <2>2. rec.stage = t.job[j].stage /\ rec.attempts = t.job[j].attempts
      BY <2>1 DEF TrackedJob
    <2> QED
      BY <2>1, <2>2, RecordUpdates
  <1>2. Good([t EXCEPT !.job[j] = rec])
    BY <1>1, GoodRewrite
  <1> QED
    BY <1>2 DEF WriteInfo

\* A failure that is not final: the attempt it counts is not the last one.
LEMMA GoodRetry ==
    ASSUME NEW t, Good(t), NEW j \in Job, NEW resource \in BOOLEAN
    PROVE  Good(Retry(t, j, resource))
  <1> DEFINE back == SetStage(t, j, "PENDING_INFERENCE")
             rec == [back.job[j] EXCEPT !.degraded_retry_used = TRUE,
                                        !.needs_degraded_dispatch = TRUE]
  <1>1. Good(back)
    BY GoodSetStage DEF Stage
  <1>2. back.job[j] \in TrackedJob
    BY <1>1 DEF Good, TrackerState
  <1> HIDE DEF back
  <1>3. rec \in TrackedJob
    BY <1>2, RecordUpdates, FreshType
  <1>4. rec.stage = back.job[j].stage /\ rec.attempts = back.job[j].attempts
    BY <1>2 DEF TrackedJob
  <1>5. Good([back EXCEPT !.job[j] = rec])
    BY <1>1, <1>3, <1>4, GoodRewrite
  <1>6. [back EXCEPT !.job[j] = rec]
          = [back EXCEPT !.job[j].degraded_retry_used = TRUE,
                         !.job[j].needs_degraded_dispatch = TRUE]
    BY <1>1, <1>2 DEF Good, TrackerState, TrackedJob
  <1> QED
    BY <1>1, <1>5, <1>6 DEF Retry, back

LEMMA GoodCountAttempt ==
    ASSUME NEW t, Good(t), NEW j \in Job,
           t.job[j].attempts + 1 < MaxInferenceAttempts
    PROVE  Good(CountAttempt(t, j))
  <1> DEFINE r == CountAttempt(t, j)
  <1>1. t.job[j] \in TrackedJob /\ t.job[j].attempts \in Nat
    BY TrackerAssumption DEF Good, TrackerState, TrackedJob
  <1>2. [t.job[j] EXCEPT !.attempts = @ + 1] \in TrackedJob
    BY <1>1, TrackerAssumption DEF TrackedJob
  <1>3. r.job = [t.job EXCEPT ![j] = [t.job[j] EXCEPT !.attempts = @ + 1]]
        /\ r.ahead = t.ahead /\ r.completed = t.completed /\ r \in TrackerState
    BY <1>2 DEF CountAttempt, Good, TrackerState
  <1>4. RetryBoundOf(r)
    BY <1>1, <1>3 DEF Good, RetryBoundOf, TrackerState, TrackedJob
  <1>6. Tracked(r) = Tracked(t)
    BY <1>1, <1>3 DEF Good, TrackerState, TrackedJob, Tracked, IsTracked
  <1> QED
    BY <1>3, <1>4, <1>6, OrderUnchanged DEF Good

\* The record of a job after its final failure.
FinallyFaulted(rec) == [rec EXCEPT !.attempts = @ + 1, !.info = FaultJob(@),
                                   !.stage = "PENDING_SUBMIT"]

LEMMA FaultTerminallyShape ==
    ASSUME NEW t, Good(t), NEW j \in Job, FaultApplies(t, j)
    PROVE  FaultTerminally(CountAttempt(t, j), j)
             = [job |-> [t.job EXCEPT ![j] = FinallyFaulted(t.job[j])],
                ahead |-> ToBack(t, j), completed |-> t.completed + 1]
  <1> DEFINE rec == [t.job[j] EXCEPT !.attempts = @ + 1, !.info = FaultJob(@),
                                     !.stage = "PENDING_SUBMIT"]
             r == FaultTerminally(CountAttempt(t, j), j)
  <1>1. t.job[j] \in TrackedJob /\ t.job[j].attempts \in Nat
    BY TrackerAssumption DEF Good, TrackerState, TrackedJob
  <1>2. /\ t.job[j].stage # "PENDING_SUBMIT" /\ IsTracked(t, j)
        /\ "PENDING_SUBMIT" \in AllowedTransitions[t.job[j].stage]
    BY <1>1 DEF FaultApplies, IsTracked, AllowedTransitions, TrackedJob, Stage
  <1>3. r = [job |-> [t.job EXCEPT ![j] = rec], ahead |-> ToBack(t, j),
             completed |-> t.completed + 1]
    <2> DEFINE f == WriteInfo(CountAttempt(t, j), j, FaultJob(CountAttempt(t, j).job[j].info))
    <2>1. /\ f.job = [t.job EXCEPT ![j] = [t.job[j] EXCEPT !.attempts = @ + 1, !.info = FaultJob(@)]]
          /\ f.ahead = t.ahead /\ f.completed = t.completed
          /\ f = [job |-> f.job, ahead |-> f.ahead, completed |-> f.completed]
      <3> DEFINE c == CountAttempt(t, j)
                 one == [t.job[j] EXCEPT !.attempts = @ + 1]
      <3>1. /\ c.job = [t.job EXCEPT ![j] = one]
            /\ c.ahead = t.ahead /\ c.completed = t.completed
            /\ c = [job |-> c.job, ahead |-> c.ahead, completed |-> c.completed]
        BY DEF CountAttempt, Good, TrackerState
      <3>2. c.job[j] = one
        BY <3>1 DEF Good, TrackerState
      <3>3. one.info = t.job[j].info
        BY <1>1 DEF TrackedJob
      <3> HIDE DEF c
      <3>4. /\ f.job = [c.job EXCEPT ![j] = [one EXCEPT !.info = FaultJob(one.info)]]
            /\ f.ahead = c.ahead /\ f.completed = c.completed
            /\ f = [job |-> f.job, ahead |-> f.ahead, completed |-> f.completed]
        BY <3>1, <3>2 DEF WriteInfo, c
      <3>5. [one EXCEPT !.info = FaultJob(one.info)]
              = [t.job[j] EXCEPT !.attempts = @ + 1, !.info = FaultJob(@)]
        BY <1>1, <3>3 DEF TrackedJob
      <3> HIDE DEF one, f
      <3> QED
        BY <3>1, <3>4, <3>5
    <2>2. f.job[j].stage = t.job[j].stage
      BY <1>1, <2>1 DEF Good, TrackerState, TrackedJob
    <2>3. Tracked(f) = Tracked(t)
      BY <1>1, <2>1, <2>2 DEF Good, TrackerState, Tracked, IsTracked
    <2>4. MayEnter(f, j, "PENDING_SUBMIT") /\ f.job[j].stage # "PENDING_SUBMIT"
      BY <1>2, <2>2 DEF MayEnter, IsTracked
    <2>5. r = [[f EXCEPT !.job[j].stage = "PENDING_SUBMIT", !.ahead = ToBack(f, j)]
                 EXCEPT !.completed = @ + 1]
      BY <2>4 DEF FaultTerminally, SetStage
    <2>6. ToBack(f, j) = ToBack(t, j)
      BY <2>1, <2>3 DEF ToBack
    <2>7. r = [job |-> [f.job EXCEPT ![j].stage = "PENDING_SUBMIT"],
               ahead |-> ToBack(t, j), completed |-> t.completed + 1]
      BY <2>1, <2>5, <2>6
    <2>8. [f.job EXCEPT ![j].stage = "PENDING_SUBMIT"] = [t.job EXCEPT ![j] = rec]
      BY <1>1, <2>1 DEF Good, TrackerState, TrackedJob
    <2> QED
      BY <2>7, <2>8
  <1> QED
    BY <1>3 DEF FinallyFaulted

\* The final failure: PENDING_SUBMIT is entered in the step that may spend the
\* last attempt, from every stage the failure applies to.
LEMMA GoodFaultTerminally ==
    ASSUME NEW t, Good(t), NEW j \in Job, FaultApplies(t, j)
    PROVE  Good(FaultTerminally(CountAttempt(t, j), j))
  <1> DEFINE rec == [t.job[j] EXCEPT !.attempts = @ + 1, !.info = FaultJob(@),
                                     !.stage = "PENDING_SUBMIT"]
             r == FaultTerminally(CountAttempt(t, j), j)
  <1>1. /\ t.job[j] \in TrackedJob /\ t.job[j].attempts \in Nat
        /\ t.job[j].attempts < MaxInferenceAttempts
    BY TrackerAssumption DEF Good, TrackerState, TrackedJob, RetryBoundOf, FaultApplies
  <1>2. /\ t.job[j].stage # "PENDING_SUBMIT" /\ IsTracked(t, j)
        /\ "PENDING_SUBMIT" \in AllowedTransitions[t.job[j].stage]
    BY <1>1 DEF FaultApplies, IsTracked, AllowedTransitions, TrackedJob, Stage
  <1>3. rec \in TrackedJob
    <2>1. t.job[j].attempts + 1 \in 0 .. MaxInferenceAttempts
      BY <1>1, TrackerAssumption
    <2>2. FaultJob(t.job[j].info) \in JobInfo
      BY <1>1, FaultJobType DEF TrackedJob
    <2> QED
      BY <1>1, <2>1, <2>2 DEF TrackedJob, Stage
  <1>4. r = [job |-> [t.job EXCEPT ![j] = rec], ahead |-> ToBack(t, j),
             completed |-> t.completed + 1]
    BY FaultTerminallyShape DEF FinallyFaulted
  <1>5. r \in TrackerState
    BY <1>3, <1>4, ToBackType DEF Good, TrackerState
  <1>6. rec.stage = "PENDING_SUBMIT"
    BY <1>1 DEF TrackedJob
  <1> HIDE DEF rec, r
  <1>7. RetryBoundOf(r)
    BY <1>4, <1>6 DEF Good, RetryBoundOf, TrackerState
  <1>9. Tracked(r) = Tracked(t) \cup {j} /\ r.ahead = ToBack(t, j)
    BY <1>2, <1>4, <1>6 DEF Good, TrackerState, Tracked, IsTracked
  <1>10. StrictOrderOf(r)
    BY <1>5, <1>9, OrderToBack DEF Good
  <1> QED
    BY <1>5, <1>7, <1>10 DEF Good, r

LEMMA GoodHandleJobFault ==
    ASSUME NEW t, Good(t), NEW j \in Job,
           NEW retryable \in BOOLEAN, NEW resource \in BOOLEAN
    PROVE  Good(HandleJobFault(t, j, retryable, resource))
  <1> DEFINE counted == CountAttempt(t, j)
             spent == resource \/ t.job[j].admitted_over_budget
  <1>1. CASE ~FaultApplies(t, j)
    BY <1>1 DEF HandleJobFault
  <1>2. CASE FaultApplies(t, j) /\ MayRetry(counted, j, retryable)
    <2>1. t.job[j] \in TrackedJob /\ t.job[j].attempts \in Nat
      BY TrackerAssumption DEF Good, TrackerState, TrackedJob
    <2>2. t.job[j].attempts + 1 < MaxInferenceAttempts
      BY <1>2, <2>1 DEF MayRetry, CountAttempt, Good, TrackerState, TrackedJob
    <2>3. Good(counted)
      BY <2>2, GoodCountAttempt
    <2>4. spent \in BOOLEAN
      BY <2>1 DEF TrackedJob
    <2>5. Good(Retry(counted, j, spent))
      BY <2>3, <2>4, GoodRetry
    <2> QED
      BY <1>2, <2>5 DEF HandleJobFault, ResourceFailure
  <1>3. CASE FaultApplies(t, j) /\ ~MayRetry(counted, j, retryable)
    BY <1>3, GoodFaultTerminally DEF HandleJobFault
  <1> QED
    BY <1>1, <1>2, <1>3

-----------------------------------------------------------------------------
(* The theorems                                                              *)

LEMMA GoodStep ==
    ASSUME Good(tracker), [CallsNext]_calls
    PROVE  Good(tracker')
  <1>1. CASE All
    BY <1>1, GoodRequeueAll, GoodCounted, GoodPurge DEF All, IncrementJobsCompleted
  <1>2. ASSUME NEW j \in Job, PopCall(j) PROVE Good(tracker')
    BY <1>2, GoodRegister, FreshType DEF PopCall, RecordPoppedJob, Stage
  <1>3. ASSUME NEW j \in Job, Infer(j) PROVE Good(tracker')
    BY <1>3, GoodMarkInferenceStarted, GoodReleaseInProgress, GoodStageMoves, GoodFlags DEF Infer
  <1>4. ASSUME NEW j \in Job, Evaluate(j) PROVE Good(tracker')
    BY <1>4, GoodStageMoves, GoodQueue, CallerAssumption DEF Evaluate, QueueForSafety, Stage
  <1>5. ASSUME NEW j \in Job, Submit(j) PROVE Good(tracker')
    BY <1>5, GoodQueue, GoodRegister, GoodRemove, CallerAssumption
    DEF Submit, QueueForSubmit, EnsureSubmittedJobInfo, FinalizeSubmitted, DiscardJob, Stage
  <1>6. ASSUME NEW j \in Job, Fail(j) PROVE Good(tracker')
    BY <1>6, GoodHandleJobFault DEF Fail
  <1>7. CASE UNCHANGED calls
    BY <1>7 DEF calls
  <1> QED
    BY <1>1, <1>2, <1>3, <1>4, <1>5, <1>6, <1>7 DEF CallsNext

CallsInv == Good(tracker)

\* Types, the retry budget and the order of the tracked jobs are inductive together.
THEOREM TrackerGood == CallsSpec => []CallsInv
  <1>1. CallsInit => CallsInv
    BY GoodEmpty DEF CallsInit, CallsInv
  <1>2. CallsInv /\ [CallsNext]_calls => CallsInv'
    BY GoodStep DEF CallsInv
  <1> QED
    BY <1>1, <1>2, PTL DEF CallsSpec

\* The tracker's fields keep their types under any sequence of calls.
THEOREM CallsTypeCorrect == CallsSpec => []CallsTypeOK
  <1>1. CallsInv => CallsTypeOK
    BY DEF CallsInv, Good, CallsTypeOK
  <1> QED
    BY <1>1, TrackerGood, PTL

\* No call sequence lets a job that is not yet final run out of attempts.
THEOREM RetryBounded == CallsSpec => []RetryBound
  <1>1. CallsInv => RetryBound
    BY DEF CallsInv, Good, RetryBoundOf, RetryBound
  <1> QED
    BY <1>1, TrackerGood, PTL

-----------------------------------------------------------------------------
(* Steps: final jobs and queues                                              *)

\* A job that waits for its submission has a job_info.  Without this, registering
\* it anew (ensure_submitted_job_info) would take it to the back of its queue.
InformedOf(t) ==
    \A j \in Job : t.job[j].stage = "PENDING_SUBMIT" => t.job[j].informed

FinalOf(t, r) ==
    \A j \in Job : t.job[j].stage = "PENDING_SUBMIT" =>
        \/ ~IsTracked(r, j)
        \/ /\ r.job[j].stage = "PENDING_SUBMIT"
           /\ r.job[j].attempts = t.job[j].attempts

FifoOf(t, r) ==
    \A j, k \in Tracked(t) :
        (/\ t.job[j].stage = t.job[k].stage
         /\ r.job[j].stage = r.job[k].stage
         /\ IsTracked(r, j))
        => (j \in r.ahead[k] <=> j \in t.ahead[k])

WaitOf(t, r) ==
    \A j, k \in Job :
        (/\ IsTracked(t, j)
         /\ r.job[j].stage = t.job[j].stage
         /\ r.job[k].stage = t.job[j].stage
         /\ t.job[k].stage # t.job[j].stage)
        => j \in r.ahead[k] /\ k \notin r.ahead[j]

Fine(t) == Good(t) /\ InformedOf(t)

Kept(t, r) == InformedOf(r) /\ FinalOf(t, r) /\ FifoOf(t, r) /\ WaitOf(t, r)

-----------------------------------------------------------------------------
(* A call for one job takes that job out of the order, puts it behind all, or *)
(* leaves the order as it is; where the order changed, so did the job's stage, *)
(* and a job in a new stage is behind all.                                     *)

OnlyOf(t, r, j) ==
    \A i \in Job \ {j} : r.job[i] = t.job[i] /\ r.ahead[i] \ {j} = t.ahead[i] \ {j}

Moved(t, r, j) ==
    /\ r.ahead # t.ahead => r.job[j].stage # t.job[j].stage
    /\ r.job[j].stage \notin {t.job[j].stage, "UNTRACKED"} => r.ahead = ToBack(t, j)
    /\ r.job[j].stage = "PENDING_SUBMIT" => r.job[j].informed
    /\ t.job[j].stage = "PENDING_SUBMIT" =>
          \/ ~IsTracked(r, j)
          \/ r.job[j].stage = "PENDING_SUBMIT" /\ r.job[j].attempts = t.job[j].attempts

Call(t, r, j) == OnlyOf(t, r, j) /\ Moved(t, r, j)

LEMMA CallKeeps ==
    ASSUME NEW t, Fine(t), NEW j \in Job, NEW r, Good(r), Call(t, r, j)
    PROVE  Kept(t, r)
  <1> USE DEF Call
  <1>1. InformedOf(r)
    BY DEF Fine, InformedOf, OnlyOf, Moved
  <1>2. FinalOf(t, r)
    BY DEF FinalOf, OnlyOf, Moved
  <1>3. FifoOf(t, r)
    <2> SUFFICES ASSUME NEW i \in Tracked(t), NEW k \in Tracked(t),
                        t.job[i].stage = t.job[k].stage,
                        r.job[i].stage = r.job[k].stage
                 PROVE  i \in r.ahead[k] <=> i \in t.ahead[k]
      BY DEF FifoOf
    <2>1. CASE r.ahead = t.ahead
      BY <2>1
    <2>2. CASE r.ahead # t.ahead /\ i # j /\ k # j
      BY <2>2 DEF OnlyOf, Tracked
    <2>3. CASE r.ahead # t.ahead /\ i = k /\ k = j
      <3>1. j \notin t.ahead[j] /\ j \notin r.ahead[j]
        BY DEF Fine, Good, StrictOrderOf
      <3> QED BY <2>3, <3>1
    <2>4. CASE r.ahead # t.ahead /\ i # k /\ (i = j \/ k = j)
      BY <2>4 DEF OnlyOf, Moved, Tracked
    <2> QED BY <2>1, <2>2, <2>3, <2>4
  <1>4. WaitOf(t, r)
    <2> SUFFICES ASSUME NEW i \in Job, NEW k \in Job, IsTracked(t, i),
                        r.job[i].stage = t.job[i].stage, r.job[k].stage = t.job[i].stage,
                        t.job[k].stage # t.job[i].stage
                 PROVE  i \in r.ahead[k] /\ k \notin r.ahead[i]
      BY DEF WaitOf
    <2>1. k = j /\ i # k
      BY DEF OnlyOf
    <2>2. r.ahead = ToBack(t, j)
      BY <2>1 DEF Moved, IsTracked
    <2> QED BY <2>1, <2>2 DEF ToBack, Tracked
  <1> QED BY <1>1, <1>2, <1>3, <1>4 DEF Kept

LEMMA CallNothing ==
    ASSUME NEW t, Fine(t), NEW j \in Job
    PROVE  Call(t, t, j)
  BY DEF Call, OnlyOf, Moved, Fine, InformedOf

LEMMA CallSetStage ==
    ASSUME NEW t, Fine(t), NEW j \in Job, NEW s \in Stage,
           s = "PENDING_SUBMIT" => t.job[j].informed
    PROVE  Call(t, SetStage(t, j, s), j)
  <1> DEFINE r == SetStage(t, j, s)
  <1>1. CASE r = t
    BY <1>1, CallNothing
  <1>2. CASE t.job[j].stage # s /\ MayEnter(t, j, s)
    <2>1. /\ t.job[j].stage # "PENDING_SUBMIT"
          /\ r = [t EXCEPT !.job[j].stage = s, !.ahead = ToBack(t, j)]
      BY <1>2 DEF SetStage, MayEnter, IsTracked, AllowedTransitions
    <2>2. t.job[j] \in TrackedJob /\ t \in TrackerState
      BY DEF Fine, Good, TrackerState
    <2>3. /\ r.job[j].stage = s /\ r.job[j].informed = t.job[j].informed
          /\ \A i \in Job \ {j} : r.job[i] = t.job[i]
          /\ r.ahead = ToBack(t, j)
      BY <2>1, <2>2 DEF TrackerState, TrackedJob
    <2> QED BY <1>2, <2>1, <2>3 DEF Call, OnlyOf, Moved, ToBack
  <1> QED BY <1>1, <1>2 DEF SetStage

LEMMA CallRegister ==
    ASSUME NEW t, Fine(t), NEW j \in Job, NEW s \in Stage,
           NEW informed \in BOOLEAN, NEW info, NEW popped,
           t.job[j].stage \notin {s, "PENDING_SUBMIT"},
           s = "PENDING_SUBMIT" => informed
    PROVE  Call(t, Register(t, j, s, informed, info, popped), j)
  <1> DEFINE r == Register(t, j, s, informed, info, popped)
  <1>1. /\ r.job[j].stage = s /\ r.job[j].informed = informed
        /\ \A i \in Job \ {j} : r.job[i] = t.job[i]
        /\ r.ahead = ToBack(t, j)
    BY DEF Register, NewTracked, Fine, Good, TrackerState
  <1> QED BY <1>1 DEF Call, OnlyOf, Moved, ToBack

LEMMA CallRemove ==
    ASSUME NEW t, Fine(t), NEW j \in Job, IsTracked(t, j)
    PROVE  Call(t, Remove(t, j), j)
  <1> DEFINE r == Remove(t, j)
  <1>1. /\ r.job[j].stage = "UNTRACKED"
        /\ \A i \in Job \ {j} : r.job[i] = t.job[i] /\ r.ahead[i] = t.ahead[i] \ {j}
    BY DEF Remove, Untracked, NewTracked, Fine, Good, TrackerState
  <1> QED BY <1>1 DEF Call, OnlyOf, Moved, IsTracked

LEMMA CallQueue ==
    ASSUME NEW t, Fine(t), NEW j \in Job, NEW s \in Stage, NEW info \in JobInfo
    PROVE  Call(t, Queue(t, j, s, info), j)
  <1> DEFINE moved == SetStage(t, j, s)
             r == [moved EXCEPT !.job[j].informed = TRUE, !.job[j].info = info]
  <1>1. CASE ~IsTracked(t, j)
    <2>1. t.job[j].stage \notin {s, "PENDING_SUBMIT"}
      BY <1>1 DEF IsTracked, Stage
    <2> QED BY <1>1, <2>1, CallRegister DEF Queue
  <1>2. CASE ~MayEnter(t, j, s)
    BY <1>1, <1>2, CallNothing DEF Queue
  <1>3. CASE IsTracked(t, j) /\ MayEnter(t, j, s)
    <2>1. moved \in TrackerState
      BY SetStageType DEF Fine, Good
    <2>2. moved.job[j] \in TrackedJob /\ t.job[j] \in TrackedJob
      BY <2>1 DEF Fine, Good, TrackerState
    <2>3. /\ OnlyOf(t, moved, j)
          /\ moved.ahead # t.ahead => moved.job[j].stage # t.job[j].stage
          /\ moved.job[j].stage # t.job[j].stage => moved.ahead = ToBack(t, j)
          /\ t.job[j].stage = "PENDING_SUBMIT" => moved = t
      <3>1. CASE moved = t
        BY <3>1 DEF OnlyOf
      <3>2. CASE t.job[j].stage # s
        <4>1. /\ t.job[j].stage # "PENDING_SUBMIT"
              /\ moved = [t EXCEPT !.job[j].stage = s, !.ahead = ToBack(t, j)]
          BY <1>3, <3>2 DEF SetStage, MayEnter, AllowedTransitions
        <4>2. /\ moved.job[j].stage = s
              /\ \A i \in Job \ {j} : moved.job[i] = t.job[i]
              /\ moved.ahead = ToBack(t, j)
          BY <2>2, <4>1 DEF Fine, Good, TrackerState, TrackedJob
        <4> QED BY <3>2, <4>1, <4>2 DEF OnlyOf, ToBack
      <3> QED BY <3>1, <3>2 DEF SetStage
    <2> HIDE DEF moved
    <2>4. /\ r.job[j].informed = TRUE /\ r.job[j].stage = moved.job[j].stage
          /\ r.job[j].attempts = moved.job[j].attempts
          /\ \A i \in Job \ {j} : r.job[i] = moved.job[i]
          /\ r.ahead = moved.ahead
      BY <2>1, <2>2 DEF TrackerState, TrackedJob
    <2>5. Queue(t, j, s, info) = r
      BY <1>3 DEF Queue, moved
    <2> HIDE DEF r
    <2> QED BY <2>3, <2>4, <2>5 DEF Call, OnlyOf, Moved
  <1> QED BY <1>1, <1>2, <1>3

\* A call that rewrites one record and leaves its stage alone.
LEMMA CallRewrite ==
    ASSUME NEW t, Fine(t), NEW j \in Job, NEW r, OnlyOf(t, r, j), r.ahead = t.ahead,
           r.job[j].stage = t.job[j].stage, r.job[j].informed = t.job[j].informed,
           r.job[j].attempts = t.job[j].attempts
    PROVE  Call(t, r, j)
  BY DEF Call, Moved, Fine, InformedOf

LEMMA CallFlags ==
    ASSUME NEW t, Fine(t), NEW j \in Job
    PROVE  Call(t, ClearDegradedDispatch(t, j), j) /\ Call(t, MarkAdmittedOverBudget(t, j), j)
  <1> DEFINE cleared == [t EXCEPT !.job[j].needs_degraded_dispatch = FALSE]
             marked == [t EXCEPT !.job[j].admitted_over_budget = TRUE]
  <1>1. t \in TrackerState /\ t.job[j] \in TrackedJob
    BY DEF Fine, Good, TrackerState
  <1>2. /\ cleared.job[j].stage = t.job[j].stage
        /\ cleared.job[j].informed = t.job[j].informed
        /\ cleared.job[j].attempts = t.job[j].attempts
        /\ OnlyOf(t, cleared, j) /\ cleared.ahead = t.ahead
    BY <1>1 DEF TrackerState, TrackedJob, OnlyOf
  <1>3. /\ marked.job[j].stage = t.job[j].stage
        /\ marked.job[j].informed = t.job[j].informed
        /\ marked.job[j].attempts = t.job[j].attempts
        /\ OnlyOf(t, marked, j) /\ marked.ahead = t.ahead
    BY <1>1 DEF TrackerState, TrackedJob, OnlyOf
  <1> HIDE DEF cleared, marked
  <1>4. Call(t, cleared, j) /\ Call(t, marked, j)
    BY <1>2, <1>3, CallRewrite
  <1> QED BY <1>4, CallNothing DEF ClearDegradedDispatch, MarkAdmittedOverBudget, cleared, marked

\* A failure that the job survives: it was not final, so its place may change.
LEMMA CallRetry ==
    ASSUME NEW t, Fine(t), NEW j \in Job, NEW resource \in BOOLEAN,
           FaultApplies(t, j), Good(CountAttempt(t, j))
    PROVE  Call(t, Retry(CountAttempt(t, j), j, resource), j)
  <1> DEFINE c == CountAttempt(t, j)
             back == SetStage(c, j, "PENDING_INFERENCE")
             paid == [back EXCEPT !.job[j].degraded_retry_used = TRUE,
                                  !.job[j].needs_degraded_dispatch = TRUE]
  <1>1. t \in TrackerState /\ t.job[j] \in TrackedJob
    BY DEF Fine, Good, TrackerState
  <1>2. /\ \A i \in Job \ {j} : c.job[i] = t.job[i]
        /\ c.job[j].stage = t.job[j].stage /\ c.job[j].informed = t.job[j].informed
        /\ c.ahead = t.ahead
    BY <1>1 DEF CountAttempt, TrackerState, TrackedJob
  <1>3. Fine(c)
    BY <1>2 DEF Fine, InformedOf
  <1>9. ToBack(c, j) = ToBack(t, j)
    BY <1>2 DEF ToBack, Tracked, IsTracked
  <1> HIDE DEF c
  <1>4. Call(c, back, j) /\ back \in TrackerState
    BY <1>3, CallSetStage, SetStageType DEF Stage, Fine, Good
  <1>5. t.job[j].stage # "PENDING_SUBMIT"
    BY DEF FaultApplies
  <1> HIDE DEF back
  <1>6. Call(t, back, j)
    BY <1>2, <1>4, <1>5, <1>9 DEF Call, OnlyOf, Moved
  <1>7. Call(t, paid, j)
    <2>1. back.job[j] \in TrackedJob
      BY <1>4 DEF TrackerState
    <2>2. /\ \A i \in Job \ {j} : paid.job[i] = back.job[i]
          /\ paid.job[j].stage = back.job[j].stage
          /\ paid.job[j].informed = back.job[j].informed
          /\ paid.ahead = back.ahead
      BY <1>4, <2>1 DEF TrackerState, TrackedJob
    <2> HIDE DEF paid
    <2> QED BY <1>5, <1>6, <2>2 DEF Call, OnlyOf, Moved
  <1> QED BY <1>6, <1>7 DEF Retry, back, paid, c

\* The final failure: the job enters PENDING_SUBMIT with the record it had.
LEMMA CallFaultTerminally ==
    ASSUME NEW t, Fine(t), NEW j \in Job, FaultApplies(t, j)
    PROVE  Call(t, FaultTerminally(CountAttempt(t, j), j), j)
  <1> DEFINE r == FaultTerminally(CountAttempt(t, j), j)
  <1>1. t \in TrackerState /\ t.job[j] \in TrackedJob
    BY DEF Fine, Good, TrackerState
  <1>2. r = [job |-> [t.job EXCEPT ![j] = FinallyFaulted(t.job[j])],
             ahead |-> ToBack(t, j), completed |-> t.completed + 1]
    BY FaultTerminallyShape DEF Fine
  <1>3. /\ FinallyFaulted(t.job[j]).stage = "PENDING_SUBMIT"
        /\ FinallyFaulted(t.job[j]).informed = t.job[j].informed
    BY <1>1 DEF FinallyFaulted, TrackedJob
  <1> HIDE DEF r
  <1>4. /\ r.job[j].stage = "PENDING_SUBMIT" /\ r.job[j].informed = t.job[j].informed
        /\ \A i \in Job \ {j} : r.job[i] = t.job[i]
        /\ r.ahead = ToBack(t, j)
    BY <1>1, <1>2, <1>3 DEF TrackerState
  <1>5. Call(t, r, j)
    BY <1>4 DEF FaultApplies, Call, OnlyOf, Moved, ToBack
  <1> QED BY <1>5 DEF r

LEMMA CallFault ==
    ASSUME NEW t, Fine(t), NEW j \in Job, NEW retryable \in BOOLEAN, NEW resource \in BOOLEAN
    PROVE  Call(t, HandleJobFault(t, j, retryable, resource), j)
  <1> DEFINE counted == CountAttempt(t, j)
             spent == resource \/ t.job[j].admitted_over_budget
  <1>1. CASE ~FaultApplies(t, j)
    BY <1>1, CallNothing DEF HandleJobFault
  <1>2. CASE FaultApplies(t, j) /\ MayRetry(counted, j, retryable)
    <2>1. t.job[j] \in TrackedJob /\ t.job[j].attempts \in Nat
      BY TrackerAssumption DEF Fine, Good, TrackerState, TrackedJob
    <2>2. t.job[j].attempts + 1 < MaxInferenceAttempts
      BY <1>2, <2>1 DEF MayRetry, CountAttempt, Fine, Good, TrackerState, TrackedJob
    <2>3. Good(counted) /\ spent \in BOOLEAN
      BY <2>1, <2>2, GoodCountAttempt DEF Fine, TrackedJob
    <2>4. Call(t, Retry(counted, j, spent), j)
      BY <1>2, <2>3, CallRetry
    <2> QED BY <1>2, <2>4 DEF HandleJobFault, ResourceFailure
  <1>3. CASE FaultApplies(t, j) /\ ~MayRetry(counted, j, retryable)
    BY <1>3, CallFaultTerminally DEF HandleJobFault
  <1> QED BY <1>1, <1>2, <1>3

-----------------------------------------------------------------------------
(* Every call                                                                 *)

LEMMA StageMovesCall ==
    ASSUME NEW t, Fine(t), NEW j \in Job
    PROVE  /\ Call(t, MarkInferenceStarted(t, j), j)
           /\ Call(t, ReleaseInProgress(t, j), j)
           /\ Call(t, DropPendingInference(t, j), j)
           /\ Call(t, BeginSafetyCheck(t, j), j)
           /\ Call(t, AbandonPendingSafety(t, j), j)
           /\ Call(t, RequeueOneBeingSafetyChecked(t, j), j)
           /\ Call(t, TakeBeingSafetyChecked(t, j), j)
  <1>1. \A s \in Stage \ {"PENDING_SUBMIT"} : Call(t, SetStage(t, j, s), j)
    BY CallSetStage
  <1>2. Call(t, MarkInferenceStarted(t, j), j)
    BY <1>1, CallRegister DEF MarkInferenceStarted, IsTracked, Stage
  <1>3. Call(t, ReleaseInProgress(t, j), j)
    BY <1>1, CallRemove, CallNothing DEF ReleaseInProgress, IsTracked, Stage
  <1> QED
    BY <1>1, <1>2, <1>3, CallNothing DEF DropPendingInference, BeginSafetyCheck,
       AbandonPendingSafety, RequeueOneBeingSafetyChecked, TakeBeingSafetyChecked, Stage

LEMMA SubmissionCall ==
    ASSUME NEW t, Fine(t), NEW j \in Job, NEW info \in JobInfo
    PROVE  /\ Call(t, QueueForSafety(t, j, info), j)
           /\ Call(t, QueueForSubmit(t, j, info), j)
           /\ Call(t, EnsureSubmittedJobInfo(t, j, info), j)
           /\ Call(t, FinalizeSubmitted(t, j), j)
           /\ Call(t, DiscardJob(t, j), j)
  <1>1. Call(t, EnsureSubmittedJobInfo(t, j, info), j)
    BY CallRegister, CallNothing DEF EnsureSubmittedJobInfo, Fine, InformedOf, IsTracked, Stage
  <1> QED
    BY <1>1, CallQueue, CallRemove, CallNothing
    DEF QueueForSafety, QueueForSubmit, FinalizeSubmitted, DiscardJob, Stage

\* The one call that moves several jobs moves them together, behind the rest.
LEMMA RequeueAllKeeps ==
    ASSUME NEW t, Fine(t)
    PROVE  Kept(t, RequeueBeingSafetyChecked(t))
  <1> DEFINE r == RequeueBeingSafetyChecked(t)
             checking == InStage(t, "SAFETY_CHECKING")
  <1>1. t \in TrackerState /\ \A k \in Job : t.job[k] \in TrackedJob
    BY DEF Fine, Good, TrackerState
  <1>2. /\ \A k \in checking :
              /\ t.job[k].stage = "SAFETY_CHECKING"
              /\ r.job[k].stage = "PENDING_SAFETY_CHECK"
              /\ r.ahead[k] = (Tracked(t) \ checking) \cup (t.ahead[k] \cap checking)
        /\ \A k \in Job \ checking :
              /\ t.job[k].stage # "SAFETY_CHECKING"
              /\ r.job[k] = t.job[k]
              /\ r.ahead[k] = t.ahead[k] \ checking
    BY <1>1 DEF RequeueBeingSafetyChecked, InStage, TrackerState, TrackedJob
  <1>3. checking \subseteq Job
    BY DEF InStage
  <1> HIDE DEF r, checking
  <1>4. InformedOf(r) /\ FinalOf(t, r)
    BY <1>2, <1>3 DEF Fine, InformedOf, FinalOf
  <1>5. FifoOf(t, r)
    BY <1>2, <1>3 DEF FifoOf, Tracked
  <1>6. WaitOf(t, r)
    BY <1>2, <1>3 DEF WaitOf, Tracked
  <1> QED BY <1>4, <1>5, <1>6 DEF Kept, r

LEMMA CountAndPurgeKeep ==
    ASSUME NEW t, Fine(t)
    PROVE  Kept(t, IncrementJobsCompleted(t)) /\ Kept(t, PurgeJobs(t))
  <1> DEFINE counted == IncrementJobsCompleted(t)
             purged == PurgeJobs(t)
  <1>1. counted.job = t.job /\ counted.ahead = t.ahead
    BY DEF IncrementJobsCompleted, Fine, Good, TrackerState
  <1>2. \A j \in Job : purged.job[j].stage = "UNTRACKED"
    BY DEF PurgeJobs, EmptyTracker, Untracked, NewTracked
  <1> HIDE DEF counted, purged
  <1>3. Kept(t, counted)
    BY <1>1 DEF Fine, Kept, InformedOf, FinalOf, FifoOf, WaitOf
  <1>4. Kept(t, purged)
    BY <1>2 DEF Kept, InformedOf, FinalOf, FifoOf, WaitOf, IsTracked, Tracked
  <1> QED BY <1>3, <1>4 DEF counted, purged

LEMMA StepKeeps ==
    ASSUME Fine(tracker), [CallsNext]_calls
    PROVE  Good(tracker') /\ Kept(tracker, tracker')
  <1>1. Good(tracker')
    BY GoodStep DEF Fine
  <1>2. CASE All
    BY <1>1, <1>2, RequeueAllKeeps, CountAndPurgeKeep DEF All
  <1>3. ASSUME NEW j \in Job, PopCall(j) PROVE Call(tracker, tracker', j)
    BY <1>3, CallRegister DEF PopCall, RecordPoppedJob, IsTracked, Stage
  <1>4. ASSUME NEW j \in Job, Infer(j) PROVE Call(tracker, tracker', j)
    BY <1>4, StageMovesCall, CallFlags DEF Infer
  <1>5. ASSUME NEW j \in Job, Evaluate(j) PROVE Call(tracker, tracker', j)
    BY <1>5, StageMovesCall, SubmissionCall, CallerAssumption DEF Evaluate
  <1>6. ASSUME NEW j \in Job, Submit(j) PROVE Call(tracker, tracker', j)
    BY <1>6, SubmissionCall, FreshType, CallerAssumption DEF Submit
  <1>7. ASSUME NEW j \in Job, Fail(j) PROVE Call(tracker, tracker', j)
    BY <1>7, CallFault DEF Fail
  <1>8. CASE UNCHANGED calls
    BY <1>8 DEF calls, Fine, Kept, InformedOf, FinalOf, FifoOf, WaitOf
  <1> QED
    BY <1>1, <1>2, <1>3, <1>4, <1>5, <1>6, <1>7, <1>8, CallKeeps DEF CallsNext

-----------------------------------------------------------------------------
(* The theorems                                                               *)

FineInv == Fine(tracker)

\* Whoever calls, a job that waits for its submission has a job_info: the fact
\* that makes ensure_submitted_job_info safe to call at any time.
THEOREM TrackerFine == CallsSpec => []FineInv
  <1>1. CallsInit => FineInv
    BY GoodEmpty DEF CallsInit, FineInv, Fine, InformedOf, EmptyTracker, Untracked, NewTracked
  <1>2. FineInv /\ [CallsNext]_calls => FineInv'
    BY StepKeeps DEF FineInv, Fine, Kept
  <1> QED
    BY <1>1, <1>2, PTL DEF CallsSpec

\* A job that is to be submitted leaves that stage only for good, and a failure
\* reported for it late spends no attempt, for any callers and any limits.
THEOREM SubmissionIsFinal == CallsSpec => SubmitIsFinal
  <1>1. FineInv /\ [CallsNext]_calls =>
          [\A j \in Job : tracker.job[j].stage = "PENDING_SUBMIT" =>
              \/ ~IsTracked(tracker', j)
              \/ /\ tracker'.job[j].stage = "PENDING_SUBMIT"
                 /\ tracker'.job[j].attempts = tracker.job[j].attempts]_tracker
    BY StepKeeps DEF FineInv, Kept, FinalOf
  <1> QED
    BY <1>1, TrackerFine, PTL DEF CallsSpec, SubmitIsFinal

\* Two jobs of one stage that stay in it or move on together keep their order, for
\* any number of jobs: no sequence of requeues lets one overtake the other.
THEOREM QueuesAreFifo == CallsSpec => NoOvertaking
  <1>1. FineInv /\ [CallsNext]_calls =>
          [\A j, k \in Tracked(tracker) :
              (/\ tracker.job[j].stage = tracker.job[k].stage
               /\ tracker'.job[j].stage = tracker'.job[k].stage
               /\ IsTracked(tracker', j))
              => (j \in tracker'.ahead[k] <=> j \in tracker.ahead[k])]_tracker
    BY StepKeeps DEF FineInv, Kept, FifoOf
  <1> QED
    BY <1>1, TrackerFine, PTL DEF CallsSpec, NoOvertaking

\* A job that comes into a queue, from a lost verdict or a broken pipe as much as
\* for the first time, is behind all that stay in it, for any number of jobs.
THEOREM NewcomersAreLast == CallsSpec => NewcomersWait
  <1>1. FineInv /\ [CallsNext]_calls =>
          [\A j, k \in Job :
              (/\ IsTracked(tracker, j)
               /\ tracker'.job[j].stage = tracker.job[j].stage
               /\ tracker'.job[k].stage = tracker.job[j].stage
               /\ tracker.job[k].stage # tracker.job[j].stage)
              => j \in tracker'.ahead[k] /\ k \notin tracker'.ahead[j]]_tracker
    BY StepKeeps DEF FineInv, Kept, WaitOf
  <1> QED
    BY <1>1, TrackerFine, PTL DEF CallsSpec, NewcomersWait

-----------------------------------------------------------------------------
(* The one degraded retry of a job's life                                     *)

\* What the tracker still knows of a job that was popped: an entry made by any
\* later call has no pop time, and such a job is never retried.
Remembers(t, r, j) ==
    r.job[j].popped => t.job[j].popped /\ (t.job[j].degraded_retry_used => r.job[j].degraded_retry_used)

RemembersAll(t, r) == \A j \in Job : Remembers(t, r, j)

LEMMA PrivateStepsRemember ==
    ASSUME NEW t \in TrackerState, NEW j \in Job
    PROVE  /\ \A s : RemembersAll(t, SetStage(t, j, s))
           /\ \A s, informed, info : RemembersAll(t, Register(t, j, s, informed, info, FALSE))
           /\ RemembersAll(t, Remove(t, j))
           /\ \A rec : /\ rec.popped = t.job[j].popped
                       /\ rec.degraded_retry_used = t.job[j].degraded_retry_used
                       => RemembersAll(t, [t EXCEPT !.job[j] = rec])
  <1>1. t.job[j] \in TrackedJob
    BY DEF TrackerState
  <1>2. ASSUME NEW s PROVE RemembersAll(t, SetStage(t, j, s))
    BY <1>1 DEF RemembersAll, Remembers, SetStage, TrackerState, TrackedJob
  <1>3. ASSUME NEW s, NEW informed, NEW info
        PROVE  RemembersAll(t, Register(t, j, s, informed, info, FALSE))
    BY DEF RemembersAll, Remembers, Register, NewTracked, TrackerState
  <1>4. RemembersAll(t, Remove(t, j))
    BY DEF RemembersAll, Remembers, Remove, Untracked, NewTracked, TrackerState
  <1>5. ASSUME NEW rec, rec.popped = t.job[j].popped,
               rec.degraded_retry_used = t.job[j].degraded_retry_used
        PROVE  RemembersAll(t, [t EXCEPT !.job[j] = rec])
    BY <1>5 DEF RemembersAll, Remembers, TrackerState
  <1> QED BY <1>2, <1>3, <1>4, <1>5

LEMMA StageMovesRemember ==
    ASSUME NEW t \in TrackerState, NEW j \in Job
    PROVE  /\ RemembersAll(t, MarkInferenceStarted(t, j))
           /\ RemembersAll(t, ReleaseInProgress(t, j))
           /\ RemembersAll(t, DropPendingInference(t, j))
           /\ RemembersAll(t, BeginSafetyCheck(t, j))
           /\ RemembersAll(t, AbandonPendingSafety(t, j))
           /\ RemembersAll(t, RequeueOneBeingSafetyChecked(t, j))
           /\ RemembersAll(t, TakeBeingSafetyChecked(t, j))
           /\ RemembersAll(t, FinalizeSubmitted(t, j))
           /\ RemembersAll(t, DiscardJob(t, j))
           /\ \A info : RemembersAll(t, EnsureSubmittedJobInfo(t, j, info))
  <1>1. RemembersAll(t, t)
    BY DEF RemembersAll, Remembers
  <1> QED
    BY <1>1, PrivateStepsRemember DEF MarkInferenceStarted, ReleaseInProgress,
       DropPendingInference, BeginSafetyCheck, AbandonPendingSafety,
       RequeueOneBeingSafetyChecked, TakeBeingSafetyChecked, FinalizeSubmitted,
       DiscardJob, EnsureSubmittedJobInfo

LEMMA QueueRemembers ==
    ASSUME NEW t \in TrackerState, NEW j \in Job, NEW s \in Stage, NEW info
    PROVE  RemembersAll(t, Queue(t, j, s, info))
  <1> DEFINE moved == SetStage(t, j, s)
             r == [moved EXCEPT !.job[j].informed = TRUE, !.job[j].info = info]
  <1>1. RemembersAll(t, moved) /\ moved \in TrackerState /\ RemembersAll(t, t)
    BY PrivateStepsRemember, SetStageType DEF RemembersAll, Remembers
  <1>2. moved.job[j] \in TrackedJob
    BY <1>1 DEF TrackerState
  <1> HIDE DEF moved
  <1>3. \A i \in Job : /\ r.job[i].popped = moved.job[i].popped
                       /\ r.job[i].degraded_retry_used = moved.job[i].degraded_retry_used
    BY <1>1, <1>2 DEF TrackerState, TrackedJob
  <1>4. RemembersAll(t, r)
    BY <1>1, <1>3 DEF RemembersAll, Remembers
  <1> QED BY <1>1, <1>4, PrivateStepsRemember DEF Queue, moved

LEMMA RestRemembers ==
    ASSUME NEW t \in TrackerState
    PROVE  /\ RemembersAll(t, RequeueBeingSafetyChecked(t))
           /\ RemembersAll(t, IncrementJobsCompleted(t))
           /\ RemembersAll(t, PurgeJobs(t))
           /\ \A j \in Job : /\ RemembersAll(t, ClearDegradedDispatch(t, j))
                             /\ RemembersAll(t, MarkAdmittedOverBudget(t, j))
  <1>1. \A j \in Job : t.job[j] \in TrackedJob
    BY DEF TrackerState
  <1>2. RemembersAll(t, RequeueBeingSafetyChecked(t))
    BY <1>1 DEF RemembersAll, Remembers, RequeueBeingSafetyChecked, TrackerState, TrackedJob
  <1>3. RemembersAll(t, IncrementJobsCompleted(t)) /\ RemembersAll(t, PurgeJobs(t))
    BY DEF RemembersAll, Remembers, IncrementJobsCompleted, PurgeJobs, EmptyTracker, Untracked,
       NewTracked, TrackerState
  <1>4. ASSUME NEW j \in Job
        PROVE  /\ RemembersAll(t, ClearDegradedDispatch(t, j))
               /\ RemembersAll(t, MarkAdmittedOverBudget(t, j))
    BY <1>1 DEF RemembersAll, Remembers, ClearDegradedDispatch, MarkAdmittedOverBudget,
       TrackerState, TrackedJob
  <1> QED BY <1>2, <1>3, <1>4

\* A failure forgets nothing, and the one that is answered by a degraded retry is
\* that of a popped job whose retry was not used, and marks it used.
LEMMA FaultRemembers ==
    ASSUME NEW t, Good(t), NEW j \in Job, NEW retryable \in BOOLEAN, NEW resource \in BOOLEAN
    PROVE  /\ RemembersAll(t, HandleJobFault(t, j, retryable, resource))
           /\ GrantsDegraded(t, j, retryable, resource) =>
                /\ t.job[j].popped /\ ~t.job[j].degraded_retry_used
                /\ HandleJobFault(t, j, retryable, resource).job[j].degraded_retry_used
  <1> DEFINE c == CountAttempt(t, j)
             back == SetStage(c, j, "PENDING_INFERENCE")
             paid == [back EXCEPT !.job[j].degraded_retry_used = TRUE,
                                  !.job[j].needs_degraded_dispatch = TRUE]
             h == HandleJobFault(t, j, retryable, resource)
  <1>1. t \in TrackerState /\ t.job[j] \in TrackedJob
    BY DEF Good, TrackerState
  <1>2. CASE ~FaultApplies(t, j)
    BY <1>2 DEF HandleJobFault, GrantsDegraded, RemembersAll, Remembers
  <1>3. CASE FaultApplies(t, j) /\ ~MayRetry(c, j, retryable)
    <2>1. h = [job |-> [t.job EXCEPT ![j] = FinallyFaulted(t.job[j])],
               ahead |-> ToBack(t, j), completed |-> t.completed + 1]
      BY <1>3, FaultTerminallyShape DEF HandleJobFault
    <2>2. /\ FinallyFaulted(t.job[j]).popped = t.job[j].popped
          /\ FinallyFaulted(t.job[j]).degraded_retry_used = t.job[j].degraded_retry_used
      BY <1>1 DEF FinallyFaulted, TrackedJob
    <2> HIDE DEF h
    <2>3. RemembersAll(t, h)
      BY <1>1, <2>1, <2>2 DEF RemembersAll, Remembers, TrackerState
    <2> QED BY <1>3, <2>3 DEF GrantsDegraded, h
  <1>4. CASE FaultApplies(t, j) /\ MayRetry(c, j, retryable)
    <2>1. t.job[j].attempts \in Nat /\ t.job[j].attempts + 1 < MaxInferenceAttempts
      BY <1>1, <1>4, TrackerAssumption DEF MayRetry, CountAttempt, TrackerState, TrackedJob
    <2>2. /\ c \in TrackerState
          /\ \A i \in Job : /\ c.job[i].popped = t.job[i].popped
                            /\ c.job[i].degraded_retry_used = t.job[i].degraded_retry_used
      BY <1>1, <2>1, GoodCountAttempt DEF Good, CountAttempt, TrackerState, TrackedJob
    <2>3. c.job[j].popped
      BY <1>4 DEF MayRetry
    <2> HIDE DEF c
    <2>4. back \in TrackerState /\ RemembersAll(c, back)
      BY <2>2, SetStageType, PrivateStepsRemember DEF Stage
    <2>5. back.job[j] \in TrackedJob
      BY <2>4 DEF TrackerState
    <2> HIDE DEF back
    <2>6. /\ paid.job[j].degraded_retry_used /\ paid.job[j].popped = back.job[j].popped
          /\ \A i \in Job \ {j} : paid.job[i] = back.job[i]
      BY <2>4, <2>5 DEF TrackerState, TrackedJob
    <2> HIDE DEF paid
    <2>7. RemembersAll(t, back) /\ RemembersAll(t, paid)
      BY <2>2, <2>4, <2>6 DEF RemembersAll, Remembers
    <2>8. h = IF Degraded(c, j, ResourceFailure(t, j, resource)) THEN paid ELSE back
      BY <1>4 DEF HandleJobFault, Retry, c, back, paid
    <2>9. GrantsDegraded(t, j, retryable, resource)
            <=> Degraded(c, j, ResourceFailure(t, j, resource))
      BY <1>4 DEF GrantsDegraded, c
    <2> HIDE DEF h
    <2> QED BY <2>2, <2>3, <2>6, <2>7, <2>8, <2>9 DEF Degraded, h
  <1> QED BY <1>2, <1>3, <1>4

\* A job that was granted its degraded retry has it marked used, or its entry is
\* none of a popped job any more.
GrantPaid(j) ==
    /\ granted[j] \in 0 .. 1
    /\ granted[j] = 1 => tracker.job[j].degraded_retry_used \/ ~tracker.job[j].popped

GrantInv == granted \in [Job -> Nat] /\ \A j \in Job : GrantPaid(j)

LEMMA UngrantedStep ==
    ASSUME GrantInv, UNCHANGED granted, RemembersAll(tracker, tracker')
    PROVE  GrantInv'
  BY DEF GrantInv, GrantPaid, RemembersAll, Remembers

\* No job is granted a second degraded retry, for any jobs, any limit of attempts
\* and any callers, however its entry is removed and made anew in between.
THEOREM DegradedAtMostOnce == CallsSpec => []DegradedGrantedOnce
  <1>1. CallsInit => GrantInv
    BY DEF CallsInit, GrantInv, GrantPaid
  <1>2. CallsInv /\ GrantInv /\ [CallsNext]_calls => GrantInv'
    <2> SUFFICES ASSUME CallsInv, GrantInv, [CallsNext]_calls PROVE GrantInv'
      OBVIOUS
    <2> USE DEF CallsInv
    <2>1. tracker \in TrackerState
      BY DEF Good
    <2>2. CASE All
      BY <2>1, <2>2, RestRemembers, UngrantedStep DEF All
    <2>3. ASSUME NEW j \in Job, PopCall(j) PROVE GrantInv'
      <3>1. granted' = [granted EXCEPT ![j] = 0]
            /\ \A i \in Job \ {j} : tracker'.job[i] = tracker.job[i]
        BY <2>1, <2>3 DEF PopCall, RecordPoppedJob, Register, TrackerState
      <3> QED BY <3>1 DEF GrantInv, GrantPaid
    <2>4. ASSUME NEW j \in Job, Infer(j) PROVE GrantInv'
      BY <2>1, <2>4, StageMovesRemember, RestRemembers, UngrantedStep DEF Infer
    <2>5. ASSUME NEW j \in Job, Evaluate(j) PROVE GrantInv'
      BY <2>1, <2>5, StageMovesRemember, QueueRemembers, UngrantedStep
      DEF Evaluate, QueueForSafety, Stage
    <2>6. ASSUME NEW j \in Job, Submit(j) PROVE GrantInv'
      BY <2>1, <2>6, StageMovesRemember, QueueRemembers, UngrantedStep
      DEF Submit, QueueForSubmit, Stage
    <2>7. ASSUME NEW j \in Job, Fail(j) PROVE GrantInv'
      <3>1. PICK retryable \in BOOLEAN, resource \in BOOLEAN :
              /\ tracker' = HandleJobFault(tracker, j, retryable, resource)
              /\ granted' = IF GrantsDegraded(tracker, j, retryable, resource)
                            THEN [granted EXCEPT ![j] = @ + 1] ELSE granted
        BY <2>7 DEF Fail
      <3>2. RemembersAll(tracker, tracker')
        BY <3>1, FaultRemembers
      <3>3. CASE ~GrantsDegraded(tracker, j, retryable, resource)
        BY <3>1, <3>2, <3>3, UngrantedStep
      <3>4. CASE GrantsDegraded(tracker, j, retryable, resource)
        <4>1. /\ tracker.job[j].popped /\ ~tracker.job[j].degraded_retry_used
              /\ tracker'.job[j].degraded_retry_used
          BY <3>1, <3>4, FaultRemembers
        <4>2. granted[j] = 0 /\ granted' = [granted EXCEPT ![j] = 1]
          <5>1. granted[j] \in 0 .. 1 /\ granted[j] # 1
            BY <4>1 DEF GrantInv, GrantPaid
          <5>2. granted' = [granted EXCEPT ![j] = granted[j] + 1]
            BY <3>1, <3>4
          <5>3. granted[j] = 0
            BY <5>1
          <5>4. granted[j] + 1 = 1
            BY <5>3
          <5> QED BY <5>2, <5>3, <5>4
        <4>3. GrantPaid(j)'
          BY <4>1, <4>2 DEF GrantInv, GrantPaid
        <4>4. ASSUME NEW i \in Job \ {j} PROVE GrantPaid(i)'
          BY <3>2, <4>2 DEF GrantInv, GrantPaid, RemembersAll, Remembers
        <4> QED BY <4>2, <4>3, <4>4 DEF GrantInv
      <3> QED BY <3>3, <3>4
    <2>8. CASE UNCHANGED calls
      BY <2>8 DEF calls, GrantInv, GrantPaid
    <2> QED
      BY <2>2, <2>3, <2>4, <2>5, <2>6, <2>7, <2>8 DEF CallsNext
  <1>3. GrantInv => DegradedGrantedOnce
    BY DEF GrantInv, GrantPaid, DegradedGrantedOnce
  <1> QED
    BY <1>1, <1>2, <1>3, TrackerGood, PTL DEF CallsSpec
=============================================================================

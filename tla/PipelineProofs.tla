----------------------------- MODULE PipelineProofs -----------------------------
(* The pipeline for every number of jobs, slots, attempts and disruptions: the  *)
(* types, that no job is reported twice or left where no queue lists it, that   *)
(* what is checked has images, and that the pipeline implements JobLifecycle.   *)
EXTENDS JobPipeline, JobTrackerProofs

-----------------------------------------------------------------------------
(* The record of a job between two handlers                                     *)

Inferring == {"PENDING_INFERENCE", "INFERENCE_IN_PROGRESS"}
InSafety == {"PENDING_SAFETY_CHECK", "SAFETY_CHECKING"}

\* Every tracked job came from a pop and carries its job_info, what is in safety
\* has images, and nothing is left between two calls of one handler.
JobOk(rec) ==
    /\ rec.stage # "DETACHED"
    /\ rec.informed = (rec.stage # "UNTRACKED")
    /\ rec.stage # "UNTRACKED" => rec.popped
    /\ rec.stage \in InSafety => rec.info.images # NoImages /\ rec.info.state = "ok"

Sound(t) == Good(t) /\ \A j \in Job : JobOk(t.job[j])

\* Where a handler may take a job from stage a: on, but never back.
Onward(a, b) ==
    /\ a \in Inferring => b \in Inferring \cup InSafety \cup {"PENDING_SUBMIT"}
    /\ a \in InSafety => b \in InSafety \cup {"PENDING_SUBMIT"}
    /\ a \in {"PENDING_SUBMIT", "UNTRACKED"} => b = a

Advance(t, r, j) ==
    /\ Sound(r)
    /\ \A i \in Job \ {j} : r.job[i] = t.job[i]
    /\ Onward(t.job[j].stage, r.job[j].stage)

LEMMA SoundTypes ==
    ASSUME NEW t, Sound(t), NEW j \in Job
    PROVE  /\ t \in TrackerState
           /\ t.job[j] \in TrackedJob
           /\ t.job[j].info \in JobInfo
           /\ t.job[j].stage \in {"UNTRACKED", "PENDING_SUBMIT"} \cup Inferring \cup InSafety
  BY DEF Sound, Good, TrackerState, TrackedJob, Stage, JobOk, Inferring, InSafety

LEMMA AdvanceNot ==
    ASSUME NEW t, Sound(t), NEW j \in Job
    PROVE  Advance(t, t, j)
  BY SoundTypes DEF Advance, Onward

\* It is enough to look at the record of the job that the handler is about.
LEMMA AdvanceBy ==
    ASSUME NEW t, Sound(t), NEW j \in Job, NEW r, Good(r), NEW rec,
           r.job = [t.job EXCEPT ![j] = rec], JobOk(rec), Onward(t.job[j].stage, rec.stage)
    PROVE  Advance(t, r, j)
  <1>1. r.job[j] = rec /\ \A i \in Job \ {j} : r.job[i] = t.job[i]
    BY SoundTypes DEF TrackerState
  <1> QED BY <1>1 DEF Advance, Sound

\* _set_stage on the record of a job.
Enter(rec, s) ==
    IF rec.stage # "UNTRACKED" /\ s \in AllowedTransitions[rec.stage]
    THEN [rec EXCEPT !.stage = s] ELSE rec

LEMMA SetStageJob ==
    ASSUME NEW t, Good(t), NEW j \in Job, NEW s \in Stage
    PROVE  /\ Good(SetStage(t, j, s))
           /\ SetStage(t, j, s).job = [t.job EXCEPT ![j] = Enter(t.job[j], s)]
  <1>1. t \in TrackerState /\ t.job[j] \in TrackedJob
    BY DEF Good, TrackerState
  <1>2. CASE t.job[j].stage # s /\ MayEnter(t, j, s)
    BY <1>1, <1>2, GoodSetStage DEF SetStage, MayEnter, IsTracked, Enter, TrackerState
  <1>3. CASE ~(t.job[j].stage # s /\ MayEnter(t, j, s))
    <2>1. Enter(t.job[j], s) = t.job[j]
      BY <1>1, <1>3 DEF MayEnter, IsTracked, Enter, TrackedJob
    <2>2. [t.job EXCEPT ![j] = t.job[j]] = t.job
      BY <1>1 DEF TrackerState
    <2> QED BY <1>3, <2>1, <2>2 DEF SetStage
  <1> QED BY <1>2, <1>3

\* The record of a job after handle_job_fault.
LEMMA FaultAdvances ==
    ASSUME NEW t, Sound(t), NEW j \in Job, NEW retryable \in BOOLEAN, NEW resource \in BOOLEAN
    PROVE  Advance(t, HandleJobFault(t, j, retryable, resource), j)
  <1> DEFINE r == HandleJobFault(t, j, retryable, resource)
             c == CountAttempt(t, j)
             spent == resource \/ t.job[j].admitted_over_budget
  <1>1. t \in TrackerState /\ t.job[j] \in TrackedJob /\ Good(t) /\ JobOk(t.job[j])
    BY SoundTypes DEF Sound
  <1>2. Good(r)
    BY <1>1, GoodHandleJobFault
  <1>3. CASE ~FaultApplies(t, j)
    BY <1>3, AdvanceNot DEF HandleJobFault
  <1>4. CASE FaultApplies(t, j) /\ MayRetry(c, j, retryable)
    <2>1. /\ c \in [job : {c.job}, ahead : {c.ahead}, completed : {c.completed}]
          /\ c.job = [t.job EXCEPT ![j].attempts = @ + 1]
      BY <1>1 DEF CountAttempt, TrackerState
    <2>2. /\ c.job[j].stage = t.job[j].stage /\ c.job[j].informed = t.job[j].informed
          /\ c.job[j].popped = t.job[j].popped /\ c.job[j].attempts = t.job[j].attempts + 1
      BY <1>1, <2>1 DEF TrackerState, TrackedJob
    <2>3. t.job[j].attempts \in Nat /\ t.job[j].attempts + 1 < MaxInferenceAttempts
      BY <1>1, <1>4, <2>2, TrackerAssumption DEF MayRetry, TrackedJob
    <2>4. Good(c)
      BY <1>1, <2>3, GoodCountAttempt
    <2>5. t.job[j].stage \in Inferring
      BY <1>1, <1>4, <2>2 DEF MayRetry, MayEnter, FaultApplies, IsTracked, AllowedTransitions,
         Inferring, JobOk, TrackedJob, Stage
    <2> DEFINE back == SetStage(c, j, "PENDING_INFERENCE")
    <2>6. Good(back) /\ back.job = [c.job EXCEPT ![j] = Enter(c.job[j], "PENDING_INFERENCE")]
      BY <2>4, SetStageJob DEF Stage
    <2>7. r.job[j].stage = back.job[j].stage /\ r.job[j].informed = back.job[j].informed
          /\ r.job[j].popped = back.job[j].popped
          /\ \A i \in Job \ {j} : r.job[i] = back.job[i]
      <3>1. r = Retry(c, j, spent)
        BY <1>4 DEF HandleJobFault, ResourceFailure
      <3>2. back \in TrackerState /\ back.job[j] \in TrackedJob
        BY <2>6 DEF Good, TrackerState
      <3> HIDE DEF back
      <3> QED BY <3>1, <3>2 DEF Retry, back, TrackerState, TrackedJob
    <2> HIDE DEF r, c, back
    <2>8. /\ back.job[j].stage = "PENDING_INFERENCE"
          /\ back.job[j].informed = t.job[j].informed /\ back.job[j].popped = t.job[j].popped
          /\ \A i \in Job \ {j} : back.job[i] = t.job[i]
      <3>1. Enter(c.job[j], "PENDING_INFERENCE").stage = "PENDING_INFERENCE"
            /\ Enter(c.job[j], "PENDING_INFERENCE").informed = c.job[j].informed
            /\ Enter(c.job[j], "PENDING_INFERENCE").popped = c.job[j].popped
        <4>1. c.job[j] \in TrackedJob
          BY <2>4 DEF Good, TrackerState
        <4> QED BY <2>2, <2>5, <4>1 DEF Enter, Inferring, AllowedTransitions, TrackedJob
      <3> QED BY <1>1, <2>1, <2>2, <2>4, <2>6, <3>1 DEF Good, TrackerState
    <2>9. JobOk(r.job[j]) /\ \A i \in Job \ {j} : r.job[i] = t.job[i]
      BY <1>1, <2>5, <2>7, <2>8 DEF JobOk, InSafety, Inferring
    <2> QED BY <1>2, <2>5, <2>7, <2>8, <2>9 DEF Advance, Sound, Onward, Inferring, InSafety, r
  <1>5. CASE FaultApplies(t, j) /\ ~MayRetry(c, j, retryable)
    <2>1. r.job[j].stage = "PENDING_SUBMIT" /\ r.job[j].informed = t.job[j].informed
          /\ r.job[j].popped = t.job[j].popped
          /\ \A i \in Job \ {j} : r.job[i] = t.job[i]
      <3>1. r = [job |-> [t.job EXCEPT ![j] = FinallyFaulted(t.job[j])],
                 ahead |-> ToBack(t, j), completed |-> t.completed + 1]
        BY <1>1, <1>5, FaultTerminallyShape DEF HandleJobFault
      <3>2. /\ FinallyFaulted(t.job[j]).stage = "PENDING_SUBMIT"
            /\ FinallyFaulted(t.job[j]).informed = t.job[j].informed
            /\ FinallyFaulted(t.job[j]).popped = t.job[j].popped
        BY <1>1 DEF FinallyFaulted, TrackedJob
      <3> HIDE DEF r
      <3> QED BY <1>1, <3>1, <3>2 DEF TrackerState
    <2>2. t.job[j].stage \in Inferring \cup InSafety
      BY <1>5, SoundTypes DEF FaultApplies, IsTracked
    <2> HIDE DEF r
    <2>3. JobOk(r.job[j])
      BY <1>1, <2>1, <2>2 DEF JobOk, InSafety, Inferring
    <2> QED BY <1>2, <2>1, <2>2, <2>3 DEF Advance, Sound, Onward, Inferring, InSafety, r
  <1> QED BY <1>3, <1>4, <1>5

-----------------------------------------------------------------------------
(* The handlers, one by one                                                     *)

LEMMA WriteInfoJob ==
    ASSUME NEW t, Good(t), NEW j \in Job, NEW info \in JobInfo
    PROVE  /\ Good(WriteInfo(t, j, info))
           /\ WriteInfo(t, j, info).job = [t.job EXCEPT ![j] = [t.job[j] EXCEPT !.info = info]]
  BY GoodWriteInfo DEF WriteInfo, Good, TrackerState

\* start_inference marks the job and spends its degraded dispatch.
LEMMA DispatchAdvances ==
    ASSUME NEW t, Sound(t), NEW j \in Job, t.job[j].stage = "PENDING_INFERENCE"
    PROVE  Advance(t, ClearDegradedDispatch(MarkInferenceStarted(t, j), j), j)
  <1> DEFINE m == SetStage(t, j, "INFERENCE_IN_PROGRESS")
             r == [m EXCEPT !.job[j].needs_degraded_dispatch = FALSE]
  <1>1. Good(t) /\ JobOk(t.job[j]) /\ t.job[j] \in TrackedJob /\ t \in TrackerState
    BY SoundTypes DEF Sound
  <1>2. Good(m) /\ m.job = [t.job EXCEPT ![j] = Enter(t.job[j], "INFERENCE_IN_PROGRESS")]
    BY <1>1, SetStageJob DEF Stage
  <1>3. Enter(t.job[j], "INFERENCE_IN_PROGRESS") = [t.job[j] EXCEPT !.stage = "INFERENCE_IN_PROGRESS"]
    BY DEF Enter, AllowedTransitions
  <1>4. m.job[j] = [t.job[j] EXCEPT !.stage = "INFERENCE_IN_PROGRESS"] /\ IsTracked(m, j)
    BY <1>1, <1>2, <1>3 DEF TrackerState, TrackedJob, IsTracked
  <1>5. ClearDegradedDispatch(MarkInferenceStarted(t, j), j) = r
    BY <1>4 DEF MarkInferenceStarted, ClearDegradedDispatch, IsTracked
  <1>6. Good(r)
    BY <1>2, <1>4, GoodFlags DEF ClearDegradedDispatch
  <1> DEFINE rec == [m.job[j] EXCEPT !.needs_degraded_dispatch = FALSE]
  <1>7. r.job = [t.job EXCEPT ![j] = rec]
    BY <1>1, <1>2 DEF Good, TrackerState
  <1>8. rec.stage = "INFERENCE_IN_PROGRESS" /\ rec.informed = t.job[j].informed
        /\ rec.popped = t.job[j].popped
    BY <1>1, <1>4 DEF TrackedJob
  <1>9. JobOk(rec)
    BY <1>1, <1>8 DEF JobOk, InSafety
  <1> HIDE DEF r, rec
  <1>10. Advance(t, r, j)
    BY <1>6, <1>7, <1>8, <1>9, AdvanceBy DEF Onward, Inferring, InSafety
  <1> QED BY <1>5, <1>10

\* _handle_inference_result leaves the job with images in the safety queue, or in
\* the stage it had passed on to.
LEMMA AcceptAdvances ==
    ASSUME NEW t, Sound(t), NEW j \in Job, NEW image \in Image
    PROVE  Advance(t, AcceptResult(t, j, image), j)
  <1> DEFINE d == DropPendingInference(ReleaseInProgress(t, j), j)
             c == IncrementJobsCompleted(d)
             info == [c.job[j].info EXCEPT !.state = "ok", !.images = image]
             w == WriteInfo(c, j, info)
  <1>1. Good(t) /\ JobOk(t.job[j]) /\ t.job[j] \in TrackedJob /\ t \in TrackerState
    BY SoundTypes DEF Sound
  <1>2. CASE ~t.job[j].informed
    <2>1. t.job[j].stage = "UNTRACKED"
      BY <1>1, <1>2 DEF JobOk
    <2>2. AcceptResult(t, j, image) = t
      BY <1>2, <2>1 DEF AcceptResult, ReleaseInProgress, DropPendingInference
    <2> QED BY <2>2, AdvanceNot
  <1>3. CASE t.job[j].informed
    <2>1. t.job[j].stage # "UNTRACKED" /\ t.job[j].popped
      BY <1>1, <1>3 DEF JobOk
    <2> DEFINE e == ReleaseInProgress(t, j)
    <2>2. /\ Good(e)
          /\ e.job[j] = IF t.job[j].stage = "INFERENCE_IN_PROGRESS"
                        THEN [t.job[j] EXCEPT !.stage = "PENDING_INFERENCE"] ELSE t.job[j]
          /\ \A i \in Job \ {j} : e.job[i] = t.job[i]
      <3>1. CASE t.job[j].stage = "INFERENCE_IN_PROGRESS"
        <4>1. e = SetStage(t, j, "PENDING_INFERENCE")
          BY <2>1, <3>1 DEF ReleaseInProgress
        <4>2. Enter(t.job[j], "PENDING_INFERENCE") = [t.job[j] EXCEPT !.stage = "PENDING_INFERENCE"]
          BY <3>1 DEF Enter, AllowedTransitions
        <4>3. Good(e) /\ e.job = [t.job EXCEPT ![j] = [t.job[j] EXCEPT !.stage = "PENDING_INFERENCE"]]
          <5>1. /\ Good(SetStage(t, j, "PENDING_INFERENCE"))
                /\ SetStage(t, j, "PENDING_INFERENCE").job
                     = [t.job EXCEPT ![j] = Enter(t.job[j], "PENDING_INFERENCE")]
            BY <1>1, SetStageJob DEF Stage
          <5> QED BY <4>1, <4>2, <5>1
        <4> HIDE DEF e
        <4> QED BY <1>1, <3>1, <4>3 DEF TrackerState
      <3>2. CASE t.job[j].stage # "INFERENCE_IN_PROGRESS"
        BY <1>1, <3>2 DEF ReleaseInProgress
      <3> QED BY <3>1, <3>2
    <2>3. e \in TrackerState /\ e.job[j] \in TrackedJob
      BY <2>2 DEF Good, TrackerState
    <2> DEFINE out == IF t.job[j].stage \in Inferring THEN "DETACHED" ELSE t.job[j].stage
    <2>4. /\ Good(d)
          /\ d.job[j] = [t.job[j] EXCEPT !.stage = out]
          /\ \A i \in Job \ {j} : d.job[i] = t.job[i]
      <3>1. CASE t.job[j].stage \in Inferring
        <4>1. e.job[j] = [t.job[j] EXCEPT !.stage = "PENDING_INFERENCE"]
          BY <1>1, <2>2, <3>1 DEF Inferring, TrackedJob
        <4>2. e.job[j].stage = "PENDING_INFERENCE"
          BY <1>1, <4>1 DEF TrackedJob
        <4> HIDE DEF e
        <4>3. d = SetStage(e, j, "DETACHED")
          BY <4>2 DEF DropPendingInference, e
        <4>4. Enter(e.job[j], "DETACHED") = [e.job[j] EXCEPT !.stage = "DETACHED"]
          BY <4>2 DEF Enter, AllowedTransitions
        <4>5. [e.job[j] EXCEPT !.stage = "DETACHED"] = [t.job[j] EXCEPT !.stage = "DETACHED"]
          BY <1>1, <4>1 DEF TrackedJob
        <4>6. Good(d) /\ d.job = [e.job EXCEPT ![j] = [t.job[j] EXCEPT !.stage = "DETACHED"]]
          <5>1. /\ Good(SetStage(e, j, "DETACHED"))
                /\ SetStage(e, j, "DETACHED").job = [e.job EXCEPT ![j] = Enter(e.job[j], "DETACHED")]
            BY <2>2, SetStageJob DEF Stage
          <5> QED BY <4>3, <4>4, <4>5, <5>1
        <4> HIDE DEF d
        <4> QED BY <2>2, <2>3, <3>1, <4>6 DEF TrackerState
      <3>2. CASE t.job[j].stage \notin Inferring
        <4>1. e = t /\ d = t
          BY <3>2 DEF Inferring, ReleaseInProgress, DropPendingInference
        <4>2. t.job[j] = [t.job[j] EXCEPT !.stage = t.job[j].stage]
          BY <1>1 DEF TrackedJob
        <4> QED BY <1>1, <3>2, <4>1, <4>2
      <3> QED BY <3>1, <3>2
    <2> HIDE DEF d
    <2>5. Good(c) /\ c.job = d.job
      BY <2>4, GoodCounted DEF IncrementJobsCompleted, Good, TrackerState
    <2> HIDE DEF c
    <2>6. c.job[j].info = t.job[j].info /\ t.job[j].info \in JobInfo
      BY <1>1, <2>4, <2>5 DEF TrackedJob
    <2>7. info \in JobInfo /\ info.images = image /\ info.state = "ok"
      BY <2>6 DEF JobInfo
    <2> HIDE DEF info
    <2>8. Good(w) /\ w.job = [c.job EXCEPT ![j] = [c.job[j] EXCEPT !.info = info]]
      BY <2>5, <2>7, WriteInfoJob
    <2>9. /\ w.job[j] = [t.job[j] EXCEPT !.stage = out, !.info = info]
          /\ \A i \in Job \ {j} : w.job[i] = t.job[i]
      BY <1>1, <2>4, <2>5, <2>8 DEF TrackedJob, Good, TrackerState
    <2> HIDE DEF w
    <2> DEFINE r == QueueForSafety(w, j, info)
               rec == w.job[j]
    <2>10. AcceptResult(t, j, image) = r
      BY <1>3 DEF AcceptResult, r, w, c, d, info
    <2>11. Good(r)
      BY <2>7, <2>8, GoodQueue DEF QueueForSafety, Stage
    <2>12. w.job[j] \in TrackedJob /\ w \in TrackerState
      BY <2>8 DEF Good, TrackerState
    <2>13. /\ rec.stage = out /\ rec.informed /\ rec.popped /\ rec.info = info
      BY <1>1, <1>3, <2>1, <2>9 DEF TrackedJob
    <2>14. IsTracked(w, j)
      BY <2>1, <2>13 DEF IsTracked
    <2>15. CASE t.job[j].stage = "PENDING_SUBMIT"
      <3>1. r = w
        BY <2>13, <2>14, <2>15 DEF QueueForSafety, Queue, MayEnter, AllowedTransitions, Inferring
      <3>2. JobOk(rec)
        BY <2>13, <2>15 DEF JobOk, InSafety, Inferring
      <3> QED BY <2>9, <2>10, <2>11, <2>13, <2>15, <3>1, <3>2
              DEF Advance, Sound, Onward, Inferring, InSafety
    <2>16. CASE t.job[j].stage # "PENDING_SUBMIT"
      <3>1. out \in {"DETACHED", "PENDING_SAFETY_CHECK", "SAFETY_CHECKING"}
        BY <2>1, <2>16, SoundTypes DEF Inferring, InSafety
      <3>2. MayEnter(w, j, "PENDING_SAFETY_CHECK")
        BY <2>13, <2>14, <3>1 DEF MayEnter, AllowedTransitions
      <3> DEFINE moved == SetStage(w, j, "PENDING_SAFETY_CHECK")
      <3>3. r = [moved EXCEPT !.job[j].informed = TRUE, !.job[j].info = info]
        BY <2>14, <3>2 DEF QueueForSafety, Queue
      <3>4. Good(moved) /\ moved.job = [w.job EXCEPT ![j] = Enter(rec, "PENDING_SAFETY_CHECK")]
        BY <2>8, SetStageJob DEF Stage
      <3>5. /\ Enter(rec, "PENDING_SAFETY_CHECK").stage = "PENDING_SAFETY_CHECK"
            /\ Enter(rec, "PENDING_SAFETY_CHECK").popped
        BY <2>12, <2>13, <3>1 DEF Enter, AllowedTransitions, TrackedJob
      <3>6. moved \in TrackerState /\ moved.job[j] \in TrackedJob
        BY <3>4 DEF Good, TrackerState
      <3>7. /\ moved.job[j].stage = "PENDING_SAFETY_CHECK" /\ moved.job[j].popped
            /\ \A i \in Job \ {j} : moved.job[i] = t.job[i]
        BY <2>9, <2>12, <3>4, <3>5 DEF TrackerState
      <3> HIDE DEF moved, r
      <3>8. /\ r.job[j].stage = "PENDING_SAFETY_CHECK" /\ r.job[j].popped
            /\ r.job[j].informed = TRUE /\ r.job[j].info = info
            /\ \A i \in Job \ {j} : r.job[i] = t.job[i]
        BY <3>3, <3>6, <3>7 DEF TrackerState, TrackedJob
      <3>9. JobOk(r.job[j])
        BY <2>7, <3>8, TrackerAssumption DEF JobOk, InSafety
      <3>10. t.job[j].stage \in Inferring \cup InSafety
        BY <2>1, <2>16, SoundTypes
      <3> QED BY <1>1, <2>10, <2>11, <3>8, <3>9, <3>10
              DEF Advance, Sound, Onward, Inferring, InSafety
    <2> QED BY <2>15, <2>16
  <1> QED BY <1>2, <1>3

\* The moves between the queue in front of the safety check and the check.
LEMMA CheckMovesAdvance ==
    ASSUME NEW t, Sound(t), NEW j \in Job
    PROVE  /\ t.job[j].stage = "PENDING_SAFETY_CHECK" => Advance(t, BeginSafetyCheck(t, j), j)
           /\ Advance(t, RequeueOneBeingSafetyChecked(t, j), j)
  <1>1. Good(t) /\ JobOk(t.job[j]) /\ t.job[j] \in TrackedJob /\ t \in TrackerState
    BY SoundTypes DEF Sound
  <1>2. ASSUME NEW s \in InSafety, t.job[j].stage \in InSafety,
               s \in AllowedTransitions[t.job[j].stage]
        PROVE  Advance(t, SetStage(t, j, s), j)
    <2>1. /\ Good(SetStage(t, j, s))
          /\ SetStage(t, j, s).job = [t.job EXCEPT ![j] = Enter(t.job[j], s)]
      <3>1. s \in Stage
        BY DEF InSafety, Stage
      <3> QED BY <1>1, <3>1, SetStageJob
    <2>2. /\ Enter(t.job[j], s) = [t.job[j] EXCEPT !.stage = s]
          /\ [t.job[j] EXCEPT !.stage = s].stage = s
          /\ [t.job[j] EXCEPT !.stage = s].info = t.job[j].info
          /\ [t.job[j] EXCEPT !.stage = s].informed = t.job[j].informed
          /\ [t.job[j] EXCEPT !.stage = s].popped = t.job[j].popped
      BY <1>1, <1>2 DEF Enter, InSafety, TrackedJob
    <2> DEFINE rec == [t.job[j] EXCEPT !.stage = s]
    <2>3. JobOk(rec)
      BY <1>1, <1>2, <2>2 DEF JobOk, InSafety
    <2>4. Onward(t.job[j].stage, rec.stage)
      BY <1>2, <2>2 DEF Onward, Inferring, InSafety
    <2> HIDE DEF rec
    <2> QED BY <2>1, <2>2, <2>3, <2>4, AdvanceBy DEF rec
  <1>3. t.job[j].stage = "PENDING_SAFETY_CHECK" => Advance(t, BeginSafetyCheck(t, j), j)
    BY <1>2 DEF BeginSafetyCheck, IsTracked, InSafety, AllowedTransitions
  <1>4. Advance(t, RequeueOneBeingSafetyChecked(t, j), j)
    BY <1>2, AdvanceNot DEF RequeueOneBeingSafetyChecked, InSafety, AllowedTransitions
  <1> QED BY <1>3, <1>4

\* What a broken pipe does to all jobs under a check.
LEMMA RequeueAllSound ==
    ASSUME NEW t, Sound(t)
    PROVE  /\ Sound(RequeueBeingSafetyChecked(t))
           /\ \A j \in Job :
                LET r == RequeueBeingSafetyChecked(t)
                IN \/ r.job[j].stage = t.job[j].stage
                   \/ {t.job[j].stage, r.job[j].stage} \subseteq InSafety
  <1> DEFINE r == RequeueBeingSafetyChecked(t)
  <1>1. Good(r)
    BY GoodRequeueAll DEF Sound
  <1>2. ASSUME NEW j \in Job
        PROVE  r.job[j] = IF t.job[j].stage = "SAFETY_CHECKING"
                          THEN [t.job[j] EXCEPT !.stage = "PENDING_SAFETY_CHECK"] ELSE t.job[j]
    BY SoundTypes DEF RequeueBeingSafetyChecked, InStage, TrackerState
  <1> HIDE DEF r
  <1>3. ASSUME NEW j \in Job
        PROVE  /\ JobOk(r.job[j])
               /\ \/ r.job[j].stage = t.job[j].stage
                  \/ {t.job[j].stage, r.job[j].stage} \subseteq InSafety
    <2>1. JobOk(t.job[j]) /\ t.job[j] \in TrackedJob
      BY SoundTypes DEF Sound
    <2>2. CASE t.job[j].stage # "SAFETY_CHECKING"
      BY <1>2, <2>1, <2>2
    <2>3. CASE t.job[j].stage = "SAFETY_CHECKING"
      <3>1. /\ r.job[j].stage = "PENDING_SAFETY_CHECK" /\ r.job[j].info = t.job[j].info
            /\ r.job[j].informed = t.job[j].informed /\ r.job[j].popped = t.job[j].popped
        BY <1>2, <2>1, <2>3 DEF TrackedJob
      <3> QED BY <2>1, <2>3, <3>1 DEF JobOk, InSafety
    <2> QED BY <2>2, <2>3
  <1>4. Sound(r)
    BY <1>1, <1>3 DEF Sound
  <1> QED BY <1>3, <1>4 DEF r

\* A verdict takes the job to the submission, with its images or as faulted.
LEMMA VerdictAdvances ==
    ASSUME NEW t, Sound(t), NEW v, v.job \in Job, v.passed \in BOOLEAN
    PROVE  Advance(t, ApplyVerdict(t, v), v.job)
  <1> DEFINE j == v.job
             taken == TakeBeingSafetyChecked(t, j)
             info == t.job[j].info
             final == IF v.passed THEN [info EXCEPT !.safety_evaluated = TRUE] ELSE FaultJob(info)
             w == WriteInfo(taken, j, final)
             r == QueueForSubmit(w, j, final)
  <1>1. Good(t) /\ JobOk(t.job[j]) /\ t.job[j] \in TrackedJob /\ t \in TrackerState
    BY SoundTypes DEF Sound
  <1>2. CASE t.job[j].stage # "SAFETY_CHECKING"
    BY <1>2, AdvanceNot DEF ApplyVerdict
  <1>3. CASE t.job[j].stage = "SAFETY_CHECKING"
    <2>1. ApplyVerdict(t, v) = r
      BY <1>1, <1>3 DEF ApplyVerdict, JobOk, InSafety
    <2>2. final \in JobInfo
      BY <1>1, FaultJobType DEF TrackedJob, JobInfo
    <2> HIDE DEF final
    <2>3. Good(taken) /\ taken.job = [t.job EXCEPT ![j] = [t.job[j] EXCEPT !.stage = "DETACHED"]]
      <3>1. taken = SetStage(t, j, "DETACHED")
        BY <1>3 DEF TakeBeingSafetyChecked
      <3>2. Enter(t.job[j], "DETACHED") = [t.job[j] EXCEPT !.stage = "DETACHED"]
        BY <1>3 DEF Enter, AllowedTransitions
      <3>3. /\ Good(SetStage(t, j, "DETACHED"))
            /\ SetStage(t, j, "DETACHED").job = [t.job EXCEPT ![j] = Enter(t.job[j], "DETACHED")]
        BY <1>1, SetStageJob DEF Stage
      <3> QED BY <3>1, <3>2, <3>3
    <2> HIDE DEF taken
    <2>4. Good(w) /\ w.job = [taken.job EXCEPT ![j] = [taken.job[j] EXCEPT !.info = final]]
      BY <2>2, <2>3, WriteInfoJob
    <2>5. w.job[j] \in TrackedJob /\ w \in TrackerState
      BY <2>4 DEF Good, TrackerState
    <2>6. /\ w.job[j].stage = "DETACHED" /\ w.job[j].popped
          /\ \A i \in Job \ {j} : w.job[i] = t.job[i]
      BY <1>1, <1>3, <2>3, <2>4 DEF TrackedJob, TrackerState, JobOk
    <2> HIDE DEF w
    <2> DEFINE moved == SetStage(w, j, "PENDING_SUBMIT")
    <2>7. r = [moved EXCEPT !.job[j].informed = TRUE, !.job[j].info = final]
      BY <2>6 DEF QueueForSubmit, Queue, IsTracked, MayEnter, AllowedTransitions
    <2>8. Good(moved) /\ moved.job = [w.job EXCEPT ![j] = Enter(w.job[j], "PENDING_SUBMIT")]
      BY <2>4, SetStageJob DEF Stage
    <2>9. /\ Enter(w.job[j], "PENDING_SUBMIT").stage = "PENDING_SUBMIT"
          /\ Enter(w.job[j], "PENDING_SUBMIT").popped
      BY <2>5, <2>6 DEF Enter, AllowedTransitions, TrackedJob
    <2>10. moved \in TrackerState /\ moved.job[j] \in TrackedJob
      BY <2>8 DEF Good, TrackerState
    <2>11. /\ moved.job[j].stage = "PENDING_SUBMIT" /\ moved.job[j].popped
           /\ \A i \in Job \ {j} : moved.job[i] = t.job[i]
      BY <2>5, <2>6, <2>8, <2>9 DEF TrackerState
    <2>12. Good(r)
      BY <2>2, <2>4, GoodQueue DEF QueueForSubmit, Stage
    <2> HIDE DEF moved, r
    <2>13. /\ r.job[j].stage = "PENDING_SUBMIT" /\ r.job[j].popped /\ r.job[j].informed
           /\ \A i \in Job \ {j} : r.job[i] = t.job[i]
      BY <2>7, <2>10, <2>11 DEF TrackerState, TrackedJob
    <2>14. JobOk(r.job[j])
      BY <2>13 DEF JobOk, InSafety
    <2> HIDE DEF j
    <2>15. j \in Job
      BY DEF j
    <2>16. Advance(t, r, j)
      BY <1>1, <1>3, <2>12, <2>13, <2>14, <2>15 DEF Advance, Sound, Onward, Inferring, InSafety
    <2> QED BY <2>1, <2>16 DEF j, r, w, taken, final
  <1> QED BY <1>2, <1>3

\* A job whose check was repeated often enough is faulted for good, and its images
\* are dropped first.
LEMMA ReconcileAdvances ==
    ASSUME NEW t, Sound(t), NEW j \in Job, t.job[j].stage = "SAFETY_CHECKING"
    PROVE  Advance(t, HandleJobFault(WriteInfo(t, j, FaultJob(t.job[j].info)), j, FALSE, FALSE), j)
  <1> DEFINE w == WriteInfo(t, j, FaultJob(t.job[j].info))
             r == HandleJobFault(w, j, FALSE, FALSE)
  <1>1. Good(t) /\ JobOk(t.job[j]) /\ t.job[j] \in TrackedJob /\ t \in TrackerState
    BY SoundTypes DEF Sound
  <1>2. FaultJob(t.job[j].info) \in JobInfo
    BY <1>1, FaultJobType DEF TrackedJob
  <1>3. Good(w) /\ w.job = [t.job EXCEPT ![j] = [t.job[j] EXCEPT !.info = FaultJob(t.job[j].info)]]
    BY <1>1, <1>2, WriteInfoJob
  <1> HIDE DEF w
  <1>4. /\ w.job[j].stage = "SAFETY_CHECKING" /\ w.job[j].informed /\ w.job[j].popped
        /\ \A i \in Job \ {j} : w.job[i] = t.job[i]
    BY <1>1, <1>3 DEF TrackedJob, TrackerState, JobOk
  <1>5. FaultApplies(w, j) /\ ~MayRetry(CountAttempt(w, j), j, FALSE)
    BY <1>4 DEF FaultApplies, IsTracked, MayRetry
  <1>6. r = [job |-> [w.job EXCEPT ![j] = FinallyFaulted(w.job[j])],
             ahead |-> ToBack(w, j), completed |-> w.completed + 1]
    BY <1>3, <1>5, FaultTerminallyShape DEF HandleJobFault
  <1>7. Good(r)
    BY <1>3, GoodHandleJobFault
  <1>8. w.job[j] \in TrackedJob /\ w \in TrackerState
    BY <1>3 DEF Good, TrackerState
  <1>9. /\ FinallyFaulted(w.job[j]).stage = "PENDING_SUBMIT"
        /\ FinallyFaulted(w.job[j]).informed = w.job[j].informed
        /\ FinallyFaulted(w.job[j]).popped = w.job[j].popped
    BY <1>8 DEF FinallyFaulted, TrackedJob
  <1> HIDE DEF r
  <1>10. /\ r.job[j].stage = "PENDING_SUBMIT" /\ r.job[j].informed /\ r.job[j].popped
         /\ \A i \in Job \ {j} : r.job[i] = t.job[i]
    BY <1>4, <1>6, <1>8, <1>9 DEF TrackerState
  <1>11. r.job[j].informed = TRUE
    <2>1. r.job[j] \in TrackedJob
      BY <1>7 DEF Good, TrackerState
    <2> QED BY <1>10, <2>1 DEF TrackedJob
  <1>12. JobOk(r.job[j])
    BY <1>10, <1>11 DEF JobOk, InSafety
  <1>13. Advance(t, r, j)
    BY <1>1, <1>7, <1>10, <1>12 DEF Advance, Sound, Onward, Inferring, InSafety
  <1> QED BY <1>13 DEF r, w

\* The submitter writes its decision into the record of a job that is final.
LEMMA SubmitWriteAdvances ==
    ASSUME NEW t, Sound(t), NEW j \in Job, t.job[j].stage = "PENDING_SUBMIT", NEW info \in JobInfo
    PROVE  Advance(t, WriteInfo(t, j, info), j)
  <1> DEFINE rec == [t.job[j] EXCEPT !.info = info]
  <1>1. Good(t) /\ JobOk(t.job[j]) /\ t.job[j] \in TrackedJob /\ t \in TrackerState
    BY SoundTypes DEF Sound
  <1>2. Good(WriteInfo(t, j, info)) /\ WriteInfo(t, j, info).job = [t.job EXCEPT ![j] = rec]
    BY <1>1, WriteInfoJob
  <1>3. rec.stage = "PENDING_SUBMIT" /\ rec.informed = t.job[j].informed /\ rec.popped = t.job[j].popped
    BY <1>1 DEF TrackedJob
  <1> HIDE DEF rec
  <1>4. JobOk(rec) /\ Onward(t.job[j].stage, rec.stage)
    BY <1>1, <1>3 DEF JobOk, Onward, InSafety, Inferring
  <1> QED BY <1>2, <1>4, AdvanceBy

LEMMA PopSound ==
    ASSUME NEW t, Sound(t), NEW j \in Job
    PROVE  LET r == RecordPoppedJob(t, j)
           IN /\ Sound(r) /\ r.job[j].stage = "PENDING_INFERENCE"
              /\ \A i \in Job \ {j} : r.job[i] = t.job[i]
  <1> DEFINE r == RecordPoppedJob(t, j)
             rec == NewTracked("PENDING_INFERENCE", TRUE, FreshInfo, TRUE)
  <1>1. Good(r)
    BY GoodRegister, FreshType DEF RecordPoppedJob, Sound, Stage
  <1>2. r.job[j] = rec /\ \A i \in Job \ {j} : r.job[i] = t.job[i]
    <2>1. t \in TrackerState
      BY SoundTypes
    <2>2. r.job = [t.job EXCEPT ![j] = rec]
      BY <2>1 DEF RecordPoppedJob, Register, TrackerState
    <2> HIDE DEF r, rec
    <2> QED BY <2>1, <2>2 DEF TrackerState
  <1>3. JobOk(rec) /\ rec.stage = "PENDING_INFERENCE"
    BY DEF JobOk, NewTracked, InSafety
  <1> HIDE DEF r, rec
  <1>4. Sound(r)
    BY <1>1, <1>2, <1>3 DEF Sound
  <1> QED BY <1>2, <1>3, <1>4 DEF r

\* The report of a job that waits for it takes the job out of the tracker.
LEMMA ReportSound ==
    ASSUME NEW t, Sound(t), NEW j \in Job, t.job[j].stage = "PENDING_SUBMIT", NEW info
    PROVE  LET r == FinalizeSubmitted(EnsureSubmittedJobInfo(t, j, info), j)
           IN /\ Sound(r) /\ r.job[j].stage = "UNTRACKED"
              /\ \A i \in Job \ {j} : r.job[i] = t.job[i]
  <1> DEFINE r == FinalizeSubmitted(EnsureSubmittedJobInfo(t, j, info), j)
  <1>1. t.job[j].informed
    BY DEF Sound, JobOk
  <1>2. r = Remove(t, j)
    BY <1>1 DEF EnsureSubmittedJobInfo, FinalizeSubmitted, IsTracked
  <1>3. Good(r)
    BY <1>2, GoodRemove DEF Sound
  <1>4. r.job[j] = Untracked /\ \A i \in Job \ {j} : r.job[i] = t.job[i]
    BY <1>2, SoundTypes DEF Remove, TrackerState
  <1>5. JobOk(Untracked) /\ Untracked.stage = "UNTRACKED"
    BY DEF JobOk, Untracked, NewTracked, InSafety
  <1> HIDE DEF r
  <1>6. Sound(r)
    BY <1>3, <1>4, <1>5 DEF Sound
  <1> QED BY <1>4, <1>5, <1>6 DEF r

-----------------------------------------------------------------------------
(* The invariant                                                                *)

\* What a child says of a job names it, and a result brings images.
Heard == {m \in Report : /\ m.kind = "RESULT" => m.job \in Job /\ m.image \in Image
                         /\ m.kind = "FAULT" => m.job \in Job}

World ==
    /\ popped \subseteq Job
    /\ slot \in [Slot -> [launch: Launch, view: SlotView, job: Job \cup {NoJob},
                          stamped: BOOLEAN]]
    /\ child \in [Slot -> [alive: BOOLEAN, inbox: Seq(Work), running: Seq(Work)]]
    /\ outbox \in [Slot -> Seq(Heard)]
    /\ orphans \subseteq Job
    /\ safety \in [launch: Launch, alive: BOOLEAN, inbox: Seq(Work)]
    /\ verdicts \in Seq(Verdict)
    /\ checking \subseteq Job
    /\ requeues \in [Job -> 0 .. SafetyRequeueMax]
    /\ submission \in [job: Job \cup {NoJob}, tries: 0 .. MaxSubmitTries]
    /\ disruptions \in 0 .. MaxDisruptions
    /\ cleared \in [Job -> SUBSET Image]
    /\ uploaded \in [Job -> SUBSET Image]
    /\ reported \in [Job -> Nat]

\* A job is tracked from its pop to its one report.
Answered ==
    \A j \in Job : /\ j \notin popped => ~IsTracked(tracker, j) /\ reported[j] = 0
                   /\ j \in popped => reported[j] = IF IsTracked(tracker, j) THEN 0 ELSE 1

\* The job that the submitter holds across its awaits waits for it.
Submitting ==
    submission.job # NoJob => /\ submission.job \in Job
                              /\ tracker.job[submission.job].stage = "PENDING_SUBMIT"

Inv == World /\ Sound(tracker) /\ Answered /\ Submitting

-----------------------------------------------------------------------------
(* What a step does to the jobs                                                 *)

Shuffles(t, r) ==
    /\ Sound(r)
    /\ \A j \in Job : \/ r.job[j].stage = t.job[j].stage
                      \/ {t.job[j].stage, r.job[j].stage} \subseteq InSafety

Moves == \/ \E j \in Job : Advance(tracker, tracker', j)
         \/ Shuffles(tracker, tracker')

LEMMA NoMove ==
    ASSUME Sound(tracker), tracker' = tracker
    PROVE  Moves
  BY DEF Moves, Shuffles

LEMMA ListedIs ==
    ASSUME NEW stage, NEW j, j \in Listed(tracker, stage)
    PROVE  j \in Job /\ tracker.job[j].stage = stage
  BY DEF Listed, InStage

\* Reports of the children and replacements of their slots.
LEMMA SlotMoves ==
    ASSUME Inv, NEW s \in Slot, Receive(s) \/ Reap(s) \/ KillAndReplace(s)
    PROVE  Moves
  <1>1. Sound(tracker) /\ slot[s].job \in Job \cup {NoJob}
    BY DEF Inv, World
  <1>2. CASE Receive(s)
    <2> DEFINE m == Head(outbox[s])
    <2>1. m \in Heard
      <3>1. outbox[s] \in Seq(Heard) /\ outbox[s] # <<>>
        BY <1>2 DEF Receive, Inv, World
      <3> QED BY <3>1
    <2> HIDE DEF m
    <2>2. CASE m.launch = slot[s].launch
      <3>1. HandleReport(s, m)
        BY <1>2, <2>2 DEF Receive, m
      <3>2. CASE m.kind = "RESULT" /\ tracker' = AcceptResult(tracker, m.job, m.image)
        <4>1. m.job \in Job /\ m.image \in Image
          BY <2>1, <3>2 DEF Heard
        <4> QED BY <1>1, <3>2, <4>1, AcceptAdvances DEF Moves
      <3>3. CASE m.kind = "FAULT" /\ \E retryable, resource \in BOOLEAN :
                    tracker' = HandleJobFault(tracker, m.job, retryable, resource)
        <4>1. m.job \in Job
          BY <2>1, <3>3 DEF Heard
        <4> QED BY <1>1, <3>3, <4>1, FaultAdvances DEF Moves
      <3>4. CASE tracker' = IF m.kind = "WAITING_FOR_JOB" THEN ReapLostResult(tracker, s) ELSE tracker
        <4>1. CASE tracker' = tracker
          BY <1>1, <4>1, NoMove
        <4>2. CASE slot[s].job # NoJob /\ tracker' = HandleJobFault(tracker, slot[s].job, TRUE, FALSE)
          BY <1>1, <4>2, FaultAdvances DEF Moves
        <4> QED BY <3>4, <4>1, <4>2 DEF ReapLostResult
      <3> QED BY <3>1, <3>2, <3>3, <3>4 DEF HandleReport
    <2>3. CASE m.launch # slot[s].launch
      BY <1>1, <1>2, <2>3, NoMove DEF Receive, m
    <2> QED BY <2>2, <2>3
  <1>3. CASE ReplaceInferenceProcess(s)
    <2>1. CASE slot[s].job = NoJob
      BY <1>1, <1>3, <2>1, NoMove DEF ReplaceInferenceProcess
    <2>2. CASE slot[s].job # NoJob
      <3>1. tracker' = HandleJobFault(tracker, slot[s].job, TRUE, FALSE)
        BY <1>3, <2>2 DEF ReplaceInferenceProcess
      <3> QED BY <1>1, <2>2, <3>1, FaultAdvances DEF Moves
    <2> QED BY <2>1, <2>2
  <1> QED BY <1>2, <1>3 DEF Reap, KillAndReplace

LEMMA HandlerMoves ==
    ASSUME Inv, NEW j \in Job,
           \/ \E s \in Slot : Dispatch(j, s)
           \/ PuntOrphan(j) \/ StartEvaluateSafety(j) \/ ReconcileSafety(j) \/ SubmitBegin(j)
    PROVE  Moves
  <1>1. Sound(tracker)
    BY DEF Inv
  <1>2. ASSUME NEW s \in Slot, Dispatch(j, s) PROVE Moves
    <2>1. tracker.job[j].stage = "PENDING_INFERENCE"
      BY <1>2, ListedIs DEF Dispatch
    <2>2. \/ tracker' = ClearDegradedDispatch(MarkInferenceStarted(tracker, j), j)
          \/ tracker' = HandleJobFault(tracker, j, TRUE, FALSE)
      BY <1>2 DEF Dispatch
    <2> QED BY <1>1, <2>1, <2>2, DispatchAdvances, FaultAdvances DEF Moves
  <1>3. CASE PuntOrphan(j)
    BY <1>1, <1>3, FaultAdvances DEF PuntOrphan, Moves
  <1>4. CASE StartEvaluateSafety(j)
    <2>1. tracker.job[j].stage = "PENDING_SAFETY_CHECK"
      BY <1>4, ListedIs DEF StartEvaluateSafety, IsHead
    <2>2. JobInfoOf(j).images # NoImages
      BY <1>1, <2>1 DEF Sound, JobOk, JobInfoOf, InSafety
    <2>3. tracker' = BeginSafetyCheck(tracker, j)
      BY <1>4, <2>2 DEF StartEvaluateSafety
    <2> QED BY <1>1, <2>1, <2>3, CheckMovesAdvance DEF Moves
  <1>5. CASE ReconcileSafety(j)
    <2>1. tracker.job[j].stage = "SAFETY_CHECKING"
      BY <1>5, ListedIs DEF ReconcileSafety, BeingSafetyChecked
    <2>2. \/ tracker' = HandleJobFault(WriteInfo(tracker, j, FaultJob(JobInfoOf(j))), j, FALSE, FALSE)
          \/ tracker' = RequeueOneBeingSafetyChecked(tracker, j)
      BY <1>5 DEF ReconcileSafety
    <2> QED BY <1>1, <2>1, <2>2, ReconcileAdvances, CheckMovesAdvance DEF Moves, JobInfoOf
  <1>6. CASE SubmitBegin(j)
    <2>1. tracker.job[j].stage = "PENDING_SUBMIT"
      BY <1>6, ListedIs DEF SubmitBegin, IsHead
    <2> DEFINE info == JobInfoOf(j)
               stated == IF info.state = "none" THEN [info EXCEPT !.state = "faulted"] ELSE info
               punted == stated.images # NoImages /\ ~stated.safety_evaluated
               final == IF punted THEN FaultJob(stated) ELSE stated
    <2>2. stated \in JobInfo
      BY <1>1, SoundTypes DEF JobInfoOf, JobInfo
    <2>3. final \in JobInfo
      BY <2>2, FaultJobType
    <2>4. tracker' = WriteInfo(tracker, j, final)
      BY <1>6 DEF SubmitBegin
    <2> HIDE DEF final
    <2> QED BY <1>1, <2>1, <2>3, <2>4, SubmitWriteAdvances DEF Moves
  <1> QED BY <1>2, <1>3, <1>4, <1>5, <1>6

LEMMA VerdictMoves ==
    ASSUME Inv, ReceiveVerdict
    PROVE  Moves
  <1> DEFINE v == Head(verdicts)
  <1>1. Sound(tracker) /\ v \in Verdict
    <2>1. verdicts \in Seq(Verdict) /\ verdicts # <<>>
      BY DEF Inv, World, ReceiveVerdict
    <2> QED BY <2>1 DEF Inv
  <1> HIDE DEF v
  <1>2. v.job \in Job /\ v.passed \in BOOLEAN
    BY <1>1 DEF Verdict
  <1>3. tracker' = ApplyVerdict(tracker, v) \/ tracker' = tracker
    BY DEF ReceiveVerdict, v
  <1> QED BY <1>1, <1>2, <1>3, VerdictAdvances, NoMove DEF Moves

\* Every step pops a job, reports one, or moves the jobs on.
LEMMA StepMoves ==
    ASSUME Inv, Next
    PROVE  \/ \E j \in Job : Pop(j)
           \/ SubmitDone
           \/ /\ Moves
              /\ UNCHANGED <<popped, reported>>
              /\ \/ submission'.job = submission.job
                 \/ \E j \in Job : SubmitBegin(j)
  <1>1. ASSUME NEW j \in Job, NEW s \in Slot, Dispatch(j, s)
        PROVE  Moves /\ UNCHANGED <<popped, reported, submission>>
    BY <1>1, HandlerMoves DEF Dispatch, history
  <1>2. ASSUME NEW s \in Slot, Receive(s) \/ Reap(s) \/ KillAndReplace(s)
        PROVE  Moves /\ UNCHANGED <<popped, reported, submission>>
    BY <1>2, SlotMoves DEF Receive, Reap, KillAndReplace, ReplaceInferenceProcess, history
  <1>3. ASSUME NEW j \in Job, PuntOrphan(j) \/ StartEvaluateSafety(j) \/ ReconcileSafety(j)
        PROVE  Moves /\ UNCHANGED <<popped, reported, submission>>
    BY <1>3, HandlerMoves DEF PuntOrphan, StartEvaluateSafety, ReconcileSafety, history
  <1>4. ASSUME NEW j \in Job, SubmitBegin(j)
        PROVE  Moves /\ UNCHANGED <<popped, reported>>
    BY <1>4, HandlerMoves DEF SubmitBegin, history
  <1>5. ASSUME ReceiveVerdict
        PROVE  Moves /\ UNCHANGED <<popped, reported, submission>>
    BY <1>5, VerdictMoves DEF ReceiveVerdict, history
  <1>6. ASSUME SafetyPipeBreaks
        PROVE  Moves /\ UNCHANGED <<popped, reported, submission>>
    <2>1. Shuffles(tracker, RequeueBeingSafetyChecked(tracker))
      BY RequeueAllSound DEF Inv, Shuffles
    <2> QED BY <1>6, <2>1 DEF SafetyPipeBreaks, Moves, history
  <1>7. ASSUME \/ \E s \in Slot : ChildStart(s) \/ ChildFinish(s) \/ ChildCrash(s)
               \/ WatchInProgress \/ EvaluateSafety \/ SafetyCrash \/ ReplaceSafety \/ WatchSafety
        PROVE  UNCHANGED <<tracker, popped, reported, submission>>
    BY <1>7 DEF ChildStart, ChildFinish, ChildCrash, WatchInProgress, EvaluateSafety, SafetyCrash,
       ReplaceSafety, WatchSafety, history
  <1>8. ASSUME SubmitRetry
        PROVE  UNCHANGED <<tracker, popped, reported>> /\ submission'.job = submission.job
    <2>1. submission \in [job: Job \cup {NoJob}, tries: 0 .. MaxSubmitTries]
      BY DEF Inv, World
    <2> QED BY <1>8, <2>1 DEF SubmitRetry
  <1>9. tracker' = tracker => Moves
    BY NoMove DEF Inv
  <1> QED
    BY <1>1, <1>2, <1>3, <1>4, <1>5, <1>6, <1>7, <1>8, <1>9 DEF Next

-----------------------------------------------------------------------------
(* Types of everything but the tracker                                          *)

SlotRecord == [launch: Launch, view: SlotView, job: Job \cup {NoJob}, stamped: BOOLEAN]
ChildRecord == [alive: BOOLEAN, inbox: Seq(Work), running: Seq(Work)]

LEMMA StateMessageHeard ==
    ASSUME NEW launch \in Launch, NEW state \in SlotView
    PROVE  StateMessage(launch, state) \in Heard
  BY DEF StateMessage, Heard, Report, SlotView

\* What a dispatch sends: the attempt is within the budget, so it names an image.
LEMMA DispatchedWork ==
    ASSUME Inv, NEW j \in Job, tracker.job[j].stage = "PENDING_INFERENCE"
    PROVE  [job |-> j, image |-> ImageOfAttempt(j)] \in Work
  <1>1. tracker.job[j].attempts \in Nat /\ tracker.job[j].attempts < MaxInferenceAttempts
    BY SoundTypes, TrackerAssumption DEF Inv, Sound, Good, RetryBoundOf, TrackedJob
  <1>2. ImageOfAttempt(j) \in 1 .. MaxInferenceAttempts
    BY <1>1, TrackerAssumption DEF ImageOfAttempt
  <1> QED BY <1>2, PipelineAssumption DEF Work

LEMMA ChildWorld ==
    ASSUME Inv, NEW s \in Slot, ChildStart(s) \/ ChildFinish(s) \/ ChildCrash(s)
    PROVE  World'
  <1>1. /\ child[s] \in ChildRecord /\ slot[s] \in SlotRecord /\ outbox[s] \in Seq(Heard)
        /\ child \in [Slot -> ChildRecord] /\ outbox \in [Slot -> Seq(Heard)]
    BY DEF Inv, World, ChildRecord, SlotRecord
  <1>2. slot[s].launch \in Launch
    BY <1>1 DEF SlotRecord
  <1>3. child' \in [Slot -> ChildRecord]
    <2>1. CASE ChildStart(s)
      <3>1. Head(child[s].inbox) \in Work /\ Tail(child[s].inbox) \in Seq(Work)
        BY <1>1, <2>1 DEF ChildStart, ChildRecord
      <3>2. <<Head(child[s].inbox)>> \in Seq(Work)
        BY <3>1
      <3>3. [child[s] EXCEPT !.running = <<Head(child[s].inbox)>>, !.inbox = Tail(@)] \in ChildRecord
        BY <1>1, <3>1, <3>2 DEF ChildRecord
      <3>4. child' = [child EXCEPT ![s] = [child[s] EXCEPT !.running = <<Head(child[s].inbox)>>,
                                                           !.inbox = Tail(@)]]
        BY <1>1, <2>1 DEF ChildStart, ChildRecord
      <3> QED BY <1>1, <3>3, <3>4
    <2>2. CASE ChildFinish(s)
      <3>1. [child[s] EXCEPT !.running = <<>>] \in ChildRecord
        <4>1. <<>> \in Seq(Work)
          OBVIOUS
        <4> QED BY <1>1, <4>1 DEF ChildRecord
      <3>2. child' = [child EXCEPT ![s] = [child[s] EXCEPT !.running = <<>>]]
        BY <1>1, <2>2 DEF ChildFinish, ChildRecord
      <3> QED BY <1>1, <3>1, <3>2
    <2>3. CASE ChildCrash(s)
      <3>1. [alive |-> FALSE, inbox |-> <<>>, running |-> <<>>] \in ChildRecord
        BY DEF ChildRecord
      <3> QED BY <1>1, <2>3, <3>1 DEF ChildCrash
    <2> QED BY <2>1, <2>2, <2>3
  <1>4. outbox' \in [Slot -> Seq(Heard)]
    <2>1. CASE ChildStart(s)
      <3>1. StateMessage(slot[s].launch, "INFERENCE_STARTING") \in Heard
        BY <1>2, StateMessageHeard DEF SlotView
      <3>2. Append(outbox[s], StateMessage(slot[s].launch, "INFERENCE_STARTING")) \in Seq(Heard)
        BY <1>1, <3>1
      <3> QED BY <1>1, <2>1, <3>2 DEF ChildStart
    <2>2. CASE ChildFinish(s)
      <3> PICK ok \in BOOLEAN :
            LET work == child[s].running[1]
                launch == slot[s].launch
                result == [launch |-> launch, kind |-> IF ok THEN "RESULT" ELSE "FAULT",
                           job |-> work.job, image |-> IF ok THEN work.image ELSE NoImages]
                outcome == IF ok THEN "INFERENCE_COMPLETE" ELSE "INFERENCE_FAILED"
            IN outbox' = [outbox EXCEPT ![s] = @ \o
                 <<result, StateMessage(launch, outcome), StateMessage(launch, "WAITING_FOR_JOB")>>]
        BY <2>2 DEF ChildFinish
      <3> DEFINE work == child[s].running[1]
                 launch == slot[s].launch
                 result == [launch |-> launch, kind |-> IF ok THEN "RESULT" ELSE "FAULT",
                            job |-> work.job, image |-> IF ok THEN work.image ELSE NoImages]
                 outcome == IF ok THEN "INFERENCE_COMPLETE" ELSE "INFERENCE_FAILED"
      <3>1. work \in Work
        <4>1. child[s].running \in Seq(Work) /\ child[s].running # <<>>
          BY <1>1, <2>2 DEF ChildRecord, ChildFinish
        <4> QED BY <4>1
      <3>2. result \in Heard
        BY <1>2, <3>1 DEF Heard, Report, Work
      <3>3. StateMessage(launch, outcome) \in Heard /\ StateMessage(launch, "WAITING_FOR_JOB") \in Heard
        BY <1>2, StateMessageHeard DEF SlotView
      <3> HIDE DEF result, outcome
      <3>4. <<result, StateMessage(launch, outcome), StateMessage(launch, "WAITING_FOR_JOB")>> \in Seq(Heard)
        BY <3>2, <3>3
      <3>5. outbox' = [outbox EXCEPT ![s] = outbox[s] \o
                 <<result, StateMessage(launch, outcome), StateMessage(launch, "WAITING_FOR_JOB")>>]
        BY DEF result, outcome
      <3>6. outbox[s] \o <<result, StateMessage(launch, outcome), StateMessage(launch, "WAITING_FOR_JOB")>>
              \in Seq(Heard)
        BY <1>1, <3>4
      <3> QED BY <1>1, <3>5, <3>6
    <2>3. CASE ChildCrash(s)
      <3> PICK n \in 0 .. Len(outbox[s]) : outbox' = [outbox EXCEPT ![s] = SubSeq(@, 1, n)]
        BY <2>3 DEF ChildCrash
      <3>1. SubSeq(outbox[s], 1, n) \in Seq(Heard)
        BY <1>1
      <3> QED BY <1>1, <3>1
    <2> QED BY <2>1, <2>2, <2>3
  <1>5. disruptions' \in 0 .. MaxDisruptions
    BY PipelineAssumption DEF Inv, World, ChildStart, ChildFinish, ChildCrash, Disrupt
  <1>6. UNCHANGED <<popped, slot, orphans, checks, checking, requeues, submission, history>>
    BY DEF ChildStart, ChildFinish, ChildCrash
  <1> QED BY <1>3, <1>4, <1>5, <1>6 DEF Inv, World, ChildRecord, checks, history

LEMMA ReceiveWorld ==
    ASSUME Inv, NEW s \in Slot, Receive(s)
    PROVE  World'
  <1>1. slot \in [Slot -> SlotRecord] /\ outbox \in [Slot -> Seq(Heard)] /\ slot[s] \in SlotRecord
    BY DEF Inv, World, SlotRecord
  <1>2. outbox[s] \in Seq(Heard) /\ outbox[s] # <<>>
    BY <1>1 DEF Receive
  <1>3. Tail(outbox[s]) \in Seq(Heard)
    BY <1>2
  <1>4. outbox' \in [Slot -> Seq(Heard)]
    BY <1>1, <1>3 DEF Receive
  <1>5. slot' \in [Slot -> SlotRecord]
    <2> DEFINE m == Head(outbox[s])
    <2>1. [slot[s] EXCEPT !.stamped = FALSE] \in SlotRecord
      BY <1>1 DEF SlotRecord
    <2>2. ASSUME m.kind \in SlotView PROVE [slot[s] EXCEPT !.view = m.kind] \in SlotRecord
      BY <1>1, <2>2 DEF SlotRecord
    <2> HIDE DEF m
    <2>3. \/ UNCHANGED slot
          \/ slot' = [slot EXCEPT ![s].stamped = FALSE]
          \/ m.kind \in SlotView /\ slot' = [slot EXCEPT ![s].view = m.kind]
      BY DEF Receive, HandleReport, m
    <2> QED BY <1>1, <2>1, <2>2, <2>3
  <1>6. UNCHANGED <<popped, child, orphans, checks, checking, requeues, submission, disruptions, history>>
    BY DEF Receive
  <1> QED BY <1>4, <1>5, <1>6 DEF Inv, World, SlotRecord, checks, history

LEMMA ReplaceWorld ==
    ASSUME Inv, NEW s \in Slot, Reap(s) \/ KillAndReplace(s)
    PROVE  World'
  <1>1. /\ slot \in [Slot -> SlotRecord] /\ outbox \in [Slot -> Seq(Heard)]
        /\ child \in [Slot -> ChildRecord] /\ outbox[s] \in Seq(Heard)
    BY DEF Inv, World, SlotRecord, ChildRecord
  <1>2. disruptions' \in Launch
    BY PipelineAssumption DEF Inv, World, Reap, KillAndReplace, Disrupt, Launch
  <1>3. StartedSlot(disruptions') \in SlotRecord /\ StartedChild \in ChildRecord
    BY <1>2 DEF StartedSlot, StartedChild, SlotRecord, ChildRecord, SlotView
  <1>4. StateMessage(disruptions', "WAITING_FOR_JOB") \in Heard
    BY <1>2, StateMessageHeard DEF SlotView
  <1>5. Append(outbox[s], StateMessage(disruptions', "WAITING_FOR_JOB")) \in Seq(Heard)
    BY <1>1, <1>4
  <1>6. ReplaceInferenceProcess(s)
    BY DEF Reap, KillAndReplace
  <1>7. /\ slot' = [slot EXCEPT ![s] = StartedSlot(disruptions')]
        /\ child' = [child EXCEPT ![s] = StartedChild]
        /\ outbox' = [outbox EXCEPT ![s] = Append(outbox[s], StateMessage(disruptions', "WAITING_FOR_JOB"))]
    BY <1>6 DEF ReplaceInferenceProcess
  <1>8. slot' \in [Slot -> SlotRecord] /\ child' \in [Slot -> ChildRecord] /\ outbox' \in [Slot -> Seq(Heard)]
    BY <1>1, <1>3, <1>5, <1>7
  <1>9. UNCHANGED <<popped, orphans, checks, checking, requeues, submission, history>>
    BY <1>6 DEF ReplaceInferenceProcess
  <1> QED BY <1>2, <1>8, <1>9 DEF Inv, World, SlotRecord, ChildRecord, Launch, checks, history

LEMMA DispatchWorld ==
    ASSUME Inv, NEW j \in Job, NEW s \in Slot, Dispatch(j, s)
    PROVE  World'
  <1>1. /\ slot \in [Slot -> SlotRecord] /\ slot[s] \in SlotRecord
        /\ child \in [Slot -> ChildRecord] /\ child[s] \in ChildRecord
    BY DEF Inv, World, SlotRecord, ChildRecord
  <1>2. tracker.job[j].stage = "PENDING_INFERENCE"
    BY ListedIs DEF Dispatch
  <1> DEFINE work == [job |-> j, image |-> ImageOfAttempt(j)]
  <1>3. work \in Work
    BY <1>2, DispatchedWork
  <1>4. [slot[s] EXCEPT !.job = j, !.stamped = TRUE] \in SlotRecord
    BY <1>1 DEF SlotRecord
  <1>5. child[s].inbox \in Seq(Work)
    BY <1>1 DEF ChildRecord
  <1> HIDE DEF work
  <1>6. Append(child[s].inbox, work) \in Seq(Work)
    BY <1>3, <1>5
  <1>7. [child[s] EXCEPT !.inbox = Append(child[s].inbox, work)] \in ChildRecord
    BY <1>1, <1>6 DEF ChildRecord
  <1>8. \/ /\ slot' = [slot EXCEPT ![s] = [slot[s] EXCEPT !.job = j, !.stamped = TRUE]]
           /\ child' = [child EXCEPT ![s] = [child[s] EXCEPT !.inbox = Append(child[s].inbox, work)]]
        \/ UNCHANGED <<slot, child>>
    BY <1>1 DEF Dispatch, work, SlotRecord, ChildRecord
  <1>9. slot' \in [Slot -> SlotRecord] /\ child' \in [Slot -> ChildRecord]
    BY <1>1, <1>4, <1>7, <1>8
  <1>10. UNCHANGED <<popped, outbox, orphans, checks, checking, requeues, submission, disruptions, history>>
    BY DEF Dispatch
  <1> QED BY <1>9, <1>10 DEF Inv, World, SlotRecord, ChildRecord, checks, history

SafetyRecord == [launch: Launch, alive: BOOLEAN, inbox: Seq(Work)]

LEMMA SafetyWorld ==
    ASSUME Inv,
           \/ \E j \in Job : StartEvaluateSafety(j)
           \/ SafetyPipeBreaks \/ EvaluateSafety \/ SafetyCrash \/ ReplaceSafety \/ ReceiveVerdict
    PROVE  World'
  <1>1. /\ safety \in SafetyRecord /\ verdicts \in Seq(Verdict)
        /\ cleared \in [Job -> SUBSET Image] /\ disruptions \in 0 .. MaxDisruptions
    BY DEF Inv, World, SafetyRecord
  <1>2. safety.inbox \in Seq(Work) /\ safety.launch \in Launch
    BY <1>1 DEF SafetyRecord
  <1>3. [safety EXCEPT !.alive = FALSE, !.inbox = <<>>] \in SafetyRecord
    <2>1. <<>> \in Seq(Work)
      OBVIOUS
    <2> QED BY <1>1, <2>1 DEF SafetyRecord
  <1>4. ASSUME NEW j \in Job, StartEvaluateSafety(j)
        PROVE  /\ safety' \in SafetyRecord
               /\ UNCHANGED <<popped, inference, orphans, verdicts, checking, requeues, submission,
                              disruptions, history>>
    <2>1. tracker.job[j].stage = "PENDING_SAFETY_CHECK"
      BY <1>4, ListedIs DEF StartEvaluateSafety, IsHead
    <2>2. JobInfoOf(j).images # NoImages /\ JobInfoOf(j).images \in Image \cup {NoImages}
      BY <2>1, SoundTypes DEF Inv, Sound, JobOk, JobInfoOf, InSafety, JobInfo
    <2> DEFINE work == [job |-> j, image |-> JobInfoOf(j).images]
    <2>3. work \in Work
      BY <2>2 DEF Work
    <2>4. safety' = [safety EXCEPT !.inbox = Append(@, work)]
      BY <1>4, <2>2 DEF StartEvaluateSafety
    <2> HIDE DEF work
    <2>5. Append(safety.inbox, work) \in Seq(Work)
      BY <1>2, <2>3
    <2> QED BY <1>1, <1>4, <2>4, <2>5 DEF StartEvaluateSafety, SafetyRecord
  <1>5. CASE \E j \in Job : StartEvaluateSafety(j)
    <2> PICK j \in Job : StartEvaluateSafety(j)
      BY <1>5
    <2>1. /\ safety' \in SafetyRecord
          /\ UNCHANGED <<popped, inference, orphans, verdicts, checking, requeues, submission,
                         disruptions, history>>
      BY <1>4
    <2> QED BY <2>1 DEF Inv, World, SafetyRecord, inference, history
  <1>6. ASSUME Disrupt PROVE disruptions' \in 0 .. MaxDisruptions
    BY <1>1, <1>6, PipelineAssumption DEF Disrupt
  <1>7. CASE SafetyPipeBreaks
    BY <1>3, <1>6, <1>7 DEF SafetyPipeBreaks, Inv, World, SafetyRecord, inference, history
  <1>8. CASE EvaluateSafety
    <2> DEFINE work == Head(safety.inbox)
    <2>1. work \in Work /\ Tail(safety.inbox) \in Seq(Work)
      BY <1>2, <1>8 DEF EvaluateSafety
    <2>2. work.job \in Job /\ work.image \in Image
      BY <2>1 DEF Work
    <2> HIDE DEF work
    <2>3. safety' \in SafetyRecord
      BY <1>1, <1>8, <2>1 DEF EvaluateSafety, SafetyRecord
    <2> PICK passed \in BOOLEAN :
            /\ verdicts' = Append(verdicts, [launch |-> safety.launch, job |-> work.job,
                                             image |-> work.image, passed |-> passed])
            /\ cleared' = IF passed THEN [cleared EXCEPT ![work.job] = @ \cup {work.image}]
                          ELSE cleared
      BY <1>8 DEF EvaluateSafety, work
    <2>4. [launch |-> safety.launch, job |-> work.job, image |-> work.image, passed |-> passed] \in Verdict
      BY <1>2, <2>2 DEF Verdict
    <2>5. verdicts' \in Seq(Verdict)
      BY <1>1, <2>4
    <2>6. cleared' \in [Job -> SUBSET Image]
      BY <1>1, <2>2
    <2> QED BY <1>8, <2>3, <2>5, <2>6 DEF EvaluateSafety, Inv, World, SafetyRecord, inference
  <1>9. CASE SafetyCrash
    <2> PICK n \in 0 .. Len(verdicts) : verdicts' = SubSeq(verdicts, 1, n)
      BY <1>9 DEF SafetyCrash
    <2>1. verdicts' \in Seq(Verdict)
      BY <1>1
    <2> QED BY <1>3, <1>6, <1>9, <2>1 DEF SafetyCrash, Inv, World, SafetyRecord, inference, history
  <1>10. CASE ReplaceSafety
    <2>1. safety' \in SafetyRecord
      BY <1>1, <1>10 DEF ReplaceSafety, SafetyRecord, Launch
    <2> QED BY <1>10, <2>1 DEF ReplaceSafety, Inv, World, SafetyRecord, inference, history
  <1>11. CASE ReceiveVerdict
    <2>1. verdicts' \in Seq(Verdict)
      BY <1>1, <1>11 DEF ReceiveVerdict
    <2> QED BY <1>11, <2>1 DEF ReceiveVerdict, Inv, World, inference, history
  <1> QED BY <1>5, <1>7, <1>8, <1>9, <1>10, <1>11

LEMMA WatchWorld ==
    ASSUME Inv,
           \/ WatchInProgress \/ WatchSafety
           \/ \E j \in Job : PuntOrphan(j) \/ ReconcileSafety(j)
    PROVE  World'
  <1>1. Ownerless \subseteq Job /\ BeingSafetyChecked \subseteq Job
    BY DEF Ownerless, JobsInProgress, BeingSafetyChecked, Listed, InStage
  <1>2. KeptRequeues \in [Job -> 0 .. SafetyRequeueMax]
    BY PipelineAssumption DEF KeptRequeues, Inv, World
  <1>3. CASE WatchInProgress
    BY <1>1, <1>3 DEF WatchInProgress, Inv, World, inference, checks, history
  <1>4. CASE WatchSafety
    BY <1>1, <1>2, <1>4 DEF WatchSafety, Inv, World, inference, checks, history
  <1>5. ASSUME NEW j \in Job, PuntOrphan(j)
        PROVE  World'
    BY <1>1, <1>5 DEF PuntOrphan, Inv, World, inference, checks, history
  <1>6. ASSUME NEW j \in Job, ReconcileSafety(j)
        PROVE  World'
    <2>1. requeues[j] \in 0 .. SafetyRequeueMax
      BY DEF Inv, World
    <2>2. \/ requeues' = [KeptRequeues EXCEPT ![j] = 0]
          \/ /\ requeues[j] < SafetyRequeueMax
             /\ requeues' = [KeptRequeues EXCEPT ![j] = requeues[j] + 1]
      <3>1. ~RequeuesSpent(j) => requeues[j] < SafetyRequeueMax
        BY <2>1, PipelineAssumption DEF RequeuesSpent
      <3> QED BY <1>6, <3>1 DEF ReconcileSafety
    <2>3. requeues[j] < SafetyRequeueMax => requeues[j] + 1 \in 0 .. SafetyRequeueMax
      BY <2>1, PipelineAssumption
    <2>4. requeues' \in [Job -> 0 .. SafetyRequeueMax]
      BY <1>2, <2>2, <2>3, PipelineAssumption
    <2> QED BY <1>1, <1>6, <2>4 DEF ReconcileSafety, Inv, World, inference, checks, history
  <1> QED BY <1>3, <1>4, <1>5, <1>6

LEMMA SubmitWorld ==
    ASSUME Inv, \/ \E j \in Job : Pop(j) \/ SubmitBegin(j)
                \/ SubmitRetry \/ SubmitDone
    PROVE  World'
  <1>1. CASE \E j \in Job : Pop(j)
    BY <1>1 DEF Pop, Inv, World, inference, checks, history
  <1>2. CASE \E j \in Job : SubmitBegin(j)
    <2>1. submission' \in [job: Job \cup {NoJob}, tries: 0 .. MaxSubmitTries]
      BY <1>2, PipelineAssumption DEF SubmitBegin
    <2> QED BY <1>2, <2>1 DEF SubmitBegin, Inv, World, inference, checks, history
  <1>3. CASE SubmitRetry \/ SubmitDone
    <2> DEFINE j == submission.job
    <2>1. j \in Job /\ submission \in [job: Job \cup {NoJob}, tries: 0 .. MaxSubmitTries]
      BY <1>3 DEF Inv, World, Submitting, SubmitRetry, SubmitDone
    <2>2. Upload(j) /\ UNCHANGED cleared
      BY <1>3 DEF SubmitRetry, SubmitDone
    <2>3. submission' \in [job: Job \cup {NoJob}, tries: 0 .. MaxSubmitTries]
      BY <1>3, <2>1, PipelineAssumption DEF SubmitRetry, SubmitDone
    <2>4. UNCHANGED reported \/ reported' = [reported EXCEPT ![j] = @ + 1]
      BY <1>3 DEF SubmitRetry, SubmitDone
    <2> HIDE DEF j
    <2>5. reported' \in [Job -> Nat]
      <3>1. reported \in [Job -> Nat] /\ reported[j] + 1 \in Nat
        BY <2>1 DEF Inv, World
      <3> QED BY <2>4, <3>1
    <2>6. uploaded' \in [Job -> SUBSET Image]
      <3>1. JobInfoOf(j).images \in Image \cup {NoImages} /\ uploaded \in [Job -> SUBSET Image]
        BY <2>1, SoundTypes DEF Inv, World, JobInfoOf, JobInfo
      <3> QED BY <2>1, <2>2, <3>1 DEF Upload
    <2>7. UNCHANGED <<popped, slot, child, outbox, orphans, safety, verdicts, checking, requeues,
                      disruptions>>
      BY <1>3 DEF SubmitRetry, SubmitDone, inference, checks
    <2> QED BY <2>2, <2>3, <2>5, <2>6, <2>7 DEF Inv, World
  <1> QED BY <1>1, <1>2, <1>3

LEMMA WorldStep ==
    ASSUME Inv, Next
    PROVE  World'
  BY ChildWorld, ReceiveWorld, ReplaceWorld, DispatchWorld, SafetyWorld, WatchWorld, SubmitWorld
  DEF Next

-----------------------------------------------------------------------------
(* What the moves leave alone                                                   *)

\* Whatever a handler does to the jobs, each goes on or stays where it is.
LEMMA MovesOnward ==
    ASSUME Sound(tracker), Moves, NEW j \in Job
    PROVE  Sound(tracker') /\ Onward(tracker.job[j].stage, tracker'.job[j].stage)
  <1>1. CASE Shuffles(tracker, tracker')
    BY <1>1 DEF Shuffles, Onward, Inferring, InSafety
  <1>2. CASE \E i \in Job : Advance(tracker, tracker', i)
    BY <1>2 DEF Advance, Onward, Inferring, InSafety
  <1> QED BY <1>1, <1>2 DEF Moves

\* No move lets a job in or out of the tracker, or away from the submitter.
LEMMA MovesKeep ==
    ASSUME Sound(tracker), Moves, NEW j \in Job
    PROVE  /\ IsTracked(tracker', j) <=> IsTracked(tracker, j)
           /\ tracker.job[j].stage = "PENDING_SUBMIT" => tracker'.job[j].stage = "PENDING_SUBMIT"
  BY MovesOnward, SoundTypes DEF Onward, IsTracked, Inferring, InSafety

LEMMA PopStep ==
    ASSUME Inv, NEW j \in Job, Pop(j)
    PROVE  /\ Sound(tracker')
           /\ ~IsTracked(tracker, j) /\ tracker'.job[j].stage = "PENDING_INFERENCE"
           /\ \A i \in Job \ {j} : tracker'.job[i] = tracker.job[i]
           /\ reported[j] = 0 /\ UNCHANGED <<reported, submission>>
           /\ popped' = popped \cup {j} /\ j \notin popped
  <1>1. tracker' = RecordPoppedJob(tracker, j)
    BY DEF Pop
  <1>2. UNCHANGED <<reported, submission>> /\ popped' = popped \cup {j} /\ j \notin popped
    BY DEF Pop, history
  <1>3. ~IsTracked(tracker, j) /\ reported[j] = 0
    BY <1>2 DEF Inv, Answered
  <1>4. Sound(tracker)
    BY DEF Inv
  <1> QED BY <1>1, <1>2, <1>3, <1>4, PopSound

LEMMA ReportStep ==
    ASSUME Inv, SubmitDone
    PROVE  /\ Sound(tracker')
           /\ submission.job \in Job /\ submission'.job = NoJob
           /\ tracker.job[submission.job].stage = "PENDING_SUBMIT"
           /\ tracker'.job[submission.job].stage = "UNTRACKED"
           /\ \A i \in Job \ {submission.job} : tracker'.job[i] = tracker.job[i]
           /\ reported' = [reported EXCEPT ![submission.job] = @ + 1]
           /\ UNCHANGED popped
  <1> DEFINE j == submission.job
  <1>1. j \in Job /\ tracker.job[j].stage = "PENDING_SUBMIT" /\ Sound(tracker)
    BY DEF Inv, Submitting, SubmitDone
  <1>2. tracker' = FinalizeSubmitted(EnsureSubmittedJobInfo(tracker, j, JobInfoOf(j)), j)
    BY DEF SubmitDone
  <1>3. reported' = [reported EXCEPT ![j] = @ + 1] /\ UNCHANGED popped /\ submission'.job = NoJob
    BY DEF SubmitDone
  <1> HIDE DEF j
  <1>4. /\ Sound(tracker') /\ tracker'.job[j].stage = "UNTRACKED"
        /\ \A i \in Job \ {j} : tracker'.job[i] = tracker.job[i]
    BY <1>1, <1>2, ReportSound
  <1> QED BY <1>1, <1>3, <1>4 DEF j

-----------------------------------------------------------------------------
(* The invariant is inductive                                                   *)

LEMMA InvInit == Init => Inv
  <1> SUFFICES ASSUME Init PROVE Inv
    OBVIOUS
  <1>1. <<>> \in Seq(Work) /\ <<>> \in Seq(Heard) /\ <<>> \in Seq(Verdict)
    OBVIOUS
  <1>2. 0 \in Launch /\ 0 \in 0 .. MaxDisruptions /\ 0 \in 0 .. SafetyRequeueMax
        /\ 0 \in 0 .. MaxSubmitTries
    BY PipelineAssumption DEF Launch
  <1>3. [StartedSlot(0) EXCEPT !.view = "WAITING_FOR_JOB"]
          \in [launch: Launch, view: SlotView, job: Job \cup {NoJob}, stamped: BOOLEAN]
    BY <1>2 DEF StartedSlot, SlotView
  <1>4. StartedChild \in [alive: BOOLEAN, inbox: Seq(Work), running: Seq(Work)]
    BY <1>1 DEF StartedChild
  <1>5. safety \in [launch: Launch, alive: BOOLEAN, inbox: Seq(Work)]
    BY <1>1, <1>2 DEF Init
  <1>6. submission \in [job: Job \cup {NoJob}, tries: 0 .. MaxSubmitTries]
    BY <1>2 DEF Init
  <1>7. World
    BY <1>1, <1>2, <1>3, <1>4, <1>5, <1>6 DEF Init, World
  <1>8. \A j \in Job : tracker.job[j] = Untracked
    BY DEF Init, EmptyTracker
  <1>9. JobOk(Untracked) /\ Untracked.stage = "UNTRACKED"
    BY DEF JobOk, Untracked, NewTracked, InSafety
  <1>10. Sound(tracker)
    BY <1>8, <1>9, GoodEmpty DEF Init, Sound
  <1>11. Answered /\ Submitting
    BY <1>8, <1>9 DEF Init, Answered, IsTracked, Submitting
  <1> QED BY <1>7, <1>10, <1>11 DEF Inv

LEMMA InvNext ==
    ASSUME Inv, Next
    PROVE  Inv'
  <1>1. World' /\ Sound(tracker)
    BY WorldStep DEF Inv
  <1>2. ASSUME NEW j \in Job, Pop(j)
        PROVE  Inv'
    <2>1. /\ Sound(tracker')
          /\ ~IsTracked(tracker, j) /\ tracker'.job[j].stage = "PENDING_INFERENCE"
          /\ \A i \in Job \ {j} : tracker'.job[i] = tracker.job[i]
          /\ reported[j] = 0 /\ UNCHANGED <<reported, submission>>
          /\ popped' = popped \cup {j} /\ j \notin popped
      BY <1>2, PopStep
    <2>2. Answered'
      BY <2>1 DEF Inv, Answered, IsTracked
    <2>3. Submitting'
      BY <2>1 DEF Inv, Submitting, IsTracked
    <2> QED BY <1>1, <2>1, <2>2, <2>3 DEF Inv
  <1>3. ASSUME SubmitDone
        PROVE  Inv'
    <2> DEFINE j == submission.job
    <2>1. /\ Sound(tracker')
          /\ j \in Job /\ submission'.job = NoJob
          /\ tracker.job[j].stage = "PENDING_SUBMIT" /\ tracker'.job[j].stage = "UNTRACKED"
          /\ \A i \in Job \ {j} : tracker'.job[i] = tracker.job[i]
          /\ reported' = [reported EXCEPT ![j] = @ + 1]
          /\ UNCHANGED popped
      BY <1>3, ReportStep
    <2> HIDE DEF j
    <2>2. reported \in [Job -> Nat] /\ popped \subseteq Job
      BY DEF Inv, World
    <2>3. j \in popped /\ reported[j] = 0
      BY <2>1 DEF Inv, Answered, IsTracked
    <2>4. reported'[j] = 1 /\ \A i \in Job \ {j} : reported'[i] = reported[i]
      BY <2>1, <2>2, <2>3
    <2>5. Answered'
      BY <2>1, <2>3, <2>4 DEF Inv, Answered, IsTracked
    <2>6. Submitting'
      BY <2>1 DEF Submitting
    <2> QED BY <1>1, <2>1, <2>5, <2>6 DEF Inv
  <1>4. ASSUME Moves, UNCHANGED <<popped, reported>>,
               submission'.job = submission.job \/ \E j \in Job : SubmitBegin(j)
        PROVE  Inv'
    <2>1. /\ \A j \in Job : IsTracked(tracker', j) <=> IsTracked(tracker, j)
          /\ \A j \in Job : tracker.job[j].stage = "PENDING_SUBMIT"
                            => tracker'.job[j].stage = "PENDING_SUBMIT"
      BY <1>1, <1>4, MovesKeep
    <2>2. Sound(tracker')
      BY <1>4 DEF Moves, Advance, Shuffles
    <2>3. Answered'
      BY <1>4, <2>1 DEF Inv, Answered
    <2>4. ASSUME NEW j \in Job, SubmitBegin(j)
          PROVE  submission'.job = j /\ tracker.job[j].stage = "PENDING_SUBMIT"
      BY <2>4, ListedIs DEF SubmitBegin, IsHead
    <2>5. Submitting'
      BY <1>4, <2>1, <2>4 DEF Inv, Submitting
    <2> QED BY <1>1, <2>2, <2>3, <2>5 DEF Inv
  <1> QED BY <1>2, <1>3, <1>4, StepMoves

LEMMA InvStutter ==
    ASSUME Inv, UNCHANGED vars
    PROVE  Inv'
  BY DEF Inv, World, Answered, Submitting, vars, inference, checks, history

\* Everything below follows from this invariant: the types of what surrounds the
\* tracker, the soundness of its records, and that the submitter's job, held over
\* its awaits, is still the one that waits for its report.
THEOREM PipelineInv == Spec => []Inv
  <1>1. Inv /\ [Next]_vars => Inv'
    BY InvNext, InvStutter
  <1> QED BY InvInit, <1>1, PTL DEF Spec

\* No handler, late message, crash or replacement brings a variable out of its
\* type: stages, attempt counts, requeue counts and messages stay in their ranges.
THEOREM TypeCorrect == Spec => []TypeOK
  <1>1. Inv => TypeOK
    <2>1. Heard \subseteq Report
      BY DEF Heard
    <2>2. ASSUME Inv PROVE outbox \in [Slot -> Seq(Report)]
      <3>1. ASSUME NEW s \in Slot PROVE outbox[s] \in Seq(Report)
        <4>1. outbox[s] \in Seq(Heard)
          BY <2>2 DEF Inv, World
        <4> QED BY <2>1, <4>1
      <3>2. outbox \in [Slot -> Seq(Heard)]
        BY <2>2 DEF Inv, World
      <3> QED BY <3>1, <3>2
    <2> QED BY <2>2, SoundTypes DEF Inv, World, Sound, Good, TypeOK
  <1> QED BY <1>1, PipelineInv, PTL

\* The horde hears of a job once, whatever arrives late (the conditions of
\* handle_job_fault, record_popped_job and finalize_submitted).
THEOREM ReportsOnce == Spec => []ReportedOnce
  <1>1. Inv => ReportedOnce
    BY DEF Inv, World, Answered, ReportedOnce
  <1> QED BY <1>1, PipelineInv, PTL

\* No handler returns with a job in the stage that no queue lists.
THEOREM NeverDetached == Spec => []NoneLeftDetached
  <1>1. Inv => NoneLeftDetached
    BY DEF Inv, Sound, JobOk, NoneLeftDetached
  <1> QED BY <1>1, PipelineInv, PTL

\* The critical fault of start_evaluate_safety is never reached.
THEOREM CheckedHasImages == Spec => []SafetyHasImages
  <1>1. Inv => SafetyHasImages
    BY DEF Inv, Sound, JobOk, InSafety, JobInfoOf, SafetyHasImages
  <1> QED BY <1>1, PipelineInv, PTL

\* The stages a step takes a job from and to.
LEMMA StepOnward ==
    ASSUME Inv, [Next]_vars, NEW j \in Job
    PROVE  \/ Onward(tracker.job[j].stage, tracker'.job[j].stage)
           \/ tracker.job[j].stage \in {"UNTRACKED", "PENDING_SUBMIT"}
  <1>1. Sound(tracker)
    BY DEF Inv
  <1>2. ASSUME NEW i \in Job, Pop(i)
        PROVE  \/ tracker.job[j].stage = "UNTRACKED"
               \/ tracker'.job[j] = tracker.job[j]
    BY <1>2, PopStep DEF IsTracked
  <1>3. ASSUME SubmitDone
        PROVE  \/ tracker.job[j].stage = "PENDING_SUBMIT"
               \/ tracker'.job[j] = tracker.job[j]
    BY <1>3, ReportStep
  <1>4. ASSUME Moves
        PROVE  Onward(tracker.job[j].stage, tracker'.job[j].stage)
    BY <1>1, <1>4, MovesOnward
  <1>5. tracker'.job[j] = tracker.job[j] => Onward(tracker.job[j].stage, tracker'.job[j].stage)
    BY DEF Onward, Inferring, InSafety
  <1>6. CASE Next
    BY <1>2, <1>3, <1>4, <1>5, <1>6, StepMoves
  <1>7. CASE UNCHANGED vars
    BY <1>5, <1>7 DEF vars
  <1> QED BY <1>6, <1>7

-----------------------------------------------------------------------------
(* The pipeline implements JobLifecycle                                         *)

phase == [j \in Job |-> PhaseOf(j)]

LEMMA PhaseSame ==
    ASSUME NEW j \in Job, tracker'.job[j].stage = tracker.job[j].stage, reported'[j] = reported[j]
    PROVE  phase'[j] = phase[j]
  BY DEF phase, PhaseOf

LEMMA PhaseMoves ==
    ASSUME Inv, Moves, UNCHANGED reported, NEW j \in Job
    PROVE  \/ phase'[j] = phase[j]
           \/ phase[j] = "inference" /\ phase'[j] = "safety"
           \/ phase[j] \in {"inference", "safety"} /\ phase'[j] = "submit"
  <1>1. /\ Onward(tracker.job[j].stage, tracker'.job[j].stage)
        /\ tracker.job[j].stage \in {"UNTRACKED", "PENDING_SUBMIT"} \cup Inferring \cup InSafety
    BY MovesOnward, SoundTypes DEF Inv
  <1> QED BY <1>1 DEF phase, PhaseOf, Onward, Inferring, InSafety

\* A step that changes the phase of one job at most is one of JobLifecycle.
LEMMA OnePhase ==
    ASSUME NEW j \in Job, \A i \in Job \ {j} : phase'[i] = phase[i],
           \/ phase'[j] = phase[j]
           \/ phase[j] = "unknown" /\ phase'[j] = "inference"
           \/ phase[j] = "inference" /\ phase'[j] = "safety"
           \/ phase[j] \in {"inference", "safety"} /\ phase'[j] = "submit"
           \/ phase[j] = "submit" /\ phase'[j] = "reported"
    PROVE  Lifecycle!Next \/ phase' = phase
  <1>1. phase' = [phase EXCEPT ![j] = phase'[j]]
    BY DEF phase
  <1>2. CASE phase'[j] = phase[j]
    BY <1>2 DEF phase
  <1>3. CASE phase[j] = "unknown" /\ phase'[j] = "inference"
    BY <1>1, <1>3 DEF phase, Lifecycle!Next, Lifecycle!Pop, Lifecycle!Move
  <1>4. CASE phase[j] = "inference" /\ phase'[j] = "safety"
    BY <1>1, <1>4 DEF phase, Lifecycle!Next, Lifecycle!Infer, Lifecycle!Move
  <1>5. CASE phase[j] \in {"inference", "safety"} /\ phase'[j] = "submit"
    BY <1>1, <1>5 DEF phase, Lifecycle!Next, Lifecycle!Settle, Lifecycle!Move
  <1>6. CASE phase[j] = "submit" /\ phase'[j] = "reported"
    BY <1>1, <1>6 DEF phase, Lifecycle!Next, Lifecycle!Report, Lifecycle!Move
  <1> QED BY <1>2, <1>3, <1>4, <1>5, <1>6

LEMMA StepImplements ==
    ASSUME Inv, [Next]_vars
    PROVE  Lifecycle!Next \/ phase' = phase
  <1>1. ASSUME NEW j \in Job, Pop(j)
        PROVE  Lifecycle!Next \/ phase' = phase
    <2>1. phase[j] = "unknown" /\ phase'[j] = "inference"
      BY <1>1, PopStep DEF phase, PhaseOf, IsTracked
    <2>2. \A i \in Job \ {j} : phase'[i] = phase[i]
      BY <1>1, PopStep, PhaseSame
    <2> QED BY <2>1, <2>2, OnePhase
  <1>2. ASSUME SubmitDone
        PROVE  Lifecycle!Next \/ phase' = phase
    <2> DEFINE j == submission.job
    <2>1. /\ j \in Job
          /\ tracker.job[j].stage = "PENDING_SUBMIT" /\ tracker'.job[j].stage = "UNTRACKED"
          /\ \A i \in Job \ {j} : tracker'.job[i] = tracker.job[i]
          /\ reported' = [reported EXCEPT ![j] = @ + 1]
      BY <1>2, ReportStep
    <2> HIDE DEF j
    <2>2. reported \in [Job -> Nat] /\ reported[j] = 0
      BY <2>1 DEF Inv, World, Answered, IsTracked
    <2>3. reported'[j] = 1 /\ \A i \in Job \ {j} : reported'[i] = reported[i]
      BY <2>1, <2>2
    <2>4. phase[j] = "submit" /\ phase'[j] = "reported"
      BY <2>1, <2>2, <2>3 DEF phase, PhaseOf
    <2>5. \A i \in Job \ {j} : phase'[i] = phase[i]
      BY <2>1, <2>3, PhaseSame
    <2> QED BY <2>1, <2>4, <2>5, OnePhase
  <1>3. ASSUME Moves, UNCHANGED reported
        PROVE  Lifecycle!Next \/ phase' = phase
    <2>1. CASE Shuffles(tracker, tracker')
      <3>1. \A j \in Job : phase'[j] = phase[j]
        BY <1>3, <2>1 DEF Shuffles, InSafety, phase, PhaseOf
      <3> QED BY <3>1 DEF phase
    <2>2. ASSUME NEW j \in Job, Advance(tracker, tracker', j)
          PROVE  Lifecycle!Next \/ phase' = phase
      <3>1. \A i \in Job \ {j} : phase'[i] = phase[i]
        BY <1>3, <2>2, PhaseSame DEF Advance
      <3>2. \/ phase'[j] = phase[j]
            \/ phase[j] = "inference" /\ phase'[j] = "safety"
            \/ phase[j] \in {"inference", "safety"} /\ phase'[j] = "submit"
        BY <1>3, PhaseMoves
      <3> QED BY <3>1, <3>2, OnePhase
    <2> QED BY <1>3, <2>1, <2>2 DEF Moves
  <1>4. CASE UNCHANGED vars
    BY <1>4, PhaseSame DEF vars, history, phase, PhaseOf
  <1> QED BY <1>1, <1>2, <1>3, <1>4, StepMoves

\* Whatever is lost, repeated or late on the way, the horde sees a job go from
\* inference to the check to the submission and be reported, in this order.
THEOREM ImplementsLifecycle == Spec => LifecycleKept
  <1>1. Init => Lifecycle!Init
    BY DEF Init, Lifecycle!Init, PhaseOf, EmptyTracker, Untracked, NewTracked
  <1>2. Inv /\ [Next]_vars => [Lifecycle!Next]_phase
    BY StepImplements
  <1> QED BY <1>1, <1>2, PipelineInv, PTL DEF Spec, LifecycleKept, Lifecycle!Spec, phase
=============================================================================

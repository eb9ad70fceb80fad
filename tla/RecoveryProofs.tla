----------------------------- MODULE RecoveryProofs -----------------------------
(* What holds of the recovery supervisor and coordinator for every value of the *)
(* thresholds and of max_threads: the types, and that the concurrency is reduced *)
(* only while an episode is open.                                               *)
EXTENDS RecoveryCoordinator, TLAPS

ClockType == /\ episode \in {None} \cup 0 .. GiveUpAfter
             /\ wedge \in {None} \cup 0 .. WedgeGrace
             /\ clean \in {None} \cup 0 .. CleanStreak
             /\ idle \in 0 .. ResetInterval
             /\ resets \in 0 .. MaxSoftResets

\* An age that saturates at its threshold stays below it and does not become None,
\* nor does a clock that was never started start by growing older.
LEMMA AgeType ==
    ASSUME NEW cap \in Nat, NEW age \in {None} \cup 0 .. cap
    PROVE  /\ Older(age, cap) \in {None} \cup 0 .. cap
           /\ age # None => Older(age, cap) \in 0 .. cap
           /\ Since(age, cap) \in 0 .. cap
           /\ Older(age, cap) = None <=> age = None
BY DEF Older, Since, None

\* RecoverySupervisor.evaluate keeps every clock within its threshold, and the
\* soft resets within their limit: the guard of the action is the limit's only one.
LEMMA EvaluateType ==
    ASSUME ClockType, NEW wedged \in BOOLEAN, Evaluate(wedged)
    PROVE  ClockType'
<1>1. /\ WedgeGrace \in Nat /\ ResetInterval \in Nat /\ MaxSoftResets \in Nat
      /\ GiveUpAfter \in Nat /\ CleanStreak \in Nat
  BY RecoveryAssumption
<1>2. episode' \in {None} \cup 0 .. GiveUpAfter
  BY <1>1, AgeType DEF Evaluate, Episode, ClockType
<1>3. wedge' \in {None} \cup 0 .. WedgeGrace
  BY <1>1, AgeType DEF Evaluate, Wedge, ClockType
<1>4. clean' \in {None} \cup 0 .. CleanStreak
  BY <1>1, AgeType DEF Evaluate, Clean, ClockType
<1>5. idle' \in 0 .. ResetInterval
  <2>1. idle # None
    BY <1>1 DEF ClockType, None
  <2>2. SinceAction \in 0 .. ResetInterval
    BY <1>1, <2>1, AgeType DEF SinceAction, ClockType
  <2> QED BY <1>1, <2>2 DEF Evaluate
<1>6. resets' \in 0 .. MaxSoftResets
  <2>1. Action(wedged) = "SOFT_RESET" => resets < MaxSoftResets
    BY DEF Action
  <2> QED BY <1>1, <2>1 DEF Evaluate, ClockType
<1> QED BY <1>2, <1>3, <1>4, <1>5, <1>6 DEF ClockType

\* The supervisor acts only in an episode that the same tick leaves open.
LEMMA ActsInEpisode ==
    ASSUME NEW wedged, Evaluate(wedged), Action(wedged) # "NONE"
    PROVE  episode' # None
BY DEF Action, Evaluate

Inv == TypeOK /\ LimpOnlyInEpisode

LEMMA WorkerEvents ==
    ASSUME Inv,
           \/ \E p \in Pool : PoolBreaks(p)
           \/ SafetyRecovers \/ ProcessesDown \/ Stuck \/ JobEnds \/ RunawayAbort \/ Reconfigure
    PROVE  Inv'
<1> USE RecoveryAssumption DEF Inv, TypeOK, LimpOnlyInEpisode, supervisor
<1>1. ASSUME NEW p \in Pool, PoolBreaks(p) PROVE Inv'
  BY <1>1 DEF PoolBreaks
<1>2. CASE SafetyRecovers
  BY <1>2 DEF SafetyRecovers
<1>3. CASE ProcessesDown
  BY <1>3 DEF ProcessesDown
<1>4. CASE Stuck
  BY <1>4 DEF Stuck
<1>5. CASE JobEnds
  BY <1>5 DEF JobEnds, CountJob, Progress
<1>6. CASE RunawayAbort
  BY <1>6 DEF RunawayAbort
<1>7. CASE Reconfigure
  BY <1>7 DEF Reconfigure
<1> QED BY <1>1, <1>2, <1>3, <1>4, <1>5, <1>6, <1>7

LEMMA TickKeeps ==
    ASSUME Inv, Tick
    PROVE  Inv'
<1> DEFINE baseline == IF episode' = None THEN "none"
                       ELSE IF progress = "none" THEN "no" ELSE progress
<1>1. baseline \in Progress
  BY DEF Inv, TypeOK, Progress
<1>2. Wedged \in BOOLEAN
  BY DEF Wedged, SawThisEpisode, Inv, TypeOK
<1>3. Evaluate(Wedged) /\ saw' = (SawThisEpisode /\ episode' # None) /\ stuck' = stuck
  BY DEF Tick
<1>4. ClockType'
  BY <1>2, <1>3, EvaluateType DEF Inv, TypeOK, ClockType
<1>5. {saw', stuck'} \subseteq BOOLEAN
  BY <1>3 DEF SawThisEpisode, Inv, TypeOK
<1>6. CASE Action(Wedged) = "SOFT_RESET" /\ SoftReset(baseline)
  <2>1. episode' # None
    BY <1>3, <1>6, ActsInEpisode
  <2>2. threads' \in 1 .. MaxThreads
    BY <1>6, RecoveryAssumption DEF SoftReset, Inv, TypeOK
  <2>3. progress' \in Progress
    BY <1>1, <1>6 DEF SoftReset, Progress
  <2>4. /\ broken' \subseteq Pool /\ {down', limp', aborted'} \subseteq BOOLEAN
        /\ limp' = TRUE
    BY <1>6 DEF SoftReset, Inv, TypeOK
  <2> QED BY <1>4, <1>5, <2>1, <2>2, <2>3, <2>4 DEF Inv, TypeOK, ClockType, LimpOnlyInEpisode
<1>7. CASE Action(Wedged) = "GIVE_UP" /\ GiveUp(baseline)
  <2>1. episode' # None
    BY <1>3, <1>7, ActsInEpisode
  <2>2. progress' \in Progress
    BY <1>1, <1>7 DEF GiveUp, Progress
  <2>3. aborted' \in BOOLEAN
    BY <1>5, <1>7 DEF GiveUp, Inv, TypeOK
  <2>4. UNCHANGED <<broken, down, threads, limp>>
    BY <1>7 DEF GiveUp
  <2> QED BY <1>4, <1>5, <2>1, <2>2, <2>3, <2>4 DEF Inv, TypeOK, ClockType, LimpOnlyInEpisode
<1>8. CASE /\ Action(Wedged) = "NONE"
           /\ progress' = baseline
           /\ IF limp /\ episode' = None THEN LiftLimp ELSE UNCHANGED <<limp, threads>>
           /\ UNCHANGED <<broken, down, aborted>>
  <2>1. MaxThreads \in 1 .. MaxThreads
    BY RecoveryAssumption
  <2>2. limp' \in BOOLEAN /\ threads' \in 1 .. MaxThreads
    BY <1>8, <2>1 DEF LiftLimp, Inv, TypeOK
  <2>3. LimpOnlyInEpisode'
    BY <1>8 DEF LiftLimp, Inv, TypeOK, LimpOnlyInEpisode
  <2> QED BY <1>1, <1>4, <1>5, <1>8, <2>2, <2>3 DEF Inv, TypeOK, ClockType
<1> QED BY <1>6, <1>7, <1>8 DEF Tick

\* The inductive invariant: the types and the bond between limping and the episode.
\* Together they say that every way out of an episode lifts what a reset lowered.
THEOREM RecoveryInv == Spec => []Inv
<1>1. Init => Inv
  <2> SUFFICES ASSUME Init PROVE Inv
    OBVIOUS
  <2>1. idle \in 0 .. ResetInterval /\ resets \in 0 .. MaxSoftResets /\ threads \in 1 .. MaxThreads
    BY RecoveryAssumption DEF Init
  <2>2. /\ episode = None /\ wedge = None /\ clean = None /\ broken \subseteq Pool
        /\ {down, stuck, saw, limp, aborted} \subseteq BOOLEAN /\ progress \in Progress
    BY DEF Init, Progress
  <2>3. LimpOnlyInEpisode
    BY DEF Init, LimpOnlyInEpisode
  <2> QED BY <2>1, <2>2, <2>3 DEF Inv, TypeOK
<1>2. Inv /\ [Next]_vars => Inv'
  <2> SUFFICES ASSUME Inv, [Next]_vars PROVE Inv'
    OBVIOUS
  <2>1. CASE Tick
    BY <2>1, TickKeeps
  <2>2. CASE UNCHANGED vars
    BY <2>2 DEF vars, supervisor, Inv, TypeOK, LimpOnlyInEpisode
  <2> QED BY <2>1, <2>2, WorkerEvents DEF Next
<1> QED BY <1>1, <1>2, PTL DEF Spec

\* Every variable has its type, and every age its threshold, for any thresholds:
\* no order of ticks, resets and reloads counts a reset or an age past its limit.
THEOREM TypeCorrect == Spec => []TypeOK
<1>1. Inv => TypeOK
  BY DEF Inv
<1> QED BY <1>1, RecoveryInv, PTL

\* Reduced concurrency belongs to an open episode, for any thresholds and any
\* max_threads: a tick that finds no episode leaves the configured concurrency.
THEOREM LimpNeedsEpisode == Spec => []LimpOnlyInEpisode
<1>1. Inv => LimpOnlyInEpisode
  BY DEF Inv
<1> QED BY <1>1, RecoveryInv, PTL
=============================================================================

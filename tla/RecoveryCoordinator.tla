-------------------------- MODULE RecoveryCoordinator --------------------------
(* What the worker does when it cannot make progress: RecoverySupervisor     *)
(* (lifecycle/recovery_supervisor.py), the escalation policy, and the part   *)
(* of WorkerRecoveryCoordinator (lifecycle/worker_recovery_coordinator.py)   *)
(* that feeds it a wedge and carries its action out.  A tick of the control  *)
(* loop is one unit of time.  Times are kept as ages that saturate at the    *)
(* threshold they are compared with.                                         *)
EXTENDS Integers

CONSTANTS WedgeGrace, ResetInterval, MaxSoftResets, GiveUpAfter, CleanStreak,
          MaxThreads    \* bridge_data.max_threads

ASSUME RecoveryAssumption ==
    /\ {WedgeGrace, ResetInterval, MaxSoftResets, GiveUpAfter, CleanStreak} \subseteq Nat
    /\ MaxThreads \in Nat \ {0}

VARIABLES
    episode, wedge, clean,  \* ages of _episode_start, _wedge_since, _clean_since, or None
    idle,        \* age of _last_action_time
    resets,      \* _soft_resets_done, limp_by_level
    broken,      \* pools that are unrecoverable: quarantined, or crash-looping
    down,        \* no inference process is alive, quarantined slots or not
    stuck,       \* a queue deadlock past its graces, or recurring orphan punts
    saw,         \* episode_saw_unrecoverable_pool
    progress,    \* "none", or whether jobs completed since episode_progress_baseline
    limp,        \* limp_by_active
    threads,     \* effective_max_threads
    aborted

supervisor == <<episode, wedge, clean, idle, resets>>
vars == <<supervisor, broken, down, stuck, saw, progress, limp, threads, aborted>>

None == 0 - 1
Pool == {"inference", "safety"}
Progress == {"none", "no", "yes"}

Init ==
    /\ episode = None /\ wedge = None /\ clean = None
    /\ idle = ResetInterval
    /\ resets = 0
    /\ broken = {} /\ down = FALSE /\ stuck = FALSE
    /\ saw = FALSE /\ progress = "none"
    /\ limp = FALSE /\ threads = MaxThreads
    /\ aborted = FALSE

-----------------------------------------------------------------------------
(* What happens to the worker between two ticks                              *)

\* _total_num_completed_jobs grows.
CountJob == IF progress = "none" THEN "none" ELSE "yes"

PoolBreaks(p) ==
    /\ ~aborted /\ p \notin broken
    /\ broken' = broken \cup {p}
    /\ down' = (down \/ p = "inference")
    /\ UNCHANGED <<supervisor, stuck, saw, progress, limp, threads, aborted>>

\* A safety process gets ready after all; inference slots stay quarantined.
SafetyRecovers ==
    /\ ~aborted /\ "safety" \in broken
    /\ broken' = broken \ {"safety"}
    /\ UNCHANGED <<supervisor, down, stuck, saw, progress, limp, threads, aborted>>

\* The last live inference process dies, or the first is alive again.
ProcessesDown ==
    /\ ~aborted /\ "inference" \notin broken
    /\ down' = ~down
    /\ UNCHANGED <<supervisor, broken, stuck, saw, progress, limp, threads, aborted>>

Stuck ==
    /\ ~aborted /\ stuck' = ~stuck
    /\ UNCHANGED <<supervisor, broken, down, saw, progress, limp, threads, aborted>>

\* A job completes, or a crash, a replacement or a watchdog faults it for good:
\* the count takes both.
JobEnds ==
    /\ ~aborted
    /\ progress' = CountJob
    /\ UNCHANGED <<supervisor, broken, down, stuck, saw, limp, threads, aborted>>

\* maybe_abort_on_runaway_recoveries: it depends on how fast processes crash.
RunawayAbort ==
    /\ ~aborted
    /\ aborted' = TRUE
    /\ UNCHANGED <<supervisor, broken, down, stuck, saw, progress, limp, threads>>

\* RuntimeConfig.update, on a reload of the configuration, whatever is limping.
Reconfigure ==
    /\ ~aborted
    /\ threads' = MaxThreads
    /\ UNCHANGED <<supervisor, broken, down, stuck, saw, progress, limp, aborted>>

-----------------------------------------------------------------------------
(* RecoverySupervisor.evaluate, as a function of the ages at this tick       *)

Older(age, cap) == IF age = None \/ age >= cap THEN age ELSE age + 1
Since(age, cap) == IF age = None THEN 0 ELSE Older(age, cap)

Episode(wedged) == IF wedged THEN Since(episode, GiveUpAfter) ELSE Older(episode, GiveUpAfter)
Wedge(wedged) == IF wedged THEN Since(wedge, WedgeGrace) ELSE None

\* Mutant: the clean streak starts again at every tick.
CleanAnew(wedged) == IF wedged THEN None ELSE 0

Clean(wedged) == IF wedged THEN None ELSE Since(clean, CleanStreak)
SinceAction == Older(idle, ResetInterval)

EpisodeEnds(wedged) == Episode(wedged) # None /\ ~wedged /\ Clean(wedged) >= CleanStreak

Action(wedged) ==
    IF EpisodeEnds(wedged) \/ Episode(wedged) = None THEN "NONE"
    ELSE IF Episode(wedged) >= GiveUpAfter THEN "GIVE_UP"
    ELSE IF /\ wedged
            /\ Wedge(wedged) >= WedgeGrace
            /\ SinceAction >= ResetInterval
            /\ resets < MaxSoftResets
         THEN "SOFT_RESET" ELSE "NONE"

Evaluate(wedged) ==
    /\ episode' = IF EpisodeEnds(wedged) THEN None ELSE Episode(wedged)
    /\ wedge' = Wedge(wedged)
    /\ clean' = Clean(wedged)
    /\ idle' = IF Action(wedged) = "NONE" THEN SinceAction ELSE 0
    /\ resets' = IF EpisodeEnds(wedged) THEN 0
                 ELSE IF Action(wedged) = "SOFT_RESET" THEN resets + 1 ELSE resets

-----------------------------------------------------------------------------
(* WorkerRecoveryCoordinator.run_recovery_supervisor                         *)

\* episode_saw_unrecoverable_pool after its two updates before evaluate.
SawThisEpisode == (saw \/ broken # {}) /\ progress # "yes"

Wedged == broken # {} \/ stuck \/ SawThisEpisode

\* Rebuilding the pools faults the jobs their slots had.
SoftReset(baseline) ==
    /\ broken' = {} /\ down' = FALSE
    /\ threads' = IF threads > 1 THEN threads - 1 ELSE 1
    /\ limp' = TRUE
    /\ progress' \in {baseline, "yes"}
    /\ UNCHANGED aborted

\* Mutant: only a lack of inference capacity ends the worker.
GiveUpOnDown(baseline) ==
    /\ progress' \in {baseline, "yes"}
    /\ aborted' = down
    /\ UNCHANGED <<broken, down, threads, limp>>

\* What is unservable, if anything, is faulted; a pool that is unrecoverable, was
\* so in this episode, or has no live process, ends the worker.
GiveUp(baseline) ==
    /\ progress' \in {baseline, "yes"}
    /\ aborted' = (broken # {} \/ saw' \/ down)
    /\ UNCHANGED <<broken, down, threads, limp>>

\* Mutant: the concurrency stays reduced after the episode.
LimpOn == limp' = FALSE /\ UNCHANGED threads

LiftLimp == limp' = FALSE /\ threads' = MaxThreads

Tick ==
    LET baseline == IF episode' = None THEN "none"
                    ELSE IF progress = "none" THEN "no" ELSE progress
    IN /\ ~aborted
       /\ Evaluate(Wedged)
       /\ saw' = (SawThisEpisode /\ episode' # None)
       /\ \/ Action(Wedged) = "SOFT_RESET" /\ SoftReset(baseline)
          \/ Action(Wedged) = "GIVE_UP" /\ GiveUp(baseline)
          \/ /\ Action(Wedged) = "NONE"
             /\ progress' = baseline
             /\ IF limp /\ episode' = None THEN LiftLimp ELSE UNCHANGED <<limp, threads>>
             /\ UNCHANGED <<broken, down, aborted>>
       /\ UNCHANGED stuck

Next ==
    \/ \E p \in Pool : PoolBreaks(p)
    \/ SafetyRecovers \/ ProcessesDown \/ Stuck \/ JobEnds \/ RunawayAbort \/ Reconfigure
    \/ Tick

Spec == Init /\ [][Next]_vars

\* The control loop ticks.
FairSpec == Spec /\ WF_vars(Tick)

-----------------------------------------------------------------------------
(* Properties                                                                *)

\* Every variable has its type, and every age its threshold.
TypeOK ==
    /\ episode \in {None} \cup 0 .. GiveUpAfter
    /\ wedge \in {None} \cup 0 .. WedgeGrace
    /\ clean \in {None} \cup 0 .. CleanStreak
    /\ idle \in 0 .. ResetInterval
    /\ resets \in 0 .. MaxSoftResets
    /\ broken \subseteq Pool /\ {down, stuck, saw, limp, aborted} \subseteq BOOLEAN
    /\ progress \in Progress
    /\ threads \in 1 .. MaxThreads

\* Reduced concurrency belongs to an open episode: a tick that finds no episode
\* leaves the worker at its configured concurrency, however resets, give-ups and
\* clean streaks alternated.
LimpOnlyInEpisode ==
    (episode = None => ~limp) /\ (~limp => threads = MaxThreads)

\* A pool that a tick saw unrecoverable is not lived with: the worker ends, or the
\* episode does, which takes a whole clean streak with no pool broken.  Neither a
\* rebuild that revives the pool for a while, over and over, nor the jobs it
\* faults, which the code counts as progress, are an escape; only while the queue
\* is deadlocked besides may the episode go on.
BrokenPoolEnds == saw ~> (aborted \/ episode = None \/ stuck)

\* recovery_supervisor.py:63, of GIVE_UP: "Fault the jobs that cannot be served so
\* they drain; the worker keeps running."
GiveUpKeepsRunning == [][Tick /\ Action(Wedged) = "GIVE_UP" => ~aborted']_vars

\* Once the pools work and the queue moves for good, the worker ends up with its
\* configured concurrency, or was ended before: no order of resets, give-ups and
\* interrupted clean streaks leaves it limping.
LimpIsLifted ==
    <>[](broken = {} /\ ~down /\ ~stuck) => <>[](aborted \/ threads = MaxThreads)

\* A wedge that a soft reset fixed never reaches give-up.
FixedWedgeNeverGivesUp ==
    [][Tick /\ resets > 0 /\ ~Wedged /\ clean # None => Action(Wedged) # "GIVE_UP"]_vars
=============================================================================

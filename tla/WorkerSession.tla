----------------------------- MODULE WorkerSession -----------------------------
(* The end of a worker's session: the loops that pop, drive and submit jobs, the *)
(* shutdown manager with its timer thread, and the children's wind-down           *)
(* (lifecycle/shutdown_manager.py, the loops of process_manager.py, job_popper.py  *)
(* and job_submitter.py).  The jobs' stages are JobTracker's, reports of children  *)
(* and attempts JobPipeline's, crash and quarantine accounts ProcessLifecycle's;   *)
(* here a child's result and the parent's handling of it are one step.             *)
EXTENDS Integers

CONSTANTS
    Job,
    MaxDisruptions         \* bound: lost children, faults, exceptions, aborts, moves

ASSUME SessionAssumption == MaxDisruptions \in Nat

VARIABLES
    job,          \* each job's stage; "popping" while the popper holds it
    popper,       \* idle, popping or ended
    fresh,        \* last_pop_recently(): a pop began within ten seconds
    submitter,    \* on or ended
    control,      \* _process_control_loop: ticking, draining or ended (shut_down)
    stopping,     \* shutting_down
    timer,        \* start_timed_shutdown's thread: off, armed, reporting or done
    engine,       \* the inference process: the parent's view and the child
    checker,      \* the safety process, and how far its replacement has come
    strays,       \* live safety processes out of the process map, never told to end:
                  \* "owned" ones are in the owned-process registry, "disowned" ones not
    recovered,    \* _recently_recovered
    outcome,      \* history: graceful, or what cut the drain short
    late,         \* history: jobs enqueued when the wind-down had begun
    disruptions

vars == <<job, popper, fresh, submitter, control, stopping, timer, engine, checker,
          strays, recovered, outcome, late, disruptions>>

loops == <<popper, fresh, submitter, control, stopping, timer>>
rest == <<strays, outcome, late>>

-----------------------------------------------------------------------------
Stage == {"unknown", "popping", "pending", "running", "toCheck", "checking",
          "toSubmit", "sending", "reported", "purged"}

In(stages) == {j \in Job : job[j] \in stages}
PendingInference == In({"pending", "running"})
SafetyStages == In({"toCheck", "checking"})
Held == In({"pending", "running", "toCheck", "checking", "toSubmit", "sending"})

Living == {"starting", "alive", "silent"}
None == [view |-> "none", child |-> "dead"]     \* no process map entry
NewEngine == [view |-> "starting", child |-> "starting"]
NewChecker == [view |-> "starting", child |-> "starting", told |-> FALSE, owned |-> TRUE,
               replace |-> "no"]

\* _end_inference_process joins the child or kills it.
EndEngine(e) == IF e.view = "none" THEN e ELSE [view |-> "ending", child |-> "dead"]

\* end_safety_processes: the child is sent END_PROCESS and left to follow it.
EndChecker(c) ==
    IF c.view \in {"ending", "none"} THEN c
    ELSE [c EXCEPT !.view = "ending", !.told = TRUE, !.owned = FALSE]

\* A child that _replace_all_safety_process takes out of the map when it deletes c.
LeftBehind(c) ==
    IF c.child \in Living /\ ~c.told THEN {IF c.owned THEN "owned" ELSE "disowned"} ELSE {}

\* The registry's records are dropped, also those of children out of the map.
ClearRegistry == strays' = IF strays = {} THEN {} ELSE {"disowned"}

\* Mutant: only the inference processes are killed.
KillAllInference ==
    /\ ClearRegistry
    /\ engine' = None
    /\ checker' = [checker EXCEPT !.view = "none", !.owned = FALSE]

\* _hard_kill_processes kills what is in the process map and clears it and the
\* registry.
KillAll ==
    /\ ClearRegistry
    /\ engine' = None
    /\ checker' = [checker EXCEPT !.view = "none", !.child = "dead", !.owned = FALSE]

\* Mutant: the submissions are forgotten.
IsTimeForShutdownUnsent ==
    /\ stopping /\ ~recovered
    /\ In({"pending", "running", "toCheck", "checking"}) = {}
    /\ checker.view \in {"ending", "none"}
    /\ engine.view # "busy"

\* ShutdownManager.is_time_for_shutdown, evaluated by every loop.
IsTimeForShutdown ==
    /\ stopping /\ ~recovered
    /\ Held = {}
    /\ checker.view \in {"ending", "none"}
    /\ engine.view # "busy"

LoopEnds == IsTimeForShutdown \/ control = "ended"

Init ==
    /\ job = [j \in Job |-> "unknown"]
    /\ popper = "idle" /\ fresh = FALSE
    /\ submitter = "on"
    /\ control = "ticking"
    /\ stopping = FALSE /\ timer = "off"
    /\ engine = NewEngine /\ checker = NewChecker /\ strays = {}
    /\ recovered = FALSE
    /\ outcome = "graceful" /\ late = {}
    /\ disruptions = 0

Disrupt == disruptions < MaxDisruptions /\ disruptions' = disruptions + 1
Armed(t) == IF t = "off" THEN "armed" ELSE t
Arm == timer' = Armed(timer)
Becomes(j, stage) == job' = [job EXCEPT ![j] = stage]
Serving == control # "ended"          \* messages of the children are handled

-----------------------------------------------------------------------------
(* JobPopper.run                                                             *)

Pop(j) ==
    /\ popper = "idle" /\ ~stopping
    /\ job[j] = "unknown"
    /\ Becomes(j, "popping")
    /\ popper' = "popping" /\ fresh' = TRUE
    /\ UNCHANGED <<submitter, control, stopping, timer, engine, checker, recovered, rest,
                   disruptions>>

\* The request and the source images took more than ten seconds.
PopTakesLong ==
    /\ fresh /\ fresh' = FALSE
    /\ UNCHANGED <<job, popper, submitter, control, stopping, timer, engine, checker, recovered,
                   rest, disruptions>>

\* The popped job is enqueued whatever happened since the request was sent; the
\* loop's own check follows.
PopReturns(j) ==
    /\ popper = "popping" /\ job[j] = "popping"
    /\ \E stage \in {"unknown", "pending"} : Becomes(j, stage)
    /\ late' = IF control # "ticking" \/ submitter = "ended" \/ checker.view \in {"ending", "none"}
                  \/ engine.view \in {"ending", "none"}
               THEN late \cup {j} ELSE late
    /\ UNCHANGED <<fresh, submitter, control, stopping, timer, engine, checker, recovered, strays,
                   outcome, disruptions>>
    /\ popper' = IF LoopEnds' THEN "ended" ELSE "idle"

PopperEnds ==
    /\ popper = "idle" /\ LoopEnds
    /\ popper' = "ended"
    /\ UNCHANGED <<job, fresh, submitter, control, stopping, timer, engine, checker, recovered,
                   rest, disruptions>>

-----------------------------------------------------------------------------
(* JobSubmitter.run                                                          *)

\* Mutant: a second call does not wait for the first.
SendAtOnce(j) ==
    /\ submitter = "on" /\ job[j] = "toSubmit"
    /\ Becomes(j, "sending")
    /\ UNCHANGED <<loops, engine, checker, recovered, rest, disruptions>>

Send(j) ==
    /\ submitter = "on" /\ job[j] = "toSubmit" /\ In({"sending"}) = {}
    /\ Becomes(j, "sending")
    /\ UNCHANGED <<loops, engine, checker, recovered, rest, disruptions>>

\* A call of api_submit_job returns; with a job, the horde has its report.
SubmitReturns ==
    /\ submitter = "on"
    /\ job' = [j \in Job |-> IF job[j] = "sending" THEN "reported" ELSE job[j]]
    /\ In({"sending"}) # {} \/ LoopEnds
    /\ UNCHANGED <<popper, fresh, control, stopping, timer, engine, checker, recovered, rest,
                   disruptions>>
    /\ submitter' = IF LoopEnds' THEN "ended" ELSE "on"

-----------------------------------------------------------------------------
(* The inference process                                                     *)

Schedule(j) ==
    /\ control = "ticking"
    /\ job[j] = "pending" /\ engine.view = "idle"
    /\ Becomes(j, "running")
    /\ engine' = [engine EXCEPT !.view = "busy"]
    /\ UNCHANGED <<loops, checker, recovered, rest, disruptions>>

EngineReady ==
    /\ Serving /\ engine.child = "starting"
    /\ engine' = [view |-> "idle", child |-> "alive"]
    /\ UNCHANGED <<job, loops, checker, recovered, rest, disruptions>>

Moved(from, to) == job' = [j \in Job |-> IF job[j] = from THEN to ELSE job[j]]

\* Its result, also for a job that the timer thread faulted or a purge dropped.
EngineFinishes ==
    /\ Serving /\ engine.child = "alive" /\ engine.view = "busy"
    /\ engine' = [engine EXCEPT !.view = "idle"]
    /\ \/ Moved("running", "toCheck") /\ UNCHANGED disruptions
       \/ Disrupt /\ (Moved("running", "pending") \/ Moved("running", "toSubmit"))
    /\ UNCHANGED <<loops, checker, recovered, rest>>

EngineLost ==
    /\ engine.child \in {"starting", "alive"} /\ Disrupt
    /\ \E child \in {"dead", "silent"} : engine' = [engine EXCEPT !.child = child]
    /\ UNCHANGED <<job, loops, checker, recovered, rest>>

\* replace_hung_processes, in a tick and in the drain: a dead child at once, a
\* silent one when no replacement is recent.
ReplaceEngine ==
    /\ Serving /\ engine.view \notin {"ending", "none"}
    /\ engine.child = "dead" \/ (engine.child = "silent" /\ ~recovered)
    /\ engine' = NewEngine
    /\ Moved("running", "pending") \/ Moved("running", "toSubmit")
    /\ recovered' = TRUE
    /\ UNCHANGED <<loops, checker, rest, disruptions>>

UnsetRecovered ==
    /\ recovered /\ recovered' = FALSE
    /\ UNCHANGED <<job, loops, engine, checker, rest, disruptions>>

-----------------------------------------------------------------------------
(* The safety process                                                        *)

StartCheck(j) ==
    /\ control = "ticking"
    /\ job[j] = "toCheck" /\ checker.view = "idle"
    /\ Becomes(j, "checking")
    /\ checker' = [checker EXCEPT !.view = "busy"]
    /\ UNCHANGED <<loops, engine, recovered, rest, disruptions>>

\* Its report undoes PROCESS_ENDING when the end was asked for meanwhile.
CheckerReady ==
    /\ Serving /\ checker.child = "starting"
    /\ checker' = [checker EXCEPT !.view = "idle", !.child = "alive"]
    /\ UNCHANGED <<job, loops, engine, recovered, rest, disruptions>>

CheckerFinishes ==
    /\ Serving /\ checker.child = "alive" /\ In({"checking"}) # {}
    /\ checker' = [checker EXCEPT !.view = "idle"]
    /\ Moved("checking", "toSubmit")
    /\ UNCHANGED <<loops, engine, recovered, rest, disruptions>>

\* It follows END_PROCESS, or the signal sent to it at the end.
CheckerEnds ==
    /\ checker.child = "alive" /\ checker.told
    /\ Serving => In({"checking"}) = {}
    /\ checker' = [checker EXCEPT !.child = "dead", !.view = IF Serving THEN "ending" ELSE @]
    /\ UNCHANGED <<job, loops, engine, recovered, rest, disruptions>>

CheckerLost ==
    /\ checker.child \in {"starting", "alive"} /\ Disrupt
    /\ \E child \in {"dead", "silent"} : checker' = [checker EXCEPT !.child = child]
    /\ UNCHANGED <<job, loops, engine, recovered, rest>>

CheckerUnloaded == checker.view \in {"starting", "ending", "none"}

\* _replace_all_safety_process
DriveReplacement ==
    /\ control = "ticking"
    /\ \/ /\ checker.replace = "wanted"
          /\ checker' = [IF CheckerUnloaded THEN checker ELSE EndChecker(checker)
                           EXCEPT !.replace = "ending"]
          /\ UNCHANGED strays
       \/ /\ checker.replace = "ending" /\ CheckerUnloaded
          /\ checker' = NewChecker
          /\ strays' = strays \cup LeftBehind(checker)
    /\ UNCHANGED <<job, loops, engine, recovered, outcome, late, disruptions>>

\* A stray loads its models before it sees that its pipe was closed, and ends.
StrayEnds ==
    /\ \E child \in strays : strays' = strays \ {child}
    /\ UNCHANGED <<job, loops, engine, checker, recovered, outcome, late, disruptions>>

\* replace_hung_processes for the safety process.
CheckerFailed ==
    /\ Serving /\ checker.view # "none"
    /\ \/ checker.child = "dead" /\ ~checker.told
       \/ checker.child = "silent" /\ checker.view \in {"starting", "idle"} /\ ~recovered
    /\ checker.replace = "no"
    /\ checker' = [checker EXCEPT !.replace = "wanted"]
    /\ recovered' = TRUE
    /\ UNCHANGED <<job, loops, engine, rest, disruptions>>

\* pause_safety_on_gpu or restore_safety_on_gpu, in a scheduling cycle.
MoveSafety ==
    /\ control = "ticking" /\ In({"pending"}) # {} /\ checker.replace = "no"
    /\ Disrupt
    /\ checker' = [checker EXCEPT !.replace = "wanted"]
    /\ UNCHANGED <<job, loops, engine, recovered, rest>>

\* reconcile_orphaned_safety_jobs: the verdict is not coming any more.
RequeueCheck(j) ==
    /\ control = "ticking" /\ job[j] = "checking"
    /\ checker.view # "busy" \/ checker.child \in {"dead", "silent"}
    /\ \E stage \in {"toCheck", "toSubmit"} : Becomes(j, stage)
    /\ UNCHANGED <<loops, engine, checker, recovered, rest, disruptions>>

-----------------------------------------------------------------------------
(* Shutdown                                                                  *)

\* A signal; the supervisor's command also arms the timer.
Shutdown ==
    /\ ~stopping /\ stopping' = TRUE
    /\ timer' \in {timer, Armed(timer)}
    /\ UNCHANGED <<job, popper, fresh, submitter, control, engine, checker, recovered, rest,
                   disruptions>>

\* Mutant: queued work does not hold the wind-down up.
QuietOnceNotPopping == ~fresh

Quiet == ~fresh /\ PendingInference = {}

\* The last lines of a tick: with no inference left the processes are ended,
\* the safety process when its queues are empty too, and the loop ends if that
\* was all.
WindDown ==
    /\ control = "ticking" /\ stopping
    /\ engine' = IF Quiet /\ engine.view \notin {"busy", "ending"} THEN EndEngine(engine) ELSE engine
    /\ checker' = IF Quiet /\ SafetyStages = {} THEN EndChecker(checker) ELSE checker
    /\ UNCHANGED <<job, popper, fresh, submitter, stopping, recovered, rest, disruptions>>
    /\ IF IsTimeForShutdown' THEN control' = "draining" /\ Arm ELSE UNCHANGED <<control, timer>>

\* An exception in a tick.
TickFails ==
    /\ control = "ticking" /\ Disrupt
    /\ control' = "draining" /\ stopping' = TRUE /\ Arm
    /\ outcome' = IF outcome = "graceful" THEN "exception" ELSE outcome
    /\ UNCHANGED <<job, popper, fresh, submitter, engine, checker, recovered, strays, late>>

\* The rest of _process_control_loop once no inference is pending.
ControlEnds ==
    /\ control = "draining" /\ PendingInference = {}
    /\ control' = "ended"
    /\ engine' = EndEngine(engine)
    /\ checker' = EndChecker(checker)
    /\ UNCHANGED <<job, popper, fresh, submitter, stopping, timer, recovered, rest, disruptions>>

\* Mutant: the jobs stay in the tracker.
AbortUnpurged ==
    /\ stopping' = TRUE /\ Arm
    /\ KillAll
    /\ outcome' = "forced"
    /\ UNCHANGED <<job, popper, fresh, submitter, recovered, late>>

\* abort: _purge_jobs, shutdown, hard kill, timer.
Abort ==
    /\ job' = [j \in Job |-> IF j \in Held THEN "purged" ELSE job[j]]
    /\ stopping' = TRUE /\ Arm
    /\ KillAll
    /\ outcome' = "forced"
    /\ UNCHANGED <<popper, fresh, submitter, recovered, late>>

\* The .abort file ends the ticks, the recovery supervisor's abort does not.
Aborted ==
    /\ control = "ticking" /\ Disrupt
    /\ Abort
    /\ control' \in {"ticking", "draining"}

\* shutdown_timed_out in replace_hung_processes: five minutes have passed.
ShutdownTimedOut ==
    /\ Serving /\ stopping /\ ~recovered
    /\ Abort
    /\ UNCHANGED <<control, disruptions>>

\* The timer thread: the grace is over; _fault_report_outstanding_jobs.
GraceExpires ==
    /\ timer = "armed" /\ Serving
    /\ timer' = "reporting"
    /\ job' = [j \in Job |-> IF j \in PendingInference \cup SafetyStages THEN "toSubmit" ELSE job[j]]
    /\ outcome' = "forced"
    /\ UNCHANGED <<popper, fresh, submitter, control, stopping, engine, checker, recovered, strays,
                   late, disruptions>>

\* It waited for the submitter, or long enough.
HardShutdown ==
    /\ timer = "reporting"
    /\ timer' = "done"
    /\ KillAll
    /\ UNCHANGED <<job, popper, fresh, submitter, control, stopping, recovered, outcome, late,
                   disruptions>>

-----------------------------------------------------------------------------
Next ==
    \/ \E j \in Job : Pop(j) \/ PopReturns(j) \/ Send(j) \/ Schedule(j) \/ StartCheck(j)
                      \/ RequeueCheck(j)
    \/ PopTakesLong \/ PopperEnds \/ SubmitReturns
    \/ EngineReady \/ EngineFinishes \/ EngineLost \/ ReplaceEngine \/ UnsetRecovered
    \/ CheckerReady \/ CheckerFinishes \/ CheckerEnds \/ CheckerLost \/ DriveReplacement
    \/ StrayEnds \/ CheckerFailed \/ MoveSafety
    \/ Shutdown \/ WindDown \/ TickFails \/ ControlEnds \/ Aborted \/ ShutdownTimedOut
    \/ GraceExpires \/ HardShutdown

Spec == Init /\ [][Next]_vars

\* The event loop runs every loop's next step; requests have timeouts; five
\* minutes pass.
Fairness ==
    /\ \A j \in Job : WF_vars(PopReturns(j))
    /\ WF_vars(PopTakesLong) /\ WF_vars(PopperEnds) /\ WF_vars(SubmitReturns)
    /\ WF_vars(UnsetRecovered) /\ WF_vars(WindDown) /\ WF_vars(ControlEnds)
    /\ WF_vars(ShutdownTimedOut)

FairSpec == Spec /\ Fairness

-----------------------------------------------------------------------------
(* Properties                                                                *)

\* Every variable has its type, and at most one job is in the submitter's hand.
TypeOK ==
    /\ job \in [Job -> Stage]
    /\ popper \in {"idle", "popping", "ended"} /\ fresh \in BOOLEAN
    /\ submitter \in {"on", "ended"}
    /\ control \in {"ticking", "draining", "ended"}
    /\ stopping \in BOOLEAN /\ timer \in {"off", "armed", "reporting", "done"}
    /\ engine \in [view: {"none", "starting", "idle", "busy", "ending"}, child: Living \cup {"dead"}]
    /\ checker \in [view: {"none", "starting", "idle", "busy", "ending"},
                    child: Living \cup {"dead"}, told: BOOLEAN, owned: BOOLEAN,
                    replace: {"no", "wanted", "ending"}]
    /\ strays \subseteq {"owned", "disowned"}
    /\ recovered \in BOOLEAN
    /\ outcome \in {"graceful", "exception", "forced"} /\ late \subseteq Job
    /\ disruptions \in 0 .. MaxDisruptions
    /\ \A i, j \in In({"sending"}) : i = j

\* A submitter that ended of itself left nothing behind: unless the drain was
\* cut short, every job enqueued before the wind-down began has been reported.
AcceptedIsReported ==
    submitter = "ended" /\ outcome = "graceful" =>
        \A j \in Held : j \in late

\* The wind-down takes no process from the work that still needs it.
WorkKeepsItsProcess ==
    outcome = "graceful" /\ Held \subseteq Job \ late =>
        /\ PendingInference # {} => engine.view # "ending"
        /\ SafetyStages # {} => checker.view # "ending" \/ checker.replace # "no"

\* What the exit leaves alive is a safety process that was told to end, or one
\* that the owned-process registry still kills, be it in the process map or not;
\* only a hard kill makes the registry forget one that left the map.
ExitLeavesNoneUntold ==
    control = "ended" =>
        /\ engine.child \notin Living
        /\ checker.child \in Living => checker.told \/ checker.owned
        /\ "disowned" \in strays => outcome = "forced"

\* The hard kill "kills all children immediately": none is left that the
\* registry has forgotten.
HardKillLeavesNone == "disowned" \notin strays

\* Once the worker is told to stop, its loops end, whatever fails meanwhile.
ShutdownEnds ==
    stopping ~> control = "ended" /\ popper = "ended" /\ submitter = "ended"

\* A failed tick does not abandon the work in flight: it is reported, or at
\* least faulted by the timer, before the submitter ends.
FailureAbandonsNothing ==
    submitter = "ended" /\ outcome = "exception" => \A j \in Held : j \in late
=============================================================================

--------------------------- MODULE ProcessLifecycle ---------------------------
(* The worker's child processes and ProcessLifecycleManager, which starts,     *)
(* ends, replaces and quarantines them (lifecycle/process_lifecycle.py): the    *)
(* inference slots and the one safety process.  What a replacement does to the  *)
(* slot's job is JobPipeline's.  The parent sees a child through its own        *)
(* state messages, read in order and later than sent, and through is_alive.     *)
(* Timeouts are choices: only a silent child runs into one.                     *)
EXTENDS Integers, Sequences, FiniteSets

CONSTANTS
    Slot,                  \* process ids of the inference slots
    MaxReplacements,       \* CRASH_LOOP_MAX_REPLACEMENTS
    MaxStartFailures,      \* CRASH_LOOP_MAX_START_FAILURES
    MaxMail,               \* bound: unread messages of a child that still works
    MaxDisruptions,        \* bound: children that crash or fall silent
    MaxRequests            \* bound: deliberate replacements, resets and rescalings

ASSUME LifecycleAssumption ==
    /\ {MaxReplacements, MaxMail} \subseteq Nat \ {0}
    /\ {MaxDisruptions, MaxRequests} \subseteq Nat
    /\ MaxStartFailures \in Nat \ {0, 1}

VARIABLES
    slot,         \* each inference slot: HordeProcessInfo, its child, its breakers
    safety,       \* the safety process and the flags of its replacement
    strays,       \* safety processes that left the process map alive
    recovered,    \* _recently_recovered
    halted,       \* an exception ended the control loop
    disruptions, requests

vars == <<slot, safety, strays, recovered, halted, disruptions, requests>>
bounds == <<disruptions, requests>>

-----------------------------------------------------------------------------
(* Inference slots                                                           *)

View == {"PROCESS_STARTING", "WAITING_FOR_JOB", "BUSY", "PRELOADING_FAILED", "PROCESS_ENDING"}
Live == {"starting", "idle", "busy", "silent"}
Absent == "none"   \* no process map entry

\* Mutant: what the old child still had to say is taken for the new one's.
StartedHearsOld(p) == [p EXCEPT !.view = "PROCESS_STARTING", !.child = "starting"]

\* _start_inference_process
Started(p) == [p EXCEPT !.view = "PROCESS_STARTING", !.child = "starting", !.mail = <<>>]

\* _end_inference_process joins the child, or kills it; then retire_process.
\* Messages of a retired launch are dropped when they are read.
Retired(p) == [p EXCEPT !.view = "PROCESS_ENDING", !.child = Absent, !.mail = <<>>]

NewSlot == Started([view |-> "PROCESS_STARTING", child |-> Absent, mail |-> <<>>,
                    replacements |-> 0,    \* _slot_recovery_history, in the window
                    startFailures |-> 0,   \* _slot_consecutive_start_failures
                    loadFailed |-> FALSE,  \* _recent_load_failure_by_process
                    quarantined |-> FALSE,
                    faults |-> 0])         \* history: crashes and hangs of its own

\* The child said that a load failed, and nobody has read it.
FailureUnread(p) == \E i \in DOMAIN p.mail : p.mail[i] = "PRELOADING_FAILED"

\* _record_slot_recovery and _record_start_failure; past the limit the count of
\* replacements makes no difference.  To a parent that has not read of a failed
\* load, the dead child is one that crashed.
Charged(p) ==
    [p EXCEPT !.faults = IF FailureUnread(p) THEN @ + 1 ELSE @,
              !.replacements = IF @ > MaxReplacements THEN @ ELSE @ + 1,
              !.startFailures = IF p.view # "PROCESS_STARTING" THEN 0
                                ELSE IF @ = MaxStartFailures THEN @ ELSE @ + 1]

\* Mutant: the slot is charged for a model that failed to load.
BlamelessKilled(p, oom) == oom

\* The model failed to load, or the system ran out of memory: the slot is not
\* charged for it.
Blameless(p, oom) == p.loadFailed \/ oom

Tripped(p) == p.replacements > MaxReplacements \/ p.startFailures >= MaxStartFailures

\* _replace_inference_process; oom is the verdict of _looks_like_oom_kill.
Replaced(p, oom) ==
    LET judged == IF Blameless(p, oom) THEN p ELSE Charged(p)
        counted == [judged EXCEPT !.loadFailed = FALSE]
    IN IF ~Blameless(p, oom) /\ Tripped(counted)
       THEN [Retired(counted) EXCEPT !.quarantined = TRUE]
       ELSE Started(counted)

-----------------------------------------------------------------------------
(* The safety process                                                        *)

Ending(z) == z.view = "PROCESS_ENDING"

\* num_loaded_safety_processes: neither starting nor ending.
Loaded(z) == z.child # Absent /\ z.view \notin {"PROCESS_STARTING", "PROCESS_ENDING"}

NewSafety == [view |-> "PROCESS_STARTING", child |-> "starting", mail |-> <<>>,
              told |-> FALSE,         \* sent END_PROCESS; also end_intended
              owned |-> TRUE,         \* its pid is in the owned-process registry
              onGpu |-> TRUE,         \* not cpu_only
              replace |-> FALSE,      \* _safety_processes_should_be_replaced
              ending |-> FALSE,       \* _safety_processes_ending
              deliberate |-> FALSE,   \* _safety_replacement_intentional
              paused |-> FALSE,       \* _safety_gpu_paused
              recoveries |-> 0,       \* _safety_recovery_history, in the window
              faults |-> 0]           \* history: failures of its own

\* Mutant: an unresponsive child's record is dropped before it was told to end.
EndSafetyUntold(z) ==
    IF Ending(z) THEN z ELSE [z EXCEPT !.view = "PROCESS_ENDING", !.owned = FALSE]

\* end_safety_processes
EndSafety(z) ==
    IF Ending(z) THEN z
    ELSE [z EXCEPT !.told = TRUE, !.view = "PROCESS_ENDING", !.owned = FALSE]

\* start_safety_processes, and the flags cleared after it; a recovery is counted
\* unless the replacement was deliberate.
StartSafety(z) ==
    [z EXCEPT !.view = "PROCESS_STARTING", !.child = "starting", !.mail = <<>>,
              !.told = FALSE, !.owned = TRUE, !.onGpu = ~z.paused,
              !.replace = FALSE, !.ending = FALSE, !.deliberate = FALSE,
              !.recoveries = IF z.deliberate THEN @ ELSE @ + 1]

\* The call of _replace_all_safety_process that deletes the process and starts
\* its successor.
Succeeds(z) == z.replace /\ z.ending /\ ~Loaded(z)

\* Mutant (the guard the code once had): only a loaded process enters the phase
\* of ending.
ReplaceAllSafetyIfLoaded(z) ==
    IF ~z.replace THEN z
    ELSE IF ~z.ending
         THEN IF Loaded(z) THEN EndSafety([z EXCEPT !.ending = TRUE]) ELSE z
    ELSE IF Succeeds(z) THEN StartSafety(z) ELSE z

\* _replace_all_safety_process: one call ends, a later one replaces.
ReplaceAllSafety(z) ==
    IF ~z.replace THEN z
    ELSE IF ~z.ending
         THEN IF Loaded(z) THEN EndSafety([z EXCEPT !.ending = TRUE])
              ELSE [z EXCEPT !.ending = TRUE]
    ELSE IF Succeeds(z) THEN StartSafety(z) ELSE z

\* What the deletion leaves behind; the messages of the launch are dropped.
LeftBehind(z) ==
    IF Succeeds(z) /\ z.child \in Live
    THEN {[child |-> z.child, told |-> z.told, owned |-> z.owned, onGpu |-> z.onGpu]}
    ELSE {}

InitiateSafetyReplacement(z) == [z EXCEPT !.replace = TRUE]

ReplaceSafety(z) ==
    /\ safety' = ReplaceAllSafety(z)
    /\ strays' = strays \cup LeftBehind(z)

-----------------------------------------------------------------------------
Init ==
    /\ slot = [s \in Slot |-> NewSlot]
    /\ safety = NewSafety
    /\ strays = {}
    /\ recovered = FALSE
    /\ halted = FALSE
    /\ disruptions = 0
    /\ requests = 0

Disrupt == disruptions < MaxDisruptions /\ disruptions' = disruptions + 1
Request == ~halted /\ requests < MaxRequests /\ requests' = requests + 1

-----------------------------------------------------------------------------
(* The children                                                              *)

Said(p, child, view) == [p EXCEPT !.child = child, !.mail = Append(@, view)]

ChildReady(s) ==
    /\ slot[s].child = "starting"
    /\ slot' = [slot EXCEPT ![s] = Said(@, "idle", "WAITING_FOR_JOB")]
    /\ UNCHANGED <<safety, strays, recovered, halted, bounds>>

\* The scheduler dispatches to a slot by the parent's view of it.
ChildWorks(s) ==
    /\ slot[s].child = "idle" /\ slot[s].view = "WAITING_FOR_JOB"
    /\ Len(slot[s].mail) < MaxMail
    /\ slot' = [slot EXCEPT ![s] = Said(@, "busy", "BUSY")]
    /\ UNCHANGED <<safety, strays, recovered, halted, bounds>>

ChildFinishes(s) ==
    /\ slot[s].child = "busy"
    /\ slot' = [slot EXCEPT ![s] = Said(@, "idle", "WAITING_FOR_JOB")]
    /\ UNCHANGED <<safety, strays, recovered, halted, bounds>>

\* A preload fails: the child reports it and exits.
FailedToLoad(p) == Said(p, "dead", "PRELOADING_FAILED")

ChildFailsToLoad(s) ==
    /\ slot[s].child = "busy"
    /\ Disrupt
    /\ slot' = [slot EXCEPT ![s] = FailedToLoad(@)]
    /\ UNCHANGED <<safety, strays, recovered, halted, requests>>

\* It dies, with what it had not flushed yet, or hangs.
Lost(p, child) == {[p EXCEPT !.child = child, !.mail = SubSeq(@, 1, n), !.faults = @ + 1] :
                     n \in IF child = "dead" THEN 0 .. Len(p.mail) ELSE {Len(p.mail)}}

ChildLost(s) ==
    /\ slot[s].child \in Live \ {"silent"}
    /\ Disrupt
    /\ \E child \in {"dead", "silent"} : \E p \in Lost(slot[s], child) : slot' = [slot EXCEPT ![s] = p]
    /\ UNCHANGED <<safety, strays, recovered, halted, requests>>

SafetyReady ==
    /\ safety.child = "starting"
    /\ safety' = Said(safety, "idle", "WAITING_FOR_JOB")
    /\ UNCHANGED <<slot, strays, recovered, halted, bounds>>

\* A check is done: the state message that follows the verdict.
SafetyChecks ==
    /\ safety.child = "idle" /\ Len(safety.mail) < MaxMail
    /\ safety' = Said(safety, "idle", "WAITING_FOR_JOB")
    /\ UNCHANGED <<slot, strays, recovered, halted, bounds>>

\* It reads END_PROCESS.
SafetyEnds ==
    /\ safety.child = "idle" /\ safety.told
    /\ safety' = Said(safety, "dead", "PROCESS_ENDING")
    /\ UNCHANGED <<slot, strays, recovered, halted, bounds>>

SafetyLost ==
    /\ safety.child \in Live \ {"silent"}
    /\ Disrupt
    /\ \E child \in {"dead", "silent"} : \E z \in Lost(safety, child) : safety' = z
    /\ UNCHANGED <<slot, strays, recovered, halted, requests>>

\* One that left the map: it finishes its start; it reads END_PROCESS if it was
\* sent one.
StrayMoves ==
    \E z \in strays :
        /\ \/ z.child = "starting" /\ strays' = (strays \ {z}) \cup {[z EXCEPT !.child = "idle"]}
           \/ z.child = "idle" /\ z.told /\ strays' = strays \ {z}
        /\ UNCHANGED <<slot, safety, recovered, halted, bounds>>

-----------------------------------------------------------------------------
(* The control loop's handlers                                               *)

\* The handlers of a state change and of a failed load.
Heard(p) == [p EXCEPT !.view = Head(p.mail), !.mail = Tail(@),
                      !.loadFailed = @ \/ Head(p.mail) = "PRELOADING_FAILED"]

\* receive_and_handle_process_messages, one message of the present launch.
Receive(s) ==
    /\ ~halted /\ slot[s].mail # <<>>
    /\ slot' = [slot EXCEPT ![s] = Heard(@)]
    /\ UNCHANGED <<safety, strays, recovered, halted, bounds>>

\* on_process_state_change takes any state over any other: a report sent before
\* the end was asked for undoes PROCESS_ENDING.
ReceiveSafety ==
    /\ ~halted /\ safety.mail # <<>>
    /\ safety' = [safety EXCEPT !.view = Head(safety.mail), !.mail = Tail(@)]
    /\ UNCHANGED <<slot, strays, recovered, halted, bounds>>

\* First lines of replace_hung_processes: a slot seen past its start.
Proven(p) == IF p.view # "PROCESS_STARTING" THEN [p EXCEPT !.startFailures = 0] ELSE p
ProvenSlots == [s \in Slot |-> IF slot[s].child = Absent THEN slot[s] ELSE Proven(slot[s])]

\* Mutant: what the child last said decides, not whether its end was asked for.
CrashedUnannounced == {s \in Slot : slot[s].child = "dead" /\ slot[s].view # "PRELOADING_FAILED"}

\* _reap_if_crashed; no slot in the map was asked to end.
Crashed == {s \in Slot : slot[s].child = "dead"}
SafetyCrashed == safety.child = "dead" /\ ~safety.told

\* replace_hung_processes finds dead children: it goes no further.
ReapCrashed ==
    /\ ~halted
    /\ Crashed # {} \/ SafetyCrashed
    /\ \E oom \in SUBSET Crashed :
         slot' = [s \in Slot |-> IF s \in Crashed THEN Replaced(ProvenSlots[s], s \in oom)
                                 ELSE ProvenSlots[s]]
    /\ IF SafetyCrashed THEN ReplaceSafety(InitiateSafetyReplacement(safety))
       ELSE UNCHANGED <<safety, strays>>
    /\ recovered' = TRUE
    /\ UNCHANGED <<halted, bounds>>

SilentSlots == {s \in Slot : slot[s].child = "silent" /\ slot[s].mail = <<>>}
SafetySilent == safety.child = "silent" /\ safety.view \in {"PROCESS_STARTING", "WAITING_FOR_JOB"}

\* It finds children that ran into a timeout of their state, unless it replaced
\* one a short while ago.
ReplaceHung ==
    /\ ~halted /\ Crashed = {} /\ ~SafetyCrashed
    /\ ~recovered
    /\ \E hung \in SUBSET SilentSlots, safetyHung \in {SafetySilent, FALSE} :
         /\ slot' = [s \in Slot |-> IF s \in hung THEN Replaced(ProvenSlots[s], FALSE)
                                    ELSE ProvenSlots[s]]
         /\ IF safetyHung THEN ReplaceSafety(InitiateSafetyReplacement(safety))
            ELSE UNCHANGED <<safety, strays>>
         /\ recovered' = (hung # {} \/ safetyHung)
    /\ UNCHANGED <<halted, bounds>>

\* Every process is silent and no timeout of a state applied: it replaces the
\* slots in one loop over the map, which a quarantine in the loop breaks.
ReplaceAllTimedOut ==
    /\ ~halted /\ ~recovered
    /\ \A s \in Slot : slot[s].child # Absent => s \in SilentSlots
    /\ safety.child = "silent" \/ safety.told
    /\ LET present == {s \in Slot : slot[s].child # Absent}
           after(s) == Replaced(ProvenSlots[s], FALSE)
           lost == {s \in present : after(s).child = Absent}
       IN /\ present # {}
          /\ \E done \in SUBSET present :
               /\ IF lost = {} THEN done = present ELSE Cardinality(done \cap lost) = 1
               /\ slot' = [s \in Slot |-> IF s \in done THEN after(s) ELSE ProvenSlots[s]]
          /\ halted' = (lost # {})
    /\ recovered' = TRUE
    /\ UNCHANGED <<safety, strays, bounds>>

\* timed_unset_recently_recovered, in a thread of its own.
UnsetRecovered ==
    /\ recovered
    /\ recovered' = FALSE
    /\ UNCHANGED <<slot, safety, strays, halted, bounds>>

\* The control loop drives a replacement of the safety process in every pass.
DriveSafetyReplacement ==
    /\ ~halted /\ safety.replace
    /\ ReplaceSafety(safety)
    /\ UNCHANGED <<slot, recovered, halted, bounds>>

-----------------------------------------------------------------------------
(* What the scheduler, the recovery coordinator and the operator ask for     *)

\* A healthy idle slot is cycled: to give its RAM back, or in maintenance.
Cycle(s) ==
    /\ Request
    /\ slot[s].view = "WAITING_FOR_JOB"
    /\ slot' = [slot EXCEPT ![s] = Started(@)]
    /\ UNCHANGED <<safety, strays, recovered, halted, disruptions>>

\* scale_inference_processes by one.  Growing takes the lowest free id, also
\* that of a quarantined slot; shrinking takes a slot that looks idle.
ScaleUp(s) ==
    /\ Request
    /\ slot[s].child = Absent
    /\ slot' = [slot EXCEPT ![s] = Started(@)]
    /\ UNCHANGED <<safety, strays, recovered, halted, disruptions>>

ScaleDown(s) ==
    /\ Request
    /\ slot[s].child # Absent /\ slot[s].view \notin {"BUSY", "PROCESS_STARTING"}
    /\ slot' = [slot EXCEPT ![s] = Retired(@)]
    /\ UNCHANGED <<safety, strays, recovered, halted, disruptions>>

\* rebuild_inference_pool clears the breakers' counts first.
Forgiven(p) == [p EXCEPT !.replacements = 0, !.startFailures = 0, !.quarantined = FALSE,
                         !.faults = 0]

Rebuilt(p) ==
    IF p.child # Absent THEN Replaced(Forgiven(p), FALSE)
    ELSE IF p.quarantined THEN Started(Forgiven(p))
    ELSE Forgiven(p)

\* The soft reset: rebuild_inference_pool, then rebuild_safety_pool.
SoftReset ==
    /\ Request
    /\ slot' = [s \in Slot |-> Rebuilt(slot[s])]
    /\ ReplaceSafety([safety EXCEPT !.recoveries = 0, !.faults = 0,
                                    !.deliberate = TRUE, !.replace = TRUE])
    /\ UNCHANGED <<recovered, halted, disruptions>>

\* Mutant: the flag is turned and the running process stays as it is.
PauseSafetyOnly(z) == [z EXCEPT !.paused = ~@]

\* pause_safety_on_gpu and restore_safety_on_gpu, for a job that takes the card.
PauseOrRestore(z) == [z EXCEPT !.paused = ~@, !.deliberate = TRUE, !.replace = TRUE]

MoveSafety ==
    /\ Request
    /\ safety' = PauseOrRestore(safety)
    /\ UNCHANGED <<slot, strays, recovered, halted, disruptions>>

\* start_evaluate_safety cannot write to the pipe.
SafetySendFails ==
    /\ ~halted
    /\ safety.child = "dead" /\ ~safety.replace
    /\ safety' = InitiateSafetyReplacement(safety)
    /\ UNCHANGED <<slot, strays, recovered, halted, bounds>>

\* CRASH_LOOP_WINDOW_SECONDS pass: the oldest replacement is no longer counted.
WindowPasses(s) ==
    /\ slot[s].replacements > 0
    /\ slot' = [slot EXCEPT ![s].replacements = @ - 1]
    /\ UNCHANGED <<safety, strays, recovered, halted, bounds>>

-----------------------------------------------------------------------------
Next ==
    \/ \E s \in Slot : \/ ChildReady(s) \/ ChildWorks(s) \/ ChildFinishes(s)
                       \/ ChildFailsToLoad(s) \/ ChildLost(s)
                       \/ Receive(s) \/ Cycle(s) \/ ScaleUp(s) \/ ScaleDown(s) \/ WindowPasses(s)
    \/ SafetyReady \/ SafetyChecks \/ SafetyEnds \/ SafetyLost \/ StrayMoves
    \/ ReceiveSafety \/ ReapCrashed \/ ReplaceHung \/ ReplaceAllTimedOut \/ UnsetRecovered
    \/ DriveSafetyReplacement \/ SoftReset \/ MoveSafety \/ SafetySendFails

Spec == Init /\ [][Next]_vars

\* The control loop calls its handlers in every pass; a child that is neither
\* dead nor silent gets on with what it was told.
Fairness ==
    /\ \A s \in Slot : WF_vars(ChildReady(s)) /\ WF_vars(Receive(s))
    /\ WF_vars(SafetyReady) /\ WF_vars(SafetyEnds)
    /\ WF_vars(ReceiveSafety) /\ WF_vars(ReapCrashed) /\ WF_vars(DriveSafetyReplacement)

FairSpec == Spec /\ Fairness

-----------------------------------------------------------------------------
(* Properties                                                                *)

Mail == {m \in Seq(View) : Len(m) <= MaxMail + 1}
Child == Live \cup {"dead", Absent}

\* Every variable has its type: the breakers' counts stay within their limits,
\* the safety process is always in the map between two passes, and no message of
\* an earlier launch waits to be read as the present one's.
TypeOK ==
    /\ slot \in [Slot -> [view: View, child: Child, mail: Mail,
                          replacements: 0 .. MaxReplacements + 1,
                          startFailures: 0 .. MaxStartFailures,
                          loadFailed: BOOLEAN, quarantined: BOOLEAN, faults: Nat]]
    /\ safety \in [view: View, child: Child \ {Absent}, mail: Mail, told: BOOLEAN,
                   owned: BOOLEAN, onGpu: BOOLEAN, replace: BOOLEAN, ending: BOOLEAN,
                   deliberate: BOOLEAN, paused: BOOLEAN, recoveries: Nat, faults: Nat]
    /\ strays \subseteq [child: Live, told: BOOLEAN, owned: BOOLEAN, onGpu: BOOLEAN]
    /\ recovered \in BOOLEAN /\ halted \in BOOLEAN
    /\ disruptions \in 0 .. MaxDisruptions /\ requests \in 0 .. MaxRequests

\* Every safety process alive, in the map or not, is in the owned-process
\* registry, from where the worker's exit kills it, or was told to end.
OwnedOrTold ==
    /\ safety.child \in Live => safety.owned \/ safety.told
    /\ \A z \in strays : z.owned \/ z.told

\* While no replacement is under way the safety process is where the pauses and
\* restores since its start want it, in whatever order they came.
PlacementFollows == safety.replace \/ safety.onGpu = ~safety.paused

\* The breakers count failures: a slot is quarantined after as many crashes and
\* hangs of its own since the last soft reset as a breaker asks for, less the one
\* the reset itself charges to a live slot.  A failed load counts as a crash only
\* if the child was reaped before its report was read; a deliberate replacement
\* never counts.  The safety pool counts no recovery more than the safety process
\* failed.
BreakersEarned ==
    /\ \A s \in Slot : slot[s].quarantined =>
          slot[s].faults >= MaxReplacements \/ slot[s].faults >= MaxStartFailures - 1
    /\ safety.recoveries <= safety.faults

\* A slot whose child died is not left with it: it gets a new child or leaves
\* the pool, unless the control loop itself ended.
DeadIsReplaced ==
    \A s \in Slot : (slot[s].child = "dead") ~> (slot[s].child # "dead" \/ halted)

\* Only one thing keeps a replacement of the safety process from its end: a
\* report that makes the process look loaded after the phase of ending began.
SafetySucceeded ==
    safety.replace ~> ~safety.replace \/ halted \/ (safety.ending /\ Loaded(safety))

\* Once initiated, a replacement of the safety process comes to its end.
SafetyReplaced == safety.replace ~> ~safety.replace \/ halted
=============================================================================

------------------------- MODULE WholeCardResidency -------------------------
(* How the scheduler gives a whole card to a heavy model                      *)
(* (scheduling/inference_scheduler.py, one card): the heavy head claims the   *)
(* card, idle siblings are stopped, the safety process leaves the GPU, the    *)
(* job runs alone, and after a cooldown everything comes back.  A state of    *)
(* the worker is a record w; the steps of one scheduling cycle are operators  *)
(* on it, and Tick is run_scheduling_cycle.  The weights of a heavy model fit *)
(* an empty card (fits_alone).                                                *)
EXTENDS Naturals, FiniteSets

CONSTANTS Slot,         \* the inference processes at full strength
          Model,        \* the image models
          Heavy,        \* those that want a whole card
          NoModel,      \* an empty slot's model
          ModelOf,      \* the model of each job, by its place in pop order
          MaxThreads,   \* jobs in progress at a time
          Targets,      \* processes that may stay beside a heavy model
          SafetyOff,    \* whole_card_residency_safety_off_gpu
          Fragile,      \* the models whose jobs may take their process down
          MaxCrashes    \* bound: crashes

Job == DOMAIN ModelOf

ASSUME ResidencyAssumption == /\ Slot \subseteq Nat /\ IsFiniteSet(Slot)
                              /\ Heavy \subseteq Model
                              /\ NoModel \notin Model
                              /\ IsFiniteSet(Job)
                              /\ ModelOf \in [1 .. Cardinality(Job) -> Model]
                              /\ Targets \subseteq 1 .. Cardinality(Slot)
                              /\ SafetyOff \in BOOLEAN
                              /\ MaxThreads \in {1, 2}
                              /\ MaxCrashes \in Nat

VARIABLES w,            \* the worker
          crashes

vars == <<w, crashes>>

Stage == {"unpopped", "pending", "running", "checking", "done"}

SlotState == {"stopped", "starting", "idle", "loading", "preloaded", "running"}

WorkerState == [job : [Job -> Stage],
                exclusive : SUBSET Job,
                slot : [Slot -> [state : SlotState, model : Model \cup {NoModel}]],
                paused : BOOLEAN,
                holder : Heavy \cup {NoModel},
                cooling : BOOLEAN,
                settled : BOOLEAN,
                target : Targets]

\* A process that is not up holds no model, and one that loads or runs has one.
SlotsFit(s) ==
    \A p \in Slot :
        /\ s.slot[p].state \in {"stopped", "starting"} => s.slot[p].model = NoModel
        /\ s.slot[p].state \in {"loading", "preloaded", "running"} => s.slot[p].model # NoModel

TypeOK == w \in WorkerState /\ SlotsFit(w) /\ crashes \in 0 .. MaxCrashes

Empty(state) == [state |-> state, model |-> NoModel]

Init == /\ \E target \in Targets :
              w = [job |-> [j \in Job |-> "unpopped"],
                   exclusive |-> {},
                   slot |-> [p \in Slot |-> Empty("idle")],
                   paused |-> FALSE,
                   holder |-> NoModel,
                   cooling |-> FALSE,
                   settled |-> FALSE,
                   target |-> target]
        /\ crashes = 0

-----------------------------------------------------------------------------
(* What the scheduler reads.                                                  *)

IsHeavy(j) == ModelOf[j] \in Heavy

Running(s) == {j \in Job : s.job[j] = "running"}

\* jobs_pending_inference: those in progress are among them.
Queued(s) == {j \in Job : s.job[j] \in {"pending", "running"}}

First(S) == CHOOSE j \in S : \A k \in S : j <= k

\* Job numbers are pop order; 0 is no job.
Head(s) == LET waiting == Queued(s) \ Running(s)
           IN IF waiting = {} THEN 0 ELSE First(waiting)

\* has_exclusive_job_in_progress covers the pending ones.
HasExclusive(s) == s.exclusive \cap Queued(s) # {}

QueuedModels(s) == {ModelOf[j] : j \in Queued(s)}

RunningModels(s) == {ModelOf[j] : j \in Running(s)}

Up(s) == {p \in Slot : s.slot[p].state # "stopped"}

Loaded(s) == Cardinality(Up(s))

With(s, m) == {p \in Up(s) : s.slot[p].model = m}

CanAccept(s, p) == s.slot[p].state \in {"idle", "preloaded"}

HasBacklog(s) == \E j \in Job : s.job[j] = "checking"

SafetyReady(s) == SafetyOff => s.paused

-----------------------------------------------------------------------------
(* The residency.                                                             *)

(* Mutant: a process with a model that is still queued for is spared.         *)
ScaledDownGeneric(s, m) ==
    LET idle == {p \in Up(s) : /\ s.slot[p].state \in {"idle", "starting"}
                             /\ s.slot[p].model \notin QueuedModels(s)}
        excess == IF Loaded(s) > s.target THEN Loaded(s) - s.target ELSE 0
        victims == {p \in idle : Cardinality({q \in idle : q < p}) < excess}
    IN [p \in Slot |-> IF p \in victims THEN Empty("stopped") ELSE s.slot[p]]

(* scale_inference_processes downwards: idle processes are stopped, but for   *)
(* the holder of the model, until the target is reached or none is idle.      *)
ScaledDown(s, m) ==
    LET idle == {p \in Up(s) : s.slot[p].state \in {"idle", "starting"}} \ With(s, m)
        excess == IF Loaded(s) > s.target THEN Loaded(s) - s.target ELSE 0
        victims == {p \in idle : Cardinality({q \in idle : q < p}) < excess}
    IN [p \in Slot |-> IF p \in victims THEN Empty("stopped") ELSE s.slot[p]]

PausedIfIdle(s) == s.paused \/ (SafetyOff /\ ~HasBacklog(s))

(* mark_admitted_exclusive, and the residency for the model of the job; the   *)
(* settle time runs from the first demand of a job on.                        *)
Claimed(s, j) == [s EXCEPT !.exclusive = @ \cup {j},
                           !.holder = ModelOf[j],
                           !.cooling = TRUE,
                           !.settled = @ /\ j \in s.exclusive]

Established(s, j) == [Claimed(s, j) EXCEPT !.slot = ScaledDown(s, ModelOf[j]),
                                           !.paused = PausedIfIdle(s)]

(* _converge_whole_card_residency: once the model is on a process, the rest   *)
(* makes way.                                                                 *)
Converged(s) == IF s.holder # NoModel /\ With(s, s.holder) # {}
                THEN [s EXCEPT !.slot = ScaledDown(s, s.holder), !.paused = PausedIfIdle(s)]
                ELSE s

(* Mutant: the safety process may still be on the GPU.                        *)
ExhaustedButSafety(s, drained) == Loaded(s) <= s.target /\ (drained \/ s.settled)

(* _whole_card_teardown_exhausted.                                            *)
Exhausted(s, drained) == /\ Loaded(s) <= s.target
                         /\ SafetyReady(s)
                         /\ drained \/ s.settled

(* Mutant: the safety process is left where it is.                            *)
RestoredWithoutSafety(s) ==
    IF s.holder = NoModel \/ s.cooling \/ s.holder \in QueuedModels(s) \/ HasExclusive(s) THEN s
    ELSE [s EXCEPT !.holder = NoModel,
                   !.settled = FALSE,
                   !.slot = [p \in Slot |-> IF p \in Up(s) THEN @[p] ELSE Empty("starting")]]

(* _restore_siblings_after_whole_card.                                        *)
Restored(s) ==
    IF s.holder = NoModel THEN s
    ELSE IF s.holder \in QueuedModels(s) \/ HasExclusive(s) THEN [s EXCEPT !.cooling = TRUE]
    ELSE IF s.cooling THEN s
    ELSE [s EXCEPT !.holder = NoModel,
                   !.settled = FALSE,
                   !.paused = @ /\ ~SafetyOff,
                   !.slot = [p \in Slot |-> IF p \in Up(s) THEN @[p] ELSE Empty("starting")]]

(* A preloaded slot whose model nobody waits for any more is an idle one.     *)
Relabelled(s) ==
    [s EXCEPT !.slot = [p \in Slot |->
        IF @[p].state = "preloaded" /\ @[p].model \notin QueuedModels(s)
        THEN [@[p] EXCEPT !.state = "idle"] ELSE @[p]]]

-----------------------------------------------------------------------------
(* Preloading.                                                                *)

(* The job that preload_models comes to: the first whose model is on no       *)
(* process, passing over those that an exclusive job keeps back.              *)
Candidate(s) ==
    LET open == {j \in Queued(s) : /\ With(s, ModelOf[j]) = {}
                                   /\ HasExclusive(s) => j \in s.exclusive}
    IN IF open = {} THEN 0 ELSE First(open)

(* _select_preload_process, and for the head _select_head_room_process.       *)
PreloadSlots(s, j) ==
    LET crowded == Loaded(s) < Cardinality(Queued(s)) + Cardinality(Running(s))
        protected == IF crowded
                     THEN {p \in Slot : s.slot[p].state = "preloaded"}
                     ELSE {p \in Slot : \/ s.slot[p].model \in QueuedModels(s)
                                        \/ s.slot[p].state = "preloaded"}
        free == {p \in Up(s) : CanAccept(s, p)} \ protected
        empty == {p \in free : s.slot[p].model = NoModel}
        room == {p \in Up(s) : CanAccept(s, p) /\ s.slot[p].model \notin RunningModels(s)}
        cheap == {p \in room : s.slot[p].model \notin QueuedModels(s)}
    IN IF empty # {} THEN empty
       ELSE IF free # {} THEN free
       ELSE IF j # Head(s) THEN {}
       ELSE IF cheap # {} THEN cheap ELSE room

(* _admit_preload_under_budget: the worker after it, and whether the preload  *)
(* is sent.  Inputs: has the freed memory drained, does the verdict find room *)
(* beside what is resident, is there spare RAM.                               *)
Admission(s, j, p, drained, room, spare) ==
    LET isHead == j = Head(s)
        alone == Running(s) = {}
    IN IF IsHeavy(j) /\ isHead
       THEN IF ~alone /\ spare /\ s.slot[p].state = "idle"
            THEN [worker |-> Claimed(s, j), sent |-> TRUE]
            ELSE CHOOSE a \in {[worker |-> e, sent |-> Exhausted(e, drained)] : e \in {Established(s, j)}} : TRUE
       ELSE IF room THEN [worker |-> s, sent |-> TRUE]
       ELSE IF isHead /\ alone THEN [worker |-> [s EXCEPT !.exclusive = @ \cup {j}], sent |-> TRUE]
       ELSE [worker |-> s, sent |-> FALSE]

(* _send_preload; a message to a process that was just stopped is lost.       *)
Preloading(s, j, p) ==
    IF p \in Up(s) THEN [s EXCEPT !.slot[p] = [state |-> "loading", model |-> ModelOf[j]]] ELSE s

-----------------------------------------------------------------------------
(* Dispatching.                                                               *)

(* _max_jobs_in_progress_allowed.                                             *)
HasCapacity(s) == Cardinality(Running(s)) < IF HasExclusive(s) THEN 1 ELSE MaxThreads

(* _concurrent_overlap_allowed: a heavy job shares its time with none.        *)
MayOverlap(s, j) == Running(s) = {} \/ ~(IsHeavy(j) \/ \E k \in Running(s) : IsHeavy(k))

Takes(s, j) == \E p \in With(s, ModelOf[j]) : CanAccept(s, p)

(* get_next_job_and_process: the head, or, while the process with its model   *)
(* is busy, the first job of another model that can start (0 is none).        *)
NextJob(s) ==
    LET head == Head(s)
        others == {j \in Queued(s) \ Running(s) :
                       ModelOf[j] # ModelOf[head] /\ Takes(s, j) /\ MayOverlap(s, j)}
    IN IF head = 0 \/ ~HasCapacity(s) \/ With(s, ModelOf[head]) = {} THEN 0
       ELSE IF Takes(s, head) THEN IF MayOverlap(s, head) THEN head ELSE 0
       ELSE IF others = {} THEN 0 ELSE First(others)

(* start_inference: the job whose model holds the card waits until it has it. *)
Dispatched(s, drained) ==
    LET j == NextJob(s)
    IN IF j = 0 \/ (ModelOf[j] = s.holder /\ ~Exhausted(s, drained)) THEN s
       ELSE [s EXCEPT !.job[j] = "running",
                      !.slot = [p \in Slot |-> IF p \in With(s, ModelOf[j])
                                               THEN [@[p] EXCEPT !.state = "running"] ELSE @[p]]]

-----------------------------------------------------------------------------

(* preload_models: the worker after it and whether a preload was sent, for    *)
(* what the memory readings may say.  One preload is under way at a time.     *)
Admissions(s, j, drained) ==
    {<<p, Admission(s, j, p, drained, room, spare)>> :
        p \in PreloadSlots(s, j), room \in BOOLEAN, spare \in BOOLEAN}

Preloads(s, drained) ==
    LET busy == \E p \in Slot : s.slot[p].state = "loading"
        sent == UNION {{[worker |-> IF a[2].sent THEN Preloading(a[2].worker, j, a[1]) ELSE a[2].worker,
                         sent |-> a[2].sent] : a \in Admissions(s, j, drained)} :
                       j \in {Candidate(s)} \ {0}}
    IN IF busy \/ sent = {} THEN {[worker |-> s, sent |-> FALSE]} ELSE sent

(* run_scheduling_cycle: the residency is kept up, then a preload is sent or  *)
(* jobs are started until none can (two at most, the limit being at most two). *)
Tick ==
    /\ \E r \in {Restored(w)} : \E c \in {Converged(r)} : \E s \in {Relabelled(c)} :
          \E drained \in BOOLEAN : \E preload \in Preloads(s, drained) :
             IF preload.sent THEN w' = preload.worker
             ELSE \E once \in {Dispatched(preload.worker, drained)} : w' = Dispatched(once, drained)
    /\ UNCHANGED crashes

Pop == /\ \E j \in Job : /\ w.job[j] = "unpopped"
                         /\ \A k \in Job : k < j => w.job[k] # "unpopped"
                         /\ w' = [w EXCEPT !.job[j] = "pending"]
       /\ UNCHANGED crashes

Becomes(p, from, to) == /\ w.slot[p].state = from
                        /\ w' = [w EXCEPT !.slot[p].state = to]
                        /\ UNCHANGED crashes

Started(p) == Becomes(p, "starting", "idle")

ModelLoaded(p) == Becomes(p, "loading", "preloaded")

(* The result is in, and the images go to the safety check.                   *)
Finish(j) == /\ w.job[j] = "running"
             /\ w' = [w EXCEPT !.job[j] = "checking",
                               !.slot = [p \in Slot |-> IF p \in With(w, ModelOf[j])
                                                        THEN [@[p] EXCEPT !.state = "idle"] ELSE @[p]]]
             /\ UNCHANGED crashes

Checked(j) == /\ w.job[j] = "checking"
              /\ w' = [w EXCEPT !.job[j] = "done"]
              /\ UNCHANGED crashes

(* Mutant: the new process keeps the model of the old one.                    *)
CrashKeepingModel(j) ==
    /\ w.job[j] = "running"
    /\ ModelOf[j] \in Fragile
    /\ crashes < MaxCrashes
    /\ w' = [w EXCEPT !.job[j] = "pending",
                      !.slot = [p \in Slot |-> IF p \in With(w, ModelOf[j])
                                               THEN [@[p] EXCEPT !.state = "starting"] ELSE @[p]]]
    /\ crashes' = crashes + 1

(* The process of a running job dies: it is replaced and the job queued again *)
(* at its place, with an attempt left.                                        *)
Crash(j) == /\ w.job[j] = "running"
            /\ ModelOf[j] \in Fragile
            /\ crashes < MaxCrashes
            /\ w' = [w EXCEPT !.job[j] = "pending",
                              !.slot = [p \in Slot |-> IF p \in With(w, ModelOf[j])
                                                       THEN Empty("starting") ELSE @[p]]]
            /\ crashes' = crashes + 1

(* The cooldown is over; the drain has had its settle time.                   *)
CooldownEnds == /\ w.cooling
                /\ w' = [w EXCEPT !.cooling = FALSE]
                /\ UNCHANGED crashes

DrainSettles == /\ w.holder # NoModel /\ ~w.settled
                /\ w' = [w EXCEPT !.settled = TRUE]
                /\ UNCHANGED crashes

Next == \/ Tick
        \/ Pop
        \/ CooldownEnds
        \/ DrainSettles
        \/ \E p \in Slot : Started(p) \/ ModelLoaded(p)
        \/ \E j \in Job : Finish(j) \/ Checked(j) \/ Crash(j)

Spec == Init /\ [][Next]_vars

(* The control loop ticks, processes start, load, finish and check, and time  *)
(* passes.  Nothing makes jobs come.                                          *)
FairSpec == /\ Spec
            /\ WF_vars(Tick)
            /\ WF_vars(CooldownEnds)
            /\ WF_vars(DrainSettles)
            /\ \A p \in Slot : WF_vars(Started(p) \/ ModelLoaded(p))
            /\ \A j \in Job : WF_vars(Finish(j) \/ Checked(j))

-----------------------------------------------------------------------------
(* A job that was given the device for itself runs alone, and a heavy one has *)
(* the card: no more processes are up than may stay beside it, and safety is  *)
(* off the GPU if it is to be (admitted_exclusive, start_inference).          *)
HeavyHasTheCard ==
    \A j \in Running(w) \cap w.exclusive :
        /\ Running(w) = {j}
        /\ IsHeavy(j) => Loaded(w) <= w.target /\ SafetyReady(w)

(* Every job that was popped is run and done, whoever holds the card: the     *)
(* head "never parks indefinitely", and those behind it "wait and reload once *)
(* the head drains" (inference_scheduler.py:1319, :1227-1228).                *)
EveryJobRuns == \A j \in Job : w.job[j] = "pending" ~> w.job[j] = "done"

(* When the heavy work is over the card is as it was: every process up,       *)
(* safety on the GPU, nobody holding it (_restore_siblings_after_whole_card). *)
CardRestored == <>[](w.holder = NoModel /\ ~w.paused /\ Up(w) = Slot)

=============================================================================

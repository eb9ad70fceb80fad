---------------------------- MODULE ResidencyProofs ----------------------------
(* The whole-card residency for any number of jobs, processes and models: one *)
(* job at a time has the device for itself, and a heavy one has the card.     *)
EXTENDS WholeCardResidency, FiniteSetTheorems, TLAPS

-----------------------------------------------------------------------------
(* The inductive invariant                                                    *)

\* Only popped jobs are given the device, one at a time.
OneExclusive(s) ==
    /\ \A j \in s.exclusive : s.job[j] # "unpopped"
    /\ \A j, k \in s.exclusive \cap Queued(s) : j = k

\* A heavy job that has the device, or waits for it, is what the card is held for.
HeldForIt(s) == \A j \in s.exclusive \cap Queued(s) : IsHeavy(j) => s.holder = ModelOf[j]

HasTheCard(s) ==
    \A j \in Running(s) \cap s.exclusive :
        /\ Running(s) = {j}
        /\ IsHeavy(j) => Loaded(s) <= s.target /\ SafetyReady(s)

Good(s) == s \in WorkerState /\ SlotsFit(s) /\ OneExclusive(s) /\ HeldForIt(s) /\ HasTheCard(s)

Inv == Good(w) /\ crashes \in 0 .. MaxCrashes

-----------------------------------------------------------------------------
(* What the scheduler reads                                                   *)

LEMMA JobsAreNumbers == Job \subseteq Nat /\ 0 \notin Job
<1>1. Cardinality(Job) \in Nat
  BY ResidencyAssumption, FS_CardinalityType
<1>2. DOMAIN ModelOf = 1 .. Cardinality(Job)
  BY ResidencyAssumption
<1>3. Job = 1 .. Cardinality(Job)
  BY <1>2 DEF Job
<1> QED BY <1>1, <1>3

LEMMA TargetsAreNumbers == Targets \subseteq Nat
BY ResidencyAssumption, FS_CardinalityType

LEMMA FirstIsOne == ASSUME NEW S \in SUBSET Job, S # {} PROVE First(S) \in S
<1> DEFINE Less == {ss \in Nat \X Nat : ss[1] < ss[2]}
<1>1. S \subseteq Nat
  BY JobsAreNumbers
<1>2. IsWellFoundedOn(Less, Nat)
  BY NatLessThanWellFounded DEF OpToRel
<1>3. PICK j \in S : \A k \in S : ~(<<k, j>> \in Less)
  <2> HIDE DEF Less
  <2> QED BY <1>1, <1>2, WFMin
<1>4. ASSUME NEW k \in S PROVE j <= k
  <2>1. ~(<<k, j>> \in Less) /\ k \in Nat /\ j \in Nat
    BY <1>1, <1>3
  <2>2. ~(k < j)
    BY <2>1
  <2> QED BY <2>1, <2>2
<1>5. \E x \in S : \A k \in S : x <= k
  BY <1>4
<1> QED BY <1>5 DEF First

LEMMA HeadWaits == ASSUME NEW s, Head(s) # 0 PROVE Head(s) \in Queued(s) \ Running(s)
BY FirstIsOne DEF Head, Queued, Running

LEMMA CandidateWaits ==
    ASSUME NEW s, Candidate(s) # 0
    PROVE  Candidate(s) \in Queued(s) /\ (HasExclusive(s) => Candidate(s) \in s.exclusive)
<1> DEFINE open == {j \in Queued(s) : /\ With(s, ModelOf[j]) = {}
                                      /\ HasExclusive(s) => j \in s.exclusive}
<1>1. open # {} /\ Candidate(s) = First(open)
  BY DEF Candidate
<1>2. open \in SUBSET Job
  BY DEF Queued
<1> QED BY <1>1, <1>2, FirstIsOne

\* Jobs are dispatched from those that wait, and one that has the device is
\* waited for.
LEMMA NextJobWaits ==
    ASSUME NEW s, NextJob(s) # 0
    PROVE  NextJob(s) \in Queued(s) \ Running(s) /\ HasCapacity(s)
<1> DEFINE others == {j \in Queued(s) \ Running(s) :
                        ModelOf[j] # ModelOf[Head(s)] /\ Takes(s, j) /\ MayOverlap(s, j)}
<1>1. Head(s) # 0 /\ HasCapacity(s)
      /\ (NextJob(s) = Head(s) \/ (others # {} /\ NextJob(s) = First(others)))
  BY DEF NextJob
<1>2. others \in SUBSET Job
  BY DEF Queued
<1> QED BY <1>1, <1>2, HeadWaits, FirstIsOne

LEMMA NothingBeside ==
    ASSUME NEW s \in WorkerState, HasCapacity(s), HasExclusive(s)
    PROVE  Running(s) = {}
<1>1. IsFiniteSet(Running(s))
  BY ResidencyAssumption, FS_Subset DEF Running
<1>2. Cardinality(Running(s)) < 1
  BY DEF HasCapacity
<1> QED BY <1>1, <1>2, FS_CardinalityType, FS_EmptySet

LEMMA FewerLoaded ==
    ASSUME NEW s, NEW r, Up(r) \subseteq Up(s)
    PROVE  Loaded(s) \in Nat /\ Loaded(r) \in Nat /\ Loaded(r) <= Loaded(s)
<1>1. IsFiniteSet(Up(s)) /\ IsFiniteSet(Up(r))
  BY ResidencyAssumption, FS_Subset DEF Up
<1> QED BY <1>1, FS_Subset, FS_CardinalityType DEF Loaded

-----------------------------------------------------------------------------
(* What a step leaves as good as it was                                       *)

\* The one job that has the device and is not done has no other beside it.
LEMMA AloneInQueue ==
    ASSUME NEW s, Good(s), NEW j \in s.exclusive \cap Queued(s)
    PROVE  s.exclusive \cap Queued(s) = {j}
BY DEF Good, OneExclusive

\* No job starts, none that has the device comes back, no process and no claim
\* to the GPU comes back.
LEMMA NothingStarts ==
    ASSUME NEW s, Good(s), NEW r \in WorkerState, SlotsFit(r),
           r.exclusive = s.exclusive, r.holder = s.holder, r.target = s.target,
           Running(r) \subseteq Running(s), r.exclusive \cap Queued(r) \subseteq Queued(s),
           \A j \in r.exclusive : r.job[j] # "unpopped",
           Up(r) \subseteq Up(s), s.paused => r.paused
    PROVE  Good(r)
<1>1. OneExclusive(r)
  BY DEF OneExclusive, Good
<1>2. HeldForIt(r)
  BY DEF HeldForIt, Good
<1>3. HasTheCard(r)
  <2> SUFFICES ASSUME NEW j \in Running(r) \cap r.exclusive
               PROVE  /\ Running(r) = {j}
                      /\ IsHeavy(j) => Loaded(r) <= r.target /\ SafetyReady(r)
    BY DEF HasTheCard
  <2>1. /\ Running(s) = {j}
        /\ IsHeavy(j) => Loaded(s) <= s.target /\ SafetyReady(s)
    BY DEF Good, HasTheCard
  <2>2. Loaded(s) \in Nat /\ Loaded(r) \in Nat /\ Loaded(r) <= Loaded(s) /\ s.target \in Nat
    BY FewerLoaded, TargetsAreNumbers DEF Good, WorkerState
  <2> QED BY <2>1, <2>2 DEF SafetyReady
<1> QED BY <1>1, <1>2, <1>3 DEF Good

\* Nobody who has the device is left: everything may come back.
LEMMA NobodyAlone ==
    ASSUME NEW s, Good(s), ~HasExclusive(s), NEW r \in WorkerState, SlotsFit(r),
           r.exclusive = s.exclusive, r.job = s.job
    PROVE  Good(r)
<1>1. Queued(r) = Queued(s) /\ Running(r) \subseteq Queued(r)
  BY DEF Queued, Running
<1> QED BY <1>1 DEF Good, HasExclusive, OneExclusive, HeldForIt, HasTheCard

\* A job that waits is given the device, and the card is held for a heavy one.
LEMMA GivenDevice ==
    ASSUME NEW s, Good(s), NEW j \in Queued(s) \ Running(s), HasExclusive(s) => j \in s.exclusive,
           NEW r \in WorkerState, r.job = s.job, r.slot = s.slot, r.paused = s.paused,
           r.target = s.target, r.exclusive = s.exclusive \cup {j},
           IsHeavy(j) => r.holder = ModelOf[j]
    PROVE  Good(r)
<1>1. Queued(r) = Queued(s) /\ Running(r) = Running(s) /\ Running(s) \subseteq Queued(s)
  BY DEF Queued, Running
<1>2. r.exclusive \cap Queued(r) = {j}
  <2>1. CASE HasExclusive(s)
    BY <1>1, <2>1, AloneInQueue
  <2>2. CASE ~HasExclusive(s)
    BY <1>1, <2>2 DEF HasExclusive
  <2> QED BY <2>1, <2>2
<1>3. OneExclusive(r)
  BY <1>2 DEF OneExclusive, Good, Queued
<1>4. HeldForIt(r) /\ HasTheCard(r)
  BY <1>1, <1>2 DEF HeldForIt, HasTheCard
<1>5. SlotsFit(r)
  BY DEF SlotsFit, Good
<1> QED BY <1>3, <1>4, <1>5 DEF Good

-----------------------------------------------------------------------------
(* The processes                                                              *)

Process == [state : SlotState, model : Model \cup {NoModel}]

Fits(x) == /\ x \in Process
           /\ x.state \in {"stopped", "starting"} => x.model = NoModel
           /\ x.state \in {"loading", "preloaded", "running"} => x.model # NoModel

\* The worker with other processes
LEMMA OtherSlots ==
    ASSUME NEW s \in WorkerState, NEW f \in [Slot -> Process], \A p \in Slot : Fits(f[p])
    PROVE  LET r == [s EXCEPT !.slot = f]
           IN /\ r \in WorkerState /\ SlotsFit(r) /\ r.slot = f
              /\ r.job = s.job /\ r.exclusive = s.exclusive /\ r.holder = s.holder
              /\ r.target = s.target /\ r.paused = s.paused /\ r.cooling = s.cooling
              /\ r.settled = s.settled
BY DEF WorkerState, Fits, Process, SlotsFit

LEMMA SlotsAreFit ==
    ASSUME NEW s \in WorkerState, SlotsFit(s)
    PROVE  s.slot \in [Slot -> Process] /\ \A p \in Slot : Fits(s.slot[p])
BY DEF WorkerState, Fits, Process, SlotsFit

LEMMA EmptyFits == \A state \in {"stopped", "starting"} : Fits(Empty(state))
BY DEF Empty, Fits, Process, SlotState

LEMMA ScaledDownFits ==
    ASSUME NEW s \in WorkerState, SlotsFit(s), NEW m
    PROVE  LET f == ScaledDown(s, m)
           IN /\ f \in [Slot -> Process] /\ \A p \in Slot : Fits(f[p])
              /\ \A p \in Slot : f[p].state # "stopped" => s.slot[p].state # "stopped"
<1> DEFINE f == ScaledDown(s, m)
<1>1. \E victims : f = [p \in Slot |-> IF p \in victims THEN Empty("stopped") ELSE s.slot[p]]
  BY DEF ScaledDown
<1>2. PICK victims :
        f = [p \in Slot |-> IF p \in victims THEN Empty("stopped") ELSE s.slot[p]]
  BY <1>1
<1> HIDE DEF f
<1>3. \A p \in Slot : f[p] = Empty("stopped") \/ f[p] = s.slot[p]
  BY <1>2
<1>4. \A p \in Slot : Fits(f[p])
  BY <1>3, SlotsAreFit, EmptyFits
<1>5. f \in [Slot -> Process]
  <2>1. f = [p \in Slot |-> f[p]]
    BY <1>2
  <2> QED BY <1>4, <2>1 DEF Fits
<1> QED BY <1>3, <1>4, <1>5 DEF f, Empty

-----------------------------------------------------------------------------
(* The scheduling cycle                                                       *)

LEMMA PausedIsBoolean ==
    ASSUME NEW s \in WorkerState
    PROVE  PausedIfIdle(s) \in BOOLEAN /\ (s.paused => PausedIfIdle(s))
BY DEF PausedIfIdle

\* The card is cleared for model m.
LEMMA ClearingKeeps ==
    ASSUME NEW s, Good(s), NEW t, Good(t), t.slot = s.slot, t.job = s.job, t.paused = s.paused,
           NEW m
    PROVE  Good([t EXCEPT !.slot = ScaledDown(s, m), !.paused = PausedIfIdle(s)])
<1> DEFINE f == ScaledDown(s, m)
           b == PausedIfIdle(s)
           r == [t EXCEPT !.slot = f, !.paused = b]
<1>1. /\ f \in [Slot -> Process] /\ \A p \in Slot : Fits(f[p])
      /\ \A p \in Slot : f[p].state # "stopped" => s.slot[p].state # "stopped"
      /\ b \in BOOLEAN /\ (s.paused => b)
  BY ScaledDownFits, PausedIsBoolean DEF Good
<1> HIDE DEF f, b
<1>2. /\ r \in WorkerState /\ SlotsFit(r) /\ r.slot = f /\ r.paused = b
      /\ r.job = t.job /\ r.exclusive = t.exclusive /\ r.holder = t.holder /\ r.target = t.target
  BY <1>1 DEF Good, WorkerState, Fits, Process, SlotsFit
<1> HIDE DEF r
<1>3. Up(r) \subseteq Up(t)
  BY <1>1, <1>2 DEF Up
<1>4. Running(r) \subseteq Running(t) /\ Queued(r) \subseteq Queued(t)
  BY <1>2 DEF Running, Queued
<1>5. \A j \in r.exclusive : r.job[j] # "unpopped"
  BY <1>2 DEF Good, OneExclusive
<1>6. Good(r)
  BY <1>1, <1>2, <1>3, <1>4, <1>5, NothingStarts
<1> QED BY <1>6 DEF r, f, b

LEMMA ConvergedKeeps == ASSUME NEW s, Good(s) PROVE Good(Converged(s))
BY ClearingKeeps DEF Converged

LEMMA RelabelledKeeps == ASSUME NEW s, Good(s) PROVE Good(Relabelled(s))
<1> DEFINE f == [p \in Slot |->
                   IF s.slot[p].state = "preloaded" /\ s.slot[p].model \notin QueuedModels(s)
                   THEN [s.slot[p] EXCEPT !.state = "idle"] ELSE s.slot[p]]
           r == Relabelled(s)
<1>1. s \in WorkerState /\ s.slot \in [Slot -> Process] /\ \A p \in Slot : Fits(s.slot[p])
  BY SlotsAreFit DEF Good
<1>2. \A p \in Slot : Fits(f[p]) /\ (f[p].state # "stopped" => s.slot[p].state # "stopped")
  BY <1>1 DEF Fits, Process, SlotState
<1>3. f \in [Slot -> Process]
  BY <1>2 DEF Fits
<1>4. r = [s EXCEPT !.slot = f]
  BY <1>1 DEF Relabelled, WorkerState
<1> HIDE DEF f, r
<1>5. /\ r \in WorkerState /\ SlotsFit(r) /\ r.slot = f /\ r.job = s.job
      /\ r.exclusive = s.exclusive /\ r.holder = s.holder /\ r.target = s.target
      /\ r.paused = s.paused
  BY <1>1, <1>2, <1>3, <1>4, OtherSlots
<1>6. /\ Up(r) \subseteq Up(s) /\ Running(r) = Running(s) /\ Queued(r) = Queued(s)
      /\ \A j \in r.exclusive : r.job[j] # "unpopped"
  BY <1>2, <1>5 DEF Up, Running, Queued, Good, OneExclusive
<1>7. Good(r)
  BY <1>5, <1>6, NothingStarts
<1> QED BY <1>7 DEF r

LEMMA RestoredKeeps == ASSUME NEW s, Good(s) PROVE Good(Restored(s))
<1>1. s \in WorkerState /\ s.slot \in [Slot -> Process] /\ \A p \in Slot : Fits(s.slot[p])
  BY SlotsAreFit DEF Good
<1>2. CASE Restored(s) = s
  BY <1>2
<1>3. CASE Restored(s) = [s EXCEPT !.cooling = TRUE]
  <2> DEFINE r == [s EXCEPT !.cooling = TRUE]
  <2>1. /\ r \in WorkerState /\ r.slot = s.slot /\ r.job = s.job /\ r.exclusive = s.exclusive
        /\ r.holder = s.holder /\ r.target = s.target /\ r.paused = s.paused
    BY <1>1 DEF WorkerState
  <2> HIDE DEF r
  <2>2. /\ SlotsFit(r) /\ Up(r) = Up(s) /\ Running(r) = Running(s) /\ Queued(r) = Queued(s)
        /\ \A j \in r.exclusive : r.job[j] # "unpopped"
    BY <2>1 DEF SlotsFit, Up, Running, Queued, Good, OneExclusive
  <2>3. Good(r)
    BY <2>1, <2>2, NothingStarts
  <2> QED BY <1>3, <2>3 DEF r
<1>4. CASE /\ ~HasExclusive(s)
           /\ Restored(s) = [s EXCEPT !.holder = NoModel, !.settled = FALSE,
                     !.paused = @ /\ ~SafetyOff,
                     !.slot = [p \in Slot |-> IF p \in Up(s) THEN @[p] ELSE Empty("starting")]]
  <2> DEFINE f == [p \in Slot |-> IF p \in Up(s) THEN s.slot[p] ELSE Empty("starting")]
             b == s.paused /\ ~SafetyOff
             r == [s EXCEPT !.holder = NoModel, !.settled = FALSE, !.paused = b, !.slot = f]
  <2>1. \A p \in Slot : Fits(f[p])
    BY <1>1, EmptyFits
  <2>2. f \in [Slot -> Process] /\ b \in BOOLEAN
    BY <2>1 DEF Fits
  <2>3. Restored(s) = r
    BY <1>1, <1>4 DEF WorkerState
  <2> HIDE DEF f, b
  <2>4. r \in WorkerState /\ SlotsFit(r) /\ r.job = s.job /\ r.exclusive = s.exclusive
    BY <1>1, <2>1, <2>2 DEF WorkerState, SlotsFit, Fits, Process
  <2> HIDE DEF r
  <2> QED BY <1>4, <2>3, <2>4, NobodyAlone
<1> QED BY <1>2, <1>3, <1>4 DEF Restored

LEMMA PreloadingKeeps ==
    ASSUME NEW s, Good(s), NEW j \in Job, NEW p PROVE Good(Preloading(s, j, p))
<1>1. CASE p \notin Up(s)
  BY <1>1 DEF Preloading
<1>2. CASE p \in Up(s)
  <2> DEFINE new == [state |-> "loading", model |-> ModelOf[j]]
             f == [s.slot EXCEPT ![p] = new]
             r == Preloading(s, j, p)
  <2>1. /\ s \in WorkerState /\ s.slot \in [Slot -> Process] /\ \A q \in Slot : Fits(s.slot[q])
        /\ p \in Slot
    BY <1>2, SlotsAreFit DEF Good, Up
  <2>2. ModelOf[j] \in Model /\ ModelOf[j] # NoModel
    BY ResidencyAssumption DEF Job
  <2>3. Fits(new) /\ new.state = "loading"
    BY <2>2 DEF Fits, Process, SlotState
  <2>4. r = [s EXCEPT !.slot = f]
    BY <1>2, <2>1 DEF Preloading, WorkerState
  <2> HIDE DEF new, r
  <2>5. /\ f \in [Slot -> Process] /\ \A q \in Slot : Fits(f[q])
        /\ \A q \in Slot : f[q].state # "stopped" => q = p \/ s.slot[q].state # "stopped"
    BY <2>1, <2>3 DEF Fits
  <2> HIDE DEF f
  <2>6. /\ r \in WorkerState /\ SlotsFit(r) /\ r.slot = f /\ r.job = s.job
        /\ r.exclusive = s.exclusive /\ r.holder = s.holder /\ r.target = s.target
        /\ r.paused = s.paused
    BY <2>1, <2>4, <2>5, OtherSlots
  <2>7. /\ Up(r) \subseteq Up(s) /\ Running(r) = Running(s) /\ Queued(r) = Queued(s)
        /\ \A k \in r.exclusive : r.job[k] # "unpopped"
    BY <1>2, <2>5, <2>6 DEF Up, Running, Queued, Good, OneExclusive
  <2>8. Good(r)
    BY <2>6, <2>7, NothingStarts
  <2> QED BY <2>8 DEF r
<1> QED BY <1>1, <1>2

\* mark_admitted_exclusive for the head: with the card for a heavy job.
LEMMA ClaimedKeeps ==
    ASSUME NEW s, Good(s), NEW j \in Queued(s) \ Running(s), HasExclusive(s) => j \in s.exclusive
    PROVE  /\ IsHeavy(j) => /\ Good(Claimed(s, j)) /\ Claimed(s, j).slot = s.slot
                            /\ Claimed(s, j).job = s.job /\ Claimed(s, j).paused = s.paused
           /\ ~IsHeavy(j) => Good([s EXCEPT !.exclusive = @ \cup {j}])
<1>1. s \in WorkerState /\ j \in Job
  BY DEF Good, Queued
<1>2. ASSUME IsHeavy(j)
      PROVE  /\ Good(Claimed(s, j)) /\ Claimed(s, j).slot = s.slot
             /\ Claimed(s, j).job = s.job /\ Claimed(s, j).paused = s.paused
  <2> DEFINE b == s.settled /\ j \in s.exclusive
             r == [s EXCEPT !.exclusive = s.exclusive \cup {j}, !.holder = ModelOf[j],
                            !.cooling = TRUE, !.settled = b]
  <2>1. Claimed(s, j) = r
    BY <1>1 DEF Claimed, WorkerState
  <2>2. b \in BOOLEAN /\ ModelOf[j] \in Heavy
    BY <1>2 DEF IsHeavy
  <2> HIDE DEF b
  <2>3. /\ r \in WorkerState /\ r.job = s.job /\ r.slot = s.slot /\ r.paused = s.paused
        /\ r.target = s.target /\ r.exclusive = s.exclusive \cup {j} /\ r.holder = ModelOf[j]
    BY <1>1, <2>2 DEF WorkerState
  <2> HIDE DEF r
  <2> QED BY <2>1, <2>3, GivenDevice
<1>3. ASSUME ~IsHeavy(j) PROVE Good([s EXCEPT !.exclusive = @ \cup {j}])
  <2> DEFINE r == [s EXCEPT !.exclusive = @ \cup {j}]
  <2>1. /\ r \in WorkerState /\ r.job = s.job /\ r.slot = s.slot /\ r.paused = s.paused
        /\ r.target = s.target /\ r.exclusive = s.exclusive \cup {j}
    BY <1>1 DEF WorkerState
  <2> HIDE DEF r
  <2>2. Good(r)
    BY <1>3, <2>1, GivenDevice
  <2> QED BY <2>2 DEF r
<1> QED BY <1>2, <1>3

LEMMA AdmissionKeeps ==
    ASSUME NEW s, Good(s), NEW j \in Queued(s), HasExclusive(s) => j \in s.exclusive,
           NEW p, NEW drained, NEW room, NEW spare
    PROVE  Good(Admission(s, j, p, drained, room, spare).worker)
<1> DEFINE admission == Admission(s, j, p, drained, room, spare)
<1>1. CASE j # Head(s)
  BY <1>1 DEF Admission
<1>2. CASE j = Head(s)
  <2>1. j \in Queued(s) \ Running(s)
    BY <1>2, HeadWaits, JobsAreNumbers DEF Queued
  <2>2. CASE IsHeavy(j)
    <3>1. /\ Good(Claimed(s, j)) /\ Claimed(s, j).slot = s.slot
          /\ Claimed(s, j).job = s.job /\ Claimed(s, j).paused = s.paused
      BY <2>1, <2>2, ClaimedKeeps
    <3>2. Good(Established(s, j))
      BY <3>1, ClearingKeeps DEF Established
    <3>3. ASSUME NEW a, a = CHOOSE x \in {[worker |-> e, sent |-> Exhausted(e, drained)] :
                                           e \in {Established(s, j)}} : TRUE
          PROVE  a.worker = Established(s, j)
      <4>1. a \in {[worker |-> e, sent |-> Exhausted(e, drained)] : e \in {Established(s, j)}}
        BY <3>3
      <4> QED BY <4>1
    <3> QED BY <1>2, <2>2, <3>1, <3>2, <3>3 DEF Admission
  <2>3. CASE ~IsHeavy(j)
    <3>1. Good([s EXCEPT !.exclusive = @ \cup {j}])
      BY <2>1, <2>3, ClaimedKeeps
    <3> QED BY <2>3, <3>1 DEF Admission
  <2> QED BY <2>2, <2>3
<1> QED BY <1>1, <1>2

LEMMA PreloadsKeep ==
    ASSUME NEW s, Good(s), NEW drained, NEW preload \in Preloads(s, drained)
    PROVE  Good(preload.worker)
<1>1. CASE preload = [worker |-> s, sent |-> FALSE]
  BY <1>1
<1>2. CASE \E j \in {Candidate(s)} \ {0} : \E a \in Admissions(s, j, drained) :
               preload = [worker |-> IF a[2].sent THEN Preloading(a[2].worker, j, a[1])
                                     ELSE a[2].worker,
                          sent |-> a[2].sent]
  <2> DEFINE Of(a, j) == IF a[2].sent THEN Preloading(a[2].worker, j, a[1]) ELSE a[2].worker
  <2>1. PICK j \in {Candidate(s)} \ {0} :
              \E a \in Admissions(s, j, drained) : preload.worker = Of(a, j)
    BY <1>2
  <2>2. j \in Queued(s) /\ (HasExclusive(s) => j \in s.exclusive) /\ j \in Job
    BY CandidateWaits DEF Queued
  <2>3. PICK a \in Admissions(s, j, drained) : preload.worker = Of(a, j)
    BY <2>1
  <2>4. PICK p \in PreloadSlots(s, j), room \in BOOLEAN, spare \in BOOLEAN :
               a = <<p, Admission(s, j, p, drained, room, spare)>>
    BY DEF Admissions
  <2>5. Good(a[2].worker)
    BY <2>2, <2>4, AdmissionKeeps
  <2>6. Good(Preloading(a[2].worker, j, a[1]))
    BY <2>2, <2>5, PreloadingKeeps
  <2> QED BY <2>3, <2>5, <2>6
<1> QED BY <1>1, <1>2 DEF Preloads

\* The processes f, where those of the model m go on with it or are replaced
Moved(s, m, f) ==
    /\ f \in [Slot -> Process]
    /\ \A p \in Slot \ With(s, m) : f[p] = s.slot[p]
    /\ \A p \in With(s, m) :
          \/ f[p].state \in {"idle", "running"} /\ f[p].model = s.slot[p].model
          \/ f[p] = Empty("starting")

LEMMA MovedFits ==
    ASSUME NEW s, Good(s), NEW m \in Model, NEW f, Moved(s, m, f)
    PROVE  /\ \A p \in Slot : Fits(f[p])
           /\ \A p \in Slot : f[p].state # "stopped" <=> s.slot[p].state # "stopped"
<1> USE DEF Moved
<1>1. \A p \in Slot : Fits(s.slot[p])
  BY SlotsAreFit DEF Good
<1>2. m # NoModel
  BY ResidencyAssumption
<1>3. \A p \in With(s, m) : f[p].state # "stopped" /\ s.slot[p].state # "stopped" /\ Fits(f[p])
  BY <1>1, <1>2, EmptyFits DEF With, Up, Fits, Empty
<1> QED BY <1>1, <1>3

\* A job is dispatched when nothing else has the device; one that has it runs
\* alone, and the card is cleared for a heavy one, which it is held for.
LEMMA DispatchedKeeps == ASSUME NEW s, Good(s), NEW drained PROVE Good(Dispatched(s, drained))
<1>1. CASE Dispatched(s, drained) = s
  BY <1>1
<1>2. CASE Dispatched(s, drained) # s
  <2> DEFINE j == NextJob(s)
             f == [p \in Slot |-> IF p \in With(s, ModelOf[j])
                                  THEN [s.slot[p] EXCEPT !.state = "running"] ELSE s.slot[p]]
             g == [s.job EXCEPT ![j] = "running"]
             r == Dispatched(s, drained)
  <2>1. j # 0 /\ (ModelOf[j] = s.holder => Exhausted(s, drained))
    BY <1>2 DEF Dispatched
  <2>2. j \in Queued(s) \ Running(s) /\ HasCapacity(s) /\ j \in Job
    BY <2>1, NextJobWaits DEF Queued
  <2>3. ModelOf[j] \in Model
    BY <2>2, ResidencyAssumption DEF Job
  <2>4. /\ s \in WorkerState /\ s.slot \in [Slot -> Process] /\ s.job \in [Job -> Stage]
        /\ s.exclusive \subseteq Job
    BY SlotsAreFit DEF Good, WorkerState
  <2>5. r = [s EXCEPT !.job = g, !.slot = f]
    BY <1>2, <2>4 DEF Dispatched, WorkerState
  <2>6. f \in [Slot -> Process] /\ Moved(s, ModelOf[j], f)
    BY <2>4 DEF Moved, Process, SlotState, With, Up
  <2> HIDE DEF f
  <2>7. /\ \A p \in Slot : Fits(f[p])
        /\ \A p \in Slot : f[p].state # "stopped" <=> s.slot[p].state # "stopped"
    BY <2>3, <2>6, MovedFits
  <2>8. g \in [Job -> Stage] /\ g[j] = "running" /\ \A k \in Job \ {j} : g[k] = s.job[k]
    BY <2>2, <2>4 DEF Stage
  <2> HIDE DEF g, j, r
  <2>9. /\ r \in WorkerState /\ SlotsFit(r) /\ r.slot = f /\ r.job = g
        /\ r.exclusive = s.exclusive /\ r.holder = s.holder /\ r.target = s.target
        /\ r.paused = s.paused
    BY <2>4, <2>5, <2>6, <2>7, <2>8 DEF WorkerState, SlotsFit, Fits, Process
  <2>10. Queued(r) = Queued(s) /\ Running(r) = Running(s) \cup {j} /\ Up(r) = Up(s)
    BY <2>2, <2>7, <2>8, <2>9 DEF Queued, Running, Up
  <2>11. OneExclusive(r)
    BY <2>2, <2>4, <2>8, <2>9, <2>10 DEF OneExclusive, Good
  <2>12. HeldForIt(r)
    BY <2>9, <2>10 DEF HeldForIt, Good
  <2>13. HasTheCard(r)
    <3> SUFFICES ASSUME NEW k \in Running(r) \cap r.exclusive
                 PROVE  /\ Running(r) = {k}
                        /\ IsHeavy(k) => Loaded(r) <= r.target /\ SafetyReady(r)
      BY DEF HasTheCard
    <3>1. k \in s.exclusive \cap Queued(s) /\ Running(s) = {}
      BY <2>2, <2>4, <2>9, <2>10, NothingBeside DEF HasExclusive, Queued, Running
    <3>2. k = j /\ Running(r) = {k}
      BY <2>10, <3>1
    <3>3. ASSUME IsHeavy(k) PROVE Exhausted(s, drained)
      BY <2>1, <3>1, <3>2, <3>3 DEF HeldForIt, Good, j
    <3> QED BY <2>9, <2>10, <3>2, <3>3 DEF Exhausted, SafetyReady, Loaded
  <2>14. Good(r)
    BY <2>9, <2>11, <2>12, <2>13 DEF Good
  <2> QED BY <2>14 DEF r
<1> QED BY <1>1, <1>2

LEMMA TickKeeps == ASSUME Good(w), Tick PROVE Good(w')
<1>1. PICK drained \in BOOLEAN :
        \E preload \in Preloads(Relabelled(Converged(Restored(w))), drained) :
             IF preload.sent THEN w' = preload.worker
             ELSE w' = Dispatched(Dispatched(preload.worker, drained), drained)
  BY DEF Tick
<1>2. PICK preload \in Preloads(Relabelled(Converged(Restored(w))), drained) :
             IF preload.sent THEN w' = preload.worker
             ELSE w' = Dispatched(Dispatched(preload.worker, drained), drained)
  BY <1>1
<1>3. Good(Relabelled(Converged(Restored(w))))
  BY RestoredKeeps, ConvergedKeeps, RelabelledKeeps
<1>4. Good(preload.worker)
  BY <1>3, PreloadsKeep
<1>5. Good(Dispatched(Dispatched(preload.worker, drained), drained))
  BY <1>4, DispatchedKeeps
<1> QED BY <1>2, <1>4, <1>5

-----------------------------------------------------------------------------
(* The other steps                                                            *)

\* The worker with other jobs
LEMMA OtherJobs ==
    ASSUME NEW s, Good(s), NEW j \in Job, NEW stage \in Stage, NEW r, r = [s EXCEPT !.job[j] = stage]
    PROVE  /\ r \in WorkerState /\ SlotsFit(r) /\ r.slot = s.slot
           /\ r.job[j] = stage /\ \A k \in Job \ {j} : r.job[k] = s.job[k]
           /\ r.exclusive = s.exclusive /\ r.holder = s.holder
           /\ r.target = s.target /\ r.paused = s.paused
BY DEF Good, WorkerState, SlotsFit

LEMMA PopKeeps == ASSUME Good(w), Pop PROVE Good(w')
<1>1. PICK j \in Job : w.job[j] = "unpopped" /\ w' = [w EXCEPT !.job[j] = "pending"]
  BY DEF Pop
<1>2. /\ w' \in WorkerState /\ SlotsFit(w') /\ w'.slot = w.slot /\ w'.job[j] = "pending"
      /\ \A k \in Job \ {j} : w'.job[k] = w.job[k]
      /\ w'.exclusive = w.exclusive /\ w'.holder = w.holder
      /\ w'.target = w.target /\ w'.paused = w.paused
  BY <1>1, OtherJobs DEF Stage
<1>3. /\ Running(w') = Running(w) /\ Up(w') = Up(w) /\ j \notin w.exclusive
      /\ Queued(w') = Queued(w) \cup {j}
  BY <1>1, <1>2 DEF Running, Up, Queued, Good, OneExclusive
<1>4. \A k \in w'.exclusive : k \in Job /\ w'.job[k] # "unpopped"
  BY <1>2 DEF Good, OneExclusive, WorkerState
<1> QED BY <1>2, <1>3, <1>4, NothingStarts

LEMMA CheckedKeeps == ASSUME Good(w), NEW j \in Job, Checked(j) PROVE Good(w')
<1>1. /\ w' \in WorkerState /\ SlotsFit(w') /\ w'.slot = w.slot /\ w'.job[j] = "done"
      /\ \A k \in Job \ {j} : w'.job[k] = w.job[k]
      /\ w'.exclusive = w.exclusive /\ w'.holder = w.holder
      /\ w'.target = w.target /\ w'.paused = w.paused /\ w.job[j] = "checking"
  BY OtherJobs DEF Checked, Stage
<1>2. Running(w') = Running(w) /\ Up(w') = Up(w) /\ Queued(w') = Queued(w)
  BY <1>1 DEF Running, Up, Queued
<1>3. \A k \in w'.exclusive : w'.job[k] # "unpopped"
  BY <1>1 DEF Good, OneExclusive, WorkerState
<1> QED BY <1>1, <1>2, <1>3, NothingStarts

\* A running job leaves its process, with its result or with the process.
LEMMA LeavingKeeps ==
    ASSUME Good(w), NEW j \in Job, w.job[j] = "running", NEW stage \in {"pending", "checking"},
           NEW f, Moved(w, ModelOf[j], f),
           w' = [w EXCEPT !.job[j] = stage, !.slot = f]
    PROVE  Good(w')
<1>1. w \in WorkerState /\ w.job \in [Job -> Stage] /\ ModelOf[j] \in Model
  BY ResidencyAssumption DEF Good, WorkerState, Job
<1>2. /\ \A p \in Slot : Fits(f[p])
      /\ \A p \in Slot : f[p].state # "stopped" => w.slot[p].state # "stopped"
  BY <1>1, MovedFits
<1> DEFINE g == [w.job EXCEPT ![j] = stage]
<1>3. g \in [Job -> Stage] /\ g[j] = stage /\ \A k \in Job \ {j} : g[k] = w.job[k]
  BY <1>1 DEF Stage
<1>4. w' = [w EXCEPT !.job = g, !.slot = f]
  BY <1>1 DEF WorkerState
<1> HIDE DEF g
<1>5. /\ w' \in WorkerState /\ SlotsFit(w') /\ w'.slot = f /\ w'.job = g
      /\ w'.exclusive = w.exclusive /\ w'.holder = w.holder
      /\ w'.target = w.target /\ w'.paused = w.paused
  BY <1>1, <1>2, <1>3, <1>4 DEF Moved, WorkerState, SlotsFit, Fits, Process
<1>6. Running(w') \subseteq Running(w) /\ Up(w') \subseteq Up(w) /\ Queued(w') \subseteq Queued(w)
  BY <1>2, <1>3, <1>5 DEF Running, Up, Queued
<1>7. \A k \in w'.exclusive : w'.job[k] # "unpopped"
  BY <1>3, <1>5 DEF Good, OneExclusive, WorkerState
<1> QED BY <1>5, <1>6, <1>7, NothingStarts

LEMMA LeavingSteps == ASSUME Good(w), NEW j \in Job, Finish(j) \/ Crash(j) PROVE Good(w')
<1>1. w \in WorkerState /\ w.slot \in [Slot -> Process]
  BY SlotsAreFit DEF Good
<1>2. CASE Finish(j)
  <2> DEFINE f == [p \in Slot |-> IF p \in With(w, ModelOf[j])
                                  THEN [w.slot[p] EXCEPT !.state = "idle"] ELSE w.slot[p]]
  <2>1. Moved(w, ModelOf[j], f)
    BY <1>1 DEF Moved, Process, SlotState, With, Up
  <2>2. w.job[j] = "running" /\ w' = [w EXCEPT !.job[j] = "checking", !.slot = f]
    BY <1>1, <1>2 DEF Finish, WorkerState
  <2> HIDE DEF f
  <2> QED BY <2>1, <2>2, LeavingKeeps
<1>3. CASE Crash(j)
  <2> DEFINE f == [p \in Slot |-> IF p \in With(w, ModelOf[j]) THEN Empty("starting")
                                  ELSE w.slot[p]]
  <2>1. Moved(w, ModelOf[j], f)
    BY <1>1, EmptyFits DEF Moved, Fits, With, Up
  <2>2. w.job[j] = "running" /\ w' = [w EXCEPT !.job[j] = "pending", !.slot = f]
    BY <1>1, <1>3 DEF Crash, WorkerState
  <2> HIDE DEF f
  <2> QED BY <2>1, <2>2, LeavingKeeps
<1> QED BY <1>2, <1>3

LEMMA ProcessSteps == ASSUME Good(w), NEW p \in Slot, Started(p) \/ ModelLoaded(p) PROVE Good(w')
<1>1. PICK from \in SlotState, to \in SlotState :
        /\ w.slot[p].state = from /\ from # "stopped"
        /\ w' = [w EXCEPT !.slot[p].state = to]
        /\ to = "idle" \/ (from = "loading" /\ to = "preloaded")
  BY DEF Started, ModelLoaded, Becomes, SlotState
<1> DEFINE x == [w.slot[p] EXCEPT !.state = to]
           f == [w.slot EXCEPT ![p] = x]
<1>2. /\ w \in WorkerState /\ w.slot \in [Slot -> Process]
      /\ \A q \in Slot : Fits(w.slot[q])
  BY SlotsAreFit DEF Good
<1>3. Fits(x) /\ w' = [w EXCEPT !.slot = f]
  BY <1>1, <1>2 DEF Fits, Process, WorkerState
<1> HIDE DEF x
<1>4. /\ f \in [Slot -> Process] /\ \A q \in Slot : Fits(f[q])
      /\ \A q \in Slot : f[q].state # "stopped" => w.slot[q].state # "stopped"
  BY <1>1, <1>2, <1>3 DEF Fits
<1> HIDE DEF f
<1>5. /\ w' \in WorkerState /\ SlotsFit(w') /\ w'.slot = f /\ w'.job = w.job
      /\ w'.exclusive = w.exclusive /\ w'.holder = w.holder /\ w'.target = w.target
      /\ w'.paused = w.paused
  BY <1>2, <1>3, <1>4, OtherSlots
<1>6. /\ Up(w') \subseteq Up(w) /\ Running(w') = Running(w) /\ Queued(w') = Queued(w)
      /\ \A k \in w'.exclusive : w'.job[k] # "unpopped"
  BY <1>4, <1>5 DEF Up, Running, Queued, Good, OneExclusive
<1> QED BY <1>5, <1>6, NothingStarts

LEMMA TimeSteps == ASSUME Good(w), CooldownEnds \/ DrainSettles PROVE Good(w')
<1>1. /\ w' \in WorkerState /\ w'.slot = w.slot /\ w'.job = w.job
      /\ w'.exclusive = w.exclusive /\ w'.holder = w.holder /\ w'.target = w.target
      /\ w'.paused = w.paused
  BY DEF CooldownEnds, DrainSettles, Good, WorkerState
<1>2. /\ SlotsFit(w') /\ Up(w') = Up(w) /\ Running(w') = Running(w) /\ Queued(w') = Queued(w)
      /\ \A j \in w'.exclusive : w'.job[j] # "unpopped"
  BY <1>1 DEF SlotsFit, Up, Running, Queued, Good, OneExclusive
<1> QED BY <1>1, <1>2, NothingStarts

LEMMA WorkerStarts == Init => Inv
<1> SUFFICES ASSUME Init PROVE Inv
  OBVIOUS
<1>1. PICK target \in Targets :
        w = [job |-> [j \in Job |-> "unpopped"], exclusive |-> {},
             slot |-> [p \in Slot |-> Empty("idle")], paused |-> FALSE, holder |-> NoModel,
             cooling |-> FALSE, settled |-> FALSE, target |-> target]
  BY DEF Init
<1>2. w \in WorkerState /\ SlotsFit(w)
  <2>1. Empty("idle") \in Process
    BY DEF Empty, Process, SlotState
  <2>2. [p \in Slot |-> Empty("idle")] \in [Slot -> Process]
        /\ [j \in Job |-> "unpopped"] \in [Job -> Stage]
    BY <2>1 DEF Stage
  <2> QED BY <1>1, <2>2 DEF WorkerState, SlotsFit, Empty, Process
<1>3. w.exclusive = {} /\ crashes = 0
  BY <1>1 DEF Init
<1> QED BY <1>2, <1>3, ResidencyAssumption
        DEF Inv, Good, OneExclusive, HeldForIt, HasTheCard

LEMMA WorkerKeeps == Inv /\ [Next]_vars => Inv'
<1> SUFFICES ASSUME Inv, [Next]_vars PROVE Inv'
  OBVIOUS
<1> USE DEF Inv
<1>1. CASE Tick
  BY <1>1, TickKeeps DEF Tick
<1>2. CASE Pop
  BY <1>2, PopKeeps DEF Pop
<1>3. CASE CooldownEnds \/ DrainSettles
  BY <1>3, TimeSteps DEF CooldownEnds, DrainSettles
<1>4. CASE \E p \in Slot : Started(p) \/ ModelLoaded(p)
  BY <1>4, ProcessSteps DEF Started, ModelLoaded, Becomes
<1>5. CASE \E j \in Job : Finish(j) \/ Checked(j) \/ Crash(j)
  <2>1. Good(w')
    BY <1>5, LeavingSteps, CheckedKeeps
  <2>2. crashes' \in 0 .. MaxCrashes
    BY <1>5, ResidencyAssumption DEF Finish, Checked, Crash
  <2> QED BY <2>1, <2>2
<1>6. CASE UNCHANGED vars
  BY <1>6 DEF vars
<1> QED BY <1>1, <1>2, <1>3, <1>4, <1>5, <1>6 DEF Next

\* However jobs, crashes and cycles follow each other, the worker stays in the
\* inductive invariant.
THEOREM ResidencyInv == Spec => []Inv
BY WorkerStarts, WorkerKeeps, PTL DEF Spec

\* Every part of the worker keeps its type, and a process that is not up has no
\* model.
THEOREM TypeCorrect == Spec => []TypeOK
<1>1. Inv => TypeOK
  BY DEF Inv, Good, TypeOK
<1> QED BY <1>1, ResidencyInv, PTL

\* mark_admitted_exclusive, _whole_card_teardown_exhausted and start_inference: a
\* job with the device runs alone, and a heavy one has the card.
THEOREM HeavyRunsAlone == Spec => []HeavyHasTheCard
<1>1. Inv => HeavyHasTheCard
  BY DEF Inv, Good, HasTheCard, HeavyHasTheCard
<1> QED BY <1>1, ResidencyInv, PTL

================================================================================

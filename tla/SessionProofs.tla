---------------------------- MODULE SessionProofs ----------------------------
(* WorkerSession's safety invariants for any number of jobs and of            *)
(* disruptions.                                                                *)
EXTENDS WorkerSession, TLAPS

Inference == {"pending", "running"}
Safety == {"toCheck", "checking"}
InHand == Inference \cup Safety \cup {"toSubmit", "sending"}
Late(stages) == \A j \in Job : job[j] \in stages => j \in late
Graceful == outcome = "graceful"

EngineType == [view: {"none", "starting", "idle", "busy", "ending"}, child: Living \cup {"dead"}]
CheckerType == [view: {"none", "starting", "idle", "busy", "ending"},
                child: Living \cup {"dead"}, told: BOOLEAN, owned: BOOLEAN,
                replace: {"no", "wanted", "ending"}]

\* The engine that the wind-down ended stays ended, and what is still in
\* inference then was enqueued late.
EngineInv ==
    /\ engine.view \in {"none", "ending"} => engine.child = "dead"
    /\ control = "ended" => engine.view \in {"none", "ending"}
    /\ engine.view = "none" => outcome = "forced"
    /\ timer = "reporting" => outcome = "forced"
    /\ engine.view = "busy" /\ Graceful => \E j \in Job : job[j] = "running"
    /\ engine.view = "ending" /\ Graceful => Late(Inference)

\* A safety process told to end with no successor to come was told by the
\* wind-down, after the engine; its view may say otherwise for a while.
CheckerInv ==
    /\ checker.child \in Living => checker.told \/ checker.owned
    /\ checker.view = "ending" => checker.told
    /\ checker.told /\ checker.replace = "no" /\ Graceful =>
          Late(Inference \cup Safety) /\ engine.view = "ending"

\* Once a loop has found that it is time, only late jobs are left.
LoopsInv ==
    (submitter = "ended" \/ control # "ticking") /\ Graceful => Late(InHand)

\* TypeOK in parts.
JobsTyped == job \in [Job -> Stage] /\ \A i, j \in Job : job[i] = "sending" /\ job[j] = "sending" => i = j
FlagsTyped == fresh \in BOOLEAN /\ stopping \in BOOLEAN /\ recovered \in BOOLEAN
NamesTyped ==
    /\ popper \in {"idle", "popping", "ended"} /\ submitter \in {"on", "ended"}
    /\ control \in {"ticking", "draining", "ended"}
    /\ timer \in {"off", "armed", "reporting", "done"}
    /\ strays \subseteq {"owned", "disowned"}
    /\ outcome \in {"graceful", "exception", "forced"} /\ late \subseteq Job
    /\ disruptions \in 0 .. MaxDisruptions
ProcessesTyped == engine \in EngineType /\ checker \in CheckerType

LEMMA TypeParts == TypeOK <=> JobsTyped /\ FlagsTyped /\ NamesTyped /\ ProcessesTyped
  BY DEF TypeOK, JobsTyped, FlagsTyped, NamesTyped, ProcessesTyped, EngineType, CheckerType, In

Inv == TypeOK /\ EngineInv /\ CheckerInv /\ LoopsInv

LEMMA PopperSteps ==
    ASSUME Inv,
           (\E j \in Job : Pop(j) \/ PopReturns(j))
           \/ PopTakesLong \/ PopperEnds
    PROVE  Inv'
  <1>1. ASSUME NEW j \in Job, Pop(j) PROVE Inv'
    BY <1>1 DEF Pop, Becomes, rest, Inv, TypeOK, EngineInv, CheckerInv, LoopsInv,
       Late, Graceful, In, Stage, Inference, Safety, InHand, Living
  <1>2. ASSUME NEW j \in Job, PopReturns(j) PROVE Inv'
    BY <1>2 DEF PopReturns, Becomes, Inv, TypeOK, EngineInv, CheckerInv, LoopsInv,
       Late, Graceful, In, Stage, Inference, Safety, InHand, Living
  <1>3. CASE PopTakesLong
    <2>1. TypeOK'
      <3>0. JobsTyped /\ FlagsTyped /\ NamesTyped /\ ProcessesTyped
        BY TypeParts DEF Inv
      <3>1. JobsTyped'
        BY <1>3, <3>0 DEF PopTakesLong, rest, JobsTyped, Stage
      <3>2. FlagsTyped'
        BY <1>3, <3>0 DEF PopTakesLong, rest, FlagsTyped
      <3>3. NamesTyped'
        BY <1>3, <3>0, SessionAssumption DEF PopTakesLong, rest, NamesTyped
      <3>4. ProcessesTyped'
        BY <1>3, <3>0 DEF PopTakesLong, rest, ProcessesTyped, EngineType, CheckerType,
          Living
      <3> QED
        BY <3>1, <3>2, <3>3, <3>4, TypeParts DEF TypeOK, JobsTyped, FlagsTyped, NamesTyped, ProcessesTyped, EngineType, CheckerType, In, Stage, Living
    <2>2. EngineInv'
      BY <1>3 DEF PopTakesLong, rest, Inv, TypeOK, EngineInv, CheckerInv,
         LoopsInv, Late, Graceful, In, Stage, Inference, Safety, InHand, Living
    <2>3. CheckerInv'
      BY <1>3 DEF PopTakesLong, rest, Inv, TypeOK, EngineInv, CheckerInv,
         LoopsInv, Late, Graceful, In, Stage, Inference, Safety, InHand, Living
    <2>4. LoopsInv'
      BY <1>3 DEF PopTakesLong, rest, Inv, TypeOK, EngineInv, CheckerInv,
         LoopsInv, Late, Graceful, In, Stage, Inference, Safety, InHand, Living
    <2> QED
      BY <2>1, <2>2, <2>3, <2>4 DEF Inv
  <1>4. CASE PopperEnds
    BY <1>4 DEF PopperEnds, rest, Inv, TypeOK, EngineInv, CheckerInv, LoopsInv,
       Late, Graceful, In, Stage, Inference, Safety, InHand, Living
  <1> QED
    BY <1>1, <1>2, <1>3, <1>4

LEMMA SubmitterSteps ==
    ASSUME Inv,
           (\E j \in Job : Send(j))
           \/ SubmitReturns
    PROVE  Inv'
  <1>1. ASSUME NEW j \in Job, Send(j) PROVE Inv'
    BY <1>1 DEF Send, Becomes, loops, rest, Inv, TypeOK, EngineInv, CheckerInv, LoopsInv,
       Late, Graceful, In, Stage, Inference, Safety, InHand, Living
  <1>2. CASE SubmitReturns
    BY <1>2 DEF SubmitReturns, LoopEnds, IsTimeForShutdown, Held, rest, Inv, TypeOK, EngineInv, CheckerInv, LoopsInv,
       Late, Graceful, In, Stage, Inference, Safety, InHand, Living
  <1> QED
    BY <1>1, <1>2

LEMMA EngineSteps ==
    ASSUME Inv,
           (\E j \in Job : Schedule(j))
           \/ EngineReady \/ EngineFinishes \/ EngineLost \/ ReplaceEngine \/ UnsetRecovered
    PROVE  Inv'
  <1>1. ASSUME NEW j \in Job, Schedule(j) PROVE Inv'
    BY <1>1 DEF Schedule, Becomes, loops, rest, Inv, TypeOK, EngineInv, CheckerInv, LoopsInv,
       Late, Graceful, In, Stage, Inference, Safety, InHand, Living
  <1>2. CASE EngineReady
    BY <1>2 DEF EngineReady, Serving, loops, rest, Inv, TypeOK, EngineInv, CheckerInv, LoopsInv,
       Late, Graceful, In, Stage, Inference, Safety, InHand, Living
  <1>3. CASE EngineFinishes
    <2>1. TypeOK'
      <3>0. JobsTyped /\ FlagsTyped /\ NamesTyped /\ ProcessesTyped
        BY TypeParts DEF Inv
      <3>1. JobsTyped'
        BY <1>3, <3>0 DEF EngineFinishes, Serving, Moved, Disrupt, loops, rest,
          JobsTyped, Stage
      <3>2. FlagsTyped'
        BY <1>3, <3>0 DEF EngineFinishes, Serving, Moved, Disrupt, loops, rest,
          FlagsTyped
      <3>3. NamesTyped'
        BY <1>3, <3>0, SessionAssumption DEF EngineFinishes, Serving, Moved, Disrupt, loops,
          rest, NamesTyped
      <3>4. ProcessesTyped'
        BY <1>3, <3>0 DEF EngineFinishes, Serving, Moved, Disrupt, loops, rest,
          ProcessesTyped, EngineType, CheckerType, Living
      <3> QED
        BY <3>1, <3>2, <3>3, <3>4, TypeParts DEF TypeOK, JobsTyped, FlagsTyped, NamesTyped, ProcessesTyped, EngineType, CheckerType, In, Stage, Living
    <2>2. EngineInv'
      BY <1>3 DEF EngineFinishes, Serving, Moved, Disrupt, loops, rest, Inv, TypeOK, EngineInv, CheckerInv,
         LoopsInv, Late, Graceful, In, Stage, Inference, Safety, InHand, Living
    <2>3. CheckerInv'
      BY <1>3 DEF EngineFinishes, Serving, Moved, Disrupt, loops, rest, Inv, TypeOK, EngineInv, CheckerInv,
         LoopsInv, Late, Graceful, In, Stage, Inference, Safety, InHand, Living
    <2>4. LoopsInv'
      BY <1>3 DEF EngineFinishes, Serving, Moved, Disrupt, loops, rest, Inv, TypeOK, EngineInv, CheckerInv,
         LoopsInv, Late, Graceful, In, Stage, Inference, Safety, InHand, Living
    <2> QED
      BY <2>1, <2>2, <2>3, <2>4 DEF Inv
  <1>4. CASE EngineLost
    <2>1. TypeOK'
      <3>0. JobsTyped /\ FlagsTyped /\ NamesTyped /\ ProcessesTyped
        BY TypeParts DEF Inv
      <3>1. JobsTyped'
        BY <1>4, <3>0 DEF EngineLost, Disrupt, loops, rest, JobsTyped, Stage
      <3>2. FlagsTyped'
        BY <1>4, <3>0 DEF EngineLost, Disrupt, loops, rest, FlagsTyped
      <3>3. NamesTyped'
        BY <1>4, <3>0, SessionAssumption DEF EngineLost, Disrupt, loops, rest, NamesTyped
      <3>4. ProcessesTyped'
        BY <1>4, <3>0 DEF EngineLost, Disrupt, loops, rest, ProcessesTyped, EngineType,
          CheckerType, Living
      <3> QED
        BY <3>1, <3>2, <3>3, <3>4, TypeParts DEF TypeOK, JobsTyped, FlagsTyped, NamesTyped, ProcessesTyped, EngineType, CheckerType, In, Stage, Living
    <2>2. EngineInv'
      BY <1>4 DEF EngineLost, Disrupt, loops, rest, Inv, TypeOK, EngineInv, CheckerInv,
         LoopsInv, Late, Graceful, In, Stage, Inference, Safety, InHand, Living
    <2>3. CheckerInv'
      BY <1>4 DEF EngineLost, Disrupt, loops, rest, Inv, TypeOK, EngineInv, CheckerInv,
         LoopsInv, Late, Graceful, In, Stage, Inference, Safety, InHand, Living
    <2>4. LoopsInv'
      BY <1>4 DEF EngineLost, Disrupt, loops, rest, Inv, TypeOK, EngineInv, CheckerInv,
         LoopsInv, Late, Graceful, In, Stage, Inference, Safety, InHand, Living
    <2> QED
      BY <2>1, <2>2, <2>3, <2>4 DEF Inv
  <1>5. CASE ReplaceEngine
    BY <1>5 DEF ReplaceEngine, Serving, NewEngine, Moved, loops, rest, Inv, TypeOK, EngineInv, CheckerInv, LoopsInv,
       Late, Graceful, In, Stage, Inference, Safety, InHand, Living
  <1>6. CASE UnsetRecovered
    <2>1. TypeOK'
      <3>0. JobsTyped /\ FlagsTyped /\ NamesTyped /\ ProcessesTyped
        BY TypeParts DEF Inv
      <3>1. JobsTyped'
        BY <1>6, <3>0 DEF UnsetRecovered, loops, rest, JobsTyped, Stage
      <3>2. FlagsTyped'
        BY <1>6, <3>0 DEF UnsetRecovered, loops, rest, FlagsTyped
      <3>3. NamesTyped'
        BY <1>6, <3>0, SessionAssumption DEF UnsetRecovered, loops, rest, NamesTyped
      <3>4. ProcessesTyped'
        BY <1>6, <3>0 DEF UnsetRecovered, loops, rest, ProcessesTyped, EngineType,
          CheckerType, Living
      <3> QED
        BY <3>1, <3>2, <3>3, <3>4, TypeParts DEF TypeOK, JobsTyped, FlagsTyped, NamesTyped, ProcessesTyped, EngineType, CheckerType, In, Stage, Living
    <2>2. EngineInv'
      BY <1>6 DEF UnsetRecovered, loops, rest, Inv, TypeOK, EngineInv, CheckerInv,
         LoopsInv, Late, Graceful, In, Stage, Inference, Safety, InHand, Living
    <2>3. CheckerInv'
      BY <1>6 DEF UnsetRecovered, loops, rest, Inv, TypeOK, EngineInv, CheckerInv,
         LoopsInv, Late, Graceful, In, Stage, Inference, Safety, InHand, Living
    <2>4. LoopsInv'
      BY <1>6 DEF UnsetRecovered, loops, rest, Inv, TypeOK, EngineInv, CheckerInv,
         LoopsInv, Late, Graceful, In, Stage, Inference, Safety, InHand, Living
    <2> QED
      BY <2>1, <2>2, <2>3, <2>4 DEF Inv
  <1> QED
    BY <1>1, <1>2, <1>3, <1>4, <1>5, <1>6

LEMMA CheckerSteps ==
    ASSUME Inv,
           (\E j \in Job : StartCheck(j) \/ RequeueCheck(j))
           \/ CheckerReady \/ CheckerFinishes \/ CheckerEnds \/ CheckerLost \/ DriveReplacement
           \/ StrayEnds \/ CheckerFailed \/ MoveSafety
    PROVE  Inv'
  <1>1. ASSUME NEW j \in Job, StartCheck(j) PROVE Inv'
    BY <1>1 DEF StartCheck, Becomes, loops, rest, Inv, TypeOK, EngineInv, CheckerInv, LoopsInv,
       Late, Graceful, In, Stage, Inference, Safety, InHand, Living
  <1>2. ASSUME NEW j \in Job, RequeueCheck(j) PROVE Inv'
    BY <1>2 DEF RequeueCheck, Becomes, loops, rest, Inv, TypeOK, EngineInv, CheckerInv, LoopsInv,
       Late, Graceful, In, Stage, Inference, Safety, InHand, Living
  <1>3. CASE CheckerReady
    <2>1. TypeOK'
      <3>0. JobsTyped /\ FlagsTyped /\ NamesTyped /\ ProcessesTyped
        BY TypeParts DEF Inv
      <3>1. JobsTyped'
        BY <1>3, <3>0 DEF CheckerReady, Serving, loops, rest, JobsTyped, Stage
      <3>2. FlagsTyped'
        BY <1>3, <3>0 DEF CheckerReady, Serving, loops, rest, FlagsTyped
      <3>3. NamesTyped'
        BY <1>3, <3>0, SessionAssumption DEF CheckerReady, Serving, loops, rest,
          NamesTyped
      <3>4. ProcessesTyped'
        BY <1>3, <3>0 DEF CheckerReady, Serving, loops, rest, ProcessesTyped, EngineType,
          CheckerType, Living
      <3> QED
        BY <3>1, <3>2, <3>3, <3>4, TypeParts DEF TypeOK, JobsTyped, FlagsTyped, NamesTyped, ProcessesTyped, EngineType, CheckerType, In, Stage, Living
    <2>2. EngineInv'
      BY <1>3 DEF CheckerReady, Serving, loops, rest, Inv, TypeOK, EngineInv, CheckerInv,
         LoopsInv, Late, Graceful, In, Stage, Inference, Safety, InHand, Living
    <2>3. CheckerInv'
      BY <1>3 DEF CheckerReady, Serving, loops, rest, Inv, TypeOK, EngineInv, CheckerInv,
         LoopsInv, Late, Graceful, In, Stage, Inference, Safety, InHand, Living
    <2>4. LoopsInv'
      BY <1>3 DEF CheckerReady, Serving, loops, rest, Inv, TypeOK, EngineInv, CheckerInv,
         LoopsInv, Late, Graceful, In, Stage, Inference, Safety, InHand, Living
    <2> QED
      BY <2>1, <2>2, <2>3, <2>4 DEF Inv
  <1>4. CASE CheckerFinishes
    BY <1>4 DEF CheckerFinishes, Serving, Moved, loops, rest, Inv, TypeOK, EngineInv, CheckerInv, LoopsInv,
       Late, Graceful, In, Stage, Inference, Safety, InHand, Living
  <1>5. CASE CheckerEnds
    <2>1. TypeOK'
      <3>0. JobsTyped /\ FlagsTyped /\ NamesTyped /\ ProcessesTyped
        BY TypeParts DEF Inv
      <3>1. JobsTyped'
        BY <1>5, <3>0 DEF CheckerEnds, Serving, loops, rest, JobsTyped, Stage
      <3>2. FlagsTyped'
        BY <1>5, <3>0 DEF CheckerEnds, Serving, loops, rest, FlagsTyped
      <3>3. NamesTyped'
        BY <1>5, <3>0, SessionAssumption DEF CheckerEnds, Serving, loops, rest,
          NamesTyped
      <3>4. ProcessesTyped'
        BY <1>5, <3>0 DEF CheckerEnds, Serving, loops, rest, ProcessesTyped, EngineType,
          CheckerType, Living
      <3> QED
        BY <3>1, <3>2, <3>3, <3>4, TypeParts DEF TypeOK, JobsTyped, FlagsTyped, NamesTyped, ProcessesTyped, EngineType, CheckerType, In, Stage, Living
    <2>2. EngineInv'
      BY <1>5 DEF CheckerEnds, Serving, loops, rest, Inv, TypeOK, EngineInv, CheckerInv,
         LoopsInv, Late, Graceful, In, Stage, Inference, Safety, InHand, Living
    <2>3. CheckerInv'
      BY <1>5 DEF CheckerEnds, Serving, loops, rest, Inv, TypeOK, EngineInv, CheckerInv,
         LoopsInv, Late, Graceful, In, Stage, Inference, Safety, InHand, Living
    <2>4. LoopsInv'
      BY <1>5 DEF CheckerEnds, Serving, loops, rest, Inv, TypeOK, EngineInv, CheckerInv,
         LoopsInv, Late, Graceful, In, Stage, Inference, Safety, InHand, Living
    <2> QED
      BY <2>1, <2>2, <2>3, <2>4 DEF Inv
  <1>6. CASE CheckerLost
    <2>1. TypeOK'
      <3>0. JobsTyped /\ FlagsTyped /\ NamesTyped /\ ProcessesTyped
        BY TypeParts DEF Inv
      <3>1. JobsTyped'
        BY <1>6, <3>0 DEF CheckerLost, Disrupt, loops, rest, JobsTyped, Stage
      <3>2. FlagsTyped'
        BY <1>6, <3>0 DEF CheckerLost, Disrupt, loops, rest, FlagsTyped
      <3>3. NamesTyped'
        BY <1>6, <3>0, SessionAssumption DEF CheckerLost, Disrupt, loops, rest,
          NamesTyped
      <3>4. ProcessesTyped'
        BY <1>6, <3>0 DEF CheckerLost, Disrupt, loops, rest, ProcessesTyped, EngineType,
          CheckerType, Living
      <3> QED
        BY <3>1, <3>2, <3>3, <3>4, TypeParts DEF TypeOK, JobsTyped, FlagsTyped, NamesTyped, ProcessesTyped, EngineType, CheckerType, In, Stage, Living
    <2>2. EngineInv'
      BY <1>6 DEF CheckerLost, Disrupt, loops, rest, Inv, TypeOK, EngineInv, CheckerInv,
         LoopsInv, Late, Graceful, In, Stage, Inference, Safety, InHand, Living
    <2>3. CheckerInv'
      BY <1>6 DEF CheckerLost, Disrupt, loops, rest, Inv, TypeOK, EngineInv, CheckerInv,
         LoopsInv, Late, Graceful, In, Stage, Inference, Safety, InHand, Living
    <2>4. LoopsInv'
      BY <1>6 DEF CheckerLost, Disrupt, loops, rest, Inv, TypeOK, EngineInv, CheckerInv,
         LoopsInv, Late, Graceful, In, Stage, Inference, Safety, InHand, Living
    <2> QED
      BY <2>1, <2>2, <2>3, <2>4 DEF Inv
  <1>7. CASE DriveReplacement
    <2>0. /\ \/ /\ checker'.child = "starting" /\ checker'.view = "starting"
                /\ checker'.told = FALSE /\ checker'.owned = TRUE
             \/ /\ checker'.replace = "ending" /\ checker'.child = checker.child
                /\ checker'.view = "ending" => checker'.told \/ checker.view = "ending"
                /\ checker'.told \/ checker'.owned \/ ~checker.owned
                /\ checker.told => checker'.told
          /\ checker' \in CheckerType
      <3>1. checker \in CheckerType
        BY TypeParts DEF Inv, ProcessesTyped
      <3>2. CASE checker.replace = "wanted" /\ CheckerUnloaded
                 /\ checker' = [checker EXCEPT !.replace = "ending"]
        BY <3>1, <3>2 DEF CheckerType, Living
      <3>3. CASE checker.replace = "wanted" /\ ~CheckerUnloaded
                 /\ checker' = [EndChecker(checker) EXCEPT !.replace = "ending"]
        BY <3>1, <3>3 DEF CheckerType, Living, EndChecker, CheckerUnloaded
      <3>4. CASE checker' = NewChecker
        <4>1. NewChecker \in CheckerType
          BY DEF CheckerType, Living, NewChecker
        <4>2. /\ checker'.view = "starting" /\ checker'.child = "starting"
              /\ checker'.told = FALSE /\ checker'.owned = TRUE
          BY <3>4 DEF NewChecker
        <4> QED
          BY <3>4, <4>1, <4>2
      <3> QED
        BY <1>7, <3>2, <3>3, <3>4 DEF DriveReplacement
    <2>1. TypeOK'
      <3>1. strays' \subseteq {"owned", "disowned"}
        BY <1>7, TypeParts DEF DriveReplacement, LeftBehind, Inv, NamesTyped
      <3> QED
        BY <1>7, <2>0, <3>1, TypeParts DEF DriveReplacement, loops, Inv, TypeOK, CheckerType, In
    <2>2. EngineInv'
      BY <1>7 DEF DriveReplacement, loops, Inv, EngineInv, Late, Graceful
    <2>3. CheckerInv'
      BY <1>7, <2>0 DEF DriveReplacement, Inv, CheckerInv, Living
    <2>4. LoopsInv'
      BY <1>7 DEF DriveReplacement, loops, Inv, LoopsInv, Late, Graceful
    <2> QED
      BY <2>1, <2>2, <2>3, <2>4 DEF Inv
  <1>8. CASE CheckerFailed
    BY <1>8 DEF CheckerFailed, Serving, loops, rest, Inv, TypeOK, EngineInv, CheckerInv, LoopsInv,
       Late, Graceful, In, Stage, Inference, Safety, InHand, Living
  <1>9. CASE MoveSafety
    <2>1. TypeOK'
      <3>0. JobsTyped /\ FlagsTyped /\ NamesTyped /\ ProcessesTyped
        BY TypeParts DEF Inv
      <3>1. JobsTyped'
        BY <1>9, <3>0 DEF MoveSafety, Disrupt, loops, rest, JobsTyped, Stage
      <3>2. FlagsTyped'
        BY <1>9, <3>0 DEF MoveSafety, Disrupt, loops, rest, FlagsTyped
      <3>3. NamesTyped'
        BY <1>9, <3>0, SessionAssumption DEF MoveSafety, Disrupt, loops, rest, NamesTyped
      <3>4. ProcessesTyped'
        BY <1>9, <3>0 DEF MoveSafety, Disrupt, loops, rest, ProcessesTyped, EngineType,
          CheckerType, Living
      <3> QED
        BY <3>1, <3>2, <3>3, <3>4, TypeParts DEF TypeOK, JobsTyped, FlagsTyped, NamesTyped, ProcessesTyped, EngineType, CheckerType, In, Stage, Living
    <2>2. EngineInv'
      BY <1>9 DEF MoveSafety, Disrupt, loops, rest, Inv, TypeOK, EngineInv, CheckerInv,
         LoopsInv, Late, Graceful, In, Stage, Inference, Safety, InHand, Living
    <2>3. CheckerInv'
      BY <1>9 DEF MoveSafety, Disrupt, loops, rest, Inv, TypeOK, EngineInv, CheckerInv,
         LoopsInv, Late, Graceful, In, Stage, Inference, Safety, InHand, Living
    <2>4. LoopsInv'
      BY <1>9 DEF MoveSafety, Disrupt, loops, rest, Inv, TypeOK, EngineInv, CheckerInv,
         LoopsInv, Late, Graceful, In, Stage, Inference, Safety, InHand, Living
    <2> QED
      BY <2>1, <2>2, <2>3, <2>4 DEF Inv
  <1>10. CASE StrayEnds
    BY <1>10 DEF StrayEnds, loops, Inv, TypeOK, EngineInv, CheckerInv, LoopsInv, Late, Graceful, In
  <1> QED
    BY <1>1, <1>2, <1>3, <1>4, <1>5, <1>6, <1>7, <1>8, <1>9, <1>10

LEMMA ShutdownSteps ==
    ASSUME Inv, Shutdown \/ WindDown \/ TickFails \/ ControlEnds \/ Aborted \/ ShutdownTimedOut \/ GraceExpires \/ HardShutdown
    PROVE  Inv'
  <1>1. CASE Shutdown
    BY <1>1 DEF Shutdown, Armed, rest, Inv, TypeOK, EngineInv, CheckerInv, LoopsInv,
       Late, Graceful, In, Stage, Inference, Safety, InHand, Living
  <1>2. CASE WindDown
    <2>1. TypeOK'
      <3>0. JobsTyped /\ FlagsTyped /\ NamesTyped /\ ProcessesTyped
        BY TypeParts DEF Inv
      <3>1. JobsTyped'
        BY <1>2, <3>0 DEF WindDown, Quiet, PendingInference, SafetyStages, EndEngine,
          EndChecker, IsTimeForShutdown, Held, Arm, Armed, rest, JobsTyped, Stage
      <3>2. FlagsTyped'
        BY <1>2, <3>0 DEF WindDown, Quiet, PendingInference, SafetyStages, EndEngine,
          EndChecker, IsTimeForShutdown, Held, Arm, Armed, rest, FlagsTyped
      <3>3. NamesTyped'
        BY <1>2, <3>0, SessionAssumption DEF WindDown, Quiet, PendingInference,
          SafetyStages, EndEngine, EndChecker, IsTimeForShutdown, Held, Arm, Armed, rest,
          NamesTyped
      <3>4. ProcessesTyped'
        BY <1>2, <3>0 DEF WindDown, Quiet, PendingInference, SafetyStages, EndEngine,
          EndChecker, IsTimeForShutdown, Held, Arm, Armed, rest, ProcessesTyped,
          EngineType, CheckerType, Living
      <3> QED
        BY <3>1, <3>2, <3>3, <3>4, TypeParts DEF TypeOK, JobsTyped, FlagsTyped, NamesTyped, ProcessesTyped, EngineType, CheckerType, In, Stage, Living
    <2>2. EngineInv'
      BY <1>2 DEF WindDown, Quiet, PendingInference, SafetyStages, EndEngine, EndChecker, IsTimeForShutdown, Held, Arm, Armed, rest, Inv, TypeOK, EngineInv, CheckerInv,
         LoopsInv, Late, Graceful, In, Stage, Inference, Safety, InHand, Living
    <2>3. CheckerInv'
      BY <1>2 DEF WindDown, Quiet, PendingInference, SafetyStages, EndEngine, EndChecker, IsTimeForShutdown, Held, Arm, Armed, rest, Inv, TypeOK, EngineInv, CheckerInv,
         LoopsInv, Late, Graceful, In, Stage, Inference, Safety, InHand, Living
    <2>4. LoopsInv'
      BY <1>2 DEF WindDown, Quiet, PendingInference, SafetyStages, EndEngine, EndChecker, IsTimeForShutdown, Held, Arm, Armed, rest, Inv, TypeOK, EngineInv, CheckerInv,
         LoopsInv, Late, Graceful, In, Stage, Inference, Safety, InHand, Living
    <2> QED
      BY <2>1, <2>2, <2>3, <2>4 DEF Inv
  <1>3. CASE TickFails
    <2>1. TypeOK'
      <3>0. JobsTyped /\ FlagsTyped /\ NamesTyped /\ ProcessesTyped
        BY TypeParts DEF Inv
      <3>1. JobsTyped'
        BY <1>3, <3>0 DEF TickFails, Disrupt, Arm, Armed, JobsTyped, Stage
      <3>2. FlagsTyped'
        BY <1>3, <3>0 DEF TickFails, Disrupt, Arm, Armed, FlagsTyped
      <3>3. NamesTyped'
        BY <1>3, <3>0, SessionAssumption DEF TickFails, Disrupt, Arm, Armed, NamesTyped
      <3>4. ProcessesTyped'
        BY <1>3, <3>0 DEF TickFails, Disrupt, Arm, Armed, ProcessesTyped, EngineType,
          CheckerType, Living
      <3> QED
        BY <3>1, <3>2, <3>3, <3>4, TypeParts DEF TypeOK, JobsTyped, FlagsTyped, NamesTyped, ProcessesTyped, EngineType, CheckerType, In, Stage, Living
    <2>2. EngineInv'
      BY <1>3 DEF TickFails, Disrupt, Arm, Armed, Inv, TypeOK, EngineInv, CheckerInv,
         LoopsInv, Late, Graceful, In, Stage, Inference, Safety, InHand, Living
    <2>3. CheckerInv'
      BY <1>3 DEF TickFails, Disrupt, Arm, Armed, Inv, TypeOK, EngineInv, CheckerInv,
         LoopsInv, Late, Graceful, In, Stage, Inference, Safety, InHand, Living
    <2>4. LoopsInv'
      BY <1>3 DEF TickFails, Disrupt, Arm, Armed, Inv, TypeOK, EngineInv, CheckerInv,
         LoopsInv, Late, Graceful, In, Stage, Inference, Safety, InHand, Living
    <2> QED
      BY <2>1, <2>2, <2>3, <2>4 DEF Inv
  <1>4. CASE ControlEnds
    <2>1. TypeOK'
      <3>0. JobsTyped /\ FlagsTyped /\ NamesTyped /\ ProcessesTyped
        BY TypeParts DEF Inv
      <3>1. JobsTyped'
        BY <1>4, <3>0 DEF ControlEnds, PendingInference, EndEngine, EndChecker, rest,
          JobsTyped, Stage
      <3>2. FlagsTyped'
        BY <1>4, <3>0 DEF ControlEnds, PendingInference, EndEngine, EndChecker, rest,
          FlagsTyped
      <3>3. NamesTyped'
        BY <1>4, <3>0, SessionAssumption DEF ControlEnds, PendingInference, EndEngine,
          EndChecker, rest, NamesTyped
      <3>4. ProcessesTyped'
        BY <1>4, <3>0 DEF ControlEnds, PendingInference, EndEngine, EndChecker, rest,
          ProcessesTyped, EngineType, CheckerType, Living
      <3> QED
        BY <3>1, <3>2, <3>3, <3>4, TypeParts DEF TypeOK, JobsTyped, FlagsTyped, NamesTyped, ProcessesTyped, EngineType, CheckerType, In, Stage, Living
    <2>2. EngineInv'
      BY <1>4 DEF ControlEnds, PendingInference, EndEngine, EndChecker, rest, Inv, TypeOK, EngineInv, CheckerInv,
         LoopsInv, Late, Graceful, In, Stage, Inference, Safety, InHand, Living
    <2>3. CheckerInv'
      BY <1>4 DEF ControlEnds, PendingInference, EndEngine, EndChecker, rest, Inv, TypeOK, EngineInv, CheckerInv,
         LoopsInv, Late, Graceful, In, Stage, Inference, Safety, InHand, Living
    <2>4. LoopsInv'
      BY <1>4 DEF ControlEnds, PendingInference, EndEngine, EndChecker, rest, Inv, TypeOK, EngineInv, CheckerInv,
         LoopsInv, Late, Graceful, In, Stage, Inference, Safety, InHand, Living
    <2> QED
      BY <2>1, <2>2, <2>3, <2>4 DEF Inv
  <1>5. CASE Aborted
    <2>1. TypeOK'
      <3>0. JobsTyped /\ FlagsTyped /\ NamesTyped /\ ProcessesTyped
        BY TypeParts DEF Inv
      <3>1. JobsTyped'
        BY <1>5, <3>0 DEF Aborted, Abort, Disrupt, Held, KillAll, ClearRegistry, None, Arm, Armed,
          JobsTyped, Stage
      <3>2. FlagsTyped'
        BY <1>5, <3>0 DEF Aborted, Abort, Disrupt, Held, KillAll, ClearRegistry, None, Arm, Armed,
          FlagsTyped
      <3>3. NamesTyped'
        BY <1>5, <3>0, SessionAssumption DEF Aborted, Abort, Disrupt, Held, KillAll, ClearRegistry, None,
          Arm, Armed, NamesTyped
      <3>4. ProcessesTyped'
        BY <1>5, <3>0 DEF Aborted, Abort, Disrupt, Held, KillAll, ClearRegistry, None, Arm, Armed,
          ProcessesTyped, EngineType, CheckerType, Living
      <3> QED
        BY <3>1, <3>2, <3>3, <3>4, TypeParts DEF TypeOK, JobsTyped, FlagsTyped, NamesTyped, ProcessesTyped, EngineType, CheckerType, In, Stage, Living
    <2>2. EngineInv'
      BY <1>5 DEF Aborted, Abort, Disrupt, Held, KillAll, ClearRegistry, None, Arm, Armed, Inv, TypeOK, EngineInv, CheckerInv,
         LoopsInv, Late, Graceful, In, Stage, Inference, Safety, InHand, Living
    <2>3. CheckerInv'
      BY <1>5 DEF Aborted, Abort, Disrupt, Held, KillAll, ClearRegistry, None, Arm, Armed, Inv, TypeOK, EngineInv, CheckerInv,
         LoopsInv, Late, Graceful, In, Stage, Inference, Safety, InHand, Living
    <2>4. LoopsInv'
      BY <1>5 DEF Aborted, Abort, Disrupt, Held, KillAll, ClearRegistry, None, Arm, Armed, Inv, TypeOK, EngineInv, CheckerInv,
         LoopsInv, Late, Graceful, In, Stage, Inference, Safety, InHand, Living
    <2> QED
      BY <2>1, <2>2, <2>3, <2>4 DEF Inv
  <1>6. CASE ShutdownTimedOut
    <2>1. TypeOK'
      <3>0. JobsTyped /\ FlagsTyped /\ NamesTyped /\ ProcessesTyped
        BY TypeParts DEF Inv
      <3>1. JobsTyped'
        BY <1>6, <3>0 DEF ShutdownTimedOut, Serving, Abort, Held, KillAll, ClearRegistry, None, Arm, Armed,
          JobsTyped, Stage
      <3>2. FlagsTyped'
        BY <1>6, <3>0 DEF ShutdownTimedOut, Serving, Abort, Held, KillAll, ClearRegistry, None, Arm, Armed,
          FlagsTyped
      <3>3. NamesTyped'
        BY <1>6, <3>0, SessionAssumption DEF ShutdownTimedOut, Serving, Abort, Held,
          KillAll, ClearRegistry, None, Arm, Armed, NamesTyped
      <3>4. ProcessesTyped'
        BY <1>6, <3>0 DEF ShutdownTimedOut, Serving, Abort, Held, KillAll, ClearRegistry, None, Arm, Armed,
          ProcessesTyped, EngineType, CheckerType, Living
      <3> QED
        BY <3>1, <3>2, <3>3, <3>4, TypeParts DEF TypeOK, JobsTyped, FlagsTyped, NamesTyped, ProcessesTyped, EngineType, CheckerType, In, Stage, Living
    <2>2. EngineInv'
      BY <1>6 DEF ShutdownTimedOut, Serving, Abort, Held, KillAll, ClearRegistry, None, Arm, Armed, Inv, TypeOK, EngineInv, CheckerInv,
         LoopsInv, Late, Graceful, In, Stage, Inference, Safety, InHand, Living
    <2>3. CheckerInv'
      BY <1>6 DEF ShutdownTimedOut, Serving, Abort, Held, KillAll, ClearRegistry, None, Arm, Armed, Inv, TypeOK, EngineInv, CheckerInv,
         LoopsInv, Late, Graceful, In, Stage, Inference, Safety, InHand, Living
    <2>4. LoopsInv'
      BY <1>6 DEF ShutdownTimedOut, Serving, Abort, Held, KillAll, ClearRegistry, None, Arm, Armed, Inv, TypeOK, EngineInv, CheckerInv,
         LoopsInv, Late, Graceful, In, Stage, Inference, Safety, InHand, Living
    <2> QED
      BY <2>1, <2>2, <2>3, <2>4 DEF Inv
  <1>7. CASE GraceExpires
    BY <1>7 DEF GraceExpires, Serving, PendingInference, SafetyStages, Inv, TypeOK, EngineInv, CheckerInv, LoopsInv,
       Late, Graceful, In, Stage, Inference, Safety, InHand, Living
  <1>8. CASE HardShutdown
    <2>1. TypeOK'
      <3>0. JobsTyped /\ FlagsTyped /\ NamesTyped /\ ProcessesTyped
        BY TypeParts DEF Inv
      <3>1. JobsTyped'
        BY <1>8, <3>0 DEF HardShutdown, KillAll, ClearRegistry, None, rest, JobsTyped, Stage
      <3>2. FlagsTyped'
        BY <1>8, <3>0 DEF HardShutdown, KillAll, ClearRegistry, None, rest, FlagsTyped
      <3>3. NamesTyped'
        BY <1>8, <3>0, SessionAssumption DEF HardShutdown, KillAll, ClearRegistry, None, rest,
          NamesTyped
      <3>4. ProcessesTyped'
        BY <1>8, <3>0 DEF HardShutdown, KillAll, ClearRegistry, None, rest, ProcessesTyped, EngineType,
          CheckerType, Living
      <3> QED
        BY <3>1, <3>2, <3>3, <3>4, TypeParts DEF TypeOK, JobsTyped, FlagsTyped, NamesTyped, ProcessesTyped, EngineType, CheckerType, In, Stage, Living
    <2>2. EngineInv'
      BY <1>8 DEF HardShutdown, KillAll, ClearRegistry, None, rest, Inv, TypeOK, EngineInv, CheckerInv,
         LoopsInv, Late, Graceful, In, Stage, Inference, Safety, InHand, Living
    <2>3. CheckerInv'
      BY <1>8 DEF HardShutdown, KillAll, ClearRegistry, None, rest, Inv, TypeOK, EngineInv, CheckerInv,
         LoopsInv, Late, Graceful, In, Stage, Inference, Safety, InHand, Living
    <2>4. LoopsInv'
      BY <1>8 DEF HardShutdown, KillAll, ClearRegistry, None, rest, Inv, TypeOK, EngineInv, CheckerInv,
         LoopsInv, Late, Graceful, In, Stage, Inference, Safety, InHand, Living
    <2> QED
      BY <2>1, <2>2, <2>3, <2>4 DEF Inv
  <1> QED
    BY <1>1, <1>2, <1>3, <1>4, <1>5, <1>6, <1>7, <1>8

-----------------------------------------------------------------------------
(* The theorems                                                              *)

LEMMA InvInit == Init => Inv
  <1> SUFFICES ASSUME Init PROVE Inv
    OBVIOUS
  <1>1. JobsTyped /\ FlagsTyped
    BY DEF Init, JobsTyped, FlagsTyped, Stage
  <1>2. NamesTyped
    BY SessionAssumption DEF Init, NamesTyped
  <1>3. ProcessesTyped
    BY DEF Init, NewEngine, NewChecker, ProcessesTyped, EngineType, CheckerType, Living
  <1>4. EngineInv /\ CheckerInv /\ LoopsInv
    BY DEF Init, NewEngine, NewChecker, EngineInv, CheckerInv, LoopsInv
  <1> QED
    BY <1>1, <1>2, <1>3, <1>4, TypeParts DEF Inv

LEMMA InvStep == Inv /\ [Next]_vars => Inv'
  <1> SUFFICES ASSUME Inv, [Next]_vars PROVE Inv'
    OBVIOUS
  <1>1. CASE UNCHANGED vars
    BY <1>1 DEF vars, loops, rest, Inv, TypeOK, EngineInv, CheckerInv, LoopsInv, Late, Graceful, In
  <1> QED
    BY <1>1, PopperSteps, SubmitterSteps, EngineSteps, CheckerSteps, ShutdownSteps DEF Next

\* Only a hard kill makes the registry forget a safety process that left the map:
\* one leaves untold only while the registry has it.
StraysInv == "disowned" \in strays => outcome = "forced"

LEMMA StraysStep == Inv /\ StraysInv /\ [Next]_vars => StraysInv'
  <1> SUFFICES ASSUME Inv, StraysInv, [Next]_vars PROVE StraysInv'
    OBVIOUS
  <1>1. CASE UNCHANGED vars
    BY <1>1 DEF vars, StraysInv
  <1>2. ASSUME NEW j \in Job,
               Pop(j) \/ PopReturns(j) \/ Send(j) \/ Schedule(j) \/ StartCheck(j) \/ RequeueCheck(j)
        PROVE  StraysInv'
    BY <1>2 DEF Pop, PopReturns, Send, Schedule, StartCheck, RequeueCheck, rest, StraysInv
  <1>3. CASE PopTakesLong \/ PopperEnds \/ SubmitReturns \/ EngineReady \/ EngineFinishes
             \/ EngineLost \/ ReplaceEngine \/ UnsetRecovered
    BY <1>3 DEF PopTakesLong, PopperEnds, SubmitReturns, EngineReady, EngineFinishes, EngineLost,
       ReplaceEngine, UnsetRecovered, rest, StraysInv
  <1>4. CASE CheckerReady \/ CheckerFinishes \/ CheckerEnds \/ CheckerLost \/ CheckerFailed
             \/ MoveSafety
    BY <1>4 DEF CheckerReady, CheckerFinishes, CheckerEnds, CheckerLost, CheckerFailed, MoveSafety,
       rest, StraysInv
  <1>5. CASE DriveReplacement
    <2>1. "disowned" \notin LeftBehind(checker)
      BY DEF LeftBehind, Inv, CheckerInv
    <2>2. "disowned" \in strays' => "disowned" \in strays
      BY <1>5, <2>1 DEF DriveReplacement
    <2> QED
      BY <1>5, <2>2 DEF DriveReplacement, StraysInv
  <1>6. CASE StrayEnds
    BY <1>6 DEF StrayEnds, StraysInv
  <1>7. CASE Shutdown \/ WindDown \/ ControlEnds
    BY <1>7 DEF Shutdown, WindDown, ControlEnds, rest, StraysInv
  <1>8. CASE TickFails \/ GraceExpires
    BY <1>8 DEF TickFails, GraceExpires, StraysInv
  <1>9. CASE Aborted \/ ShutdownTimedOut
    BY <1>9 DEF Aborted, ShutdownTimedOut, Abort, StraysInv
  <1>10. CASE HardShutdown
    BY <1>10 DEF HardShutdown, Inv, EngineInv, StraysInv
  <1> QED
    BY <1>1, <1>2, <1>3, <1>4, <1>5, <1>6, <1>7, <1>8, <1>9, <1>10 DEF Next

\* The inductive invariant holds in every reachable state.
THEOREM SessionInv == Spec => [](Inv /\ StraysInv)
  <1>1. Init => Inv /\ StraysInv
    BY InvInit DEF Init, StraysInv
  <1>2. Inv /\ StraysInv /\ [Next]_vars => Inv' /\ StraysInv'
    BY InvStep, StraysStep
  <1> QED
    BY <1>1, <1>2, PTL DEF Spec

\* Every variable keeps its type, and the submitter holds one job at a time.
THEOREM TypeCorrect == Spec => []TypeOK
  <1>1. Inv => TypeOK
    BY DEF Inv
  <1> QED
    BY <1>1, SessionInv, PTL

\* However many jobs are in flight when the worker is told to stop, a drain that
\* is not cut short reports every job enqueued before the wind-down.
THEOREM DrainReports == Spec => []AcceptedIsReported
  <1>1. Inv => AcceptedIsReported
    BY DEF Inv, LoopsInv, AcceptedIsReported, Late, Graceful, Held, In, InHand, Inference, Safety
  <1> QED
    BY <1>1, SessionInv, PTL

\* The wind-down never takes the engine or the safety process from work that was
\* accepted before it.
THEOREM WindDownWaits == Spec => []WorkKeepsItsProcess
  <1>1. Inv => WorkKeepsItsProcess
    BY DEF Inv, EngineInv, CheckerInv, WorkKeepsItsProcess, Late, Graceful, Held, PendingInference,
       SafetyStages, In, Inference, Safety
  <1> QED
    BY <1>1, SessionInv, PTL

\* After the control loop's end no child is left, in the process map or out of it,
\* that neither was told to end nor is in the registry, but for what a hard kill
\* made the registry forget.
THEOREM ExitLeavesNone == Spec => []ExitLeavesNoneUntold
  <1>1. Inv /\ StraysInv => ExitLeavesNoneUntold
    BY DEF Inv, EngineInv, CheckerInv, StraysInv, ExitLeavesNoneUntold, Living
  <1> QED
    BY <1>1, SessionInv, PTL
=============================================================================

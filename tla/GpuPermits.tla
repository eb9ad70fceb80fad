----------------------------- MODULE GpuPermits -----------------------------
(* The permits that the inference processes of one card share: the slots for  *)
(* sampling and the one place for decoding (inference_semaphore and           *)
(* vae_decode_semaphore of process_manager.py).  A child takes and gives them *)
(* back in its own process; when it is replaced the parent gives them back    *)
(* for it without knowing whether it held any, and only then ends it.         *)
EXTENDS Naturals, FiniteSets

CONSTANTS Child,        \* the inference processes of the card
          None,         \* no child
          MaxThreads,   \* permits of the sampling semaphore
          MaxFaults     \* bound: crashes, hangs, time-outs of a child that is
                        \* only slow, and deliberate replacements

ASSUME PermitsAssumption == /\ IsFiniteSet(Child)
                            /\ None \notin Child
                            /\ MaxThreads \in Nat \ {0}
                            /\ MaxFaults \in Nat

VARIABLES pc,           \* where each child is in its job
          sampling,     \* free permits of the sampling semaphore
          decoding,     \* free permits of the decode semaphore
          samplers,     \* the children that owe the first one a release
          decoders,     \* the children that owe the second one a release
          dead, hung,   \* children that died, that will never move again
          stopping,     \* the replaced child the parent is waiting for, or None
          faults,       \* how many faults there were
          late,         \* history: the gates that child took a permit of since
                        \* the parent gave back for it
          lost          \* history: the gates of which a child took a permit late
                        \* and ended without giving it back

vars == <<pc, sampling, decoding, samplers, decoders, dead, hung, stopping, faults,
          late, lost>>

gates == <<sampling, decoding, samplers, decoders, late>>

Gate == {"sampling", "decoding"}

Place == {"idle", "preparing", "starting", "sampling", "sampled", "decoding",
          "post_processing", "leaving"}

TypeOK == /\ pc \in [Child -> Place]
          /\ sampling \in 0 .. MaxThreads
          /\ decoding \in 0 .. 1
          /\ samplers \subseteq Child
          /\ decoders \subseteq Child
          /\ dead \subseteq Child
          /\ hung \subseteq Child
          /\ stopping \in Child \cup {None}
          /\ faults \in 0 .. MaxFaults
          /\ late \subseteq Gate
          /\ lost \subseteq Gate

(* Mutant: a plain semaphore, which takes every release.                      *)
ReleasedUnbounded(free, limit) == free + 1

(* release() of a BoundedSemaphore: beyond the limit it raises ValueError,    *)
(* which every caller swallows.                                               *)
Released(free, limit) == IF free < limit THEN free + 1 ELSE free

Init == /\ pc = [c \in Child |-> "idle"]
        /\ sampling = MaxThreads
        /\ decoding = 1
        /\ samplers = {}
        /\ decoders = {}
        /\ dead = {}
        /\ hung = {}
        /\ stopping = None
        /\ faults = 0
        /\ late = {}
        /\ lost = {}

-----------------------------------------------------------------------------
(* The child.                                                                 *)

Moves(c) == c \notin dead \cup hung

Goes(c, from, to) == /\ Moves(c)
                     /\ pc[c] \in from
                     /\ pc' = [pc EXCEPT ![c] = to]

Rest == UNCHANGED <<dead, hung, stopping, faults, lost>>

(* Auxiliary models and the checkpoint are there, or the job failed before    *)
(* inference.                                                                 *)
Prepare(c) == /\ \E to \in {"starting", "idle"} : Goes(c, {"preparing"}, to)
              /\ UNCHANGED gates
              /\ Rest

(* A child being replaced takes a permit, and gives one back, all the same.   *)
Took(c, gate) == late' = IF c = stopping THEN late \cup {gate} ELSE late

Gave(c, gate) == late' = IF c = stopping THEN late \ {gate} ELSE late

AcquireSampling(c) == /\ sampling > 0
                      /\ Goes(c, {"starting"}, "sampling")
                      /\ sampling' = sampling - 1
                      /\ samplers' = samplers \cup {c}
                      /\ Took(c, "sampling")
                      /\ UNCHANGED <<decoding, decoders>>
                      /\ Rest

(* _release_inference_slot: at most once in a job.                            *)
ReleaseSlot(c) ==
    /\ sampling' = IF c \in samplers THEN Released(sampling, MaxThreads) ELSE sampling
    /\ samplers' = samplers \ {c}
    /\ Gave(c, "sampling")

(* progress_callback after the last step, and after that on post-processing.  *)
SamplingDone(c) == /\ Goes(c, {"sampling"}, "sampled")
                   /\ ReleaseSlot(c)
                   /\ UNCHANGED <<decoding, decoders>>
                   /\ Rest

AcquireDecode(c) == /\ decoding > 0
                    /\ Goes(c, {"sampled"}, "decoding")
                    /\ decoding' = decoding - 1
                    /\ decoders' = decoders \cup {c}
                    /\ Took(c, "decoding")
                    /\ UNCHANGED <<sampling, samplers>>
                    /\ Rest

PostProcess(c) == /\ Goes(c, {"sampling", "decoding"}, "post_processing")
                  /\ ReleaseSlot(c)
                  /\ UNCHANGED <<decoding, decoders>>
                  /\ Rest

(* Mutant: the slot is given back after the last step only.                   *)
FinishJobWithSlot(c) == /\ Goes(c, {"sampling", "decoding", "post_processing"}, "leaving")
                        /\ UNCHANGED gates
                        /\ Rest

(* The finally of start_inference, after success or an exception: first the   *)
(* slot if it is still held, then the decode permit.                          *)
FinishJob(c) == /\ Goes(c, {"sampling", "decoding", "post_processing"}, "leaving")
                /\ ReleaseSlot(c)
                /\ UNCHANGED <<decoding, decoders>>
                /\ Rest

ReleaseDecode(c) == /\ Goes(c, {"leaving"}, "idle")
                    /\ decoding' = IF c \in decoders THEN Released(decoding, 1) ELSE decoding
                    /\ decoders' = decoders \ {c}
                    /\ Gave(c, "decoding")
                    /\ UNCHANGED <<sampling, samplers>>
                    /\ Rest

Crash(c) == /\ c \notin dead
            /\ faults < MaxFaults
            /\ dead' = dead \cup {c}
            /\ faults' = faults + 1
            /\ UNCHANGED <<pc, hung, stopping, lost>>
            /\ UNCHANGED gates

Hang(c) == /\ Moves(c)
           /\ faults < MaxFaults
           /\ hung' = hung \cup {c}
           /\ faults' = faults + 1
           /\ UNCHANGED <<pc, dead, stopping, lost>>
           /\ UNCHANGED gates

-----------------------------------------------------------------------------
(* The parent.  While it joins a child it does nothing else.                  *)

Busy == {c \in Child : pc[c] # "idle"}

PostProcessing == {c \in Child : pc[c] = "post_processing"}

(* _max_jobs_in_progress_allowed, and the job that passes a head whose slot   *)
(* is downloading auxiliary models.                                           *)
RoomForJob == \/ Cardinality(Busy) < MaxThreads + Cardinality(PostProcessing)
              \/ \E c \in Child : pc[c] = "preparing"

StartInference(c) == /\ stopping = None
                     /\ c \notin dead
                     /\ pc[c] = "idle"
                     /\ RoomForJob
                     /\ pc' = [pc EXCEPT ![c] = "preparing"]
                     /\ UNCHANGED gates
                     /\ Rest

(* Mutant: what a decode still holds is forgotten.                            *)
ReleaseSamplingOnly == /\ sampling' = Released(sampling, MaxThreads)
                       /\ UNCHANGED decoding

(* _release_held_primitives: every one of them, whoever holds it.             *)
ReleaseHeldPrimitives == /\ sampling' = Released(sampling, MaxThreads)
                         /\ decoding' = Released(decoding, 1)

(* _replace_inference_process of a child that died: nothing is left to end.   *)
ReplaceDead(c) == /\ stopping = None
                  /\ c \in dead
                  /\ ReleaseHeldPrimitives
                  /\ pc' = [pc EXCEPT ![c] = "idle"]
                  /\ samplers' = samplers \ {c}
                  /\ decoders' = decoders \ {c}
                  /\ dead' = dead \ {c}
                  /\ hung' = hung \ {c}
                  /\ UNCHANGED <<stopping, faults, late, lost>>

(* The same of a child that lives: the permits are given back, then           *)
(* _end_inference_process asks it to end, waits a second and kills it.        *)
ReplaceLiving(c) == /\ stopping = None
                    /\ c \notin dead
                    /\ ReleaseHeldPrimitives
                    /\ stopping' = c
                    /\ UNCHANGED <<pc, samplers, decoders, dead, hung, late, lost>>

(* A time-out, is_stuck_on_inference or one per state, of a child that will   *)
(* not move again.                                                            *)
ReplaceStuck(c) == /\ c \in hung
                   /\ ReplaceLiving(c)
                   /\ UNCHANGED faults

(* A child that waits for a permit is silent, and a time-out hits it in the   *)
(* end; without this bound to faults only where no child is left to give one  *)
(* back, since otherwise the wait may end before.                             *)
WaitsInVain(c) == \/ pc[c] = "starting" /\ sampling = 0 /\ samplers = {}
                  \/ pc[c] = "sampled" /\ decoding = 0 /\ decoders = {}

ReplaceSilent(c) == /\ WaitsInVain(c)
                    /\ ReplaceLiving(c)
                    /\ UNCHANGED faults

(* A time-out of a child that is only slow, or waits: it goes on until it has *)
(* ended.                                                                     *)
ReplaceSlow(c) == /\ Moves(c)
                  /\ pc[c] # "idle"
                  /\ faults < MaxFaults
                  /\ faults' = faults + 1
                  /\ ReplaceLiving(c)

(* A healthy idle slot is cycled, to give memory back or to reload the pool.  *)
ReplaceIdle(c) == /\ c \notin hung
                  /\ pc[c] = "idle"
                  /\ faults < MaxFaults
                  /\ faults' = faults + 1
                  /\ ReplaceLiving(c)

(* The child has ended or was killed, and its successor starts.  What it took *)
(* late nobody gives back.                                                    *)
Ended(c) == /\ stopping = c
            /\ stopping' = None
            /\ pc' = [pc EXCEPT ![c] = "idle"]
            /\ samplers' = samplers \ {c}
            /\ decoders' = decoders \ {c}
            /\ dead' = dead \ {c}
            /\ hung' = hung \ {c}
            /\ lost' = lost \cup late
            /\ late' = {}
            /\ UNCHANGED <<sampling, decoding, faults>>

-----------------------------------------------------------------------------

Works(c) == \/ Prepare(c)
            \/ SamplingDone(c)
            \/ PostProcess(c)
            \/ FinishJob(c)
            \/ ReleaseDecode(c)

Next == \E c \in Child :
            \/ Works(c)
            \/ AcquireSampling(c)
            \/ AcquireDecode(c)
            \/ Crash(c)
            \/ Hang(c)
            \/ StartInference(c)
            \/ ReplaceDead(c)
            \/ ReplaceStuck(c)
            \/ ReplaceSilent(c)
            \/ ReplaceSlow(c)
            \/ ReplaceIdle(c)
            \/ Ended(c)

Spec == Init /\ [][Next]_vars

(* A living child works on, the parent replaces what is dead, is stuck or     *)
(* waits in vain (each pass looks at every child, process_lifecycle.py:1859), *)
(* and a permit that comes free again and again is got at last.               *)
FairSpec == /\ Spec
            /\ \A c \in Child : /\ WF_vars(Works(c))
                                /\ SF_vars(AcquireSampling(c) \/ AcquireDecode(c))
                                /\ SF_vars(ReplaceDead(c) \/ ReplaceStuck(c) \/ ReplaceSilent(c))
                                /\ WF_vars(Ended(c))

-----------------------------------------------------------------------------
(* What a gate is owed: the parent has given back for the child it is waiting *)
(* for, so that one owes only what it took since.                             *)
Owing(holders, gate) == IF gate \in late THEN holders ELSE holders \ {stopping}

Accounted(free, holders, gate, limit) == free + Cardinality(Owing(holders, gate)) >= limit

(* However children die, hang, are cycled or are ended by a time-out, at any  *)
(* point of their jobs, a permit is orphaned in one way only: a child took it *)
(* after the parent had given back for it and ended with it.  At a gate where *)
(* that never happened every permit is free or owed.  An orphaned slot is     *)
(* lost for the life of the worker (process_manager.py:497).                  *)
NoneOrphaned ==
    /\ "sampling" \in lost \/ Accounted(sampling, samplers, "sampling", MaxThreads)
    /\ "decoding" \in lost \/ Accounted(decoding, decoders, "decoding", 1)

(* A child that waits for a permit gets it or is replaced, although the one   *)
(* that holds it may die, hang or be ended, with or without it                *)
(* (process_lifecycle.py:1126).                                               *)
Waits(c) == pc[c] \in {"starting", "sampled"}

WaitersServed == \A c \in Child : Waits(c) ~> ~Waits(c)

(* process_lifecycle.py:1129-1139: the parent gives back for a replaced child *)
(* or "that concurrency is lost for the lifetime of the worker"; giving back  *)
(* without knowing what is held answers "that exact race".  So every permit   *)
(* is free or owed.                                                           *)
EveryPermitAccounted == /\ Accounted(sampling, samplers, "sampling", MaxThreads)
                        /\ Accounted(decoding, decoders, "decoding", 1)

(* process_lifecycle.py:1135-1139: a release for a child that held nothing is *)
(* "a harmless no-op rather than inflating a limit".  So the one place for    *)
(* decoding has one child in it.                                              *)
OneDecodes == Cardinality(decoders) <= 1

=============================================================================

---------------------------- MODULE PermitsProofs ----------------------------
(* No permit is orphaned but one that a child took after the parent had given *)
(* back for it, for any number of children and any limit.                     *)
EXTENDS GpuPermits, FiniteSetTheorems, TLAPS

(* A child owes a release only while it is inside.                            *)
HoldersAreInside ==
    \A c \in Child : /\ c \in samplers => pc[c] = "sampling"
                     /\ c \in decoders => pc[c] \in {"decoding", "post_processing", "leaving"}

(* Only the child the parent waits for is late, with what it still holds.     *)
LateHolds == /\ late # {} => stopping # None
             /\ "sampling" \in late => stopping \in samplers
             /\ "decoding" \in late => stopping \in decoders

Inv == TypeOK /\ HoldersAreInside /\ LateHolds /\ NoneOrphaned

(* Taking one holder out of the reckoning and giving one permit back, as far  *)
(* as the limit allows, keeps the sum at the limit.                           *)
LEMMA GivenBack ==
    ASSUME NEW free \in Nat, NEW limit \in Nat, NEW H, IsFiniteSet(H), NEW G,
           G \subseteq H, NEW c, H \ {c} \subseteq G,
           free + Cardinality(H) >= limit
    PROVE  Released(free, limit) + Cardinality(G) >= limit
<1>1. IsFiniteSet(G) /\ Cardinality(G) \in Nat /\ Cardinality(H) \in Nat
  BY FS_Subset, FS_CardinalityType
<1>2. Cardinality(H) <= Cardinality(G) + 1
  <2>1. H \subseteq G \cup {c}
    OBVIOUS
  <2>2. IsFiniteSet(G \cup {c}) /\ Cardinality(G \cup {c}) <= Cardinality(G) + 1
    BY <1>1, FS_AddElement
  <2>3. Cardinality(H) <= Cardinality(G \cup {c})
    BY <2>1, <2>2, FS_Subset
  <2>. QED  BY <1>1, <2>2, <2>3, FS_CardinalityType
<1>. QED  BY <1>1, <1>2 DEF Released

(* A holder more for a permit less.                                           *)
LEMMA Taken ==
    ASSUME NEW free \in Nat \ {0}, NEW limit \in Nat, NEW H, IsFiniteSet(H), NEW c, c \notin H,
           free + Cardinality(H) >= limit
    PROVE  free - 1 + Cardinality(H \cup {c}) >= limit
<1>1. Cardinality(H \cup {c}) = Cardinality(H) + 1 /\ Cardinality(H) \in Nat
  BY FS_AddElement, FS_CardinalityType
<1>. QED  BY <1>1

LEMMA InitInv == Init => Inv
<1>. SUFFICES ASSUME Init PROVE Inv
  OBVIOUS
<1>. USE PermitsAssumption DEF Init
<1>1. TypeOK
  BY DEF TypeOK, Place, Gate
<1>2. HoldersAreInside /\ LateHolds
  BY DEF HoldersAreInside, LateHolds
<1>3. Owing(samplers, "sampling") = {} /\ Owing(decoders, "decoding") = {}
  BY DEF Owing
<1>4. NoneOrphaned
  BY <1>3, FS_EmptySet DEF NoneOrphaned, Accounted
<1>. QED  BY <1>1, <1>2, <1>4 DEF Inv

(* What the cases below share: the sets are finite and the counts numbers.    *)
LEMMA Counted ==
    ASSUME Inv
    PROVE  /\ IsFiniteSet(Owing(samplers, "sampling")) /\ IsFiniteSet(Owing(decoders, "decoding"))
           /\ sampling \in Nat /\ decoding \in Nat /\ MaxThreads \in Nat \ {0}
BY PermitsAssumption, FS_Subset DEF Inv, TypeOK, Owing

(* A gate of which nothing that counts has changed.                           *)
LEMMA SamplingUntouched ==
    ASSUME Inv, UNCHANGED sampling, lost \subseteq lost',
           Owing(samplers, "sampling")' = Owing(samplers, "sampling")
    PROVE  "sampling" \in lost' \/ Accounted(sampling, samplers, "sampling", MaxThreads)'
BY DEF Inv, NoneOrphaned, Accounted

LEMMA DecodingUntouched ==
    ASSUME Inv, UNCHANGED decoding, lost \subseteq lost',
           Owing(decoders, "decoding")' = Owing(decoders, "decoding")
    PROVE  "decoding" \in lost' \/ Accounted(decoding, decoders, "decoding", 1)'
BY DEF Inv, NoneOrphaned, Accounted

(* A child's release of its slot, whether it held one and whether the parent  *)
(* waits for it or not.                                                       *)
LEMMA SlotReleased ==
    ASSUME Inv, NEW c \in Child, ReleaseSlot(c), UNCHANGED <<decoding, decoders, stopping, lost>>
    PROVE  /\ NoneOrphaned'
           /\ sampling' \in 0 .. MaxThreads
           /\ samplers' = samplers \ {c}
           /\ LateHolds' /\ late' \subseteq late
<1>. USE DEF ReleaseSlot, Gave
<1>1. Owing(decoders, "decoding")' = Owing(decoders, "decoding")
  BY DEF Owing
<1>2. LateHolds' /\ late' \subseteq late
  BY DEF Inv, LateHolds
<1>3. CASE c \in samplers
  <2>1. /\ Owing(samplers, "sampling")' \subseteq Owing(samplers, "sampling")
        /\ Owing(samplers, "sampling") \ {c} \subseteq Owing(samplers, "sampling")'
    BY DEF Owing
  <2>2. sampling' = Released(sampling, MaxThreads)
    BY <1>3
  <2>3. "sampling" \in lost' \/ Accounted(sampling, samplers, "sampling", MaxThreads)'
    BY <2>1, <2>2, Counted, GivenBack DEF Inv, NoneOrphaned, Accounted
  <2>4. sampling' \in 0 .. MaxThreads
    BY <2>2, Counted DEF Inv, TypeOK, Released
  <2>. QED  BY <1>1, <1>2, <2>3, <2>4, DecodingUntouched DEF NoneOrphaned
<1>4. CASE c \notin samplers
  <2>1. Owing(samplers, "sampling")' = Owing(samplers, "sampling") /\ UNCHANGED sampling
    BY <1>4 DEF Owing, Inv, LateHolds
  <2>. QED  BY <1>1, <1>2, <1>4, <2>1, SamplingUntouched, DecodingUntouched
            DEF NoneOrphaned, Inv, TypeOK
<1>. QED  BY <1>3, <1>4

LEMMA WorksKeeps == ASSUME Inv, NEW c \in Child, Works(c) PROVE Inv'
<1>. USE DEF Goes, Moves, Rest, gates, Place, Gate
<1>1. CASE Prepare(c)
  <2>1. /\ Owing(samplers, "sampling")' = Owing(samplers, "sampling")
        /\ Owing(decoders, "decoding")' = Owing(decoders, "decoding")
    BY <1>1 DEF Prepare, Owing
  <2>2. NoneOrphaned'
    BY <1>1, <2>1, SamplingUntouched, DecodingUntouched DEF Prepare, NoneOrphaned
  <2>. QED  BY <1>1, <2>2 DEF Prepare, Inv, TypeOK, HoldersAreInside, LateHolds
<1>2. CASE SamplingDone(c) \/ PostProcess(c) \/ FinishJob(c)
  <2>1. ReleaseSlot(c) /\ UNCHANGED <<decoding, decoders, stopping, dead, hung, faults, lost>>
    BY <1>2 DEF SamplingDone, PostProcess, FinishJob
  <2>2. /\ NoneOrphaned' /\ sampling' \in 0 .. MaxThreads /\ samplers' = samplers \ {c}
        /\ LateHolds' /\ late' \subseteq late
    BY <2>1, SlotReleased
  <2>3. TypeOK'
    BY <1>2, <2>1, <2>2 DEF SamplingDone, PostProcess, FinishJob, Inv, TypeOK
  <2>4. HoldersAreInside'
    BY <1>2, <2>1, <2>2 DEF SamplingDone, PostProcess, FinishJob, Inv, TypeOK, HoldersAreInside
  <2>. QED  BY <2>2, <2>3, <2>4 DEF Inv
<1>3. CASE ReleaseDecode(c)
  <2>. USE DEF ReleaseDecode, Gave
  <2>1. Owing(samplers, "sampling")' = Owing(samplers, "sampling")
    BY <1>3 DEF Owing
  <2>2. /\ "decoding" \in lost' \/ Accounted(decoding, decoders, "decoding", 1)'
        /\ decoding' \in 0 .. 1
    <3>1. CASE c \in decoders
      <4>1. decoding' = Released(decoding, 1)
        BY <1>3, <3>1
      <4>2. /\ Owing(decoders, "decoding")' \subseteq Owing(decoders, "decoding")
            /\ Owing(decoders, "decoding") \ {c} \subseteq Owing(decoders, "decoding")'
        BY <1>3 DEF Owing
      <4>3. "decoding" \in lost' \/ Accounted(decoding, decoders, "decoding", 1)'
        BY <1>3, <4>1, <4>2, Counted, GivenBack DEF Inv, NoneOrphaned, Accounted
      <4>4. decoding' \in 0 .. 1
        BY <4>1, Counted DEF Inv, TypeOK, Released
      <4>. QED  BY <4>3, <4>4
    <3>2. CASE c \notin decoders
      <4>1. Owing(decoders, "decoding")' = Owing(decoders, "decoding") /\ UNCHANGED decoding
        BY <1>3, <3>2 DEF Owing, Inv, LateHolds
      <4>. QED  BY <1>3, <4>1, DecodingUntouched DEF Inv, TypeOK
    <3>. QED  BY <3>1, <3>2
  <2>3. NoneOrphaned'
    BY <1>3, <2>1, <2>2, SamplingUntouched DEF NoneOrphaned
  <2>4. TypeOK'
    BY <1>3, <2>2 DEF Inv, TypeOK
  <2>5. HoldersAreInside'
    BY <1>3 DEF Inv, TypeOK, HoldersAreInside
  <2>6. LateHolds'
    BY <1>3 DEF Inv, LateHolds
  <2>. QED  BY <2>3, <2>4, <2>5, <2>6 DEF Inv
<1>. QED  BY <1>1, <1>2, <1>3 DEF Works

(* Who takes a permit owes it, also while the parent waits for it.            *)
LEMMA GatesKeep ==
    ASSUME Inv, NEW c \in Child, AcquireSampling(c) \/ AcquireDecode(c)
    PROVE  Inv'
<1>. USE DEF Goes, Moves, Rest, Place, Gate, Took
<1>1. CASE AcquireSampling(c)
  <2>1. c \notin samplers
    BY <1>1 DEF AcquireSampling, Inv, HoldersAreInside
  <2>2. c \notin Owing(samplers, "sampling")
        /\ Owing(samplers, "sampling")' = Owing(samplers, "sampling") \cup {c}
    BY <1>1, <2>1 DEF AcquireSampling, Inv, LateHolds, Owing
  <2>3. "sampling" \in lost' \/ Accounted(sampling, samplers, "sampling", MaxThreads)'
    <3>1. sampling \in Nat \ {0} /\ sampling' = sampling - 1 /\ UNCHANGED lost
      BY <1>1, Counted DEF AcquireSampling
    <3>2. ASSUME Accounted(sampling, samplers, "sampling", MaxThreads)
          PROVE  sampling - 1 + Cardinality(Owing(samplers, "sampling") \cup {c}) >= MaxThreads
      BY <2>2, <3>1, <3>2, Counted, Taken DEF Accounted
    <3>. QED  BY <2>2, <3>1, <3>2 DEF Inv, NoneOrphaned, Accounted
  <2>4. Owing(decoders, "decoding")' = Owing(decoders, "decoding")
    BY <1>1 DEF AcquireSampling, Owing
  <2>5. NoneOrphaned'
    BY <1>1, <2>3, <2>4, DecodingUntouched DEF AcquireSampling, NoneOrphaned
  <2>6. TypeOK'
    BY <1>1, Counted DEF AcquireSampling, Inv, TypeOK
  <2>7. LateHolds'
    BY <1>1, PermitsAssumption DEF AcquireSampling, Inv, LateHolds
  <2>. QED  BY <1>1, <2>5, <2>6, <2>7 DEF AcquireSampling, Inv, TypeOK, HoldersAreInside
<1>2. CASE AcquireDecode(c)
  <2>1. c \notin decoders
    BY <1>2 DEF AcquireDecode, Inv, HoldersAreInside
  <2>2. c \notin Owing(decoders, "decoding")
        /\ Owing(decoders, "decoding")' = Owing(decoders, "decoding") \cup {c}
    BY <1>2, <2>1 DEF AcquireDecode, Inv, LateHolds, Owing
  <2>3. "decoding" \in lost' \/ Accounted(decoding, decoders, "decoding", 1)'
    <3>1. decoding \in Nat \ {0} /\ decoding' = decoding - 1 /\ UNCHANGED lost
      BY <1>2, Counted DEF AcquireDecode
    <3>2. ASSUME Accounted(decoding, decoders, "decoding", 1)
          PROVE  decoding - 1 + Cardinality(Owing(decoders, "decoding") \cup {c}) >= 1
      BY <2>2, <3>1, <3>2, Counted, Taken DEF Accounted
    <3>. QED  BY <2>2, <3>1, <3>2 DEF Inv, NoneOrphaned, Accounted
  <2>4. Owing(samplers, "sampling")' = Owing(samplers, "sampling")
    BY <1>2 DEF AcquireDecode, Owing
  <2>5. NoneOrphaned'
    BY <1>2, <2>3, <2>4, SamplingUntouched DEF AcquireDecode, NoneOrphaned
  <2>6. TypeOK'
    BY <1>2, Counted DEF AcquireDecode, Inv, TypeOK
  <2>7. LateHolds'
    BY <1>2, PermitsAssumption DEF AcquireDecode, Inv, LateHolds
  <2>. QED  BY <1>2, <2>5, <2>6, <2>7 DEF AcquireDecode, Inv, TypeOK, HoldersAreInside
<1>. QED  BY <1>1, <1>2

(* The blind release for a child that is out of the reckoning from then on.   *)
LEMMA ReleasedFor ==
    ASSUME Inv, NEW c \in Child, stopping = None, ReleaseHeldPrimitives, UNCHANGED lost,
           Owing(samplers, "sampling")' = samplers \ {c},
           Owing(decoders, "decoding")' = decoders \ {c}
    PROVE  NoneOrphaned' /\ sampling' \in 0 .. MaxThreads /\ decoding' \in 0 .. 1
<1>1. Owing(samplers, "sampling") = samplers /\ Owing(decoders, "decoding") = decoders
  BY PermitsAssumption DEF Inv, TypeOK, Owing
<1>2. "sampling" \in lost' \/ Accounted(sampling, samplers, "sampling", MaxThreads)'
  BY <1>1, Counted, GivenBack DEF Inv, NoneOrphaned, Accounted, ReleaseHeldPrimitives
<1>3. "decoding" \in lost' \/ Accounted(decoding, decoders, "decoding", 1)'
  BY <1>1, Counted, GivenBack DEF Inv, NoneOrphaned, Accounted, ReleaseHeldPrimitives
<1>4. sampling' \in 0 .. MaxThreads /\ decoding' \in 0 .. 1
  BY Counted DEF ReleaseHeldPrimitives, Released, Inv, TypeOK
<1>. QED  BY <1>2, <1>3, <1>4 DEF NoneOrphaned

LEMMA ReplacementKeeps ==
    ASSUME Inv, NEW c \in Child,
           \/ ReplaceDead(c)
           \/ ReplaceStuck(c) \/ ReplaceSilent(c) \/ ReplaceSlow(c) \/ ReplaceIdle(c)
           \/ Ended(c)
    PROVE  Inv'
<1>. USE PermitsAssumption DEF Place, Gate
<1>1. CASE ReplaceDead(c)
  <2>1. Owing(samplers, "sampling")' = samplers \ {c} /\ Owing(decoders, "decoding")' = decoders \ {c}
    BY <1>1 DEF ReplaceDead, Owing, Inv, TypeOK, LateHolds
  <2>2. NoneOrphaned' /\ sampling' \in 0 .. MaxThreads /\ decoding' \in 0 .. 1
    BY <1>1, <2>1, ReleasedFor DEF ReplaceDead
  <2>. QED  BY <1>1, <2>2 DEF ReplaceDead, Inv, TypeOK, HoldersAreInside, LateHolds
<1>2. CASE ReplaceStuck(c) \/ ReplaceSilent(c) \/ ReplaceSlow(c) \/ ReplaceIdle(c)
  <2>1. ReplaceLiving(c) /\ faults' \in 0 .. MaxFaults
    BY <1>2 DEF ReplaceStuck, ReplaceSilent, ReplaceSlow, ReplaceIdle, Inv, TypeOK
  \* Before, the parent waited for none, so nothing was late.
  <2>2. late = {} /\ late' = {}
    BY <2>1 DEF ReplaceLiving, Inv, LateHolds
  <2>3. Owing(samplers, "sampling")' = samplers \ {c} /\ Owing(decoders, "decoding")' = decoders \ {c}
    BY <2>1, <2>2 DEF ReplaceLiving, Owing
  <2>4. NoneOrphaned' /\ sampling' \in 0 .. MaxThreads /\ decoding' \in 0 .. 1
    BY <2>1, <2>3, ReleasedFor DEF ReplaceLiving
  <2>. QED  BY <2>1, <2>2, <2>4 DEF ReplaceLiving, Inv, TypeOK, HoldersAreInside, LateHolds
<1>3. CASE Ended(c)
  <2>1. "sampling" \notin late => Owing(samplers, "sampling")' = Owing(samplers, "sampling")
    BY <1>3 DEF Ended, Owing, Inv, TypeOK
  <2>2. "decoding" \notin late => Owing(decoders, "decoding")' = Owing(decoders, "decoding")
    BY <1>3 DEF Ended, Owing, Inv, TypeOK
  <2>3. lost' = lost \cup late
    BY <1>3 DEF Ended
  <2>4. NoneOrphaned'
    BY <1>3, <2>1, <2>2, <2>3, SamplingUntouched, DecodingUntouched DEF Ended, NoneOrphaned
  <2>. QED  BY <1>3, <2>4 DEF Ended, Inv, TypeOK, HoldersAreInside, LateHolds
<1>. QED  BY <1>1, <1>2, <1>3

LEMMA FaultsKeep ==
    ASSUME Inv, NEW c \in Child, Crash(c) \/ Hang(c) \/ StartInference(c)
    PROVE  Inv'
<1>. USE PermitsAssumption DEF Place, Crash, Hang, StartInference, gates, Rest, Moves
<1>1. NoneOrphaned'
  BY DEF Inv, NoneOrphaned, Accounted, Owing
<1>2. TypeOK'
  BY DEF Inv, TypeOK
<1>. QED  BY <1>1, <1>2 DEF Inv, TypeOK, HoldersAreInside, LateHolds

(* The inductive invariant: who owes a release is inside the section it       *)
(* guards, only the child the parent waits for is late, and with what it      *)
(* holds, and no permit is missing that was not taken late.                   *)
THEOREM PermitsInv == Spec => []Inv
<1>1. Inv /\ UNCHANGED vars => Inv'
  BY DEF vars, Inv, TypeOK, HoldersAreInside, LateHolds, NoneOrphaned, Accounted, Owing
<1>2. Inv /\ [Next]_vars => Inv'
  BY <1>1, WorksKeeps, GatesKeep, ReplacementKeeps, FaultsKeep DEF Next
<1>. QED  BY InitInv, <1>2, PTL DEF Spec

(* Every variable stays in its type: no count leaves its limit, however often *)
(* the parent and the child give back the same permit.                        *)
THEOREM TypeCorrect == Spec => []TypeOK
<1>1. Inv => TypeOK
  BY DEF Inv
<1>. QED  BY <1>1, PermitsInv, PTL

(* However children die, hang, are cycled or are ended by a time-out, slow or *)
(* not, a permit is missing only where a child took one late and ended.       *)
THEOREM PermitsComeBack == Spec => []NoneOrphaned
<1>1. Inv => NoneOrphaned
  BY DEF Inv
<1>. QED  BY <1>1, PermitsInv, PTL

=============================================================================

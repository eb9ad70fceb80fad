--------------------------- MODULE LifecycleProofs ---------------------------
(* ProcessLifecycle's safety invariants for any number of slots and any      *)
(* limits.  The inductive invariant says of each slot and of the safety       *)
(* process how the breakers' counts follow its failures, and that the one      *)
(* flag which undoes another is only ever set with it.                          *)
EXTENDS ProcessLifecycle, TLAPS

SlotType == [view: View, child: Child, mail: Mail,
             replacements: 0 .. MaxReplacements + 1,
             startFailures: 0 .. MaxStartFailures,
             loadFailed: BOOLEAN, quarantined: BOOLEAN, faults: Nat]

Lossed == {"dead", "silent"}

\* A child that was lost crashed or hung, and that is counted, or it failed to
\* load, which is noted or still to be read.
Excused(p) == p.loadFailed \/ FailureUnread(p)

\* A slot is charged once for each failure, and once more by a soft reset.
SlotOK(p) ==
    /\ p \in SlotType
    /\ p.child = "starting" => p.mail = <<>>
    /\ p.child = "busy" => Len(p.mail) <= MaxMail
    /\ p.replacements <= p.faults + 1
    /\ p.startFailures <= p.faults + 1
    /\ p.child \in Lossed /\ ~Excused(p) => p.replacements <= p.faults /\ p.startFailures <= p.faults
    /\ p.quarantined => p.faults >= MaxReplacements \/ p.faults >= MaxStartFailures - 1

SafetyType == [view: View, child: Child \ {Absent}, mail: Mail, told: BOOLEAN,
               owned: BOOLEAN, onGpu: BOOLEAN, replace: BOOLEAN, ending: BOOLEAN,
               deliberate: BOOLEAN, paused: BOOLEAN, recoveries: Nat, faults: Nat]

\* A safety process is only told to end for its replacement, and only a failure
\* not yet counted leads to a replacement that is counted.
SafetyOK(z) ==
    /\ z \in SafetyType
    /\ z.child = "starting" => z.mail = <<>>
    /\ z.child = "idle" => Len(z.mail) <= MaxMail
    /\ z.owned \/ z.told
    /\ z.told => z.replace
    /\ z.replace \/ z.onGpu = ~z.paused
    /\ z.recoveries <= z.faults
    /\ z.replace /\ ~z.deliberate => z.recoveries + 1 <= z.faults
    /\ z.child \in Lossed /\ ~z.told /\ ~z.deliberate => z.recoveries + 1 <= z.faults

StrayType == [child: Live, told: BOOLEAN, owned: BOOLEAN, onGpu: BOOLEAN]
StraysOK == strays \subseteq StrayType /\ \A z \in strays : z.owned \/ z.told
SlotsOK == slot \in [Slot -> SlotType] /\ \A s \in Slot : SlotOK(slot[s])
RestOK == /\ recovered \in BOOLEAN /\ halted \in BOOLEAN
          /\ disruptions \in 0 .. MaxDisruptions /\ requests \in 0 .. MaxRequests

Inv == SlotsOK /\ SafetyOK(safety) /\ StraysOK /\ RestOK

-----------------------------------------------------------------------------
(* What the operators preserve                                               *)

LEMMA SeqFacts ==
    ASSUME NEW q \in Seq(View), NEW v \in View
    PROVE  /\ Append(q, v) \in Seq(View) /\ Len(Append(q, v)) = Len(q) + 1
           /\ <<>> \in Seq(View) /\ Len(<<>>) = 0
           /\ q # <<>> => Head(q) \in View /\ Tail(q) \in Seq(View) /\ Len(Tail(q)) = Len(q) - 1
           /\ \A n \in 0 .. Len(q) : SubSeq(q, 1, n) \in Seq(View) /\ Len(SubSeq(q, 1, n)) = n
  OBVIOUS

LEMMA Members ==
    /\ <<>> \in Mail
    /\ {"PROCESS_STARTING", "PROCESS_ENDING", "WAITING_FOR_JOB", "BUSY", "PRELOADING_FAILED"} \subseteq View
    /\ {"starting", "idle", "busy", "silent", "dead", Absent} \subseteq Child
    /\ MaxReplacements \in Nat \ {0} /\ MaxStartFailures \in Nat \ {0, 1} /\ MaxMail \in Nat \ {0}
    /\ MaxDisruptions \in Nat /\ MaxRequests \in Nat
  BY LifecycleAssumption DEF Mail, View, Child, Live

LEMMA StartedOK ==
    ASSUME NEW p, SlotOK(p)
    PROVE  SlotOK(Started(p))
  BY Members DEF SlotOK, SlotType, Started, Lossed

LEMMA RetiredOK ==
    ASSUME NEW p, SlotOK(p)
    PROVE  SlotOK(Retired(p))
  BY Members DEF SlotOK, SlotType, Retired, Lossed, Absent

LEMMA ProvenOK ==
    ASSUME NEW p, SlotOK(p)
    PROVE  SlotOK(Proven(p)) /\ Proven(p).child = p.child
  <1> DEFINE q == [p EXCEPT !.startFailures = 0]
  <1>1. SlotOK(q) /\ q.child = p.child
    BY Members DEF SlotOK, SlotType, Lossed, Excused, FailureUnread
  <1> QED
    BY <1>1 DEF Proven

LEMMA ChargedFacts ==
    ASSUME NEW p \in SlotType
    PROVE  /\ Charged(p) \in SlotType
           /\ Charged(p).replacements <= p.replacements + 1
           /\ Charged(p).startFailures <= p.startFailures + 1
           /\ Charged(p).faults = IF FailureUnread(p) THEN p.faults + 1 ELSE p.faults
           /\ Charged(p).quarantined = p.quarantined
           /\ p.replacements = 0 => Charged(p).replacements = 1
           /\ p.startFailures = 0 => Charged(p).startFailures \in {0, 1}
  <1> DEFINE r == IF p.replacements > MaxReplacements THEN p.replacements ELSE p.replacements + 1
             t == IF p.view # "PROCESS_STARTING" THEN 0
                  ELSE IF p.startFailures = MaxStartFailures THEN p.startFailures
                  ELSE p.startFailures + 1
             f == IF FailureUnread(p) THEN p.faults + 1 ELSE p.faults
  <1>0. p.replacements \in 0 .. MaxReplacements + 1 /\ p.startFailures \in 0 .. MaxStartFailures
        /\ p.faults \in Nat
    BY DEF SlotType
  <1>1. r \in 0 .. MaxReplacements + 1 /\ r <= p.replacements + 1
        /\ (p.replacements = 0 => r = 1)
    BY <1>0, Members
  <1>2. t \in 0 .. MaxStartFailures /\ t <= p.startFailures + 1
        /\ (p.startFailures = 0 => t \in {0, 1})
    BY <1>0, Members
  <1>3. f \in Nat
    BY <1>0
  <1> HIDE DEF r, t, f
  <1> DEFINE c == [p EXCEPT !.faults = f, !.replacements = r, !.startFailures = t]
  <1>4. c \in SlotType /\ c.replacements = r /\ c.startFailures = t
        /\ c.faults = f /\ c.quarantined = p.quarantined
    BY <1>1, <1>2, <1>3 DEF SlotType
  <1>5. Charged(p) = c
    BY DEF Charged, r, t, f, SlotType
  <1> HIDE DEF c
  <1> QED
    BY <1>1, <1>2, <1>4, <1>5 DEF f

\* The end of a replacement, whichever way the counts were made.
LEMMA NewChild ==
    ASSUME NEW p \in SlotType, p.replacements <= p.faults + 1, p.startFailures <= p.faults + 1,
           p.quarantined => p.faults >= MaxReplacements \/ p.faults >= MaxStartFailures - 1
    PROVE  LET c == [p EXCEPT !.loadFailed = FALSE]
           IN /\ SlotOK(Started(c))
              /\ Tripped(c) => SlotOK([Retired(c) EXCEPT !.quarantined = TRUE])
  <1> DEFINE c == [p EXCEPT !.loadFailed = FALSE]
  <1>1. c \in SlotType /\ c.replacements = p.replacements /\ c.startFailures = p.startFailures
        /\ c.faults = p.faults /\ c.quarantined = p.quarantined
    BY DEF SlotType
  <1> HIDE DEF c
  <1>2. SlotOK(Started(c))
    BY <1>1, Members DEF SlotOK, SlotType, Started, Lossed
  <1> DEFINE q == [Retired(c) EXCEPT !.quarantined = TRUE]
  <1>3. q \in SlotType /\ q.child = "none" /\ q.replacements = c.replacements
        /\ q.startFailures = c.startFailures /\ q.faults = c.faults
    BY <1>1, Members DEF SlotType, Retired, Absent
  <1>4. ASSUME Tripped(c) PROVE c.faults >= MaxReplacements \/ c.faults >= MaxStartFailures - 1
    BY <1>1, <1>4, Members DEF Tripped, SlotType
  <1>5. Tripped(c) => SlotOK(q)
    BY <1>1, <1>3, <1>4 DEF SlotOK, Lossed
  <1> QED
    BY <1>2, <1>5 DEF c

\* Only a child that was lost is replaced on the slot's account.
LEMMA ReplacedOK ==
    ASSUME NEW p, SlotOK(p), p.child \in Lossed, NEW oom \in BOOLEAN
    PROVE  SlotOK(Replaced(p, oom))
  <1> DEFINE judged == IF Blameless(p, oom) THEN p ELSE Charged(p)
  <1>1. p \in SlotType /\ p.replacements <= p.faults + 1 /\ p.startFailures <= p.faults + 1
        /\ (p.quarantined => p.faults >= MaxReplacements \/ p.faults >= MaxStartFailures - 1)
        /\ (~Excused(p) => p.replacements <= p.faults /\ p.startFailures <= p.faults)
    BY DEF SlotOK
  <1>2. /\ judged \in SlotType
        /\ judged.replacements <= judged.faults + 1 /\ judged.startFailures <= judged.faults + 1
        /\ (judged.quarantined =>
              judged.faults >= MaxReplacements \/ judged.faults >= MaxStartFailures - 1)
    <2>0. p.replacements \in Nat /\ p.startFailures \in Nat /\ p.faults \in Nat
      BY <1>1, Members DEF SlotType
    <2>1. CASE Blameless(p, oom)
      BY <1>1, <2>0, <2>1
    <2>2. CASE ~Blameless(p, oom)
      <3>1. Charged(p) \in SlotType
        BY <1>1, ChargedFacts
      <3>2. Charged(p).replacements \in Nat /\ Charged(p).startFailures \in Nat
        BY <3>1, Members DEF SlotType
      <3>3. /\ Charged(p).replacements <= p.replacements + 1
            /\ Charged(p).startFailures <= p.startFailures + 1
            /\ Charged(p).faults = (IF FailureUnread(p) THEN p.faults + 1 ELSE p.faults)
            /\ Charged(p).quarantined = p.quarantined
        BY <1>1, ChargedFacts
      <3>4. ~FailureUnread(p) => p.replacements <= p.faults /\ p.startFailures <= p.faults
        BY <1>1, <2>2 DEF Blameless, Excused
      <3>5. /\ Charged(p).replacements <= Charged(p).faults + 1
            /\ Charged(p).startFailures <= Charged(p).faults + 1
            /\ Charged(p).faults \in Nat /\ Charged(p).faults >= p.faults
        BY <1>1, <2>0, <3>2, <3>3, <3>4
      <3>6. Charged(p).quarantined =>
               Charged(p).faults >= MaxReplacements \/ Charged(p).faults >= MaxStartFailures - 1
        BY <1>1, <2>0, <3>3, <3>5, Members
      <3> QED
        BY <2>2, <3>1, <3>5, <3>6
    <2> QED
      BY <2>1, <2>2
  <1> HIDE DEF judged
  <1>3. LET c == [judged EXCEPT !.loadFailed = FALSE]
        IN /\ SlotOK(Started(c))
           /\ Tripped(c) => SlotOK([Retired(c) EXCEPT !.quarantined = TRUE])
    BY <1>1, <1>2, NewChild
  <1> QED
    BY <1>3 DEF Replaced, judged

LEMMA RebuiltOK ==
    ASSUME NEW p, SlotOK(p)
    PROVE  SlotOK(Rebuilt(p))
  <1> DEFINE f == Forgiven(p)
             c == Charged(f)
             d == [c EXCEPT !.loadFailed = FALSE]
  <1>1. f \in SlotType /\ f.replacements = 0 /\ f.startFailures = 0 /\ ~f.quarantined
        /\ f.faults = 0 /\ f.child = p.child /\ f.mail = p.mail
    <2>1. p \in SlotType /\ 0 \in 0 .. MaxReplacements + 1 /\ 0 \in 0 .. MaxStartFailures
      BY Members DEF SlotOK
    <2> QED
      BY <2>1 DEF SlotType, Forgiven
  <1>2. SlotOK(f)
    BY <1>1, Members DEF SlotOK
  <1> HIDE DEF f
  <1>3. c \in SlotType /\ c.replacements = 1 /\ c.startFailures \in {0, 1} /\ ~c.quarantined
        /\ c.faults \in {0, 1}
    BY <1>1, ChargedFacts
  <1> HIDE DEF c
  <1>4. d.replacements = 1 /\ d.startFailures \in {0, 1}
    BY <1>3 DEF SlotType
  <1>5. ~Tripped(d)
    BY <1>4, Members DEF Tripped
  <1>6. SlotOK(Started(d)) /\ SlotOK(Started([f EXCEPT !.loadFailed = FALSE]))
    <2>1. c.replacements <= c.faults + 1 /\ c.startFailures <= c.faults + 1
      BY <1>3
    <2>2. f.replacements <= f.faults + 1 /\ f.startFailures <= f.faults + 1
      BY <1>1
    <2>3. SlotOK(Started(d))
      BY <1>3, <2>1, NewChild DEF d
    <2> QED
      BY <1>1, <2>2, <2>3, NewChild
  <1>7. SlotOK(Replaced(f, FALSE))
    BY <1>5, <1>6 DEF Replaced, c, d
  <1>8. SlotOK(Started(f))
    BY <1>2, StartedOK
  <1> QED
    BY <1>2, <1>7, <1>8 DEF Rebuilt, f

-----------------------------------------------------------------------------
(* The safety process                                                        *)

LEMMA EndSafetyOK ==
    ASSUME NEW z, SafetyOK(z), z.replace
    PROVE  SafetyOK(EndSafety(z)) /\ EndSafety(z).replace
  <1> DEFINE e == [z EXCEPT !.told = TRUE, !.view = "PROCESS_ENDING", !.owned = FALSE]
  <1>1. SafetyOK(e) /\ e.replace
    BY Members DEF SafetyOK, SafetyType
  <1> QED
    BY <1>1 DEF EndSafety

LEMMA StartSafetyOK ==
    ASSUME NEW z, SafetyOK(z), z.replace
    PROVE  SafetyOK(StartSafety(z))
  <1> DEFINE n == IF z.deliberate THEN z.recoveries ELSE z.recoveries + 1
             e == [z EXCEPT !.view = "PROCESS_STARTING", !.child = "starting", !.mail = <<>>,
                            !.told = FALSE, !.owned = TRUE, !.onGpu = ~z.paused,
                            !.replace = FALSE, !.ending = FALSE, !.deliberate = FALSE,
                            !.recoveries = n]
  <1>1. z \in SafetyType /\ z.recoveries \in Nat /\ z.faults \in Nat
    BY DEF SafetyOK, SafetyType
  <1>2. n \in Nat /\ n <= z.faults
    BY <1>1 DEF SafetyOK
  <1> HIDE DEF n
  <1>3. e \in SafetyType
    BY <1>1, <1>2, Members DEF SafetyType, Absent
  <1>4. /\ e.child = "starting" /\ e.mail = <<>> /\ ~e.told /\ e.owned /\ e.onGpu = ~e.paused
        /\ ~e.replace /\ e.recoveries = n /\ e.faults = z.faults
    BY <1>1 DEF SafetyType
  <1>5. e = StartSafety(z)
    BY DEF StartSafety, n
  <1> HIDE DEF e
  <1> QED
    BY <1>2, <1>3, <1>4, <1>5 DEF SafetyOK, Lossed

LEMMA EndingOK ==
    ASSUME NEW z, SafetyOK(z)
    PROVE  SafetyOK([z EXCEPT !.ending = TRUE]) /\ [z EXCEPT !.ending = TRUE].replace = z.replace
  BY DEF SafetyOK, SafetyType

LEMMA ReplaceAllOK ==
    ASSUME NEW z, SafetyOK(z)
    PROVE  SafetyOK(ReplaceAllSafety(z))
  BY EndSafetyOK, StartSafetyOK, EndingOK DEF ReplaceAllSafety, Succeeds

LEMMA LeftBehindOK ==
    ASSUME NEW z, SafetyOK(z)
    PROVE  LeftBehind(z) \subseteq StrayType /\ \A x \in LeftBehind(z) : x.owned \/ x.told
  <1> DEFINE r == [child |-> z.child, told |-> z.told, owned |-> z.owned, onGpu |-> z.onGpu]
  <1>1. z.told \in BOOLEAN /\ z.owned \in BOOLEAN /\ z.onGpu \in BOOLEAN /\ (z.owned \/ z.told)
    BY DEF SafetyOK, SafetyType
  <1>2. z.child \in Live => r \in StrayType
    BY <1>1 DEF StrayType
  <1> QED
    BY <1>1, <1>2 DEF LeftBehind

LEMMA ReplaceSafetyOK ==
    ASSUME NEW z, SafetyOK(z), StraysOK, ReplaceSafety(z)
    PROVE  SafetyOK(safety') /\ StraysOK'
  BY ReplaceAllOK, LeftBehindOK DEF ReplaceSafety, StraysOK

\* A failure that was not told to the process is one not counted yet.
LEMMA InitiatedOK ==
    ASSUME NEW z, SafetyOK(z), z.child \in Lossed, ~z.told
    PROVE  SafetyOK(InitiateSafetyReplacement(z))
  BY DEF SafetyOK, SafetyType, InitiateSafetyReplacement, Lossed

\* One that was told to end is already being replaced.
LEMMA InitiatedAgainOK ==
    ASSUME NEW z, SafetyOK(z), z.child \in Lossed
    PROVE  SafetyOK(InitiateSafetyReplacement(z))
  <1>1. CASE z.told
    <2>1. z.replace /\ z \in SafetyType
      BY <1>1 DEF SafetyOK
    <2>2. InitiateSafetyReplacement(z) = z
      BY <2>1 DEF InitiateSafetyReplacement, SafetyType
    <2> QED
      BY <2>2
  <1> QED
    BY <1>1, InitiatedOK DEF SafetyOK, SafetyType

LEMMA DeliberateOK ==
    ASSUME NEW z, SafetyOK(z)
    PROVE  /\ SafetyOK(PauseOrRestore(z))
           /\ SafetyOK([z EXCEPT !.recoveries = 0, !.faults = 0,
                                 !.deliberate = TRUE, !.replace = TRUE])
  <1> DEFINE r == [z EXCEPT !.recoveries = 0, !.faults = 0, !.deliberate = TRUE, !.replace = TRUE]
  <1>1. r \in SafetyType
    BY DEF SafetyOK, SafetyType
  <1>2. r.child = z.child /\ r.mail = z.mail /\ r.owned = z.owned /\ r.told = z.told /\ r.replace
        /\ r.deliberate /\ r.recoveries = 0 /\ r.faults = 0
    BY DEF SafetyOK, SafetyType
  <1>3. SafetyOK(r)
    <2> HIDE DEF r
    <2> QED
      BY <1>1, <1>2 DEF SafetyOK
  <1> DEFINE q == PauseOrRestore(z)
  <1>4. q \in SafetyType
    BY DEF SafetyOK, SafetyType, PauseOrRestore
  <1>5. q.child = z.child /\ q.mail = z.mail /\ q.owned = z.owned /\ q.told = z.told /\ q.replace
        /\ q.deliberate /\ q.recoveries = z.recoveries /\ q.faults = z.faults
    BY DEF SafetyOK, SafetyType, PauseOrRestore
  <1>6. SafetyOK(q)
    <2> HIDE DEF q
    <2> QED
      BY <1>4, <1>5 DEF SafetyOK
  <1> QED
    BY <1>3, <1>6

-----------------------------------------------------------------------------
(* The steps                                                                 *)

LEMMA OneSlot ==
    ASSUME SlotsOK, NEW s \in Slot, NEW p, SlotOK(p), slot' = [slot EXCEPT ![s] = p]
    PROVE  SlotsOK'
  <1>1. p \in SlotType
    BY DEF SlotOK
  <1> QED
    BY <1>1 DEF SlotsOK

LEMMA EverySlot ==
    ASSUME slot' = [s \in Slot |-> slot'[s]], \A s \in Slot : SlotOK(slot'[s])
    PROVE  SlotsOK'
  <1>1. \A s \in Slot : slot'[s] \in SlotType
    BY DEF SlotOK
  <1> QED
    BY <1>1 DEF SlotsOK

\* Messages appended to what is unread.
LEMMA SaidOK ==
    ASSUME NEW p, SlotOK(p), NEW child \in Child, NEW view \in View, Len(p.mail) <= MaxMail,
           child \in Lossed => p.child \notin Lossed,
           child \notin {"starting", "dead", "silent"},
           child = "busy" => Len(p.mail) < MaxMail
    PROVE  SlotOK(Said(p, child, view))
  <1> DEFINE m == Append(p.mail, view)
             q == [p EXCEPT !.child = child, !.mail = m]
  <1>1. p \in SlotType /\ p.mail \in Seq(View)
    BY DEF SlotOK, SlotType, Mail
  <1>2. m \in Mail /\ Len(m) = Len(p.mail) + 1
    BY <1>1, SeqFacts, Members DEF Mail
  <1> HIDE DEF m
  <1>3. q \in SlotType /\ q.child = child /\ q.mail = m /\ q.replacements = p.replacements
        /\ q.startFailures = p.startFailures /\ q.faults = p.faults /\ q.quarantined = p.quarantined
    BY <1>1, <1>2 DEF SlotType
  <1>4. SlotOK(q)
    <2> HIDE DEF q
    <2>1. child = "busy" => Len(m) <= MaxMail
      BY <1>1, <1>2, SeqFacts, Members
    <2> QED
      BY <1>3, <2>1 DEF SlotOK, Lossed
  <1> QED
    BY <1>4 DEF Said, m

LEMMA LostOK ==
    ASSUME NEW p, SlotOK(p), NEW child \in Lossed, NEW q \in Lost(p, child)
    PROVE  SlotOK(q)
  <1>1. p \in SlotType /\ p.mail \in Seq(View) /\ Len(p.mail) <= MaxMail + 1 /\ p.faults \in Nat
        /\ p.replacements \in Int /\ p.startFailures \in Int
    BY Members DEF SlotOK, SlotType, Mail
  <1>2. PICK n \in 0 .. Len(p.mail) :
           q = [p EXCEPT !.child = child, !.mail = SubSeq(p.mail, 1, n), !.faults = p.faults + 1]
    <2>1. Len(p.mail) \in Nat
      BY <1>1
    <2>2. PICK n \in IF child = "dead" THEN 0 .. Len(p.mail) ELSE {Len(p.mail)} :
             q = [p EXCEPT !.child = child, !.mail = SubSeq(p.mail, 1, n), !.faults = p.faults + 1]
      BY Zenon DEF Lost
    <2>3. n \in 0 .. Len(p.mail)
      BY <2>1, <2>2
    <2> QED
      BY <2>2, <2>3, Zenon
  <1> DEFINE m == SubSeq(p.mail, 1, n)
             k == p.faults + 1
  <1>3. m \in Mail /\ k \in Nat
    BY <1>1, SeqFacts, Members DEF Mail
  <1>5. q = [p EXCEPT !.child = child, !.mail = m, !.faults = k]
    BY <1>2
  <1>6. child \in Child /\ child # "starting" /\ child # "busy"
    BY Members DEF Lossed
  <1> HIDE DEF m
  <1>4. q \in SlotType /\ q.child = child /\ q.replacements = p.replacements
        /\ q.startFailures = p.startFailures /\ q.faults = p.faults + 1 /\ q.quarantined = p.quarantined
    <2> HIDE DEF k
    <2>1. q \in SlotType /\ q.child = child /\ q.replacements = p.replacements
          /\ q.startFailures = p.startFailures /\ q.faults = k /\ q.quarantined = p.quarantined
      BY <1>1, <1>3, <1>5, <1>6 DEF SlotType
    <2> QED
      BY <2>1 DEF k
  <1> QED
    BY <1>1, <1>4, <1>6, Members DEF SlotOK, Lossed

LEMMA FailedLoadOK ==
    ASSUME NEW p, SlotOK(p), p.child = "busy"
    PROVE  SlotOK(FailedToLoad(p))
  <1> DEFINE m == Append(p.mail, "PRELOADING_FAILED")
             q == [p EXCEPT !.child = "dead", !.mail = m]
  <1>1. p \in SlotType /\ p.mail \in Seq(View) /\ Len(p.mail) <= MaxMail /\ p.faults \in Nat
        /\ p.replacements \in Int /\ p.startFailures \in Int
    BY Members DEF SlotOK, SlotType, Mail
  <1>2. m \in Mail /\ Len(p.mail) + 1 \in DOMAIN m /\ m[Len(p.mail) + 1] = "PRELOADING_FAILED"
    BY <1>1, SeqFacts, Members DEF Mail
  <1> HIDE DEF m
  <1>3. q \in SlotType /\ q.child = "dead" /\ q.mail = m /\ q.replacements = p.replacements
        /\ q.startFailures = p.startFailures /\ q.faults = p.faults /\ q.quarantined = p.quarantined
    BY <1>1, <1>2, Members DEF SlotType
  <1>4. SlotOK(q)
    <2> HIDE DEF q
    <2>1. Excused(q)
      BY <1>2, <1>3 DEF Excused, FailureUnread
    <2> QED
      BY <1>1, <1>3, <2>1, Members DEF SlotOK, Lossed
  <1>5. q = FailedToLoad(p)
    BY <1>1 DEF FailedToLoad, Said, m, SlotType
  <1> QED
    BY <1>4, <1>5

LEMMA ReceivedOK ==
    ASSUME NEW p, SlotOK(p), p.mail # <<>>
    PROVE  SlotOK(Heard(p))
  <1> DEFINE v == Head(p.mail)
             m == Tail(p.mail)
             l == p.loadFailed \/ v = "PRELOADING_FAILED"
             q == [p EXCEPT !.view = v, !.mail = m, !.loadFailed = l]
  <1>1. p \in SlotType /\ p.mail \in Seq(View) /\ Len(p.mail) <= MaxMail + 1
    BY DEF SlotOK, SlotType, Mail
  <1>2. v \in View /\ m \in Seq(View) /\ Len(m) = Len(p.mail) - 1 /\ m \in Mail
    BY <1>1, SeqFacts, Members DEF Mail
  <1>5. l \in BOOLEAN
    BY <1>1 DEF SlotType
  <1>6. /\ \A i \in DOMAIN p.mail : p.mail[i] = v \/ \E k \in DOMAIN m : m[k] = p.mail[i]
        /\ p.loadFailed \/ v = "PRELOADING_FAILED" => l
    <2>1. ASSUME NEW i \in DOMAIN p.mail, i # 1
          PROVE  i - 1 \in DOMAIN m /\ m[i - 1] = p.mail[i]
      BY <1>1, <2>1, SeqFacts
    <2>2. 1 \in DOMAIN p.mail => p.mail[1] = v
      OBVIOUS
    <2> QED
      BY <2>1, <2>2
  <1> HIDE DEF v, m, l
  <1>3. q \in SlotType /\ q.child = p.child /\ q.mail = m /\ q.loadFailed = l
        /\ q.replacements = p.replacements
        /\ q.startFailures = p.startFailures /\ q.faults = p.faults /\ q.quarantined = p.quarantined
    BY <1>1, <1>2, <1>5 DEF SlotType
  <1>4. SlotOK(q)
    <2> HIDE DEF q
    <2>1. Excused(p) => Excused(q)
      BY <1>1, <1>3, <1>6 DEF Excused, FailureUnread
    <2> QED
      BY <1>1, <1>2, <1>3, <2>1, Members DEF SlotOK, Lossed
  <1> QED
    BY <1>4 DEF Heard, v, m, l

LEMMA SafetySaidOK ==
    ASSUME NEW z, SafetyOK(z), NEW child \in {"idle", "dead"}, NEW view \in View,
           Len(z.mail) <= MaxMail, child = "idle" => Len(z.mail) < MaxMail,
           child = "dead" => z.told
    PROVE  SafetyOK(Said(z, child, view))
  <1> DEFINE m == Append(z.mail, view)
             q == [z EXCEPT !.child = child, !.mail = m]
  <1>1. z \in SafetyType /\ z.mail \in Seq(View)
    BY DEF SafetyOK, SafetyType, Mail
  <1>2. m \in Mail /\ Len(m) = Len(z.mail) + 1
    BY <1>1, SeqFacts, Members DEF Mail
  <1>3. child = "idle" => Len(m) <= MaxMail
    BY <1>1, <1>2, SeqFacts, Members
  <1>4. child \in Child \ {Absent} /\ child # "starting"
    BY Members DEF Absent
  <1> HIDE DEF m
  <1>5. q \in SafetyType /\ q.child = child /\ q.mail = m /\ q.told = z.told /\ q.owned = z.owned
        /\ q.replace = z.replace /\ q.onGpu = z.onGpu /\ q.paused = z.paused
        /\ q.deliberate = z.deliberate /\ q.recoveries = z.recoveries /\ q.faults = z.faults
    BY <1>1, <1>2, <1>4 DEF SafetyType
  <1>6. SafetyOK(q)
    <2> HIDE DEF q
    <2> QED
      BY <1>3, <1>4, <1>5 DEF SafetyOK, Lossed
  <1> QED
    BY <1>6 DEF Said, m

LEMMA SafetyLostOK ==
    ASSUME NEW z, SafetyOK(z), NEW child \in Lossed, NEW q \in Lost(z, child)
    PROVE  SafetyOK(q)
  <1>1. z \in SafetyType /\ z.mail \in Seq(View) /\ Len(z.mail) <= MaxMail + 1 /\ z.faults \in Nat
        /\ z.recoveries \in Nat
    BY Members DEF SafetyOK, SafetyType, Mail
  <1>2. PICK n \in 0 .. Len(z.mail) :
           q = [z EXCEPT !.child = child, !.mail = SubSeq(z.mail, 1, n), !.faults = z.faults + 1]
    <2>1. Len(z.mail) \in Nat
      BY <1>1
    <2>2. PICK n \in IF child = "dead" THEN 0 .. Len(z.mail) ELSE {Len(z.mail)} :
             q = [z EXCEPT !.child = child, !.mail = SubSeq(z.mail, 1, n), !.faults = z.faults + 1]
      BY Zenon DEF Lost
    <2>3. n \in 0 .. Len(z.mail)
      BY <2>1, <2>2
    <2> QED
      BY <2>2, <2>3, Zenon
  <1> DEFINE m == SubSeq(z.mail, 1, n)
             k == z.faults + 1
  <1>3. m \in Mail /\ k \in Nat
    BY <1>1, SeqFacts, Members DEF Mail
  <1>4. q = [z EXCEPT !.child = child, !.mail = m, !.faults = k]
    BY <1>2
  <1>5. child \in Child \ {Absent} /\ child # "starting" /\ child # "idle"
    BY Members DEF Lossed, Absent
  <1> HIDE DEF m, k
  <1>6. q \in SafetyType /\ q.child = child /\ q.told = z.told /\ q.owned = z.owned
        /\ q.replace = z.replace /\ q.onGpu = z.onGpu /\ q.paused = z.paused
        /\ q.deliberate = z.deliberate /\ q.recoveries = z.recoveries /\ q.faults = k
    BY <1>1, <1>3, <1>4, <1>5 DEF SafetyType
  <1> QED
    BY <1>1, <1>5, <1>6 DEF SafetyOK, Lossed, k

LEMMA SafetyReceivedOK ==
    ASSUME NEW z, SafetyOK(z), z.mail # <<>>
    PROVE  SafetyOK([z EXCEPT !.view = Head(z.mail), !.mail = Tail(@)])
  <1> DEFINE v == Head(z.mail)
             m == Tail(z.mail)
             q == [z EXCEPT !.view = v, !.mail = m]
  <1>1. z \in SafetyType /\ z.mail \in Seq(View) /\ Len(z.mail) <= MaxMail + 1
    BY DEF SafetyOK, SafetyType, Mail
  <1>2. v \in View /\ m \in Seq(View) /\ Len(m) = Len(z.mail) - 1 /\ m \in Mail
    BY <1>1, SeqFacts, Members DEF Mail
  <1> HIDE DEF v, m
  <1>3. q \in SafetyType /\ q.child = z.child /\ q.mail = m /\ q.told = z.told /\ q.owned = z.owned
        /\ q.replace = z.replace /\ q.onGpu = z.onGpu /\ q.paused = z.paused
        /\ q.deliberate = z.deliberate /\ q.recoveries = z.recoveries /\ q.faults = z.faults
    BY <1>1, <1>2 DEF SafetyType
  <1>4. SafetyOK(q)
    <2> HIDE DEF q
    <2> QED
      BY <1>1, <1>2, <1>3, Members DEF SafetyOK, Lossed
  <1> QED
    BY <1>4 DEF v, m

LEMMA ProvenSlotsOK ==
    ASSUME SlotsOK, NEW s \in Slot
    PROVE  SlotOK(ProvenSlots[s]) /\ ProvenSlots[s].child = slot[s].child
  BY ProvenOK DEF ProvenSlots, SlotsOK

-----------------------------------------------------------------------------
(* The children's steps                                                      *)

LEMMA CountOK ==
    ASSUME RestOK, halted' \in BOOLEAN, recovered' \in BOOLEAN
    PROVE  /\ UNCHANGED bounds => RestOK'
           /\ Disrupt /\ UNCHANGED requests => RestOK'
           /\ Request /\ UNCHANGED disruptions => RestOK'
  BY Members DEF RestOK, Disrupt, Request, bounds

LEMMA ChildSteps ==
    ASSUME Inv, NEW s \in Slot,
           ChildReady(s) \/ ChildWorks(s) \/ ChildFinishes(s) \/ ChildFailsToLoad(s) \/ ChildLost(s)
    PROVE  Inv'
  <1>0. SlotOK(slot[s]) /\ slot[s].mail \in Seq(View) /\ <<>> \in Seq(View) /\ Len(<<>>) = 0
    BY SeqFacts DEF Inv, SlotsOK, SlotOK, SlotType, Mail
  <1>1. CASE ChildReady(s)
    <2>1. slot[s].mail = <<>>
      BY <1>0, <1>1 DEF ChildReady, SlotOK
    <2>2. SlotOK(Said(slot[s], "idle", "WAITING_FOR_JOB"))
      BY <1>0, <1>1, <2>1, SaidOK, Members DEF ChildReady, Lossed
    <2> QED
      BY <1>1, <2>2, OneSlot DEF ChildReady, bounds, Inv, StraysOK, RestOK
  <1>2. CASE ChildWorks(s)
    <2>1. SlotOK(Said(slot[s], "busy", "BUSY"))
      BY <1>0, <1>2, SaidOK, Members DEF ChildWorks, Lossed
    <2> QED
      BY <1>2, <2>1, OneSlot DEF ChildWorks, bounds, Inv, StraysOK, RestOK
  <1>3. CASE ChildFinishes(s)
    <2>1. SlotOK(Said(slot[s], "idle", "WAITING_FOR_JOB"))
      BY <1>0, <1>3, SaidOK, Members DEF ChildFinishes, Lossed, SlotOK
    <2> QED
      BY <1>3, <2>1, OneSlot DEF ChildFinishes, bounds, Inv, StraysOK, RestOK
  <1>4. CASE ChildFailsToLoad(s)
    <2>1. SlotOK(FailedToLoad(slot[s]))
      BY <1>0, <1>4, FailedLoadOK DEF ChildFailsToLoad
    <2> QED
      <3>1. SlotsOK'
        BY <1>4, <2>1, OneSlot DEF ChildFailsToLoad, Inv
      <3>2. RestOK'
        BY <1>4, CountOK DEF ChildFailsToLoad, Inv, RestOK
      <3> QED
        BY <1>4, <3>1, <3>2 DEF ChildFailsToLoad, Inv, StraysOK
  <1>5. CASE ChildLost(s)
    <2>1. PICK child \in Lossed : \E p \in Lost(slot[s], child) : slot' = [slot EXCEPT ![s] = p]
      BY <1>5 DEF ChildLost, Lossed
    <2>2. PICK p \in Lost(slot[s], child) : slot' = [slot EXCEPT ![s] = p]
      BY <2>1
    <2>3. SlotOK(p)
      BY <1>0, LostOK
    <2> QED
      <3>1. SlotsOK'
        BY <2>2, <2>3, OneSlot DEF Inv
      <3>2. RestOK'
        BY <1>5, CountOK DEF ChildLost, Inv, RestOK
      <3> QED
        BY <1>5, <3>1, <3>2 DEF ChildLost, Inv, StraysOK
  <1> QED
    BY <1>1, <1>2, <1>3, <1>4, <1>5

LEMMA SafetySteps ==
    ASSUME Inv, SafetyReady \/ SafetyChecks \/ SafetyEnds \/ SafetyLost \/ StrayMoves
    PROVE  Inv'
  <1>0. /\ SafetyOK(safety) /\ safety.mail \in Seq(View) /\ Len(<<>>) = 0
        /\ "WAITING_FOR_JOB" \in View /\ "PROCESS_ENDING" \in View /\ MaxMail \in Nat \ {0}
    BY SeqFacts, Members DEF Inv, SafetyOK, SafetyType, Mail
  <1>1. CASE SafetyReady
    <2>1. safety.mail = <<>>
      BY <1>0, <1>1 DEF SafetyReady, SafetyOK
    <2>2. SafetyOK(Said(safety, "idle", "WAITING_FOR_JOB"))
      BY <1>0, <2>1, SafetySaidOK
    <2> QED
      BY <1>1, <2>2 DEF SafetyReady, bounds, Inv, SlotsOK, StraysOK, RestOK
  <1>2. CASE SafetyChecks
    <2>1. SafetyOK(Said(safety, "idle", "WAITING_FOR_JOB"))
      BY <1>0, <1>2, SafetySaidOK DEF SafetyChecks
    <2> QED
      BY <1>2, <2>1 DEF SafetyChecks, bounds, Inv, SlotsOK, StraysOK, RestOK
  <1>3. CASE SafetyEnds
    <2>1. Len(safety.mail) <= MaxMail /\ safety.told
      BY <1>0, <1>3 DEF SafetyEnds, SafetyOK
    <2>2. SafetyOK(Said(safety, "dead", "PROCESS_ENDING"))
      BY <1>0, <2>1, SafetySaidOK
    <2> QED
      BY <1>3, <2>2 DEF SafetyEnds, bounds, Inv, SlotsOK, StraysOK, RestOK
  <1>4. CASE SafetyLost
    <2>1. \E child \in Lossed : \E z \in Lost(safety, child) : safety' = z
      BY <1>4 DEF SafetyLost, Lossed
    <2>2. SafetyOK(safety')
      BY <1>0, <2>1, SafetyLostOK
    <2> QED
      BY <1>4, <2>2, Members DEF SafetyLost, Disrupt, Inv, SlotsOK, StraysOK, RestOK
  <1>5. CASE StrayMoves
    <2>1. PICK z \in strays :
             \/ strays' = (strays \ {z}) \cup {[z EXCEPT !.child = "idle"]}
             \/ strays' = strays \ {z}
      BY <1>5 DEF StrayMoves
    <2>2. [z EXCEPT !.child = "idle"] \in StrayType /\ [z EXCEPT !.child = "idle"].owned = z.owned
          /\ [z EXCEPT !.child = "idle"].told = z.told
      BY DEF Inv, StraysOK, StrayType, Live
    <2>3. StraysOK'
      BY <2>1, <2>2 DEF Inv, StraysOK
    <2> QED
      BY <1>5, <2>3 DEF StrayMoves, bounds, Inv, SlotsOK, RestOK
  <1> QED
    BY <1>1, <1>2, <1>3, <1>4, <1>5

-----------------------------------------------------------------------------
(* The control loop's steps, and what is asked of it                         *)

LEMMA ReceiveSteps ==
    ASSUME Inv, (\E s \in Slot : Receive(s) \/ WindowPasses(s)) \/ ReceiveSafety
    PROVE  Inv'
  <1>1. ASSUME NEW s \in Slot, Receive(s) PROVE Inv'
    <2>1. SlotOK(Heard(slot[s]))
      BY <1>1, ReceivedOK DEF Receive, Inv, SlotsOK
    <2>4. SlotsOK'
      BY <1>1, <2>1, OneSlot DEF Receive, Inv
    <2> QED
      BY <1>1, <2>4 DEF Receive, bounds, Inv, StraysOK, RestOK
  <1>2. ASSUME NEW s \in Slot, WindowPasses(s) PROVE Inv'
    <2> DEFINE q == [slot[s] EXCEPT !.replacements = slot[s].replacements - 1]
    <2>1. SlotOK(q)
      <3> DEFINE r == slot[s].replacements - 1
      <3>1. SlotOK(slot[s]) /\ slot[s] \in SlotType /\ slot[s].replacements \in 0 .. MaxReplacements + 1
            /\ slot[s].faults \in Nat
        BY DEF Inv, SlotsOK, SlotOK, SlotType
      <3>2. r \in 0 .. MaxReplacements + 1 /\ r <= slot[s].replacements
        BY <1>2, <3>1, Members DEF WindowPasses
      <3> HIDE DEF r
      <3> DEFINE p == [slot[s] EXCEPT !.replacements = r]
      <3>3. p \in SlotType /\ p.child = slot[s].child /\ p.mail = slot[s].mail /\ p.replacements = r
            /\ p.startFailures = slot[s].startFailures /\ p.faults = slot[s].faults
            /\ p.quarantined = slot[s].quarantined /\ p.loadFailed = slot[s].loadFailed
        BY <3>1, <3>2 DEF SlotType
      <3>4. SlotOK(p)
        <4> HIDE DEF p
        <4> QED
          BY <3>1, <3>2, <3>3, Members DEF SlotOK, Excused, FailureUnread
      <3> QED
        BY <3>4 DEF r
    <2>2. slot' = [slot EXCEPT ![s] = q]
      BY <1>2 DEF WindowPasses
    <2>3. SlotsOK'
      <3> HIDE DEF q
      <3> QED
        BY <2>1, <2>2, OneSlot DEF Inv
    <2> QED
      BY <1>2, <2>3 DEF WindowPasses, bounds, Inv, StraysOK, RestOK
  <1>3. CASE ReceiveSafety
    <2>1. SafetyOK(safety')
      BY <1>3, SafetyReceivedOK DEF ReceiveSafety, Inv
    <2> QED
      BY <1>3, <2>1 DEF ReceiveSafety, bounds, Inv, SlotsOK, StraysOK, RestOK
  <1> QED
    BY <1>1, <1>2, <1>3

\* A process is replaced only when its child was lost.
LEMMA ReplaceSteps ==
    ASSUME Inv, ReapCrashed \/ ReplaceHung \/ ReplaceAllTimedOut
    PROVE  Inv'
  <1>0. \A s \in Slot : SlotOK(ProvenSlots[s]) /\ ProvenSlots[s].child = slot[s].child
    BY ProvenSlotsOK DEF Inv
  <1>1. CASE ReapCrashed
    <2>1. PICK oom \in SUBSET Crashed :
             slot' = [s \in Slot |-> IF s \in Crashed THEN Replaced(ProvenSlots[s], s \in oom)
                                     ELSE ProvenSlots[s]]
      BY <1>1 DEF ReapCrashed
    <2>2. ASSUME NEW s \in Slot PROVE SlotOK(slot'[s])
      <3>1. CASE s \in Crashed
        <4>1. ProvenSlots[s].child \in Lossed /\ (s \in oom) \in BOOLEAN
          BY <1>0, <3>1 DEF Crashed, Lossed
        <4> QED
          BY <1>0, <2>1, <3>1, <4>1, ReplacedOK
      <3> QED
        BY <1>0, <2>1, <3>1
    <2>3. SlotsOK'
      BY <2>1, <2>2, EverySlot
    <2>4. SafetyOK(safety') /\ StraysOK'
      <3>1. CASE SafetyCrashed
        <4>1. SafetyOK(InitiateSafetyReplacement(safety))
          BY <3>1, InitiatedOK DEF SafetyCrashed, Inv, Lossed
        <4> QED
          BY <1>1, <3>1, <4>1, ReplaceSafetyOK DEF ReapCrashed, Inv
      <3> QED
        BY <1>1, <3>1 DEF ReapCrashed, Inv, StraysOK
    <2> QED
      BY <1>1, <2>3, <2>4 DEF ReapCrashed, bounds, Inv, RestOK
  <1>2. CASE ReplaceHung
    <2>1. PICK hung \in SUBSET SilentSlots, safetyHung \in {SafetySilent, FALSE} :
             /\ slot' = [s \in Slot |-> IF s \in hung THEN Replaced(ProvenSlots[s], FALSE)
                                        ELSE ProvenSlots[s]]
             /\ IF safetyHung THEN ReplaceSafety(InitiateSafetyReplacement(safety))
                ELSE UNCHANGED <<safety, strays>>
             /\ recovered' = (hung # {} \/ safetyHung)
      BY <1>2 DEF ReplaceHung
    <2>2. ASSUME NEW s \in Slot PROVE SlotOK(slot'[s])
      <3>1. CASE s \in hung
        <4>1. ProvenSlots[s].child \in Lossed
          BY <1>0, <3>1 DEF SilentSlots, Lossed
        <4> QED
          BY <1>0, <2>1, <3>1, <4>1, ReplacedOK
      <3> QED
        BY <1>0, <2>1, <3>1
    <2>3. SlotsOK'
      BY <2>1, <2>2, EverySlot
    <2>4. SafetyOK(safety') /\ StraysOK'
      <3>1. CASE safetyHung
        <4>1. SafetyOK(InitiateSafetyReplacement(safety))
          BY <3>1, InitiatedAgainOK DEF SafetySilent, Inv, Lossed
        <4> QED
          BY <2>1, <3>1, <4>1, ReplaceSafetyOK DEF Inv
      <3> QED
        BY <2>1, <3>1 DEF Inv, StraysOK
    <2>5. recovered' \in BOOLEAN
      BY <2>1
    <2> QED
      BY <1>2, <2>3, <2>4, <2>5 DEF ReplaceHung, bounds, Inv, RestOK
  <1>3. CASE ReplaceAllTimedOut
    <2> DEFINE present == {s \in Slot : slot[s].child # Absent}
               after(s) == Replaced(ProvenSlots[s], FALSE)
    <2>1. PICK done \in SUBSET present :
             slot' = [s \in Slot |-> IF s \in done THEN after(s) ELSE ProvenSlots[s]]
      BY <1>3 DEF ReplaceAllTimedOut
    <2>2. ASSUME NEW s \in Slot PROVE SlotOK(slot'[s])
      <3>1. CASE s \in done
        <4>1. ProvenSlots[s].child \in Lossed
          BY <1>0, <1>3, <3>1 DEF ReplaceAllTimedOut, SilentSlots, Lossed
        <4> QED
          BY <1>0, <2>1, <3>1, <4>1, ReplacedOK
      <3> QED
        BY <1>0, <2>1, <3>1
    <2>3. SlotsOK'
      BY <2>1, <2>2, EverySlot
    <2>4. halted' \in BOOLEAN
      BY <1>3 DEF ReplaceAllTimedOut
    <2> QED
      BY <1>3, <2>3, <2>4 DEF ReplaceAllTimedOut, bounds, Inv, StraysOK, RestOK
  <1> QED
    BY <1>1, <1>2, <1>3

LEMMA SafetyReplacementSteps ==
    ASSUME Inv, UnsetRecovered \/ DriveSafetyReplacement \/ MoveSafety \/ SafetySendFails \/ SoftReset
    PROVE  Inv'
  <1>1. CASE UnsetRecovered
    BY <1>1 DEF UnsetRecovered, bounds, Inv, SlotsOK, StraysOK, RestOK
  <1>2. CASE DriveSafetyReplacement
    BY <1>2, ReplaceSafetyOK DEF DriveSafetyReplacement, bounds, Inv, SlotsOK, RestOK
  <1>3. CASE MoveSafety
    <2>1. RestOK'
      BY <1>3, CountOK DEF MoveSafety, Inv, RestOK
    <2> QED
      BY <1>3, <2>1, DeliberateOK DEF MoveSafety, Inv, SlotsOK, StraysOK
  <1>4. CASE SafetySendFails
    <2>1. SafetyOK(InitiateSafetyReplacement(safety))
      BY <1>4, InitiatedAgainOK DEF SafetySendFails, Inv, Lossed
    <2> QED
      BY <1>4, <2>1 DEF SafetySendFails, bounds, Inv, SlotsOK, StraysOK, RestOK
  <1>5. CASE SoftReset
    <2>1. \A s \in Slot : SlotOK(slot'[s])
      BY <1>5, RebuiltOK DEF SoftReset, Inv, SlotsOK
    <2>2. slot' = [s \in Slot |-> slot'[s]]
      BY <1>5 DEF SoftReset
    <2>3. SlotsOK'
      BY <2>1, <2>2, EverySlot
    <2>4. SafetyOK(safety') /\ StraysOK'
      BY <1>5, DeliberateOK, ReplaceSafetyOK DEF SoftReset, Inv
    <2>5. RestOK'
      BY <1>5, CountOK DEF SoftReset, Inv, RestOK
    <2> QED
      BY <2>3, <2>4, <2>5 DEF Inv
  <1> QED
    BY <1>1, <1>2, <1>3, <1>4, <1>5

LEMMA ScaleSteps ==
    ASSUME Inv, NEW s \in Slot, Cycle(s) \/ ScaleUp(s) \/ ScaleDown(s)
    PROVE  Inv'
  <1>1. SlotOK(Started(slot[s])) /\ SlotOK(Retired(slot[s]))
    BY StartedOK, RetiredOK DEF Inv, SlotsOK
  <1>2. SlotsOK'
    BY <1>1, OneSlot DEF Cycle, ScaleUp, ScaleDown, Inv
  <1>3. RestOK'
    BY CountOK DEF Cycle, ScaleUp, ScaleDown, Inv, RestOK
  <1> QED
    BY <1>2, <1>3 DEF Cycle, ScaleUp, ScaleDown, Inv, StraysOK

-----------------------------------------------------------------------------
(* The theorems                                                              *)

LEMMA InvInit == Init => Inv
  <1> SUFFICES ASSUME Init PROVE Inv
    OBVIOUS
  <1>1. SlotOK(NewSlot)
    <2> DEFINE r == [view |-> "PROCESS_STARTING", child |-> Absent, mail |-> <<>>,
                     replacements |-> 0, startFailures |-> 0, loadFailed |-> FALSE,
                     quarantined |-> FALSE, faults |-> 0]
    <2>1. 0 \in 0 .. MaxReplacements + 1 /\ 0 \in 0 .. MaxStartFailures
      BY Members
    <2>2. r \in SlotType
      BY <2>1, Members DEF SlotType
    <2>3. SlotOK(r)
      BY <2>2 DEF SlotOK, Lossed, Absent
    <2> QED
      BY <2>3, StartedOK DEF NewSlot
  <1>2. NewSlot \in SlotType
    BY <1>1 DEF SlotOK
  <1>3. SlotsOK
    BY <1>1, <1>2 DEF Init, SlotsOK
  <1>4. SafetyOK(NewSafety)
    <2>1. NewSafety \in SafetyType
      BY Members DEF NewSafety, SafetyType, Absent
    <2>2. NewSafety.child = "starting" /\ NewSafety.mail = <<>> /\ ~NewSafety.told /\ NewSafety.owned
          /\ NewSafety.onGpu = ~NewSafety.paused /\ ~NewSafety.replace /\ NewSafety.recoveries = 0
          /\ NewSafety.faults = 0
      BY DEF NewSafety
    <2> QED
      BY <2>1, <2>2 DEF SafetyOK, Lossed
  <1>5. StraysOK
    BY DEF Init, StraysOK
  <1>6. RestOK
    <2>1. 0 \in 0 .. MaxDisruptions /\ 0 \in 0 .. MaxRequests
      BY Members
    <2> QED
      BY <2>1 DEF Init, RestOK
  <1> QED
    BY <1>3, <1>4, <1>5, <1>6 DEF Init, Inv

LEMMA InvStep == Inv /\ [Next]_vars => Inv'
  <1> SUFFICES ASSUME Inv, [Next]_vars PROVE Inv'
    OBVIOUS
  <1>1. CASE UNCHANGED vars
    BY <1>1 DEF vars, Inv, SlotsOK, StraysOK, RestOK
  <1> QED
    BY <1>1, ChildSteps, SafetySteps, ReceiveSteps, ReplaceSteps, SafetyReplacementSteps,
       ScaleSteps DEF Next

\* The inductive invariant holds in every reachable state.
THEOREM LifecycleInv == Spec => []Inv
  <1> QED
    BY InvInit, InvStep, PTL DEF Spec

\* Every variable keeps its type, for any number of slots and any limits of the
\* breakers: their counts never pass the limits.
THEOREM TypeCorrect == Spec => []TypeOK
  <1>1. Inv => TypeOK
    BY DEF Inv, SlotsOK, SafetyOK, StraysOK, RestOK, TypeOK, SlotType, SafetyType, StrayType
  <1> QED
    BY <1>1, LifecycleInv, PTL

\* No safety process is alive that the worker's exit would not kill and that was
\* not told to end, whatever the order of crashes, pauses and resets.
THEOREM NoneForgotten == Spec => []OwnedOrTold
  <1>1. Inv => OwnedOrTold
    BY DEF Inv, SafetyOK, StraysOK, OwnedOrTold
  <1> QED
    BY <1>1, LifecycleInv, PTL

\* A settled safety process is where the last pause or restore wanted it.
THEOREM PlacementSettled == Spec => []PlacementFollows
  <1>1. Inv => PlacementFollows
    BY DEF Inv, SafetyOK, PlacementFollows
  <1> QED
    BY <1>1, LifecycleInv, PTL

\* No slot is quarantined and no recovery counted for want of failures.
THEOREM BreakersJust == Spec => []BreakersEarned
  <1>1. Inv => BreakersEarned
    BY DEF Inv, SlotsOK, SlotOK, SafetyOK, BreakersEarned
  <1> QED
    BY <1>1, LifecycleInv, PTL
=============================================================================

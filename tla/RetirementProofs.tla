-------------------------- MODULE RetirementProofs --------------------------
(***************************************************************************)
(* Proofs about Retirement, for every set of queues, lists and objects and *)
(* every bound: it is a composition with Submission (so what was proved    *)
(* there holds here), its type invariant, the order of FEATURE_RELEASED,   *)
(* and that nothing is freed under the GPU, with the inductive invariant   *)
(* that carries it.                                                        *)
(***************************************************************************)
EXTENDS Retirement, SubmissionProofs

-----------------------------------------------------------------------------
(* Every step is a step of Submission.                                     *)

LEMMA SignalGateAllStep ==
  ASSUME TypeOK, NEW S, SignalGateAll(S)
  PROVE  [Next]_vars
<1>1. tracked \in SUBSET Queues
  BY DEF TypeOK
<1>2. UNCHANGED vars \/ OtherWork(tracked)
  BY DEF SignalGateAll
<1>3. QED
  BY <1>1, <1>2 DEF Next, HostOrGpu

LEMMA StepComposed == TypeOK /\ [RNext]_rvars => [Next]_vars
<1> SUFFICES ASSUME TypeOK, [RNext]_rvars PROVE [Next]_vars
  OBVIOUS
<1>1. CASE \E l \in Lists : REvaluateBegin(l) \/ RUsePoint(l) \/ RUsePointFails(l)
  BY <1>1 DEF REvaluateBegin, RUsePoint, RUsePointFails, Next, HostOrGpu
<1>2. CASE REvaluateEnd \/ (\E first \in BOOLEAN : RHousekeeping(first))
  BY <1>2 DEF REvaluateEnd, RHousekeeping, Next, HostOrGpu
<1>3. CASE \E q \in Queues : RGpuStep(q) \/ RUntrack(q)
  BY <1>3 DEF RGpuStep, RUntrack, Next, HostOrGpu
<1>4. CASE Unnoticed
  BY <1>4 DEF Unnoticed, Next, HostOrGpu
<1>5. CASE \E o \in Objects, e \in {"none", "waiting"} : RetireResource(o, e) \/ RetireInCallback(o, e)
  BY <1>5, SignalGateAllStep DEF RetireResource, Gate, RetireInCallback
<1>6. CASE \E o \in Objects : Rebuild(o) \/ HostSignals(o)
  BY <1>6, SignalGateAllStep DEF Rebuild, Gate, HostSignals
<1>7. CASE (\E f \in Features : ReleaseFeature(f)) \/ EmitOther
  BY <1>7, SignalGateAllStep DEF ReleaseFeature, EmitOther, Gate
<1>8. CASE Bury \/ DrainGraveyard
  BY <1>8, SignalGateAllStep DEF Bury, DrainGraveyard
<1>9. CASE UNCHANGED rvars
  BY <1>9 DEF rvars
<1>10. QED
  BY <1>1, <1>2, <1>3, <1>4, <1>5, <1>6, <1>7, <1>8, <1>9 DEF RNext

\* The composition adds guards and bookkeeping to Submission's steps and nothing to what
\* they do: what holds of every behaviour of Submission holds here.
THEOREM Composed == RSpec => Spec
<1>1. RInit => Init /\ TypeOK
  BY InitType DEF RInit
<1>2. TypeOK /\ [RNext]_rvars => TypeOK' /\ [Next]_vars
  BY StepComposed, StepType
<1>3. QED
  BY <1>1, <1>2, PTL DEF RSpec, Spec

-----------------------------------------------------------------------------
(* The type invariant of the graves.                                       *)

LEMMA SerialSignalType ==
  ASSUME TypeOK, NEW q \in Queues, NEW s \in Nat
  PROVE  SerialSignal(q, s) \in Nat
<1> DEFINE reached == {fenceAt[q][v] : v \in {w \in Serials : w >= s}} \ {NotYet}
<1>1. reached \in SUBSET Nat
  BY DEF TypeOK, Steps
<1>2. CASE reached = {}
  BY <1>2, PlaceType DEF SerialSignal
<1>3. CASE reached # {}
  <2>1. \E n \in reached : \A k \in reached : n <= k
    BY <1>1, <1>3, Least
  <2>2. (CHOOSE n \in reached : \A k \in reached : n <= k) \in reached
    BY <2>1
  <2>3. QED
    BY <1>1, <1>3, <2>2 DEF SerialSignal
<1>4. QED
  BY <1>2, <1>3

\* What the two halves of a gate leave well typed, and what they change.
LEMMA SignalGateAllEffect ==
  ASSUME TypeOK, GraveTypeOK, NEW S, SignalGateAll(S)
  PROVE  /\ own' \in [Objects -> [Queues -> Steps]]
         /\ \A o \in Objects, q \in Queues :
              own'[o][q] = IF o \in S /\ q \in tracked THEN depth[q] + 1 ELSE own[o][q]
         /\ UNCHANGED <<coreVars, hostVars, evalCounter, evaluating, presenting, fenceAt, lost>>
<1>1. own' = [o \in Objects |-> [q \in Queues |->
                IF o \in S /\ q \in tracked THEN depth[q] + 1 ELSE own[o][q]]]
  BY DEF SignalGateAll
<1>2. \A o \in Objects, q \in Queues : own[o][q] \in Steps /\ depth[q] + 1 \in Steps
  BY PlaceType DEF GraveTypeOK
<1>3. own' \in [Objects -> [Queues -> Steps]]
  BY <1>1, <1>2
<1>4. UNCHANGED <<coreVars, hostVars, evalCounter, evaluating, presenting, fenceAt, lost>>
  BY DEF SignalGateAll, OtherWork, vars
<1>5. QED
  BY <1>1, <1>3, <1>4

LEMMA PendingGateAllEffect ==
  ASSUME TypeOK, GraveTypeOK, NEW S, PendingGateAll(S)
  PROVE  /\ fences' \in [Objects -> SUBSET Tags]
         /\ serials' \in [Objects -> [Queues -> Nat]]
         /\ \A o \in Objects : fences'[o] = IF o \in S THEN kept ELSE fences[o]
<1>1. /\ fences' = [o \in Objects |-> IF o \in S THEN kept ELSE fences[o]]
      /\ serials' = [o \in Objects |-> [q \in Queues |->
           IF o \in S /\ q \in tracked THEN pushed[q] + 0 ELSE serials[o][q]]]
  BY DEF PendingGateAll, PendingGateWith
<1>2. \A o \in Objects : fences[o] \in SUBSET Tags /\ kept \in SUBSET Tags
  BY DEF GraveTypeOK
<1>3. \A o \in Objects, q \in Queues : serials[o][q] \in Nat /\ pushed[q] + 0 \in Nat
  BY DEF GraveTypeOK, TypeOK
<1>4. fences' \in [Objects -> SUBSET Tags]
  BY <1>1, <1>2
<1>5. serials' \in [Objects -> [Queues -> Nat]]
  BY <1>1, <1>3
<1>6. QED
  BY <1>1, <1>4, <1>5

LEMMA GateType ==
  ASSUME TypeOK, GraveTypeOK, NEW S, Gate(S),
         extra' \in [Objects -> {"none", "waiting", "passed"}],
         pendingReleases' \subseteq Features
  PROVE  GraveTypeOK'
<1>1. own' \in [Objects -> [Queues -> Steps]]
  BY SignalGateAllEffect DEF Gate
<1>2. obj' \in [Objects -> {"live", "deferred", "gating", "buried", "freed"}]
  BY DEF Gate, GraveTypeOK
<1>3. UNCHANGED <<fences, serials, dueEval, kept, announced, uses>> /\ holder' = "gate"
  BY DEF Gate
<1>4. QED
  BY <1>1, <1>2, <1>3 DEF GraveTypeOK

LEMMA InitGraveType == RInit => GraveTypeOK
<1> SUFFICES ASSUME RInit PROVE GraveTypeOK
  OBVIOUS
<1>1. NotYet \in Steps
  BY DEF Steps
<1>2. QED
  BY <1>1 DEF RInit, GraveTypeOK

LEMMA StepGraveType == TypeOK /\ GraveTypeOK /\ [RNext]_rvars => GraveTypeOK'
<1> SUFFICES ASSUME TypeOK, GraveTypeOK, [RNext]_rvars PROVE GraveTypeOK'
  OBVIOUS
<1>0. TypeOK'
  BY StepComposed, StepType
<1>1. ASSUME NEW l \in Lists, REvaluateBegin(l) PROVE GraveTypeOK'
  BY <1>1 DEF REvaluateBegin, Erase, GraveTypeOK, graves
<1>2. ASSUME NEW l \in Lists, RUsePoint(l) PROVE GraveTypeOK'
  <2>1. nextTag' \in Nat /\ \A t \in 1 .. nextTag' : t \in Tags
    BY <1>0, BoundsAssumption DEF TypeOK, Tags
  <2>2. nextTag \in Nat
    BY DEF TypeOK
  <2>3. kept' \subseteq Tags
    BY <1>2, <2>1, <2>2 DEF RUsePoint, GraveTypeOK
  <2>4. RecordedUse(l) \in Tags
    <3>1. CASE ThisEvaluate(l)
      BY <3>1, BoundsAssumption DEF ThisEvaluate, Pending, Unclaimed, RecordedUse, TypeOK, Tags
    <3>2. CASE ~ThisEvaluate(l)
      BY <1>2, <3>2 DEF RUsePoint, UsePoint, RecordedUse
    <3>3. QED
      BY <3>1, <3>2
  <2>5. uses' \in [Objects -> SUBSET Tags]
    BY <1>2, <2>4 DEF RUsePoint, Uses, GraveTypeOK
  <2>6. QED
    BY <1>2, <2>3, <2>5 DEF RUsePoint, GraveTypeOK, graves
<1>3. ASSUME NEW l \in Lists, RUsePointFails(l) PROVE GraveTypeOK'
  <2>1. nextTag + 1 \in Tags
    BY <1>3 DEF RUsePointFails, UsePointFails
  <2>2. uses' \in [Objects -> SUBSET Tags]
    BY <1>3, <2>1 DEF RUsePointFails, Uses, GraveTypeOK
  <2>3. QED
    BY <1>3, <2>2 DEF RUsePointFails, GraveTypeOK, graves
<1>4. CASE REvaluateEnd
  BY <1>4 DEF REvaluateEnd, GraveTypeOK, graves
<1>5. ASSUME NEW first \in BOOLEAN, RHousekeeping(first) PROVE GraveTypeOK'
  BY <1>5 DEF RHousekeeping, Erase, GraveTypeOK, graves
<1>6. ASSUME NEW q \in Queues, RGpuStep(q) PROVE GraveTypeOK'
  <2>1. own' \in [Objects -> [Queues -> Steps]]
    BY <1>6, CloserType DEF RGpuStep, GraveTypeOK
  <2>2. QED
    BY <1>6, <2>1 DEF RGpuStep, GraveTypeOK
<1>7. ASSUME NEW q \in Queues, RUntrack(q) PROVE GraveTypeOK'
  <2> DEFINE place(o) == IF serials[o][q] = 0 THEN own[o][q]
                         ELSE Behind(own[o][q], SerialSignal(q, serials[o][q]))
  <2>1. ASSUME NEW o \in Objects PROVE place(o) \in Steps
    <3>1. own[o][q] \in Steps /\ serials[o][q] \in Nat
      BY DEF GraveTypeOK
    <3>2. SerialSignal(q, serials[o][q]) \in Steps
      BY <3>1, SerialSignalType DEF Steps
    <3>3. QED
      BY <3>1, <3>2 DEF Behind
  <2>2. own' = [o \in Objects |-> [own[o] EXCEPT ![q] = place(o)]]
    BY <1>7 DEF RUntrack
  <2> HIDE DEF place
  <2>3. own' \in [Objects -> [Queues -> Steps]]
    BY <2>1, <2>2 DEF GraveTypeOK
  <2>4. serials' \in [Objects -> [Queues -> Nat]]
    BY <1>7 DEF RUntrack, GraveTypeOK
  <2>5. QED
    BY <1>7, <2>3, <2>4 DEF RUntrack, GraveTypeOK
<1>8. CASE Unnoticed
  BY <1>8 DEF Unnoticed, GraveTypeOK, graves
<1>9. ASSUME NEW o \in Objects, NEW e \in {"none", "waiting"}, RetireResource(o, e) PROVE GraveTypeOK'
  BY <1>9, GateType DEF RetireResource, GraveTypeOK
<1>10. ASSUME NEW o \in Objects, NEW e \in {"none", "waiting"}, RetireInCallback(o, e) PROVE GraveTypeOK'
  BY <1>10 DEF RetireInCallback, GraveTypeOK
<1>11. ASSUME NEW o \in Objects, Rebuild(o) PROVE GraveTypeOK'
  BY <1>11, GateType DEF Rebuild, GraveTypeOK
<1>12. ASSUME NEW o \in Objects, HostSignals(o) PROVE GraveTypeOK'
  BY <1>12 DEF HostSignals, GraveTypeOK
<1>13. ASSUME NEW f \in Features, ReleaseFeature(f) PROVE GraveTypeOK'
  BY <1>13, GateType DEF ReleaseFeature, GraveTypeOK
<1>14. CASE EmitOther
  BY <1>14, GateType DEF EmitOther, GraveTypeOK
<1>15. CASE Bury
  <2>1. /\ fences' \in [Objects -> SUBSET Tags] /\ serials' \in [Objects -> [Queues -> Nat]]
    BY <1>15, PendingGateAllEffect DEF Bury
  <2>2. evalCounter + Expiry \in Nat
    BY BoundsAssumption DEF TypeOK
  <2>3. obj' \in [Objects -> {"live", "deferred", "gating", "buried", "freed"}] /\ dueEval' \in [Objects -> Nat]
    BY <1>15, <2>2 DEF Bury, GraveTypeOK
  <2>4. QED
    BY <1>15, <2>1, <2>3 DEF Bury, GraveTypeOK
<1>16. CASE DrainGraveyard
  <2> DEFINE passed == {o \in In("buried") : Frees(o)}
             again == {o \in In("buried") : GateEmpty(o) /\ dueEval[o] <= evalCounter}
             flushed == IF Announced(passed) = {} THEN {} ELSE In("deferred")
  <2>1. SignalGateAll(again \cup flushed) /\ PendingGateAll(flushed)
    BY <1>16 DEF DrainGraveyard
  <2>2. /\ obj' = [o \in Objects |-> IF o \in passed THEN "freed"
                                     ELSE IF o \in flushed THEN "buried" ELSE obj[o]]
        /\ dueEval' = [o \in Objects |-> IF o \in flushed THEN evalCounter + Expiry ELSE dueEval[o]]
        /\ pendingReleases' = pendingReleases \ Announced(passed)
        /\ announced' = announced \cup Announced(passed)
        /\ holder' = "nothing"
        /\ UNCHANGED <<extra, kept, uses>>
    BY <1>16 DEF DrainGraveyard
  <2>3. Announced(passed) \subseteq pendingReleases
    BY DEF Announced
  <2> HIDE DEF passed, again, flushed
  <2>4. own' \in [Objects -> [Queues -> Steps]]
    BY <2>1, SignalGateAllEffect
  <2>5. fences' \in [Objects -> SUBSET Tags] /\ serials' \in [Objects -> [Queues -> Nat]]
    BY <2>1, PendingGateAllEffect
  <2>6. evalCounter + Expiry \in Nat
    BY BoundsAssumption DEF TypeOK
  <2>7. obj' \in [Objects -> {"live", "deferred", "gating", "buried", "freed"}] /\ dueEval' \in [Objects -> Nat]
    BY <2>2, <2>6 DEF GraveTypeOK
  <2>8. QED
    BY <2>2, <2>3, <2>4, <2>5, <2>7 DEF GraveTypeOK
<1>17. CASE UNCHANGED rvars
  BY <1>17 DEF rvars, graves, GraveTypeOK
<1>18. QED
  BY <1>1, <1>2, <1>3, <1>4, <1>5, <1>6, <1>7, <1>8, <1>9, <1>10, <1>11, <1>12, <1>13, <1>14,
     <1>15, <1>16, <1>17 DEF RNext

\* Every reachable state of the composition is well typed: the places and serials in gates
\* among the queues' own, the fences in gates and the recorded uses among the tags.
THEOREM GraveTyped == RSpec => []GraveTypeOK
<1>1. RInit => TypeOK /\ GraveTypeOK
  BY InitType, InitGraveType DEF RInit
<1>2. TypeOK /\ GraveTypeOK /\ [RNext]_rvars => (TypeOK /\ GraveTypeOK)'
  BY StepComposed, StepType, StepGraveType
<1>3. QED
  BY <1>1, <1>2, PTL DEF RSpec

-----------------------------------------------------------------------------
(* FEATURE_RELEASED comes last.                                            *)

\* A gate being taken keeps the core's mutex.
GatingHeld == \A o \in Objects : obj[o] = "gating" => holder = "gate"

\* Only hosts' resources are put aside.
DeferredHosts == \A o \in Objects : obj[o] = "deferred" => Owner[o] = NoFeature

\* A feature that was released has nothing left to retire.
AllRetired ==
  \A f \in pendingReleases \cup announced : \A o \in Objects : Owner[o] = f => obj[o] # "live"

OrderInv == GatingHeld /\ DeferredHosts /\ AllRetired /\ AnnouncedLast

LEMMA GateOrder ==
  ASSUME GraveTypeOK, OrderInv, NEW S, Gate(S),
         \A o \in Objects \cap S : obj[o] \in {"live", "deferred"},
         announced \subseteq Features,
         \/ pendingReleases' = pendingReleases
         \/ \E f \in Features : /\ pendingReleases' = pendingReleases \cup {f}
                                /\ \A o \in Objects : obj[o] = "live" /\ Owner[o] = f => o \in S
  PROVE  OrderInv'
<1>1. /\ holder = "nothing" /\ holder' = "gate" /\ announced' = announced
      /\ \A o \in Objects : obj'[o] = IF o \in S THEN "gating" ELSE obj[o]
  BY DEF Gate
<1>2. GatingHeld' /\ DeferredHosts'
  BY <1>1 DEF OrderInv, GatingHeld, DeferredHosts
<1>3. AllRetired'
  BY <1>1 DEF OrderInv, AllRetired
<1>4. AnnouncedLast'
  BY <1>1 DEF OrderInv, AnnouncedLast
<1>5. QED
  BY <1>2, <1>3, <1>4 DEF OrderInv

LEMMA DrainOrder ==
  ASSUME GraveTypeOK, OrderInv, DrainGraveyard
  PROVE  OrderInv'
<1> DEFINE passed == {o \in In("buried") : Frees(o)}
           flushed == IF Announced(passed) = {} THEN {} ELSE In("deferred")
<1>1. /\ holder = "drain"
      /\ \A o \in Objects : obj'[o] = IF o \in passed THEN "freed"
                                      ELSE IF o \in flushed THEN "buried" ELSE obj[o]
      /\ pendingReleases' = pendingReleases \ Announced(passed)
      /\ announced' = announced \cup Announced(passed)
  BY DEF DrainGraveyard
<1>2. /\ \A o \in flushed : obj[o] = "deferred"
      /\ \A o \in passed : obj[o] = "buried"
  BY DEF In
<1>3. Announced(passed) = {f \in pendingReleases : ~\E o \in In("buried") \ passed : Owner[o] = f}
  BY DEF Announced, References
<1> HIDE DEF passed, flushed
<1>4. GatingHeld' /\ DeferredHosts'
  BY <1>1, <1>2 DEF OrderInv, GatingHeld, DeferredHosts
<1>5. AllRetired'
  BY <1>1, <1>2, <1>3 DEF OrderInv, AllRetired
<1>6. AnnouncedLast'
  <2>1. ASSUME NEW f \in announced', NEW o \in Objects, Owner[o] = f PROVE obj'[o] = "freed"
    <3>1. CASE f \in announced
      BY <1>1, <1>2, <2>1, <3>1 DEF OrderInv, AnnouncedLast
    <3>2. CASE f \in Announced(passed)
      <4>1. f \in pendingReleases /\ (o \in In("buried") => o \in passed)
        BY <1>3, <2>1, <3>2
      <4>2. f # NoFeature
        BY <4>1 DEF GraveTypeOK, Features
      <4>3. obj[o] # "live" /\ obj[o] # "deferred" /\ obj[o] # "gating"
        BY <1>1, <2>1, <4>1, <4>2 DEF OrderInv, AllRetired, DeferredHosts, GatingHeld
      <4>4. obj[o] \in {"buried", "freed"}
        BY <4>3 DEF GraveTypeOK
      <4>5. QED
        BY <1>1, <1>2, <4>1, <4>4 DEF In
    <3>3. QED
      BY <1>1, <2>1, <3>1, <3>2
  <2>2. QED
    BY <2>1 DEF AnnouncedLast
<1>7. QED
  BY <1>4, <1>5, <1>6 DEF OrderInv

LEMMA StepOrder == GraveTypeOK /\ OrderInv /\ [RNext]_rvars => OrderInv'
<1> SUFFICES ASSUME GraveTypeOK, OrderInv, [RNext]_rvars PROVE OrderInv'
  OBVIOUS
<1> USE DEF OrderInv
<1>0. announced \subseteq Features
  BY DEF GraveTypeOK
<1>1. ASSUME UNCHANGED <<obj, pendingReleases, announced>>, holder' = holder \/ holder # "gate"
      PROVE  OrderInv'
  BY <1>1 DEF GatingHeld, DeferredHosts, AllRetired, AnnouncedLast
<1>2. CASE \E l \in Lists : REvaluateBegin(l) \/ RUsePoint(l) \/ RUsePointFails(l)
  BY <1>1, <1>2 DEF REvaluateBegin, RUsePoint, RUsePointFails, graves
<1>3. CASE REvaluateEnd \/ (\E first \in BOOLEAN : RHousekeeping(first))
  BY <1>1, <1>3 DEF REvaluateEnd, RHousekeeping, graves
<1>4. CASE \E q \in Queues : RGpuStep(q) \/ RUntrack(q)
  BY <1>1, <1>4 DEF RGpuStep, RUntrack
<1>5. CASE Unnoticed \/ UNCHANGED rvars
  BY <1>1, <1>5 DEF Unnoticed, rvars, graves
<1>6. CASE \E o \in Objects : HostSignals(o)
  BY <1>1, <1>6 DEF HostSignals
<1>7. ASSUME NEW o \in Objects, NEW e \in {"none", "waiting"}, RetireResource(o, e) PROVE OrderInv'
  BY <1>0, <1>7, GateOrder DEF RetireResource
<1>8. ASSUME NEW o \in Objects, NEW e \in {"none", "waiting"}, RetireInCallback(o, e) PROVE OrderInv'
  BY <1>8 DEF RetireInCallback, GraveTypeOK, GatingHeld, DeferredHosts, AllRetired, AnnouncedLast
<1>9. ASSUME NEW o \in Objects, Rebuild(o) PROVE OrderInv'
  BY <1>0, <1>9, GateOrder DEF Rebuild
<1>10. ASSUME NEW f \in Features, ReleaseFeature(f) PROVE OrderInv'
  <2> DEFINE S == {o \in In("live") : Owner[o] = f}
  <2>1. Gate(S) /\ pendingReleases' = pendingReleases \cup {f}
    BY <1>10 DEF ReleaseFeature
  <2>2. \A o \in Objects : obj[o] = "live" /\ Owner[o] = f <=> o \in S
    BY DEF In
  <2> HIDE DEF S
  <2>3. QED
    BY <1>0, <2>1, <2>2, GateOrder
<1>11. CASE EmitOther
  <2>1. Gate(In("deferred")) /\ pendingReleases' = pendingReleases
    BY <1>11 DEF EmitOther
  <2>2. \A o \in Objects \cap In("deferred") : obj[o] = "deferred"
    BY DEF In
  <2>3. QED
    BY <1>0, <2>1, <2>2, GateOrder
<1>12. CASE Bury
  BY <1>12 DEF Bury, GraveTypeOK, GatingHeld, DeferredHosts, AllRetired, AnnouncedLast
<1>13. CASE DrainGraveyard
  BY <1>13, DrainOrder
<1>14. QED
  BY <1>2, <1>3, <1>4, <1>5, <1>6, <1>7, <1>8, <1>9, <1>10, <1>11, <1>12, <1>13 DEF RNext

\* FEATURE_RELEASED is sent only when every grave that names the feature's model host was
\* freed, however rebuilds, releases, callbacks and drains follow each other.
THEOREM ReleasedLast == RSpec => []AnnouncedLast
<1>1. RInit => TypeOK /\ GraveTypeOK /\ OrderInv
  BY InitType, InitGraveType DEF RInit, OrderInv, GatingHeld, DeferredHosts, AllRetired, AnnouncedLast
<1>2. TypeOK /\ GraveTypeOK /\ OrderInv /\ [RNext]_rvars => (TypeOK /\ GraveTypeOK /\ OrderInv)'
  BY StepComposed, StepType, StepGraveType, StepOrder
<1>3. OrderInv => AnnouncedLast
  BY DEF OrderInv
<1>4. QED
  BY <1>1, <1>2, <1>3, PTL DEF RSpec

-----------------------------------------------------------------------------
(* Nothing is freed under the GPU: the inductive invariant.                *)

\* A use in flight is still in recordings_, or it runs on a registered queue, whose next
\* signal comes behind it.
KeptCovers ==
  \A t \in Tags : InFlight(t) => t \in kept \/ (Running(t) /\ exec[t].queue \in tracked)

\* The fence of a running use was signalled by a queue that is still registered.
SignalledTracked ==
  \A t \in Tags : sig[t] # NotYet /\ Running(t) => rec[t].queue \in tracked

UsesKnown == \A o \in Objects : uses[o] \subseteq 1 .. nextTag

\* Every use of the object in flight is held by a fence of a recording in held, or runs in
\* front of the gate's own signal on its queue.
Covered(o, held) ==
  \A t \in uses[o] : InFlight(t) =>
    t \in held \/ (Running(t) /\ own[o][exec[t].queue] >= exec[t].left)

GatingCovered == \A o \in Objects : obj[o] = "gating" => Covered(o, kept)
BuriedCovered == \A o \in Objects : obj[o] = "buried" => Covered(o, fences[o])

GInv ==
  /\ KeptCovers /\ SignalledTracked /\ UsesKnown
  /\ GatingHeld /\ GatingCovered /\ BuriedCovered /\ FreedSafe

\* A step that starts no use: it only lets listed uses run, or nothing.
Sails ==
  \A t \in Tags : InFlight(t)' => InFlight(t) /\ (exec'[t] = exec[t] \/ ~Running(t))

LEMMA CalmSails ==
  ASSUME UNCHANGED exec, \A l \in Lists : content'[l] \subseteq content[l]
  PROVE  Sails
BY DEF Sails, InFlight, Running

LEMMA NativeSails ==
  ASSUME TypeOK, IInv, NEW q \in Queues, NEW l \in Lists, Native(q, l)
  PROVE  Sails
<1>1. ASSUME NEW t \in Tags, InFlight(t)' PROVE InFlight(t) /\ (exec'[t] = exec[t] \/ ~Running(t))
  <2>1. CASE t \in content[l]
    BY <2>1 DEF InFlight, Running, IInv, InListFresh, NotYet
  <2>2. CASE t \notin content[l]
    BY <1>1, <2>2, NativeEffect DEF InFlight, Running
  <2>3. QED
    BY <2>1, <2>2
<1>2. QED
  BY <1>1 DEF Sails

LEMMA SignalledKeeps ==
  ASSUME TypeOK, IInv, SignalledTracked, Sails, tracked \subseteq tracked',
         \A t \in Tags : sig'[t] # NotYet => sig[t] # NotYet,
         \A t \in Tags : sig[t] # NotYet => rec'[t].queue = rec[t].queue
  PROVE  SignalledTracked'
<1> SUFFICES ASSUME NEW t \in Tags, sig'[t] # NotYet, Running(t)' PROVE rec'[t].queue \in tracked'
  BY DEF SignalledTracked
<1>1. InFlight(t) /\ (exec'[t] = exec[t] \/ ~Running(t))
  BY DEF Sails, InFlight
<1>2. \A l \in Lists : t \notin content[l]
  BY DEF IInv, InListFresh
<1>3. Running(t)
  BY <1>1, <1>2 DEF InFlight
<1>4. QED
  BY <1>3 DEF SignalledTracked

LEMMA DrainSignalled ==
  ASSUME TypeOK, IInv, SignalledTracked, NEW policy, Drain(policy), UNCHANGED <<exec, rec, tracked>>
  PROVE  SignalledTracked'
<1> SUFFICES ASSUME NEW t \in Tags, sig'[t] # NotYet, Running(t)' PROVE rec[t].queue \in tracked
  BY DEF SignalledTracked
<1>1. sig'[t] = sig[t] \/ (\E q \in tracked : t \in DueOn(q, Target(policy)[q]))
  BY DEF Drain
<1>2. CASE sig'[t] = sig[t]
  BY <1>2 DEF SignalledTracked, Running
<1>3. CASE \E q \in tracked : t \in DueOn(q, Target(policy)[q])
  BY <1>3 DEF DueOn
<1>4. QED
  BY <1>1, <1>2, <1>3

LEMMA KeptKeeps ==
  ASSUME TypeOK, IInv, KeptCovers, Sails, kept \subseteq kept', tracked \subseteq tracked'
  PROVE  KeptCovers'
<1> SUFFICES ASSUME NEW t \in Tags, InFlight(t)'
             PROVE  t \in kept' \/ (Running(t)' /\ exec'[t].queue \in tracked')
  BY DEF KeptCovers
<1>1. InFlight(t) /\ (exec'[t] = exec[t] \/ ~Running(t))
  BY DEF Sails
<1>2. t \in kept \/ (Running(t) /\ exec[t].queue \in tracked)
  BY <1>1 DEF KeptCovers
<1>3. QED
  BY <1>1, <1>2 DEF Running

\* What a Drain erases from recordings_ is behind a registered queue's signal, or over.
LEMMA EraseKeeps ==
  ASSUME TypeOK, IInv, IInv', KeptCovers, SignalledTracked', Sails, Erase, UNCHANGED tracked
  PROVE  KeptCovers'
<1> SUFFICES ASSUME NEW t \in Tags, InFlight(t)', t \notin kept'
             PROVE  Running(t)' /\ exec'[t].queue \in tracked'
  BY DEF KeptCovers
<1>1. InFlight(t) /\ (exec'[t] = exec[t] \/ ~Running(t))
  BY DEF Sails
<1>2. t \in kept \/ (Running(t) /\ exec[t].queue \in tracked)
  BY <1>1 DEF KeptCovers
<1>3. CASE Signalled(t)'
  <2>1. \A l \in Lists : t \notin content'[l]
    BY <1>3 DEF IInv, InListFresh, Signalled
  <2>2. Running(t)'
    BY <2>1 DEF InFlight
  <2>3. sig'[t] # NotYet
    BY <1>3, <2>2 DEF IInv, CancelledOver, Signalled
  <2>4. QED
    BY <2>2, <2>3 DEF SignalledTracked, IInv, SignalBehindWork
<1>4. CASE ~Signalled(t)'
  <2>1. t \notin kept
    BY <1>4 DEF Erase
  <2>2. QED
    BY <1>1, <1>2, <2>1 DEF Running
<1>5. QED
  BY <1>3, <1>4

\* Cover carries over when the gate only grows.
LEMMA CoverKeeps ==
  ASSUME TypeOK, IInv, GraveTypeOK, Sails, NEW o \in Objects, NEW A, NEW B, A \subseteq B,
         Covered(o, A), uses'[o] \subseteq uses[o],
         \A q \in Queues : own'[o][q] \in Int /\ own'[o][q] >= own[o][q]
  PROVE  \A t \in uses'[o] : InFlight(t)' =>
           t \in B \/ (Running(t)' /\ own'[o][exec'[t].queue] >= exec'[t].left)
<1> SUFFICES ASSUME NEW t \in uses'[o], InFlight(t)', t \notin B
             PROVE  Running(t)' /\ own'[o][exec'[t].queue] >= exec'[t].left
  OBVIOUS
<1>1. t \in Tags /\ t \in uses[o]
  BY DEF GraveTypeOK
<1>2. InFlight(t) /\ (exec'[t] = exec[t] \/ ~Running(t))
  BY <1>1 DEF Sails
<1>3. Running(t) /\ own[o][exec[t].queue] >= exec[t].left
  BY <1>1, <1>2 DEF Covered
<1>4. exec[t].queue \in Queues /\ exec[t].left \in Int
  BY <1>1, <1>3, Facts DEF IInv, InDepth
<1>5. own[o][exec[t].queue] \in Int
  BY <1>4 DEF GraveTypeOK, Steps, NotYet
<1>6. own'[o][exec[t].queue] \in Int /\ own'[o][exec[t].queue] >= own[o][exec[t].queue]
  BY <1>4
<1>7. QED
  BY <1>2, <1>3, <1>4, <1>5, <1>6 DEF Running

LEMMA OwnInt ==
  ASSUME GraveTypeOK
  PROVE  \A o \in Objects, q \in Queues : own[o][q] \in Int /\ own[o][q] >= own[o][q]
BY DEF GraveTypeOK, Steps, NotYet

\* Steps that touch no grave.
LEMMA StillKeeps ==
  ASSUME TypeOK, IInv, GraveTypeOK, GInv, Sails, UNCHANGED <<graves, uses>>, nextTag' = nextTag,
         KeptCovers', SignalledTracked',
         (UNCHANGED <<holder, kept>>) \/ (holder = "nothing")
  PROVE  GInv'
<1> USE DEF GInv
<1>1. UsesKnown'
  BY DEF UsesKnown
<1>2. GatingHeld'
  BY DEF GatingHeld, graves
<1>3. GatingCovered'
  <2>1. ASSUME NEW o \in Objects, obj'[o] = "gating" PROVE Covered(o, kept)'
    <3>1. obj[o] = "gating" /\ own'[o] = own[o] /\ uses'[o] = uses[o]
      BY <2>1 DEF graves
    <3>2. kept' = kept /\ Covered(o, kept)
      BY <3>1 DEF GatingHeld, GatingCovered
    <3>3. QED
      BY <3>1, <3>2, CoverKeeps, OwnInt DEF Covered
  <2>2. QED
    BY <2>1 DEF GatingCovered
<1>4. BuriedCovered'
  <2>1. ASSUME NEW o \in Objects, obj'[o] = "buried" PROVE Covered(o, fences[o])'
    <3>1. obj[o] = "buried" /\ own'[o] = own[o] /\ uses'[o] = uses[o] /\ fences'[o] = fences[o]
      BY <2>1 DEF graves
    <3>2. Covered(o, fences[o])
      BY <3>1 DEF BuriedCovered
    <3>3. QED
      BY <3>1, <3>2, CoverKeeps, OwnInt DEF Covered
  <2>2. QED
    BY <2>1 DEF BuriedCovered
<1>5. FreedSafe'
  BY DEF FreedSafe, In, Sails, GraveTypeOK, graves
<1>6. QED
  BY <1>1, <1>2, <1>3, <1>4, <1>5

\* Steps of the host and of queues that touch no grave and no recording's fence.
LEMMA QuietKeeps ==
  ASSUME TypeOK, IInv, GraveTypeOK, GInv, Sails, tracked \subseteq tracked',
         UNCHANGED <<graves, uses, holder, kept, nextTag, sig>>,
         \A t \in Tags : sig[t] # NotYet => rec'[t].queue = rec[t].queue
  PROVE  GInv'
<1>1. SignalledTracked'
  BY SignalledKeeps DEF GInv
<1>2. KeptCovers'
  BY KeptKeeps DEF GInv
<1>3. QED
  BY <1>1, <1>2, StillKeeps

\* A Push claims only recordings nobody signalled.
LEMMA PushQueues ==
  ASSUME TypeOK, IInv, NEW q \in Queues, NEW l \in Lists, Push(q, l)
  PROVE  \A t \in Tags : sig[t] # NotYet => rec'[t].queue = rec[t].queue
BY PushEffect DEF IInv, Unclaimed, Signalled

LEMMA UnnoticedKeeps ==
  ASSUME TypeOK, IInv, GraveTypeOK, GInv, Unnoticed
  PROVE  GInv'
<1>1. UNCHANGED <<graves, kept, holder, uses>>
  BY DEF Unnoticed
<1>2. ASSUME NEW q \in Queues, Track(q) PROVE GInv'
  <2>1. Sails
    BY <1>2, CalmSails DEF Track
  <2>2. QED
    BY <1>1, <1>2, <2>1, QuietKeeps DEF Track
<1>3. ASSUME NEW q \in Queues, NativeAfterReport(q) PROVE GInv'
  <2>1. call[q].list \in Lists
    BY <1>3 DEF NativeAfterReport, Reported, TypeOK, Submitting
  <2>2. Sails
    BY <1>3, <2>1, NativeSails DEF NativeAfterReport
  <2>3. UNCHANGED coreVars
    BY <1>3 DEF NativeAfterReport
  <2>4. QED
    BY <1>1, <2>2, <2>3, QuietKeeps DEF coreVars
<1>4. ASSUME NEW q \in Queues, ReportAfter(q) PROVE GInv'
  <2>1. call[q].list \in Lists /\ Push(q, call[q].list)
    BY <1>4 DEF ReportAfter, TypeOK, Submitting
  <2>2. Sails
    BY <1>4, CalmSails DEF ReportAfter
  <2>3. UNCHANGED <<tracked, nextTag, sig>>
    BY <1>4 DEF ReportAfter
  <2>4. QED
    BY <1>1, <2>1, <2>2, <2>3, PushQueues, QuietKeeps
<1>5. ASSUME NEW q \in Queues, NEW l \in Lists, ReportBefore(q, l) PROVE GInv'
  <2>1. Push(q, l) /\ UNCHANGED <<tracked, nextTag, sig>>
    BY <1>5 DEF ReportBefore
  <2>2. Sails
    BY <1>5, CalmSails DEF ReportBefore
  <2>3. QED
    BY <1>1, <2>1, <2>2, PushQueues, QuietKeeps
<1>6. ASSUME NEW q \in Queues, NEW l \in Lists, NativeHooked(q, l) \/ SubmitUnseen(q, l) PROVE GInv'
  <2>1. Native(q, l) /\ UNCHANGED coreVars
    BY <1>6 DEF NativeHooked, SubmitUnseen
  <2>2. Sails
    BY <2>1, NativeSails
  <2>3. QED
    BY <1>1, <2>1, <2>2, QuietKeeps DEF coreVars
<1>7. ASSUME NEW l \in Lists, Discard(l) PROVE GInv'
  <2>1. Sails
    BY <1>7, CalmSails DEF Discard, TypeOK
  <2>2. QED
    BY <1>1, <1>7, <2>1, QuietKeeps DEF Discard, coreVars
<1>8. CASE DeviceRemoved
  <2>1. Sails
    BY <1>8, CalmSails DEF DeviceRemoved, hostVars
  <2>2. QED
    BY <1>1, <1>8, <2>1, QuietKeeps DEF DeviceRemoved, coreVars
<1>9. QED
  BY <1>2, <1>3, <1>4, <1>5, <1>6, <1>7, <1>8 DEF Unnoticed

\* The steps that drain: an evaluate that begins, a present.
LEMMA DrainingKeeps ==
  ASSUME TypeOK, IInv, IInv', GraveTypeOK, GInv, NEW policy, Drain(policy), Erase,
         holder = "nothing",
         UNCHANGED <<tracked, rec, nextTag, content, exec, graves, uses>>
  PROVE  GInv'
<1>1. Sails
  BY CalmSails
<1>2. SignalledTracked'
  BY DrainSignalled DEF GInv
<1>3. KeptCovers'
  BY <1>1, <1>2, EraseKeeps DEF GInv
<1>4. QED
  BY <1>1, <1>2, <1>3, StillKeeps

LEMMA EvaluatingKeeps ==
  ASSUME TypeOK, IInv, IInv', GraveTypeOK, GInv,
         \/ \E l \in Lists : REvaluateBegin(l)
         \/ \E first \in BOOLEAN : RHousekeeping(first)
         \/ REvaluateEnd
  PROVE  GInv'
<1>1. ASSUME NEW l \in Lists, REvaluateBegin(l) PROVE GInv'
  BY <1>1, DrainingKeeps DEF REvaluateBegin, EvaluateBegin, hostVars
<1>2. ASSUME NEW first \in BOOLEAN, RHousekeeping(first) PROVE GInv'
  <2>1. UNCHANGED <<tracked, rec, nextTag, content, exec, graves, uses>>
    BY <1>2 DEF RHousekeeping, Housekeeping
  <2>2. CASE evaluating = NoList
    BY <1>2, <2>1, <2>2, DrainingKeeps DEF RHousekeeping, Housekeeping
  <2>3. CASE evaluating # NoList
    <3>1. Sails
      BY <2>1, CalmSails
    <3>2. UNCHANGED <<sig, holder, kept>>
      BY <1>2, <2>3 DEF RHousekeeping, Housekeeping
    <3>3. QED
      BY <2>1, <3>1, <3>2, QuietKeeps
  <2>4. QED
    BY <2>2, <2>3
<1>3. CASE REvaluateEnd
  <2>1. UNCHANGED <<coreVars, hostVars, graves, kept, holder, uses>>
    BY <1>3 DEF REvaluateEnd, EvaluateEnd
  <2>2. Sails
    BY <2>1, CalmSails DEF hostVars
  <2>3. QED
    BY <2>1, <2>2, QuietKeeps DEF coreVars
<1>4. QED
  BY <1>1, <1>2, <1>3

\* What a use point adds is in recordings_ and new to every grave.
LEMMA RUsePointKeeps ==
  ASSUME TypeOK, IInv, GraveTypeOK, GInv, NEW l \in Lists, RUsePoint(l)
  PROVE  GInv'
<1> USE DEF GInv
<1>1. /\ holder = "nothing" /\ UsePoint(l) /\ Uses(RecordedUse(l))
      /\ kept' = kept \cup ((nextTag + 1) .. nextTag')
      /\ UNCHANGED <<graves, holder>>
  BY DEF RUsePoint
<1>2. UNCHANGED <<tracked, sig, exec>>
  BY <1>1 DEF UsePoint
<1>3. /\ nextTag \in Nat /\ nextTag' \in {nextTag, nextTag + 1}
      /\ RecordedUse(l) \in 1 .. nextTag'
  <2>1. CASE ThisEvaluate(l)
    BY <1>1, <2>1, Facts DEF UsePoint, RecordedUse, ThisEvaluate, Pending, Unclaimed
  <2>2. CASE ~ThisEvaluate(l)
    <3>1. nextTag' = nextTag + 1
      BY <1>1, <2>2 DEF UsePoint
    <3>2. RecordedUse(l) = nextTag + 1
      BY <2>2 DEF RecordedUse
    <3>3. QED
      BY <3>1, <3>2, Facts
  <2>3. QED
    BY <2>1, <2>2
<1>4. ASSUME NEW t \in Tags, InFlight(t)', ~InFlight(t) PROVE t \in kept' /\ t > nextTag
  <2>1. PICK k \in Lists : t \in content'[k]
    BY <1>2, <1>4 DEF InFlight, Running
  <2>2. t \notin content[k]
    BY <1>4 DEF InFlight
  <2>3. CASE ThisEvaluate(l)
    <3>1. \A m \in Lists : content'[m] = IF m = l THEN content[l] \cup {listTag[l]} ELSE content[m]
      BY <1>1, <2>3 DEF UsePoint, TypeOK
    <3>2. listTag[l] \in content[l]
      BY <1>1, <2>3 DEF UsePoint, IInv, WritesInList
    <3>3. QED
      BY <2>1, <2>2, <3>1, <3>2
  <2>4. CASE ~ThisEvaluate(l)
    <3>1. /\ \A m \in Lists : content'[m] = IF m = l THEN content[l] \cup {nextTag + 1} ELSE content[m]
          /\ nextTag' = nextTag + 1
      BY <1>1, <2>4 DEF UsePoint, TypeOK
    <3>2. t = nextTag + 1
      BY <2>1, <2>2, <3>1
    <3>3. QED
      BY <1>1, <1>3, <3>1, <3>2
  <2>5. QED
    BY <2>3, <2>4
<1>5. KeptCovers'
  BY <1>1, <1>2, <1>4 DEF KeptCovers, Running
<1>6. SignalledTracked'
  <2>1. \A t \in Tags : t <= nextTag => rec'[t] = rec[t]
    <3> DEFINE new == Made(l, evalCounter, Previous(l), TRUE)
    <3>1. rec' = rec \/ rec' = [rec EXCEPT ![nextTag + 1] = new]
      BY <1>1 DEF UsePoint
    <3> HIDE DEF new
    <3>2. \A t \in Tags : t # nextTag + 1 => rec'[t] = rec[t]
      BY <3>1 DEF TypeOK
    <3>3. QED
      BY <3>2, Facts
  <2>2. \A t \in Tags : sig[t] # NotYet => t <= nextTag
    BY Facts DEF IInv, BeyondBlank
  <2>3. QED
    BY <1>2, <2>1, <2>2 DEF SignalledTracked, Running
<1>7. UsesKnown'
  <2>1. \A o \in Objects : uses'[o] \subseteq uses[o] \cup {RecordedUse(l)}
    BY <1>1 DEF Uses
  <2>2. QED
    BY <1>3, <2>1 DEF UsesKnown
<1>8. GatingHeld' /\ \A o \in Objects : obj'[o] # "gating"
  BY <1>1 DEF GatingHeld, graves
<1>9. \A o \in Objects : obj[o] # "live" => uses'[o] = uses[o]
  BY <1>1 DEF Uses, GraveTypeOK
<1>10. \A o \in Objects : \A t \in uses[o] : t \in Tags /\ (InFlight(t)' => InFlight(t))
  BY <1>3, <1>4, Facts DEF UsesKnown, GraveTypeOK
<1>11. GatingCovered'
  BY <1>8 DEF GatingCovered
<1>12. BuriedCovered'
  BY <1>1, <1>2, <1>9, <1>10 DEF BuriedCovered, Covered, Running, graves
<1>13. FreedSafe'
  BY <1>1, <1>9, <1>10 DEF FreedSafe, In, graves
<1>14. QED
  BY <1>5, <1>6, <1>7, <1>8, <1>11, <1>12, <1>13

\* The GPU takes a running use and a gate's signal behind it forward together.
LEMMA RGpuStepKeeps ==
  ASSUME TypeOK, IInv, GraveTypeOK, GInv, NEW p \in Queues, RGpuStep(p)
  PROVE  GInv'
<1> USE DEF GInv
<1>1. /\ GpuStep(p) /\ UNCHANGED <<obj, fences, extra, kept, holder, uses>>
      /\ \A o \in Objects, q \in Queues :
           own'[o][q] = IF q = p THEN Closer(own[o][q]) ELSE own[o][q]
  BY DEF RGpuStep, GraveTypeOK
<1>2. /\ \A t \in Tags : exec'[t].queue = exec[t].queue /\
           exec'[t].left = IF exec[t].queue = p THEN Closer(exec[t].left) ELSE exec[t].left
      /\ \A t \in Tags : sig'[t] = IF rec[t].queue = p THEN Closer(sig[t]) ELSE sig[t]
  BY <1>1 DEF GpuStep, TypeOK, Executing
<1>3. UNCHANGED <<tracked, rec, nextTag, content>>
  BY <1>1 DEF GpuStep
<1>4. ASSUME NEW t \in Tags
      PROVE  /\ Running(t)' => Running(t)
             /\ InFlight(t)' => InFlight(t)
             /\ sig'[t] # NotYet => sig[t] # NotYet
  BY <1>2, <1>3, Facts DEF Running, InFlight, Closer
<1>5. KeptCovers'
  <2>1. ASSUME NEW t \in Tags, InFlight(t)'
        PROVE  t \in kept' \/ (Running(t)' /\ exec'[t].queue \in tracked')
    <3>1. t \in kept \/ (Running(t) /\ exec[t].queue \in tracked)
      BY <1>4, <2>1 DEF KeptCovers
    <3>2. Running(t) => Running(t)'
      BY <1>3, <2>1 DEF InFlight, Running, IInv, InListFresh, NotYet
    <3>3. QED
      BY <1>1, <1>2, <1>3, <3>1, <3>2
  <2>2. QED
    BY <2>1 DEF KeptCovers
<1>6. SignalledTracked'
  BY <1>3, <1>4 DEF SignalledTracked
<1>7. UsesKnown' /\ GatingHeld'
  BY <1>1, <1>3 DEF UsesKnown, GatingHeld
<1>8. ASSUME NEW o \in Objects, NEW held, Covered(o, held), NEW t \in uses[o], InFlight(t)'
      PROVE  t \in held \/ (Running(t)' /\ own'[o][exec'[t].queue] >= exec'[t].left)
  <2>1. t \in Tags
    BY DEF GraveTypeOK
  <2>2. t \in held \/ (Running(t) /\ own[o][exec[t].queue] >= exec[t].left)
    BY <1>4, <1>8, <2>1 DEF Covered
  <2>3. CASE Running(t) /\ own[o][exec[t].queue] >= exec[t].left
    <3>1. Running(t)'
      BY <1>3, <1>8, <2>1, <2>3 DEF InFlight, Running, IInv, InListFresh, NotYet
    <3>2. exec[t].queue \in Queues /\ exec[t].left \in Int
      BY <2>1, <2>3, Facts DEF IInv, InDepth
    <3>3. own[o][exec[t].queue] \in Int
      BY <3>2, OwnInt
    <3>4. exec'[t].left > 0 /\ exec'[t].queue = exec[t].queue
      BY <1>2, <2>1, <3>1 DEF Running
    <3>5. CASE exec[t].queue = p
      <4>1. exec'[t].left = exec[t].left - 1
        BY <1>2, <2>1, <2>3, <3>5 DEF Closer, Running
      <4>2. own'[o][p] = own[o][p] - 1
        BY <1>1, <2>3, <3>2, <3>3, <3>5 DEF Closer, Running
      <4>3. QED
        BY <2>3, <3>1, <3>2, <3>3, <3>4, <3>5, <4>1, <4>2
    <3>6. CASE exec[t].queue # p
      <4>1. exec'[t].left = exec[t].left
        BY <1>2, <2>1, <3>6
      <4>2. own'[o][exec[t].queue] = own[o][exec[t].queue]
        BY <1>1, <3>2, <3>6
      <4>3. QED
        BY <2>3, <3>1, <3>4, <4>1, <4>2
    <3>7. QED
      BY <3>5, <3>6
  <2>4. QED
    BY <2>2, <2>3
<1>9. GatingCovered'
  <2>1. ASSUME NEW o \in Objects, obj'[o] = "gating" PROVE Covered(o, kept)'
    <3>1. obj[o] = "gating" /\ Covered(o, kept) /\ kept' = kept /\ uses' = uses
      BY <1>1, <2>1 DEF GatingCovered
    <3>2. QED
      BY <1>8, <3>1 DEF Covered
  <2>2. QED
    BY <2>1 DEF GatingCovered
<1>10. BuriedCovered'
  <2>1. ASSUME NEW o \in Objects, obj'[o] = "buried" PROVE Covered(o, fences[o])'
    <3>1. obj[o] = "buried" /\ Covered(o, fences[o]) /\ fences' = fences /\ uses' = uses
      BY <1>1, <2>1 DEF BuriedCovered
    <3>2. QED
      BY <1>8, <3>1 DEF Covered
  <2>2. QED
    BY <2>1 DEF BuriedCovered
<1>11. FreedSafe'
  BY <1>1, <1>4 DEF FreedSafe, In, GraveTypeOK
<1>12. QED
  BY <1>5, <1>6, <1>7, <1>9, <1>10, <1>11

\* A queue with no running use goes: its serial fences in gates become places.
LEMMA RUntrackKeeps ==
  ASSUME TypeOK, IInv, GraveTypeOK, GInv, NEW p \in Queues, RUntrack(p)
  PROVE  GInv'
<1> USE DEF GInv
<1>1. /\ \A t \in Tags : Running(t) => exec[t].queue # p
      /\ Untrack(p) /\ UNCHANGED <<obj, fences, extra, kept, holder, uses>>
  BY DEF RUntrack
<1>2. \A o \in Objects, q \in Queues : own'[o][q] \in Int /\ own'[o][q] >= own[o][q]
  <2>1. ASSUME NEW o \in Objects, NEW q \in Queues
        PROVE  own'[o][q] \in Int /\ own'[o][q] >= own[o][q]
    <3>1. own[o][q] \in Int /\ own[o][p] \in Int /\ serials[o][p] \in Nat
      BY OwnInt DEF GraveTypeOK
    <3>2. SerialSignal(p, serials[o][p]) \in Nat
      BY <3>1, SerialSignalType
    <3>3. own'[o][q] = IF q # p \/ serials[o][p] = 0 THEN own[o][q]
                       ELSE Behind(own[o][p], SerialSignal(p, serials[o][p]))
      BY DEF RUntrack, GraveTypeOK
    <3>4. QED
      BY <3>1, <3>2, <3>3 DEF Behind
  <2>2. QED
    BY <2>1
<1>3. /\ tracked' = tracked \ {p} /\ UNCHANGED <<rec, nextTag, exec>>
      /\ \A l \in Lists : content'[l] \subseteq content[l]
      /\ \A t \in Tags : sig'[t] = sig[t] \/ (rec[t].queue = p /\ rec[t].serial > 0)
  BY <1>1 DEF Untrack, DueOn
<1>4. Sails
  BY <1>3, CalmSails
<1>5. KeptCovers'
  BY <1>1, <1>3, <1>4 DEF KeptCovers, Sails, InFlight, Running
<1>6. SignalledTracked'
  <2>1. ASSUME NEW t \in Tags, sig'[t] # NotYet, Running(t)' PROVE rec'[t].queue \in tracked'
    <3>1. Running(t) /\ exec[t].queue # p
      BY <1>1, <1>3, <2>1 DEF Running
    <3>2. sig'[t] = sig[t]
      BY <1>3, <3>1 DEF IInv, OnItsQueue
    <3>3. rec[t].queue \in tracked /\ exec[t].queue = rec[t].queue
      BY <2>1, <3>1, <3>2 DEF SignalledTracked, IInv, SignalBehindWork
    <3>4. QED
      BY <1>3, <3>1, <3>3
  <2>2. QED
    BY <2>1 DEF SignalledTracked
<1>7. UsesKnown' /\ GatingHeld'
  BY <1>1, <1>3 DEF UsesKnown, GatingHeld
<1>8. GatingCovered'
  BY <1>1, <1>2, <1>4, CoverKeeps DEF GatingCovered, Covered
<1>9. BuriedCovered'
  BY <1>1, <1>2, <1>4, CoverKeeps DEF BuriedCovered, Covered
<1>10. FreedSafe'
  BY <1>1, <1>4 DEF FreedSafe, In, Sails, GraveTypeOK
<1>11. QED
  BY <1>5, <1>6, <1>7, <1>8, <1>9, <1>10

\* A gate's own signals come behind everything that runs on a registered queue.
LEMMA FreshCover ==
  ASSUME TypeOK, IInv, GraveTypeOK, KeptCovers, NEW S, SignalGateAll(S), NEW o \in Objects, o \in S,
         NEW t \in uses[o], InFlight(t)
  PROVE  t \in kept \/ (Running(t) /\ own'[o][exec[t].queue] >= exec[t].left)
<1>1. t \in Tags
  BY DEF GraveTypeOK
<1>2. CASE Running(t) /\ exec[t].queue \in tracked
  <2>1. exec[t].queue \in Queues /\ exec[t].left \in Int /\ exec[t].left <= depth[exec[t].queue]
        /\ depth[exec[t].queue] \in Nat
    BY <1>1, <1>2, Facts DEF IInv, InDepth
  <2>2. own'[o][exec[t].queue] = depth[exec[t].queue] + 1
    BY <1>2, <2>1, SignalGateAllEffect
  <2>3. QED
    BY <1>2, <2>1, <2>2
<1>3. QED
  BY <1>1, <1>2 DEF KeptCovers

\* The first half of a gate.
LEMMA GateKeeps ==
  ASSUME TypeOK, IInv, GraveTypeOK, GInv, NEW S, Gate(S),
         \A o \in Objects \cap S : obj[o] \in {"live", "deferred"},
         \A o \in In("freed") : extra'[o] = extra[o]
  PROVE  GInv'
<1> USE DEF GInv
<1>1. /\ holder = "nothing" /\ holder' = "gate" /\ SignalGateAll(S)
      /\ \A o \in Objects : obj'[o] = IF o \in S THEN "gating" ELSE obj[o]
      /\ UNCHANGED <<fences, kept, uses>>
  BY DEF Gate
<1>2. UNCHANGED <<coreVars, hostVars>>
  BY <1>1, SignalGateAllEffect
<1>3. \A o \in Objects : obj[o] # "gating"
  BY <1>1 DEF GatingHeld
<1>4. \A t \in Tags : Running(t)' = Running(t) /\ InFlight(t)' = InFlight(t) /\ exec' = exec
  BY <1>2 DEF Running, InFlight, hostVars
<1>5. KeptCovers' /\ SignalledTracked' /\ UsesKnown' /\ GatingHeld'
  BY <1>1, <1>2, <1>4 DEF KeptCovers, SignalledTracked, UsesKnown, GatingHeld, coreVars
<1>6. GatingCovered'
  <2>1. ASSUME NEW o \in Objects, obj'[o] = "gating" PROVE Covered(o, kept)'
    <3>1. o \in S
      BY <1>1, <1>3, <2>1
    <3>2. \A t \in uses[o] : t \in Tags
      BY DEF GraveTypeOK
    <3>3. \A t \in uses[o] : InFlight(t) => t \in kept \/ (Running(t) /\ own'[o][exec[t].queue] >= exec[t].left)
      BY <1>1, <3>1, FreshCover
    <3>4. QED
      BY <1>1, <1>4, <3>2, <3>3 DEF Covered
  <2>2. QED
    BY <2>1 DEF GatingCovered
<1>7. BuriedCovered'
  <2>1. ASSUME NEW o \in Objects, obj'[o] = "buried" PROVE Covered(o, fences[o])'
    <3>1. o \notin S /\ obj[o] = "buried" /\ Covered(o, fences[o])
      BY <1>1, <2>1 DEF BuriedCovered
    <3>2. \A q \in Queues : own'[o][q] = own[o][q]
      BY <1>1, <3>1, SignalGateAllEffect
    <3>3. Sails
      BY <1>2, CalmSails DEF hostVars
    <3>4. \A q \in Queues : own'[o][q] \in Int /\ own'[o][q] >= own[o][q]
      BY <3>2, OwnInt
    <3>5. fences'[o] = fences[o] /\ uses'[o] = uses[o]
      BY <1>1
    <3>6. \A t \in uses'[o] : InFlight(t)' =>
            t \in fences[o] \/ (Running(t)' /\ own'[o][exec'[t].queue] >= exec'[t].left)
      BY <3>1, <3>3, <3>4, <3>5, CoverKeeps
    <3>7. QED
      BY <3>5, <3>6 DEF Covered
  <2>2. QED
    BY <2>1 DEF BuriedCovered
<1>8. FreedSafe'
  <2>1. ASSUME NEW o \in Objects, obj'[o] = "freed"
        PROVE  extra'[o] # "waiting" /\ \A t \in uses'[o] : ~InFlight(t)'
    <3>1. o \in In("freed") /\ uses'[o] = uses[o] /\ \A t \in uses[o] : t \in Tags
      BY <1>1, <2>1 DEF In, GraveTypeOK
    <3>2. QED
      BY <1>4, <3>1 DEF FreedSafe
  <2>2. QED
    BY <2>1 DEF FreedSafe, In
<1>9. QED
  BY <1>5, <1>6, <1>7, <1>8

\* The second half: the recordings held by the gate are all that are left.
LEMMA BuryKeeps ==
  ASSUME TypeOK, IInv, GraveTypeOK, GInv, Bury
  PROVE  GInv'
<1> USE DEF GInv
<1>1. /\ holder' = "nothing" /\ PendingGateAll(In("gating"))
      /\ \A o \in Objects : obj'[o] = IF obj[o] = "gating" THEN "buried" ELSE obj[o]
      /\ UNCHANGED <<vars, own, extra, kept, uses>>
  BY DEF Bury
<1>2. \A o \in Objects : fences'[o] = IF obj[o] = "gating" THEN kept ELSE fences[o]
  BY <1>1, PendingGateAllEffect DEF In
<1>3. UNCHANGED <<exec, content, tracked, sig, rec, nextTag>>
  BY <1>1 DEF vars, coreVars, hostVars
<1>4. \A t : Running(t)' = Running(t) /\ InFlight(t)' = InFlight(t)
  BY <1>3 DEF Running, InFlight
<1>5. KeptCovers' /\ SignalledTracked' /\ UsesKnown'
  BY <1>1, <1>3, <1>4 DEF KeptCovers, SignalledTracked, UsesKnown
<1>6. GatingHeld' /\ GatingCovered'
  BY <1>1 DEF GatingHeld, GatingCovered
<1>7. BuriedCovered'
  BY <1>1, <1>2, <1>3, <1>4 DEF BuriedCovered, GatingCovered, Covered
<1>8. FreedSafe'
  BY <1>1, <1>4 DEF FreedSafe, In
<1>9. QED
  BY <1>5, <1>6, <1>7, <1>8

\* What a drain frees: every use its gate held is over.
LEMMA PassedOver ==
  ASSUME TypeOK, IInv, GraveTypeOK, GInv, NEW o \in Objects, obj[o] = "buried", GatePassed(o),
         NEW t \in uses[o]
  PROVE  ~InFlight(t)
<1> USE DEF GInv
<1>1. t \in Tags /\ t \in 1 .. nextTag
  BY DEF GraveTypeOK, UsesKnown
<1>2. SUFFICES ASSUME InFlight(t) PROVE FALSE
  OBVIOUS
<1>3. t \in fences[o] \/ (Running(t) /\ own[o][exec[t].queue] >= exec[t].left)
  BY <1>2 DEF BuriedCovered, Covered
<1>4. CASE t \in fences[o]
  BY <1>1, <1>2, <1>4, InvSafe DEF GatePassed, ReleaseSafe
<1>5. CASE Running(t) /\ own[o][exec[t].queue] >= exec[t].left
  <2>1. exec[t].queue \in Queues /\ exec[t].left \in Int /\ exec[t].left > 0
    BY <1>1, <1>5, Facts DEF IInv, InDepth, Running
  <2>2. own[o][exec[t].queue] \in {NotYet, 0}
    BY <2>1 DEF GatePassed
  <2>3. QED
    BY <1>5, <2>1, <2>2 DEF NotYet
<1>6. QED
  BY <1>3, <1>4, <1>5

LEMMA DrainGraveyardKeeps ==
  ASSUME TypeOK, IInv, GraveTypeOK, GInv, DrainGraveyard
  PROVE  GInv'
<1> USE DEF GInv
<1> DEFINE passed == {o \in In("buried") : Frees(o)}
           again == {o \in In("buried") : GateEmpty(o) /\ dueEval[o] <= evalCounter}
           flushed == IF Announced(passed) = {} THEN {} ELSE In("deferred")
<1>1. /\ holder = "drain" /\ holder' = "nothing"
      /\ SignalGateAll(again \cup flushed) /\ PendingGateAll(flushed)
      /\ \A o \in Objects : obj'[o] = IF o \in passed THEN "freed"
                                      ELSE IF o \in flushed THEN "buried" ELSE obj[o]
      /\ UNCHANGED <<extra, kept, uses>>
  BY DEF DrainGraveyard
<1>2. /\ \A o \in passed : o \in Objects /\ obj[o] = "buried" /\ GatePassed(o)
      /\ \A o \in again : obj[o] = "buried" /\ GateEmpty(o)
      /\ \A o \in flushed : obj[o] = "deferred"
  BY DEF In, Frees
<1> HIDE DEF passed, again, flushed
<1>3. UNCHANGED <<exec, content, tracked, sig, rec, nextTag>>
  BY <1>1, SignalGateAllEffect DEF coreVars, hostVars
<1>4. \A t : Running(t)' = Running(t) /\ InFlight(t)' = InFlight(t)
  BY <1>3 DEF Running, InFlight
<1>5. \A o \in Objects : fences'[o] = IF o \in flushed THEN kept ELSE fences[o]
  BY <1>1, PendingGateAllEffect
<1>6. KeptCovers' /\ SignalledTracked' /\ UsesKnown'
  BY <1>1, <1>3, <1>4 DEF KeptCovers, SignalledTracked, UsesKnown
<1>7. GatingHeld' /\ GatingCovered'
  BY <1>1 DEF GatingHeld, GatingCovered
<1>8. BuriedCovered'
  <2>1. ASSUME NEW o \in Objects, obj'[o] = "buried", NEW t \in uses[o], InFlight(t)
        PROVE  t \in fences'[o] \/ (Running(t) /\ own'[o][exec[t].queue] >= exec[t].left)
    <3>1. CASE o \in flushed
      BY <1>1, <1>5, <2>1, <3>1, FreshCover
    <3>2. CASE o \in again
      <4>1. fences[o] = {} /\ \A q \in Queues : own[o][q] = NotYet
        BY <1>2, <3>2 DEF GateEmpty
      <4>2. Running(t) /\ own[o][exec[t].queue] >= exec[t].left
        BY <1>2, <2>1, <3>2, <4>1 DEF BuriedCovered, Covered
      <4>3. t \in Tags
        BY <2>1 DEF GraveTypeOK
      <4>4. exec[t].queue \in Queues /\ exec[t].left \in Int
        BY <4>2, <4>3, Facts DEF IInv, InDepth
      <4>5. QED
        BY <4>1, <4>2, <4>4 DEF Running, NotYet
    <3>3. CASE o \notin flushed /\ o \notin again
      <4>1. obj[o] = "buried" /\ fences'[o] = fences[o]
        BY <1>1, <1>5, <2>1, <3>3
      <4>2. \A q \in Queues : own'[o][q] = own[o][q]
        BY <1>1, <3>3, SignalGateAllEffect
      <4>3. t \in Tags
        BY <2>1 DEF GraveTypeOK
      <4>4. Running(t) => exec[t].queue \in Queues
        BY <4>3 DEF IInv, InDepth
      <4>5. QED
        BY <2>1, <4>1, <4>2, <4>4 DEF BuriedCovered, Covered
    <3>4. QED
      BY <3>1, <3>2, <3>3
  <2>2. QED
    BY <1>1, <1>3, <1>4, <2>1 DEF BuriedCovered, Covered
<1>9. FreedSafe'
  <2>1. ASSUME NEW o \in Objects, obj'[o] = "freed"
        PROVE  extra[o] # "waiting" /\ \A t \in uses[o] : ~InFlight(t)
    <3>1. CASE o \in passed
      BY <1>2, <3>1, PassedOver DEF GatePassed
    <3>2. CASE o \notin passed
      BY <1>1, <2>1, <3>2 DEF FreedSafe, In
    <3>3. QED
      BY <3>1, <3>2
  <2>2. QED
    BY <1>1, <1>4, <2>1 DEF FreedSafe, In
<1>10. QED
  BY <1>6, <1>7, <1>8, <1>9

\* Steps of hosts with their resources that take no gate.
LEMMA HostKeeps ==
  ASSUME TypeOK, IInv, GraveTypeOK, GInv,
         \/ \E o \in Objects, e \in {"none", "waiting"} : RetireInCallback(o, e)
         \/ \E o \in Objects : HostSignals(o)
         \/ UNCHANGED rvars
  PROVE  GInv'
<1> USE DEF GInv
<1>1. /\ UNCHANGED <<vars, fences, own, kept, holder, uses>>
      /\ \A o \in Objects : obj'[o] = obj[o] \/ (obj[o] = "live" /\ obj'[o] = "deferred")
      /\ \A o \in Objects : obj[o] = "freed" => extra'[o] = extra[o] \/ extra'[o] = "passed"
  BY DEF RetireInCallback, HostSignals, GraveTypeOK, rvars, graves
<1>2. UNCHANGED <<exec, content, tracked, sig, rec, nextTag>>
  BY <1>1 DEF vars, coreVars, hostVars
<1>3. \A t : Running(t)' = Running(t) /\ InFlight(t)' = InFlight(t)
  BY <1>2 DEF Running, InFlight
<1>4. KeptCovers' /\ SignalledTracked' /\ UsesKnown' /\ GatingHeld'
  BY <1>1, <1>2, <1>3 DEF KeptCovers, SignalledTracked, UsesKnown, GatingHeld
<1>5. GatingCovered'
  BY <1>1, <1>2, <1>3 DEF GatingCovered, Covered
<1>6. BuriedCovered'
  BY <1>1, <1>2, <1>3 DEF BuriedCovered, Covered
<1>7. FreedSafe'
  BY <1>1, <1>3 DEF FreedSafe, In
<1>8. QED
  BY <1>4, <1>5, <1>6, <1>7

LEMMA InitGrave == RInit => GInv
<1> SUFFICES ASSUME RInit PROVE GInv
  OBVIOUS
<1>1. \A t \in Tags : ~InFlight(t)
  BY DEF RInit, Init, NoExec, InFlight, Running, NotYet
<1>2. KeptCovers /\ SignalledTracked /\ UsesKnown
  BY <1>1 DEF RInit, KeptCovers, SignalledTracked, UsesKnown, InFlight
<1>3. GatingHeld /\ GatingCovered /\ BuriedCovered /\ FreedSafe
  BY DEF RInit, GatingHeld, GatingCovered, BuriedCovered, FreedSafe, In
<1>4. QED
  BY <1>2, <1>3 DEF GInv

LEMMA StepGrave ==
  ASSUME PresentOverlaps = FALSE, FenceFails = FALSE
  PROVE  TypeOK /\ IInv /\ GraveTypeOK /\ GInv /\ [RNext]_rvars => GInv'
<1> SUFFICES ASSUME TypeOK, IInv, GraveTypeOK, GInv, [RNext]_rvars PROVE GInv'
  OBVIOUS
<1>0. IInv'
  BY StepComposed, StepInv
<1>1. CASE \E l \in Lists : RUsePoint(l)
  BY <1>1, RUsePointKeeps
<1>2. CASE \E l \in Lists : RUsePointFails(l)
  BY <1>2 DEF RUsePointFails
<1>3. CASE \/ \E l \in Lists : REvaluateBegin(l)
           \/ \E first \in BOOLEAN : RHousekeeping(first)
           \/ REvaluateEnd
  BY <1>0, <1>3, EvaluatingKeeps
<1>4. CASE \E q \in Queues : RGpuStep(q) \/ RUntrack(q)
  BY <1>4, RGpuStepKeeps, RUntrackKeeps
<1>5. CASE Unnoticed
  BY <1>5, UnnoticedKeeps
<1>6. ASSUME NEW o \in Objects, NEW e \in {"none", "waiting"}, RetireResource(o, e) PROVE GInv'
  BY <1>6, GateKeeps DEF RetireResource, In, GraveTypeOK
<1>7. ASSUME NEW o \in Objects, Rebuild(o) PROVE GInv'
  BY <1>7, GateKeeps DEF Rebuild, In
<1>8. ASSUME NEW f \in Features, ReleaseFeature(f) PROVE GInv'
  <2>1. Gate({o \in In("live") : Owner[o] = f}) /\ extra' = extra
    BY <1>8 DEF ReleaseFeature
  <2>2. \A o \in Objects \cap {o \in In("live") : Owner[o] = f} : obj[o] \in {"live", "deferred"}
    BY DEF In
  <2>3. QED
    BY <2>1, <2>2, GateKeeps
<1>9. CASE EmitOther
  <2>1. Gate(In("deferred")) /\ extra' = extra
    BY <1>9 DEF EmitOther
  <2>2. \A o \in Objects \cap In("deferred") : obj[o] \in {"live", "deferred"}
    BY DEF In
  <2>3. QED
    BY <2>1, <2>2, GateKeeps
<1>10. CASE \/ \E o \in Objects, e \in {"none", "waiting"} : RetireInCallback(o, e)
            \/ \E o \in Objects : HostSignals(o)
            \/ UNCHANGED rvars
  BY <1>10, HostKeeps
<1>11. CASE Bury \/ DrainGraveyard
  BY <1>11, BuryKeeps, DrainGraveyardKeeps
<1>12. QED
  BY <1>1, <1>2, <1>3, <1>4, <1>5, <1>6, <1>7, <1>8, <1>9, <1>10, <1>11 DEF RNext

\* As long as every use gets a fence and a present finds no submission between its event
\* and its native call, nothing is freed while a list that uses it can still run or is
\* running, or before the host's own fence passed: any queues, lists, objects and features.
THEOREM NothingFreedEarly ==
  ASSUME PresentOverlaps = FALSE, FenceFails = FALSE
  PROVE  RSpec => []FreedSafe
<1>1. RInit => TypeOK /\ IInv /\ GraveTypeOK /\ GInv
  BY InitType, InitInv, InitGraveType, InitGrave DEF RInit
<1>2. TypeOK /\ IInv /\ GraveTypeOK /\ GInv /\ [RNext]_rvars => (TypeOK /\ IInv /\ GraveTypeOK /\ GInv)'
  BY StepComposed, StepType, StepInv, StepGraveType, StepGrave
<1>3. GInv => FreedSafe
  BY DEF GInv
<1>4. QED
  BY <1>1, <1>2, <1>3, PTL DEF RSpec
=============================================================================

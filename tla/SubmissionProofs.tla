-------------------------- MODULE SubmissionProofs --------------------------
(***************************************************************************)
(* Proofs about Submission, for every set of queues and lists and every    *)
(* bound: its type invariant, ReleaseSafe with the inductive invariant     *)
(* that carries it, AbandonedWindow, which needs the types only, and, on   *)
(* top of the invariant of ReleaseSafe, ClaimsWholeList, SerialBehindWork  *)
(* and the refinement of GpuUses: each step of Submission is a step of the *)
(* contract or a stutter.                                                  *)
(***************************************************************************)
EXTENDS SubmissionContract, FiniteSetTheorems, WellFoundedInduction, TLAPS

-----------------------------------------------------------------------------
(* The least-number principle, which the CHOOSE operators of the models    *)
(* (the first signal of a serial) rest on.                                 *)

\* Every set of naturals with an element has a least one.
LEMMA Least ==
  ASSUME NEW S \in SUBSET Nat, S # {}
  PROVE  \E n \in S : \A k \in S : n <= k
<1> DEFINE R == OpToRel(<, Nat)
<1>1. IsWellFoundedOn(R, Nat)
  BY NatLessThanWellFounded
<1>2. \A x, y \in Nat : y < x => <<y, x>> \in R
  BY DEF OpToRel
<1> HIDE DEF R
<1>3. PICK x \in S : \A y \in S : ~(<<y, x>> \in R)
  BY <1>1, WFMin
<1>4. ASSUME NEW k \in S PROVE x <= k
  <2>1. x \in Nat /\ k \in Nat
    OBVIOUS
  <2>2. ~(k < x)
    BY <1>2, <1>3, <2>1
  <2>3. QED
    BY <2>1, <2>2
<1>5. QED
  BY <1>4

-----------------------------------------------------------------------------
(* The type invariant.                                                     *)

\* What a Push leaves well typed: the serials it counts, the recordings it claims.
LEMMA PushType ==
  ASSUME TypeOK, NEW q \in Queues, NEW l \in Lists, Push(q, l)
  PROVE  /\ pushed' \in [Queues -> Nat]
         /\ rec' \in [Tags -> Recording]
         /\ \A t \in Tags : rec'[t].prev < t
<1>1. CASE q \notin tracked
  BY <1>1 DEF Push, TypeOK
<1>2. CASE q \in tracked
  <2>0. pushed' = [pushed EXCEPT ![q] = pushed[q] + 1]
    BY <1>2 DEF Push
  <2>1. pushed' \in [Queues -> Nat] /\ pushed[q] + 1 \in Nat
    BY <2>0 DEF TypeOK
  <2>2. \A t \in Tags : rec'[t] = Claimed(rec[t], q, pushed[q] + 1) \/ rec'[t] = rec[t]
    BY <1>2 DEF Push
  <2>3. rec' = [t \in Tags |-> rec'[t]]
    BY <1>2 DEF Push
  <2>4. ASSUME NEW t \in Tags
        PROVE  /\ rec'[t] \in Recording
               /\ rec'[t].prev < t
    <3>1. rec[t] \in Recording /\ rec[t].prev < t
      BY DEF TypeOK
    <3>2. Claimed(rec[t], q, pushed[q] + 1) \in Recording /\ Claimed(rec[t], q, pushed[q] + 1).prev < t
      BY <2>1, <3>1 DEF Recording, Claimed
    <3>3. QED
      BY <2>2, <3>1, <3>2
  <2>5. QED
    BY <2>1, <2>3, <2>4
<1>3. QED
  BY <1>1, <1>2

\* What a Drain leaves well typed: signals get a place in the queue of their recording.
LEMMA DrainType ==
  ASSUME TypeOK, NEW policy, Drain(policy)
  PROVE  /\ settled' \in [Queues -> Nat] /\ signalled' \in [Queues -> Nat]
         /\ depth' \in [Queues -> Nat]
         /\ sig' \in [Tags -> Steps]
         /\ fenceAt' \in [Queues -> [Serials -> Steps]]
         /\ cancelled' \subseteq Tags
<1> DEFINE target == Target(policy)
<1>1. target \in [Queues -> Nat]
  BY DEF Target, TypeOK
<1>2. settled' \in [Queues -> Nat] /\ signalled' \in [Queues -> Nat] /\ depth' \in [Queues -> Nat]
  BY <1>1 DEF Drain, TypeOK
<1>3. sig' \in [Tags -> Steps]
  <2>1. ASSUME NEW t \in Tags, NEW q \in tracked, t \in DueOn(q, target[q])
        PROVE  depth[rec[t].queue] + 1 \in Steps
    BY <2>1 DEF DueOn, TypeOK, Steps
  <2>2. QED
    BY <2>1 DEF Drain, TypeOK
<1>4. fenceAt' \in [Queues -> [Serials -> Steps]]
  <2>1. \A q \in Queues : depth[q] + 1 \in Steps
    BY DEF TypeOK, Steps
  <2>2. QED
    BY <2>1 DEF Drain, TypeOK
<1>5. cancelled' \subseteq Tags
  BY DEF Drain, TypeOK, Expired
<1>6. QED
  BY <1>2, <1>3, <1>4, <1>5

-----------------------------------------------------------------------------
LEMMA InitType == Init => TypeOK
<1> SUFFICES ASSUME Init PROVE TypeOK
  OBVIOUS
<1> USE BoundsAssumption
<1>1. NoRec \in Recording /\ \A t \in Tags : NoRec.prev < t
  BY DEF NoRec, Made, Recording, Tags
<1>2. NoCall \in Submitting /\ NoExec \in Executing /\ NotYet \in Steps
  BY DEF NoCall, Calling, NoExec, Submitting, Executing, Steps, NotYet
<1>3. /\ rec \in [Tags -> Recording] /\ \A t \in Tags : rec[t].prev < t
      /\ call \in [Queues -> Submitting] /\ exec \in [Tags -> Executing]
  BY <1>1, <1>2 DEF Init
<1>4. serialAt \in [Queues -> [Serials -> Steps]] /\ fenceAt \in [Queues -> [Serials -> Steps]]
  BY <1>2 DEF Init
<1>5. /\ pushed \in [Queues -> Nat] /\ settled \in [Queues -> Nat] /\ signalled \in [Queues -> Nat]
      /\ nextTag \in 0 .. MaxRecordings /\ listTag \in [Lists -> 0 .. MaxRecordings]
      /\ depth \in [Queues -> Nat] /\ usedAt \in [Tags -> Nat] /\ evalCounter \in Nat
  BY DEF Init
<1>6. /\ tracked \subseteq Queues /\ cancelled \subseteq Tags /\ sig \in [Tags -> Steps]
      /\ evaluating \in Lists \cup {NoList} /\ presenting \in BOOLEAN /\ lost \in BOOLEAN
      /\ content \in [Lists -> SUBSET Tags]
  BY <1>2 DEF Init
<1>7. QED
  BY <1>3, <1>4, <1>5, <1>6 DEF TypeOK

\* One more operation on a queue is a place in it.
LEMMA PlaceType ==
  ASSUME TypeOK, NEW q \in Queues
  PROVE  depth[q] + 1 \in Nat /\ depth[q] + 1 \in Steps /\ NotYet \in Steps /\ 0 \in Nat
BY DEF TypeOK, Steps

LEMMA CloserType ==
  ASSUME NEW left \in Steps
  PROVE  Closer(left) \in Steps
BY DEF Closer, Steps, NotYet

LEMMA NativeType ==
  ASSUME TypeOK, NEW q \in Queues, NEW l \in Lists, Native(q, l)
  PROVE  depth' \in [Queues -> Nat] /\ exec' \in [Tags -> Executing] /\ content' \in [Lists -> SUBSET Tags]
<1>1. [queue |-> q, left |-> depth[q] + 1] \in Executing
  BY PlaceType DEF Executing
<1>2. QED
  BY <1>1, PlaceType DEF Native, TypeOK

LEMMA NoCallType == NoCall \in Submitting
BY DEF NoCall, Calling, Submitting, Steps, NotYet

LEMMA StepType == TypeOK /\ [Next]_vars => TypeOK'
<1> SUFFICES ASSUME TypeOK, [Next]_vars PROVE TypeOK'
  OBVIOUS
<1> USE BoundsAssumption
<1>1. ASSUME NEW q \in Queues, Track(q) PROVE TypeOK'
  BY <1>1, PlaceType DEF Track, TypeOK
<1>2. ASSUME NEW q \in Queues, Untrack(q) PROVE TypeOK'
  <2>1. depth' \in [Queues -> Nat] /\ sig' \in [Tags -> Steps]
    BY <1>2, PlaceType DEF Untrack, TypeOK
  <2>2. fenceAt' \in [Queues -> [Serials -> Steps]]
    BY <1>2, PlaceType DEF Untrack, TypeOK
  <2>3. cancelled' \subseteq Tags /\ content' \in [Lists -> SUBSET Tags] /\ tracked' \subseteq Queues
    BY <1>2 DEF Untrack, TypeOK, Orphans
  <2>4. QED
    BY <1>2, <2>1, <2>2, <2>3 DEF Untrack, TypeOK
<1>3. ASSUME NEW q \in Queues, NativeAfterReport(q) PROVE TypeOK'
  <2>1. call[q].list \in Lists
    BY <1>3 DEF NativeAfterReport, Reported, TypeOK, Submitting
  <2>2. serialAt' \in [Queues -> [Serials -> Steps]]
    BY <1>3, PlaceType DEF NativeAfterReport, TypeOK
  <2>3. call' \in [Queues -> Submitting]
    BY <1>3, NoCallType DEF NativeAfterReport, TypeOK
  <2>4. QED
    BY <1>3, <2>1, <2>2, <2>3, NativeType DEF NativeAfterReport, TypeOK, coreVars
<1>4. ASSUME NEW q \in Queues, ReportAfter(q) PROVE TypeOK'
  <2>1. call[q].list \in Lists /\ call[q].left \in Steps
    BY <1>4 DEF ReportAfter, TypeOK, Submitting
  <2>2. serialAt' \in [Queues -> [Serials -> Steps]]
    BY <1>4, <2>1 DEF ReportAfter, TypeOK
  <2>3. call' \in [Queues -> Submitting]
    BY <1>4, NoCallType DEF ReportAfter, TypeOK
  <2>4. Push(q, call[q].list)
    BY <1>4 DEF ReportAfter
  <2>5. QED
    BY <1>4, <2>1, <2>2, <2>3, <2>4, PushType DEF ReportAfter, TypeOK
<1>5. ASSUME NEW q \in Queues, GpuStep(q) PROVE TypeOK'
  <2>1. depth' \in [Queues -> Nat] /\ sig' \in [Tags -> Steps]
    BY <1>5, CloserType DEF GpuStep, TypeOK
  <2>2. exec' \in [Tags -> Executing]
    <3>1. ASSUME NEW e \in Executing PROVE [e EXCEPT !.left = Closer(@)] \in Executing
      BY CloserType DEF Executing
    <3>2. exec' = [t \in Tags |-> IF exec[t].queue = q THEN [exec[t] EXCEPT !.left = Closer(@)] ELSE exec[t]]
      BY <1>5 DEF GpuStep
    <3>3. exec \in [Tags -> Executing]
      BY DEF TypeOK
    <3>4. QED
      BY ONLY <3>1, <3>2, <3>3
  <2>3. call' \in [Queues -> Submitting]
    BY <1>5, CloserType DEF GpuStep, TypeOK, Submitting
  <2>4. serialAt' \in [Queues -> [Serials -> Steps]] /\ fenceAt' \in [Queues -> [Serials -> Steps]]
    BY <1>5, CloserType DEF GpuStep, TypeOK
  <2>5. QED
    BY <1>5, <2>1, <2>2, <2>3, <2>4 DEF GpuStep, TypeOK
<1>6. ASSUME NEW q \in Queues, NEW l \in Lists, ReportBefore(q, l) PROVE TypeOK'
  <2>1. Calling(l, IF q \in tracked THEN pushed[q] + 1 ELSE 0, NotYet) \in Submitting
    BY PlaceType DEF TypeOK, Submitting, Calling
  <2>2. call' \in [Queues -> Submitting]
    BY <1>6, <2>1 DEF ReportBefore, TypeOK
  <2>3. Push(q, l)
    BY <1>6 DEF ReportBefore
  <2>4. QED
    BY <1>6, <2>2, <2>3, PushType DEF ReportBefore, TypeOK
<1>7. ASSUME NEW q \in Queues, NEW l \in Lists, NativeHooked(q, l) PROVE TypeOK'
  <2>1. Calling(l, 0, depth[q] + 1) \in Submitting
    BY PlaceType DEF Submitting, Calling
  <2>2. call' \in [Queues -> Submitting]
    BY <1>7, <2>1 DEF NativeHooked, TypeOK
  <2>3. Native(q, l)
    BY <1>7 DEF NativeHooked
  <2>4. QED
    BY <1>7, <2>2, <2>3, NativeType DEF NativeHooked, TypeOK, coreVars
<1>8. ASSUME NEW q \in Queues, NEW l \in Lists, SubmitUnseen(q, l) PROVE TypeOK'
  BY <1>8, NativeType DEF SubmitUnseen, TypeOK, coreVars
<1>9. ASSUME NEW l \in Lists, EvaluateBegin(l) PROVE TypeOK'
  BY <1>9, DrainType DEF EvaluateBegin, TypeOK, hostVars
<1>10. ASSUME NEW l \in Lists, UsePoint(l) PROVE TypeOK'
  <2> DEFINE new == Made(l, evalCounter, Previous(l), TRUE)
  <2>1. nextTag \in Nat /\ listTag[l] \in Nat /\ nextTag <= MaxRecordings
    BY DEF TypeOK
  <2>2. Pending(l) => listTag[l] \in 1 .. nextTag
    BY DEF Pending, Unclaimed
  <2>3. Previous(l) \in 0 .. MaxRecordings /\ Previous(l) < nextTag + 1
    BY <2>1, <2>2 DEF Previous
  <2>4. new \in Recording /\ new.prev < nextTag + 1
    BY <2>3 DEF TypeOK, Recording, Made
  <2>5. CASE ThisEvaluate(l)
    <3>1. listTag[l] \in Tags
      BY <2>1, <2>2, <2>5 DEF ThisEvaluate, Tags
    <3>2. content' \in [Lists -> SUBSET Tags] /\ usedAt' \in [Tags -> Nat]
      <4>1. /\ content' = [content EXCEPT ![l] = @ \cup {listTag[l]}]
            /\ usedAt' = [usedAt EXCEPT ![listTag[l]] = evalCounter]
        BY <1>10, <2>5 DEF UsePoint
      <4>2. content \in [Lists -> SUBSET Tags] /\ usedAt \in [Tags -> Nat] /\ evalCounter \in Nat
        BY DEF TypeOK
      <4>3. content[l] \cup {listTag[l]} \in SUBSET Tags
        BY <3>1, <4>2
      <4>4. QED
        BY ONLY <4>1, <4>2, <4>3
    <3>3. UNCHANGED <<nextTag, rec, listTag>>
      BY <1>10, <2>5 DEF UsePoint
    <3>4. QED
      BY <1>10, <3>2, <3>3 DEF UsePoint, TypeOK
  <2>6. CASE ~ThisEvaluate(l)
    <3>1. nextTag + 1 \in Tags /\ rec' = [rec EXCEPT ![nextTag + 1] = new]
      BY <1>10, <2>6 DEF UsePoint
    <3>2. rec' \in [Tags -> Recording] /\ \A t \in Tags : rec'[t].prev < t
      BY <2>4, <3>1 DEF TypeOK
    <3>3. /\ nextTag' = nextTag + 1 /\ listTag' = [listTag EXCEPT ![l] = nextTag + 1]
          /\ content' = [content EXCEPT ![l] = @ \cup {nextTag + 1}]
          /\ usedAt' = [usedAt EXCEPT ![nextTag + 1] = evalCounter]
      BY <1>10, <2>6 DEF UsePoint
    <3>4. nextTag' \in 0 .. MaxRecordings /\ listTag' \in [Lists -> 0 .. MaxRecordings]
      BY <2>1, <3>1, <3>3 DEF TypeOK, Tags
    <3>5. content' \in [Lists -> SUBSET Tags] /\ usedAt' \in [Tags -> Nat]
      BY <3>1, <3>3 DEF TypeOK
    <3>6. QED
      BY <1>10, <3>2, <3>4, <3>5 DEF UsePoint, TypeOK
  <2>7. QED
    BY <2>5, <2>6
<1>11. ASSUME NEW l \in Lists, UsePointFails(l) PROVE TypeOK'
  <2> DEFINE new == Made(l, evalCounter, 0, FALSE)
  <2>1. nextTag + 1 \in Tags /\ rec' = [rec EXCEPT ![nextTag + 1] = new]
    BY <1>11 DEF UsePointFails
  <2>2. new \in Recording /\ new.prev < nextTag + 1
    BY DEF TypeOK, Recording, Made
  <2>3. rec' \in [Tags -> Recording] /\ \A t \in Tags : rec'[t].prev < t
    BY <2>1, <2>2 DEF TypeOK
  <2>4. nextTag' \in 0 .. MaxRecordings
    BY <1>11, <2>1 DEF UsePointFails, TypeOK, Tags
  <2>5. content' \in [Lists -> SUBSET Tags] /\ usedAt' \in [Tags -> Nat]
    BY <1>11, <2>1 DEF UsePointFails, TypeOK
  <2>6. QED
    BY <1>11, <2>3, <2>4, <2>5 DEF UsePointFails, TypeOK
<1>12. ASSUME NEW l \in Lists, Discard(l) PROVE TypeOK'
  BY <1>12 DEF Discard, TypeOK, coreVars
<1>13. ASSUME NEW first \in BOOLEAN, Housekeeping(first) PROVE TypeOK'
  <2>1. call' \in [Queues -> Submitting]
    <3>1. call \in [Queues -> Submitting] /\ \A q \in Queues : Reported(q) \in BOOLEAN
      BY DEF TypeOK, Reported
    <3>2. ASSUME NEW c \in Submitting, NEW seen \in BOOLEAN PROVE [c EXCEPT !.seen = seen] \in Submitting
      BY DEF Submitting
    <3>3. \A q \in Queues : [call[q] EXCEPT !.seen = Reported(q)] \in Submitting
      BY <3>1, <3>2
    <3>4. QED
      BY <1>13, <3>1, <3>3 DEF Housekeeping
  <2>2. CASE evaluating = NoList
    <3>1. Drain("Settled")
      BY <1>13, <2>2 DEF Housekeeping
    <3>2. QED
      BY <1>13, <2>1, <3>1, DrainType DEF Housekeeping, TypeOK
  <2>3. CASE evaluating # NoList
    BY <1>13, <2>1, <2>3 DEF Housekeeping, TypeOK
  <2>4. QED
    BY <2>2, <2>3
<1>14. CASE EvaluateEnd
  BY <1>14 DEF EvaluateEnd, TypeOK, coreVars, hostVars
<1>15. CASE DeviceRemoved
  BY <1>15 DEF DeviceRemoved, TypeOK, coreVars, hostVars
<1>16. CASE UNCHANGED vars
  BY <1>16 DEF vars, coreVars, hostVars, TypeOK
<1>17. CASE \E Q \in SUBSET Queues : OtherWork(Q)
  BY <1>17 DEF OtherWork, TypeOK, coreVars, hostVars
<1>18. QED
  BY <1>1, <1>2, <1>3, <1>4, <1>5, <1>6, <1>7, <1>8, <1>9, <1>10, <1>11, <1>12, <1>13, <1>14,
     <1>15, <1>16, <1>17 DEF Next, HostOrGpu

\* Every reachable state is well typed, and no recording chains itself or a later one, so
\* the walk Push makes over previousTag always ends.
THEOREM Typed == Spec => []TypeOK
BY InitType, StepType, PTL DEF Spec

-----------------------------------------------------------------------------
(* The inductive invariant behind ReleaseSafe.                             *)

\* A use still in a list: never executed, its fence untouched.
InListFresh ==
  \A l \in Lists : \A t \in content[l] :
    /\ t \in 1 .. nextTag /\ rec[t].list = l
    /\ exec[t].left = NotYet /\ sig[t] = NotYet /\ t \notin cancelled

\* Tags not handed out yet are blank.
BeyondBlank ==
  \A t \in Tags : t > nextTag =>
    rec[t].serial = 0 /\ exec[t].left = NotYet /\ sig[t] = NotYet /\ t \notin cancelled

\* A list's tag and the links of its recordings stay on the list.
Chains ==
  /\ \A l \in Lists : listTag[l] # 0 => listTag[l] \in 1 .. nextTag /\ rec[listTag[l]].list = l
  /\ \A t \in Tags : rec[t].prev # 0 => t <= nextTag /\ rec[rec[t].prev].list = rec[t].list

\* A recording dates from the evaluate that last wrote it.
Dated ==
  \A t \in Tags : t <= nextTag =>
    rec[t].list \in Lists /\ usedAt[t] = rec[t].created /\ rec[t].created <= evalCounter

\* What the evaluate in progress wrote is still in its list.
WritesInList ==
  \A l \in Lists : evaluating = l /\ ThisEvaluate(l) => listTag[l] \in content[l]

\* A list is in one call at most, and in none while it is being recorded.
CallsApart ==
  \A q \in Queues : call[q].list # NoList =>
    /\ call[q].list # evaluating
    /\ \A p \in Queues : call[p].list = call[q].list => p = q

\* The hook's report comes after the list ran.
HookedRan ==
  \A q \in Queues : call[q].list # NoList /\ call[q].left # NotYet => content[call[q].list] = {}

\* Work the host has not reported is younger than Expiry evaluates.
Young ==
  ~lost => \A t \in Tags : InFlight(t) /\ rec[t].serial = 0 => evalCounter - usedAt[t] < Expiry

\* A claimed use still in its list is that of a call whose event fired.
ClaimedInCall ==
  \A l \in Lists : \A t \in content[l] : rec[t].serial > 0 =>
    /\ rec[t].queue \in Queues
    /\ Reported(rec[t].queue)
    /\ call[rec[t].queue].list = l
    /\ call[rec[t].queue].serial = rec[t].serial

\* Between the two drains of a present, the second one's target is older than every call
\* whose event fired.
SettledBehindCalls ==
  /\ \A q \in Queues : settled[q] <= pushed[q]
  /\ \A q \in Queues : Reported(q) /\ call[q].serial > 0 => q \in tracked
  /\ presenting => \A q \in Queues : Reported(q) /\ call[q].serial > 0 => settled[q] < call[q].serial

\* A claimed use the GPU still runs is on the queue that claimed it, and a call's list
\* runs nowhere else.
OnItsQueue ==
  /\ \A t \in Tags : rec[t].serial > 0 => rec[t].queue \in Queues
  /\ \A t \in Tags : rec[t].serial > 0 /\ Running(t) => exec[t].queue = rec[t].queue
  /\ \A q \in Queues, t \in Tags :
       call[q].list # NoList /\ rec[t].list = call[q].list /\ Running(t) => exec[t].queue = q

\* Running work is among the operations its queue has yet to finish.
InDepth ==
  \A t \in Tags : Running(t) => exec[t].queue \in Queues /\ exec[t].left <= depth[exec[t].queue]

\* A fence's signal comes behind the work it stands for.
SignalBehindWork ==
  \A t \in Tags : sig[t] # NotYet /\ Running(t) =>
    exec[t].queue = rec[t].queue /\ exec[t].left < sig[t]

\* A cancelled use is over.
CancelledOver == \A t \in cancelled : ~Running(t)

IInv ==
  /\ InListFresh /\ BeyondBlank /\ Chains /\ Dated /\ WritesInList /\ CallsApart /\ HookedRan
  /\ Young /\ ClaimedInCall /\ SettledBehindCalls /\ OnItsQueue /\ InDepth
  /\ SignalBehindWork /\ CancelledOver

-----------------------------------------------------------------------------
(* Lemmas on the compound updates.                                         *)

\* The types a step's arithmetic needs, one element at a time.
LEMMA Facts ==
  ASSUME TypeOK
  PROVE  /\ nextTag \in Nat /\ evalCounter \in Nat /\ tracked \subseteq Queues /\ cancelled \subseteq Tags
         /\ \A t \in Tags : /\ t \in Nat /\ t > 0 /\ sig[t] \in Int /\ sig[t] >= NotYet
                            /\ exec[t].left \in Int /\ exec[t].left >= NotYet
                            /\ rec[t].serial \in Nat /\ rec[t].created \in Nat /\ usedAt[t] \in Nat
                            /\ rec[t].prev \in Nat /\ rec[t].prev < t
                            /\ rec[t].prev # 0 => rec[t].prev \in Tags
         /\ \A t \in 1 .. nextTag : t \in Tags
         /\ \A l \in Lists : content[l] \subseteq Tags /\ listTag[l] \in Nat
         /\ \A q \in Queues : /\ depth[q] \in Nat /\ pushed[q] \in Nat /\ settled[q] \in Nat
                              /\ call[q].left \in Int /\ call[q].serial \in Nat
                              /\ call[q].list \in Lists \cup {NoList}
         /\ NotYet = -1 /\ Expiry \in Nat \ {0}
<1>1. /\ nextTag \in Nat /\ evalCounter \in Nat /\ tracked \subseteq Queues /\ cancelled \subseteq Tags
      /\ NotYet = -1 /\ Expiry \in Nat \ {0}
  BY BoundsAssumption DEF TypeOK, NotYet
<1>2. ASSUME NEW t \in Tags
      PROVE  /\ t \in Nat /\ t > 0 /\ sig[t] \in Int /\ sig[t] >= NotYet
             /\ exec[t].left \in Int /\ exec[t].left >= NotYet
             /\ rec[t].serial \in Nat /\ rec[t].created \in Nat /\ usedAt[t] \in Nat
             /\ rec[t].prev \in Nat /\ rec[t].prev < t
             /\ rec[t].prev # 0 => rec[t].prev \in Tags
  <2>1. sig[t] \in Steps /\ exec[t] \in Executing /\ rec[t] \in Recording /\ usedAt[t] \in Nat /\ rec[t].prev < t
    BY DEF TypeOK
  <2>2. QED
    BY <2>1, BoundsAssumption DEF Tags, Steps, Executing, Recording, NotYet
<1>3. \A l \in Lists : content[l] \subseteq Tags /\ listTag[l] \in Nat
  BY DEF TypeOK
<1>4. ASSUME NEW q \in Queues
      PROVE  /\ depth[q] \in Nat /\ pushed[q] \in Nat /\ settled[q] \in Nat
             /\ call[q].left \in Int /\ call[q].serial \in Nat
             /\ call[q].list \in Lists \cup {NoList}
  <2>1. depth[q] \in Nat /\ pushed[q] \in Nat /\ settled[q] \in Nat /\ call[q] \in Submitting
    BY DEF TypeOK
  <2>2. QED
    BY <2>1 DEF Submitting, Steps, NotYet
<1>5. \A t \in 1 .. nextTag : t \in Tags
  BY BoundsAssumption DEF TypeOK, Tags
<1>6. QED
  BY <1>1, <1>2, <1>3, <1>4, <1>5

\* Push claims nothing outside its list's own recordings.
LEMMA ClaimsOnList ==
  ASSUME TypeOK, Chains, NEW l \in Lists, NEW t \in Claims(l)
  PROVE  t \in Tags /\ Unclaimed(t) /\ rec[t].list = l
<1> DEFINE S == {u \in Tags : Unclaimed(u) /\ rec[u].list = l}
<1>1. {u \in Tags : u = listTag[l] /\ Unclaimed(u)} \subseteq S
  BY DEF Chains, Tags
<1>2. ASSUME NEW u \in S PROVE {v \in Tags : v = rec[u].prev /\ Unclaimed(v)} \subseteq S
  BY DEF Chains, Tags
<1>3. S \in SUBSET Tags
  OBVIOUS
<1>4. t \in S
  BY <1>1, <1>2, <1>3 DEF Claims
<1>5. QED
  BY <1>4

\* What a Push may do to one recording: nothing, or claim it for q's next serial.
LEMMA PushEffect ==
  ASSUME TypeOK, Chains, NEW q \in Queues, NEW l \in Lists, Push(q, l), NEW t \in Tags
  PROVE  /\ rec'[t].list = rec[t].list /\ rec'[t].created = rec[t].created
         /\ rec'[t].prev = rec[t].prev /\ rec'[t].fence = rec[t].fence
         /\ \/ rec'[t].serial = rec[t].serial /\ rec'[t].queue = rec[t].queue
            \/ /\ q \in tracked /\ Unclaimed(t) /\ rec[t].list = l
               /\ rec'[t].queue = q /\ rec'[t].serial = pushed[q] + 1
<1>1. \/ rec'[t] = rec[t]
      \/ q \in tracked /\ t \in Claims(l) /\ rec'[t] = Claimed(rec[t], q, pushed[q] + 1)
  BY DEF Push
<1>2. CASE rec'[t] = rec[t]
  BY <1>2
<1>3. CASE q \in tracked /\ t \in Claims(l) /\ rec'[t] = Claimed(rec[t], q, pushed[q] + 1)
  BY <1>3, ClaimsOnList DEF Claimed
<1>4. QED
  BY <1>1, <1>2, <1>3

\* What a Drain may do to one fence: nothing, or a signal behind all the queue was given.
LEMMA DrainSignals ==
  ASSUME TypeOK, NEW policy, Drain(policy), NEW t \in Tags
  PROVE  \/ sig'[t] = sig[t]
         \/ /\ sig[t] = NotYet /\ t \notin cancelled /\ rec[t].serial > 0
            /\ rec[t].queue \in Queues
            /\ rec[t].serial <= Target(policy)[rec[t].queue]
            /\ sig'[t] = depth[rec[t].queue] + 1
<1>1. ASSUME NEW q \in tracked, t \in DueOn(q, Target(policy)[q])
      PROVE  /\ sig[t] = NotYet /\ t \notin cancelled /\ rec[t].serial > 0
             /\ rec[t].queue \in Queues
             /\ rec[t].serial <= Target(policy)[rec[t].queue]
  BY <1>1 DEF DueOn, Signalled, TypeOK
<1>2. \/ sig'[t] = sig[t]
      \/ /\ \E q \in tracked : t \in DueOn(q, Target(policy)[q])
         /\ sig'[t] = depth[rec[t].queue] + 1
  BY DEF Drain
<1>3. QED
  BY <1>1, <1>2

\* A Drain enqueues, it takes nothing off a queue, and it cancels only what expired.
LEMMA DrainRest ==
  ASSUME TypeOK, NEW policy, Drain(policy)
  PROVE  /\ \A q \in Queues : depth'[q] \in Nat /\ depth'[q] >= depth[q]
         /\ \A q \in Queues : settled'[q] = IF q \in tracked THEN pushed[q] ELSE settled[q]
         /\ \A t \in cancelled' : t \in cancelled \/ (~lost /\ t \in Expired)
<1>1. \A q \in Queues : depth'[q] = depth[q] \/ depth'[q] = depth[q] + 1
  BY DEF Drain
<1>2. \A q \in Queues : depth'[q] \in Nat /\ depth'[q] >= depth[q]
  BY <1>1, Facts
<1>3. \A q \in Queues : settled'[q] = IF q \in tracked THEN pushed[q] ELSE settled[q]
  BY DEF Drain
<1>4. \A t \in cancelled' : t \in cancelled \/ (~lost /\ t \in Expired)
  BY DEF Drain
<1>5. QED
  BY <1>2, <1>3, <1>4

\* A Push counts on its own queue only.
LEMMA PushSerials ==
  ASSUME TypeOK, NEW q \in Queues, NEW l \in Lists, Push(q, l)
  PROVE  \A p \in Queues : pushed'[p] = IF p = q /\ q \in tracked THEN pushed[p] + 1 ELSE pushed[p]
<1>1. CASE q \in tracked
  <2>1. pushed' = [pushed EXCEPT ![q] = pushed[q] + 1]
    BY <1>1 DEF Push
  <2>2. QED
    BY <1>1, <2>1 DEF TypeOK
<1>2. CASE q \notin tracked
  BY <1>2 DEF Push
<1>3. QED
  BY <1>1, <1>2

\* ExecuteCommandLists: the list's uses run last on the queue, the list is empty.
LEMMA NativeEffect ==
  ASSUME TypeOK, NEW q \in Queues, NEW l \in Lists, Native(q, l)
  PROVE  /\ \A t \in Tags : IF t \in content[l] THEN exec'[t].queue = q /\ exec'[t].left = depth[q] + 1
                                              ELSE exec'[t] = exec[t]
         /\ \A k \in Lists : content'[k] = IF k = l THEN {} ELSE content[k]
         /\ \A p \in Queues : depth'[p] = IF p = q THEN depth[q] + 1 ELSE depth[p]
<1>1. \A t \in Tags : IF t \in content[l] THEN exec'[t].queue = q /\ exec'[t].left = depth[q] + 1
                                            ELSE exec'[t] = exec[t]
  BY DEF Native
<1>2. \A k \in Lists : content'[k] = IF k = l THEN {} ELSE content[k]
  BY DEF Native, TypeOK
<1>3. \A p \in Queues : depth'[p] = IF p = q THEN depth[q] + 1 ELSE depth[p]
  BY DEF Native, TypeOK
<1>4. QED
  BY <1>1, <1>2, <1>3

-----------------------------------------------------------------------------
(* Every step keeps the invariant.                                         *)

LEMMA TrackKeeps ==
  ASSUME TypeOK, IInv, NEW q \in Queues, Track(q)
  PROVE  IInv'
<1> USE DEF IInv
<1>1. SettledBehindCalls'
  BY DEF Track, SettledBehindCalls, Reported, TypeOK
<1>2. InListFresh' /\ BeyondBlank' /\ Chains' /\ Dated' /\ WritesInList' /\ CallsApart' /\ HookedRan' /\ Young' /\ ClaimedInCall' /\ OnItsQueue' /\ InDepth' /\ SignalBehindWork' /\ CancelledOver'
  BY DEF Track, coreVars, hostVars, InListFresh, BeyondBlank, Chains, Dated, WritesInList, CallsApart, HookedRan, Young, ClaimedInCall, OnItsQueue, InDepth, SignalBehindWork, CancelledOver, InFlight, Pending, Reported, Running, Signalled, ThisEvaluate, Unclaimed
<1>3. QED
  BY <1>1, <1>2

LEMMA UntrackKeeps ==
  ASSUME TypeOK, IInv, NEW q \in Queues, Untrack(q)
  PROVE  IInv'
<1> USE DEF IInv
<1>1. /\ \A t \in Tags : \/ sig'[t] = sig[t]
                        \/ /\ sig[t] = NotYet /\ t \notin cancelled /\ rec[t].serial > 0 /\ rec[t].queue = q
                           /\ sig'[t] = depth[q] + 1
  BY DEF Untrack, DueOn, Signalled
<1>2. /\ \A k \in Lists : content'[k] = IF LastOfDevice(q) /\ ListDevice[k] = QueueDevice[q]
                                        THEN {} ELSE content[k]
      /\ \A p \in Queues : depth'[p] = depth[p] \/ depth'[p] = depth[p] + 1
  BY DEF Untrack, TypeOK
<1>3. \A t \in cancelled' : t \in cancelled \/ t \in Orphans(q)
  BY DEF Untrack
<1>4. /\ call[q] = NoCall /\ tracked' = tracked \ {q}
      /\ LastOfDevice(q) =>
           /\ \A l \in Lists : evaluating = l => ListDevice[l] # QueueDevice[q]
           /\ \A t \in Tags : Running(t) /\ rec[t].list \in Lists /\ ListDevice[rec[t].list] = QueueDevice[q]
                                => rec[t].serial > 0
  BY DEF Untrack
<1>5. UNCHANGED <<pushed, settled, signalled, nextTag, rec, listTag, evalCounter,
                     evaluating, presenting, usedAt, call, exec, serialAt, lost>>
  BY DEF Untrack
<1>6. InListFresh'
  BY <1>1, <1>2, <1>3, <1>4, <1>5, Facts DEF InListFresh, ClaimedInCall, Reported, NoCall, Calling, Orphans
<1>7. BeyondBlank'
  BY <1>1, <1>2, <1>3, <1>4, <1>5, Facts DEF BeyondBlank, Orphans, Unclaimed
<1>8. WritesInList'
  <2>1. \A t \in Tags : Unclaimed(t)' => Unclaimed(t)
    BY <1>1, <1>5, Facts DEF Unclaimed, Signalled, Untrack
  <2>2. ASSUME NEW l \in Lists, evaluating' = l, ThisEvaluate(l)' PROVE listTag'[l] \in content'[l]
    <3>1. listTag'[l] \in Tags /\ evaluating = l
      BY <1>5, <2>2, Facts DEF ThisEvaluate, Pending, Unclaimed
    <3>2. ThisEvaluate(l)
      BY <1>5, <2>1, <2>2, <3>1 DEF ThisEvaluate, Pending
    <3>3. content'[l] = content[l]
      BY <1>2, <1>4, <3>1
    <3>4. QED
      BY <1>5, <3>1, <3>2, <3>3 DEF WritesInList
  <2>3. QED
    BY <2>2 DEF WritesInList
<1>9. HookedRan'
  BY <1>1, <1>2, <1>3, <1>4, <1>5, Facts DEF HookedRan
<1>10. Young'
  BY <1>1, <1>2, <1>3, <1>4, <1>5, Facts DEF Young, InFlight, Running
<1>11. ClaimedInCall'
  BY <1>1, <1>2, <1>3, <1>4, <1>5, Facts DEF ClaimedInCall, Reported
<1>12. SettledBehindCalls'
  BY <1>1, <1>2, <1>3, <1>4, <1>5, Facts DEF SettledBehindCalls, Reported, NoCall, Calling
<1>13. InDepth'
  BY <1>1, <1>2, <1>3, <1>4, <1>5, Facts DEF InDepth, Running
<1>14. SignalBehindWork'
  BY <1>1, <1>2, <1>3, <1>4, <1>5, Facts DEF SignalBehindWork, Running, OnItsQueue, InDepth
<1>15. CancelledOver'
  BY <1>1, <1>2, <1>3, <1>4, <1>5, Facts DEF CancelledOver, Running, Orphans, Unclaimed, Dated
<1>16. Chains' /\ Dated' /\ CallsApart' /\ OnItsQueue'
  BY DEF Untrack, coreVars, hostVars, Chains, Dated, CallsApart, OnItsQueue, Running
<1>17. QED
  BY <1>6, <1>7, <1>8, <1>9, <1>10, <1>11, <1>12, <1>13, <1>14, <1>15, <1>16

LEMMA NativeAfterReportKeeps ==
  ASSUME TypeOK, IInv, NEW q \in Queues, NativeAfterReport(q)
  PROVE  IInv'
<1> USE DEF IInv
<1>1. Reported(q) /\ call[q].list \in Lists /\ Native(q, call[q].list)
  BY Facts DEF NativeAfterReport, Reported
<1>2. \A p \in Queues : call'[p] = IF p = q THEN NoCall ELSE call[p]
  BY DEF NativeAfterReport, TypeOK
<1>3. UNCHANGED <<coreVars, usedAt, evalCounter, evaluating, presenting, fenceAt, lost>>
  BY DEF NativeAfterReport
<1>4. InListFresh'
  BY <1>1, <1>2, <1>3, NativeEffect, Facts DEF InListFresh, coreVars, hostVars
<1>5. BeyondBlank'
  BY <1>1, <1>2, <1>3, NativeEffect, Facts DEF BeyondBlank, InListFresh, coreVars, hostVars
<1>6. WritesInList'
  BY <1>1, <1>2, <1>3, NativeEffect, Facts DEF WritesInList, ThisEvaluate, Pending, Unclaimed, Signalled, CallsApart, Reported, coreVars, hostVars
<1>7. CallsApart'
  BY <1>1, <1>2, <1>3, NativeEffect, Facts DEF CallsApart, NoCall, Calling, coreVars, hostVars
<1>8. HookedRan'
  BY <1>1, <1>2, <1>3, NativeEffect, Facts DEF HookedRan, NoCall, Calling, coreVars, hostVars
<1>9. Young'
  BY <1>1, <1>2, <1>3, NativeEffect, Facts DEF Young, InFlight, Running, coreVars, hostVars
<1>10. ClaimedInCall'
  BY <1>1, <1>2, <1>3, NativeEffect, Facts DEF ClaimedInCall, Reported, InListFresh, coreVars, hostVars
<1>11. SettledBehindCalls'
  BY <1>1, <1>2, <1>3, NativeEffect, Facts DEF SettledBehindCalls, Reported, NoCall, Calling, coreVars, hostVars
<1>12. OnItsQueue'
  BY <1>1, <1>2, <1>3, NativeEffect, Facts DEF OnItsQueue, Running, ClaimedInCall, CallsApart, InListFresh, Reported, NoCall, Calling, coreVars, hostVars
<1>13. InDepth'
  BY <1>1, <1>2, <1>3, NativeEffect, Facts DEF InDepth, Running, coreVars, hostVars
<1>14. SignalBehindWork'
  BY <1>1, <1>2, <1>3, NativeEffect, Facts DEF SignalBehindWork, Running, InListFresh, coreVars, hostVars
<1>15. CancelledOver'
  BY <1>1, <1>2, <1>3, NativeEffect, Facts DEF CancelledOver, Running, InListFresh, coreVars, hostVars
<1>16. Chains' /\ Dated'
  BY DEF NativeAfterReport, coreVars, hostVars, Chains, Dated
<1>17. QED
  BY <1>4, <1>5, <1>6, <1>7, <1>8, <1>9, <1>10, <1>11, <1>12, <1>13, <1>14, <1>15, <1>16

LEMMA ReportAfterKeeps ==
  ASSUME TypeOK, IInv, NEW q \in Queues, ReportAfter(q)
  PROVE  IInv'
<1> USE DEF IInv
<1>1. call[q].list \in Lists /\ call[q].left # NotYet /\ Push(q, call[q].list)
  BY Facts DEF ReportAfter
<1>2. \A p \in Queues : call'[p] = IF p = q THEN NoCall ELSE call[p]
  BY DEF ReportAfter, TypeOK
<1>3. UNCHANGED <<tracked, settled, signalled, nextTag, cancelled, sig, listTag, evalCounter,
                     evaluating, presenting, content, usedAt, depth, exec, fenceAt, lost>>
  BY DEF ReportAfter
<1>4. InListFresh'
  BY <1>1, <1>2, <1>3, PushEffect, PushSerials, Facts DEF InListFresh
<1>5. BeyondBlank'
  BY <1>1, <1>2, <1>3, PushEffect, PushSerials, Facts DEF BeyondBlank, Unclaimed
<1>6. Chains'
  BY <1>1, <1>2, <1>3, PushEffect, PushSerials, Facts DEF Chains
<1>7. Dated'
  BY <1>1, <1>2, <1>3, PushEffect, PushSerials, Facts DEF Dated
<1>8. WritesInList'
  BY <1>1, <1>2, <1>3, PushEffect, PushSerials, Facts DEF WritesInList, ThisEvaluate, Pending, Unclaimed, Signalled
<1>9. CallsApart'
  BY <1>1, <1>2, <1>3, PushEffect, PushSerials, Facts DEF CallsApart, NoCall, Calling
<1>10. HookedRan'
  BY <1>1, <1>2, <1>3, PushEffect, PushSerials, Facts DEF HookedRan, NoCall, Calling
<1>11. Young'
  BY <1>1, <1>2, <1>3, PushEffect, PushSerials, Facts DEF Young, InFlight, Running
<1>12. ClaimedInCall'
  <2> SUFFICES ASSUME NEW l \in Lists, NEW t \in content[l], rec'[t].serial > 0
               PROVE  /\ rec'[t].queue \in Queues
                      /\ call'[rec'[t].queue].list # NoList /\ call'[rec'[t].queue].left = NotYet
                      /\ call'[rec'[t].queue].list = l /\ call'[rec'[t].queue].serial = rec'[t].serial
    BY <1>3 DEF ClaimedInCall, Reported
  <2>1. t \in Tags /\ rec[t].list = l
    BY Facts DEF InListFresh
  <2>2. content[call[q].list] = {}
    BY <1>1, ListsAssumption DEF HookedRan
  <2>3. rec'[t].serial = rec[t].serial /\ rec'[t].queue = rec[t].queue
    BY <1>1, <2>1, <2>2, PushEffect
  <2>4. rec[t].queue \in Queues /\ Reported(rec[t].queue)
        /\ call[rec[t].queue].list = l /\ call[rec[t].queue].serial = rec[t].serial
    BY <2>3 DEF ClaimedInCall
  <2>5. rec[t].queue # q
    BY <1>1, <2>4 DEF Reported
  <2>6. QED
    BY <1>2, <2>3, <2>4, <2>5 DEF Reported
<1>13. SettledBehindCalls'
  BY <1>1, <1>2, <1>3, PushEffect, PushSerials, Facts DEF SettledBehindCalls, Reported, NoCall, Calling
<1>14. OnItsQueue'
  BY <1>1, <1>2, <1>3, PushEffect, PushSerials, Facts, ListsAssumption DEF OnItsQueue, Running, NoCall, Calling
<1>15. SignalBehindWork'
  BY <1>1, <1>2, <1>3, PushEffect, PushSerials, Facts DEF SignalBehindWork, Running, Unclaimed, Signalled
<1>16. InDepth' /\ CancelledOver'
  BY DEF ReportAfter, coreVars, hostVars, InDepth, CancelledOver, Running
<1>17. QED
  BY <1>4, <1>5, <1>6, <1>7, <1>8, <1>9, <1>10, <1>11, <1>12, <1>13, <1>14, <1>15, <1>16

LEMMA GpuStepKeeps ==
  ASSUME TypeOK, IInv, NEW q \in Queues, GpuStep(q)
  PROVE  IInv'
<1> USE DEF IInv
<1>1. /\ \A t \in Tags : sig'[t] = IF rec[t].queue = q THEN Closer(sig[t]) ELSE sig[t]
      /\ \A p \in Queues : depth'[p] = IF p = q THEN depth[p] - 1 ELSE depth[p]
  BY DEF GpuStep, TypeOK
<1>2. \A t \in Tags : /\ exec'[t].queue = exec[t].queue
                      /\ exec'[t].left = IF exec[t].queue = q THEN Closer(exec[t].left) ELSE exec[t].left
  BY DEF GpuStep, TypeOK, Executing
<1>3. \A p \in Queues : /\ call'[p].list = call[p].list /\ call'[p].serial = call[p].serial
                        /\ call'[p].left = IF p = q THEN Closer(call[p].left) ELSE call[p].left
  BY DEF GpuStep, TypeOK, Submitting
<1>4. UNCHANGED <<tracked, pushed, settled, signalled, nextTag, rec, cancelled, listTag, ring,
                     content, usedAt, evalCounter, evaluating, presenting, lost>>
  BY DEF GpuStep
<1>5. InListFresh'
  BY <1>1, <1>2, <1>3, <1>4, Facts DEF InListFresh, Closer
<1>6. BeyondBlank'
  BY <1>1, <1>2, <1>3, <1>4, Facts DEF BeyondBlank, Closer
<1>7. WritesInList'
  BY <1>1, <1>2, <1>3, <1>4, Facts DEF WritesInList, ThisEvaluate, Pending, Unclaimed, Signalled, Closer
<1>8. CallsApart'
  BY <1>1, <1>2, <1>3, <1>4, Facts DEF CallsApart, Closer
<1>9. HookedRan'
  BY <1>1, <1>2, <1>3, <1>4, Facts DEF HookedRan, Closer
<1>10. Young'
  BY <1>1, <1>2, <1>3, <1>4, Facts DEF Young, InFlight, Running, Closer
<1>11. ClaimedInCall'
  BY <1>1, <1>2, <1>3, <1>4, Facts DEF ClaimedInCall, Reported, Closer
<1>12. SettledBehindCalls'
  BY <1>1, <1>2, <1>3, <1>4, Facts DEF SettledBehindCalls, Reported, Closer
<1>13. OnItsQueue'
  BY <1>1, <1>2, <1>3, <1>4, Facts DEF OnItsQueue, Running, Closer
<1>14. InDepth'
  BY <1>1, <1>2, <1>3, <1>4, Facts DEF InDepth, Running, Closer
<1>15. SignalBehindWork'
  BY <1>1, <1>2, <1>3, <1>4, Facts DEF SignalBehindWork, Running, Closer
<1>16. CancelledOver'
  BY <1>1, <1>2, <1>3, <1>4, Facts DEF CancelledOver, Running, Closer
<1>17. Chains' /\ Dated'
  BY DEF GpuStep, coreVars, hostVars, Chains, Dated
<1>18. QED
  BY <1>5, <1>6, <1>7, <1>8, <1>9, <1>10, <1>11, <1>12, <1>13, <1>14, <1>15, <1>16, <1>17

LEMMA ReportBeforeKeeps ==
  ASSUME TypeOK, IInv, NEW q \in Queues, NEW l \in Lists, ReportBefore(q, l)
  PROVE  IInv'
<1> USE DEF IInv
<1>1. MaySubmit(q, l) /\ Push(q, l)
  BY DEF ReportBefore
<1>2. \A p \in Queues : call'[p] = IF p = q THEN Calling(l, IF q \in tracked THEN pushed[q] + 1 ELSE 0, NotYet)
                                            ELSE call[p]
  BY DEF ReportBefore, TypeOK
<1>3. UNCHANGED <<tracked, settled, signalled, nextTag, cancelled, sig, listTag, evalCounter,
                     evaluating, presenting, content, usedAt, depth, exec, serialAt, fenceAt, lost>>
  BY DEF ReportBefore
<1>4. InListFresh'
  BY <1>1, <1>2, <1>3, PushEffect, PushSerials, Facts DEF InListFresh
<1>5. BeyondBlank'
  BY <1>1, <1>2, <1>3, PushEffect, PushSerials, Facts DEF BeyondBlank, Unclaimed
<1>6. Chains'
  BY <1>1, <1>2, <1>3, PushEffect, PushSerials, Facts DEF Chains
<1>7. Dated'
  BY <1>1, <1>2, <1>3, PushEffect, PushSerials, Facts DEF Dated
<1>8. WritesInList'
  BY <1>1, <1>2, <1>3, PushEffect, PushSerials, Facts DEF WritesInList, ThisEvaluate, Pending, Unclaimed, Signalled
<1>9. CallsApart'
  BY <1>1, <1>2, <1>3, PushEffect, PushSerials, Facts DEF CallsApart, MaySubmit, Calling
<1>10. HookedRan'
  BY <1>1, <1>2, <1>3, PushEffect, PushSerials, Facts DEF HookedRan, Calling
<1>11. Young'
  BY <1>1, <1>2, <1>3, PushEffect, PushSerials, Facts DEF Young, InFlight, Running
<1>12. ClaimedInCall'
  BY <1>1, <1>2, <1>3, PushEffect, PushSerials, Facts, ListsAssumption DEF ClaimedInCall, Reported, InListFresh, MaySubmit, NoCall, Calling
<1>13. SettledBehindCalls'
  BY <1>1, <1>2, <1>3, PushEffect, PushSerials, Facts, ListsAssumption DEF SettledBehindCalls, Reported, Calling
<1>14. OnItsQueue'
  BY <1>1, <1>2, <1>3, PushEffect, PushSerials, Facts, ListsAssumption DEF OnItsQueue, Running, MaySubmit, Calling
<1>15. SignalBehindWork'
  BY <1>1, <1>2, <1>3, PushEffect, PushSerials, Facts DEF SignalBehindWork, Running, Unclaimed, Signalled
<1>16. InDepth' /\ CancelledOver'
  BY DEF ReportBefore, coreVars, hostVars, InDepth, CancelledOver, Running
<1>17. QED
  BY <1>4, <1>5, <1>6, <1>7, <1>8, <1>9, <1>10, <1>11, <1>12, <1>13, <1>14, <1>15, <1>16

LEMMA NativeHookedKeeps ==
  ASSUME TypeOK, IInv, NEW q \in Queues, NEW l \in Lists, NativeHooked(q, l)
  PROVE  IInv'
<1> USE DEF IInv
<1>1. MaySubmit(q, l) /\ Native(q, l)
  BY DEF NativeHooked
<1>2. \A p \in Queues : call'[p] = IF p = q THEN Calling(l, 0, depth[q] + 1) ELSE call[p]
  BY DEF NativeHooked, TypeOK
<1>3. UNCHANGED <<coreVars, usedAt, evalCounter, evaluating, presenting, fenceAt, lost>>
  BY DEF NativeHooked
<1>4. InListFresh'
  BY <1>1, <1>2, <1>3, NativeEffect, Facts DEF InListFresh, coreVars, hostVars
<1>5. BeyondBlank'
  BY <1>1, <1>2, <1>3, NativeEffect, Facts DEF BeyondBlank, InListFresh, coreVars, hostVars
<1>6. WritesInList'
  BY <1>1, <1>2, <1>3, NativeEffect, Facts DEF WritesInList, ThisEvaluate, Pending, Unclaimed, Signalled, MaySubmit, coreVars, hostVars
<1>7. CallsApart'
  BY <1>1, <1>2, <1>3, NativeEffect, Facts DEF CallsApart, MaySubmit, Calling, coreVars, hostVars
<1>8. HookedRan'
  BY <1>1, <1>2, <1>3, NativeEffect, Facts DEF HookedRan, Calling, coreVars, hostVars
<1>9. Young'
  BY <1>1, <1>2, <1>3, NativeEffect, Facts DEF Young, InFlight, Running, coreVars, hostVars
<1>10. ClaimedInCall'
  BY <1>1, <1>2, <1>3, NativeEffect, Facts DEF ClaimedInCall, Reported, MaySubmit, NoCall, Calling, coreVars, hostVars
<1>11. SettledBehindCalls'
  BY <1>1, <1>2, <1>3, NativeEffect, Facts DEF SettledBehindCalls, Reported, Calling, coreVars, hostVars
<1>12. OnItsQueue'
  BY <1>1, <1>2, <1>3, NativeEffect, Facts DEF OnItsQueue, Running, MaySubmit, ClaimedInCall, InListFresh, Calling, coreVars, hostVars
<1>13. InDepth'
  BY <1>1, <1>2, <1>3, NativeEffect, Facts DEF InDepth, Running, coreVars, hostVars
<1>14. SignalBehindWork'
  BY <1>1, <1>2, <1>3, NativeEffect, Facts DEF SignalBehindWork, Running, InListFresh, coreVars, hostVars
<1>15. CancelledOver'
  BY <1>1, <1>2, <1>3, NativeEffect, Facts DEF CancelledOver, Running, InListFresh, coreVars, hostVars
<1>16. Chains' /\ Dated'
  BY DEF NativeHooked, coreVars, hostVars, Chains, Dated
<1>17. QED
  BY <1>4, <1>5, <1>6, <1>7, <1>8, <1>9, <1>10, <1>11, <1>12, <1>13, <1>14, <1>15, <1>16

LEMMA SubmitUnseenKeeps ==
  ASSUME TypeOK, IInv, NEW q \in Queues, NEW l \in Lists, SubmitUnseen(q, l)
  PROVE  IInv'
<1> USE DEF IInv
<1>1. MaySubmit(q, l) /\ Native(q, l)
  BY DEF SubmitUnseen
<1>2. UNCHANGED <<coreVars, usedAt, call, evalCounter, evaluating, presenting, fenceAt, lost>>
  BY DEF SubmitUnseen
<1>3. InListFresh'
  BY <1>1, <1>2, NativeEffect, Facts DEF InListFresh, coreVars, hostVars
<1>4. BeyondBlank'
  BY <1>1, <1>2, NativeEffect, Facts DEF BeyondBlank, InListFresh, coreVars, hostVars
<1>5. WritesInList'
  BY <1>1, <1>2, NativeEffect, Facts DEF WritesInList, ThisEvaluate, Pending, Unclaimed, Signalled, MaySubmit, coreVars, hostVars
<1>6. HookedRan'
  BY <1>1, <1>2, NativeEffect, Facts DEF HookedRan, coreVars, hostVars
<1>7. Young'
  BY <1>1, <1>2, NativeEffect, Facts DEF Young, InFlight, Running, coreVars, hostVars
<1>8. ClaimedInCall'
  BY <1>1, <1>2, NativeEffect, Facts DEF ClaimedInCall, Reported, coreVars, hostVars
<1>9. OnItsQueue'
  BY <1>1, <1>2, NativeEffect, Facts DEF OnItsQueue, Running, MaySubmit, ClaimedInCall, InListFresh, coreVars, hostVars
<1>10. InDepth'
  BY <1>1, <1>2, NativeEffect, Facts DEF InDepth, Running, coreVars, hostVars
<1>11. SignalBehindWork'
  BY <1>1, <1>2, NativeEffect, Facts DEF SignalBehindWork, Running, InListFresh, coreVars, hostVars
<1>12. CancelledOver'
  BY <1>1, <1>2, NativeEffect, Facts DEF CancelledOver, Running, InListFresh, coreVars, hostVars
<1>13. Chains' /\ Dated' /\ CallsApart' /\ SettledBehindCalls'
  BY DEF SubmitUnseen, coreVars, hostVars, Chains, Dated, CallsApart, SettledBehindCalls, Reported
<1>14. QED
  BY <1>3, <1>4, <1>5, <1>6, <1>7, <1>8, <1>9, <1>10, <1>11, <1>12, <1>13

LEMMA EvaluateBeginKeeps ==
  ASSUME TypeOK, IInv, NEW l \in Lists, EvaluateBegin(l)
  PROVE  IInv'
<1> USE DEF IInv
<1>1. /\ \A q \in Queues : call[q].list # l /\ ~Reported(q)
      /\ OnTime(evalCounter + 1) /\ Drain("All")
      /\ evaluating = NoList /\ evaluating' = l /\ evalCounter' = evalCounter + 1
  BY DEF EvaluateBegin
<1>2. UNCHANGED <<tracked, pushed, nextTag, rec, listTag, presenting, hostVars, lost>>
  BY DEF EvaluateBegin
<1>3. InListFresh'
  BY <1>1, <1>2, DrainSignals, DrainRest, Facts DEF InListFresh, Expired, Unclaimed, OnTime, InFlight, Dated, ClaimedInCall, coreVars, hostVars
<1>4. BeyondBlank'
  BY <1>1, <1>2, DrainSignals, DrainRest, Facts DEF BeyondBlank, Expired, Unclaimed, coreVars, hostVars
<1>5. Dated'
  BY <1>1, <1>2, DrainSignals, DrainRest, Facts DEF Dated, coreVars, hostVars
<1>6. WritesInList'
  BY <1>1, <1>2, DrainSignals, DrainRest, Facts DEF WritesInList, ThisEvaluate, Pending, Unclaimed, Signalled, Dated, coreVars, hostVars
<1>7. CallsApart'
  BY <1>1, <1>2, DrainSignals, DrainRest, Facts DEF CallsApart, coreVars, hostVars
<1>8. Young'
  BY <1>1, <1>2, DrainSignals, DrainRest, Facts DEF Young, InFlight, Running, OnTime, coreVars, hostVars
<1>9. SettledBehindCalls'
  BY <1>1, <1>2, DrainSignals, DrainRest, Facts DEF SettledBehindCalls, Reported, coreVars, hostVars
<1>10. InDepth'
  BY <1>1, <1>2, DrainSignals, DrainRest, Facts DEF InDepth, Running, coreVars, hostVars
<1>11. SignalBehindWork'
  BY <1>1, <1>2, DrainSignals, DrainRest, Facts DEF SignalBehindWork, Running, OnItsQueue, InDepth, coreVars, hostVars
<1>12. CancelledOver'
  BY <1>1, <1>2, DrainSignals, DrainRest, Facts DEF CancelledOver, Running, Expired, Unclaimed, OnTime, InFlight, Dated, coreVars, hostVars
<1>13. Chains' /\ HookedRan' /\ ClaimedInCall' /\ OnItsQueue'
  BY DEF EvaluateBegin, coreVars, hostVars, Chains, HookedRan, ClaimedInCall, OnItsQueue, Reported, Running
<1>14. QED
  BY <1>3, <1>4, <1>5, <1>6, <1>7, <1>8, <1>9, <1>10, <1>11, <1>12, <1>13

LEMMA UsePointKeeps ==
  ASSUME TypeOK, IInv, NEW l \in Lists, UsePoint(l)
  PROVE  IInv'
<1> USE DEF IInv
<1>1. evaluating = l
  BY DEF UsePoint
<1>2. \/ /\ ThisEvaluate(l)
         /\ \A k \in Lists : content'[k] = IF k = l THEN content[l] \cup {listTag[l]} ELSE content[k]
         /\ \A t \in Tags : usedAt'[t] = IF t = listTag[l] THEN evalCounter ELSE usedAt[t]
         /\ UNCHANGED <<nextTag, rec, listTag>>
      \/ /\ ~ThisEvaluate(l)
         /\ nextTag + 1 \in Tags /\ nextTag' = nextTag + 1
         /\ \A t \in Tags : rec'[t] = IF t = nextTag + 1 THEN Made(l, evalCounter, Previous(l), TRUE) ELSE rec[t]
         /\ \A k \in Lists : listTag'[k] = IF k = l THEN nextTag + 1 ELSE listTag[k]
         /\ \A k \in Lists : content'[k] = IF k = l THEN content[l] \cup {nextTag + 1} ELSE content[k]
         /\ \A t \in Tags : usedAt'[t] = IF t = nextTag + 1 THEN evalCounter ELSE usedAt[t]
  BY DEF UsePoint, TypeOK
<1>3. UNCHANGED <<tracked, pushed, settled, signalled, cancelled, sig, ring, evalCounter,
                     evaluating, presenting, call, depth, exec, serialAt, fenceAt, lost>>
  BY DEF UsePoint
<1>4. InListFresh'
  BY <1>1, <1>2, <1>3, Facts DEF InListFresh, BeyondBlank, WritesInList, Made
<1>5. BeyondBlank'
  BY <1>1, <1>2, <1>3, Facts DEF BeyondBlank, Made
<1>6. Chains'
  BY <1>1, <1>2, <1>3, Facts DEF Chains, Previous, Pending, Unclaimed, Made
<1>7. Dated'
  BY <1>1, <1>2, <1>3, Facts DEF Dated, ThisEvaluate, Made
<1>8. WritesInList'
  BY <1>1, <1>2, <1>3, Facts DEF WritesInList, ThisEvaluate, Pending, Unclaimed, Signalled
<1>9. HookedRan'
  BY <1>1, <1>2, <1>3, Facts DEF HookedRan, CallsApart
<1>10. Young'
  BY <1>1, <1>2, <1>3, Facts DEF Young, InFlight, Running, WritesInList, Made, BeyondBlank
<1>11. ClaimedInCall'
  BY <1>1, <1>2, <1>3, Facts DEF ClaimedInCall, Reported, WritesInList, Made, InListFresh
<1>12. OnItsQueue'
  BY <1>1, <1>2, <1>3, Facts DEF OnItsQueue, Running, BeyondBlank, Made
<1>13. SignalBehindWork'
  BY <1>1, <1>2, <1>3, Facts DEF SignalBehindWork, Running, BeyondBlank, Made
<1>14. CallsApart' /\ SettledBehindCalls' /\ InDepth' /\ CancelledOver'
  BY DEF UsePoint, coreVars, hostVars, CallsApart, SettledBehindCalls, InDepth, CancelledOver, Reported, Running
<1>15. QED
  BY <1>4, <1>5, <1>6, <1>7, <1>8, <1>9, <1>10, <1>11, <1>12, <1>13, <1>14

LEMMA UsePointFailsKeeps ==
  ASSUME TypeOK, IInv, NEW l \in Lists, UsePointFails(l)
  PROVE  IInv'
<1> USE DEF IInv
<1>1. /\ evaluating = l /\ nextTag + 1 \in Tags /\ nextTag' = nextTag + 1
      /\ \A t \in Tags : rec'[t] = IF t = nextTag + 1 THEN Made(l, evalCounter, 0, FALSE) ELSE rec[t]
      /\ \A k \in Lists : content'[k] = IF k = l THEN content[l] \cup {nextTag + 1} ELSE content[k]
      /\ \A t \in Tags : usedAt'[t] = IF t = nextTag + 1 THEN evalCounter ELSE usedAt[t]
  BY DEF UsePointFails, TypeOK
<1>2. UNCHANGED <<tracked, pushed, settled, signalled, cancelled, sig, listTag, ring, evalCounter,
                     evaluating, presenting, call, depth, exec, serialAt, fenceAt, lost>>
  BY DEF UsePointFails
<1>3. InListFresh'
  BY <1>1, <1>2, Facts DEF InListFresh, BeyondBlank, Made
<1>4. BeyondBlank'
  BY <1>1, <1>2, Facts DEF BeyondBlank, Made
<1>5. Chains'
  BY <1>1, <1>2, Facts DEF Chains, Made
<1>6. Dated'
  BY <1>1, <1>2, Facts DEF Dated, Made
<1>7. WritesInList'
  BY <1>1, <1>2, Facts DEF WritesInList, ThisEvaluate, Pending, Unclaimed, Signalled, Made
<1>8. HookedRan'
  BY <1>1, <1>2, Facts DEF HookedRan, CallsApart
<1>9. Young'
  BY <1>1, <1>2, Facts DEF Young, InFlight, Running, Made, BeyondBlank
<1>10. ClaimedInCall'
  BY <1>1, <1>2, Facts DEF ClaimedInCall, Reported, Made, InListFresh
<1>11. OnItsQueue'
  BY <1>1, <1>2, Facts DEF OnItsQueue, Running, BeyondBlank, Made
<1>12. SignalBehindWork'
  BY <1>1, <1>2, Facts DEF SignalBehindWork, Running, BeyondBlank, Made
<1>13. CallsApart' /\ SettledBehindCalls' /\ InDepth' /\ CancelledOver'
  BY DEF UsePointFails, coreVars, hostVars, CallsApart, SettledBehindCalls, InDepth, CancelledOver, Reported, Running
<1>14. QED
  BY <1>3, <1>4, <1>5, <1>6, <1>7, <1>8, <1>9, <1>10, <1>11, <1>12, <1>13

LEMMA DiscardKeeps ==
  ASSUME TypeOK, IInv, NEW l \in Lists, Discard(l)
  PROVE  IInv'
<1> USE DEF IInv
<1>1. /\ l # evaluating /\ \A q \in Queues : call[q].list # l
      /\ \A k \in Lists : content'[k] = IF k = l THEN {} ELSE content[k]
  BY DEF Discard, TypeOK
<1>2. UNCHANGED <<coreVars, usedAt, call, exec, evalCounter, evaluating, presenting, depth, lost>>
  BY DEF Discard
<1>3. InListFresh'
  BY <1>1, <1>2, Facts DEF InListFresh, coreVars, hostVars
<1>4. WritesInList'
  BY <1>1, <1>2, Facts DEF WritesInList, ThisEvaluate, Pending, Unclaimed, Signalled, coreVars, hostVars
<1>5. HookedRan'
  BY <1>1, <1>2, Facts DEF HookedRan, coreVars, hostVars
<1>6. Young'
  BY <1>1, <1>2, Facts DEF Young, InFlight, Running, coreVars, hostVars
<1>7. ClaimedInCall'
  BY <1>1, <1>2, Facts DEF ClaimedInCall, Reported, coreVars, hostVars
<1>8. BeyondBlank' /\ Chains' /\ Dated' /\ CallsApart' /\ SettledBehindCalls' /\ OnItsQueue' /\ InDepth' /\ SignalBehindWork' /\ CancelledOver'
  BY DEF Discard, coreVars, hostVars, BeyondBlank, Chains, Dated, CallsApart, SettledBehindCalls, OnItsQueue, InDepth, SignalBehindWork, CancelledOver, Reported, Running
<1>9. QED
  BY <1>3, <1>4, <1>5, <1>6, <1>7, <1>8

LEMMA HousekeepingKeeps ==
  ASSUME TypeOK, IInv, NEW first \in BOOLEAN, PresentOverlaps = FALSE, Housekeeping(first)
  PROVE  IInv'
<1> USE DEF IInv
<1>1. /\ presenting = ~first /\ presenting' = first
      /\ first => \A q \in Queues : ~Reported(q)
  BY DEF Housekeeping
<1>2. \A p \in Queues : call'[p].list = call[p].list /\ call'[p].serial = call[p].serial
                           /\ call'[p].left = call[p].left
  BY DEF Housekeeping, TypeOK, Submitting
<1>3. \/ Drain("Settled")
      \/ UNCHANGED <<ring, settled, signalled, depth, sig, fenceAt, cancelled>>
  BY DEF Housekeeping
<1>4. UNCHANGED <<tracked, pushed, nextTag, rec, listTag, evalCounter, evaluating,
                     content, usedAt, exec, serialAt, lost>>
  BY DEF Housekeeping
<1>5. InListFresh'
  <2>1. CASE UNCHANGED <<ring, settled, signalled, depth, sig, fenceAt, cancelled>>
    BY <1>4, <2>1 DEF InListFresh
  <2>2. CASE Drain("Settled")
    <3>1. ASSUME NEW l \in Lists, NEW t \in content[l] PROVE t \in Tags /\ sig'[t] = sig[t]
      <4>1. rec[t].serial > 0 => /\ rec[t].queue \in Queues /\ Reported(rec[t].queue)
                                 /\ call[rec[t].queue].serial = rec[t].serial
        BY DEF ClaimedInCall
      <4>2. rec[t].serial > 0 => presenting
        BY <1>1, <4>1
      <4>3. rec[t].serial > 0 => settled[rec[t].queue] < rec[t].serial
        BY <4>1, <4>2 DEF SettledBehindCalls
      <4>4. Target("Settled") = settled
        BY DEF Target
      <4>5. QED
        BY <2>2, <4>1, <4>3, <4>4, DrainSignals, Facts
    <3>2. ASSUME NEW l \in Lists, NEW t \in content[l] PROVE t \notin cancelled'
      <4>1. t \in Tags /\ t \notin cancelled /\ InFlight(t) /\ t <= nextTag
        BY Facts DEF InListFresh, InFlight
      <4>2. ~lost => t \notin Expired
        BY <4>1, Facts DEF Expired, Unclaimed, Young, Dated
      <4>3. QED
        BY <2>2, <4>1, <4>2, DrainRest
    <3>3. QED
      BY <1>4, <3>1, <3>2 DEF InListFresh
  <2>3. QED
    BY <1>3, <2>1, <2>2
<1>6. BeyondBlank'
  BY <1>1, <1>2, <1>3, <1>4, DrainSignals, DrainRest, Facts DEF BeyondBlank, Expired, Unclaimed
<1>7. WritesInList'
  <2>1. cancelled \subseteq cancelled' /\ \A t \in Tags : sig[t] # NotYet => sig'[t] # NotYet
    <3>1. CASE Drain("Settled")
      <4>1. cancelled \subseteq cancelled'
        BY <3>1 DEF Drain
      <4>2. QED
        BY <3>1, <4>1, DrainSignals
    <3>2. CASE UNCHANGED <<ring, settled, signalled, depth, sig, fenceAt, cancelled>>
      BY <3>2
    <3>3. QED
      BY <1>3, <3>1, <3>2
  <2>2. \A t \in Tags : Unclaimed(t)' => Unclaimed(t)
    BY <1>4, <2>1 DEF Unclaimed, Signalled
  <2>3. ASSUME NEW l \in Lists, evaluating' = l, ThisEvaluate(l)' PROVE listTag'[l] \in content'[l]
    <3>1. listTag'[l] \in Tags /\ evaluating = l
      BY <1>4, <2>3, Facts DEF ThisEvaluate, Pending, Unclaimed
    <3>2. ThisEvaluate(l)
      BY <1>4, <2>3, <2>2, <3>1 DEF ThisEvaluate, Pending
    <3>3. QED
      BY <1>4, <3>1, <3>2 DEF WritesInList
  <2>4. QED
    BY <2>3 DEF WritesInList
<1>8. CallsApart'
  BY <1>1, <1>2, <1>3, <1>4, DrainSignals, DrainRest, Facts DEF CallsApart
<1>9. HookedRan'
  BY <1>1, <1>2, <1>3, <1>4, DrainSignals, DrainRest, Facts DEF HookedRan
<1>10. ClaimedInCall'
  BY <1>1, <1>2, <1>3, <1>4, DrainSignals, DrainRest, Facts DEF ClaimedInCall, Reported
<1>11. SettledBehindCalls'
  BY <1>1, <1>2, <1>3, <1>4, DrainSignals, DrainRest, Facts DEF SettledBehindCalls, Reported
<1>12. OnItsQueue'
  BY <1>1, <1>2, <1>3, <1>4, DrainSignals, DrainRest, Facts DEF OnItsQueue, Running
<1>13. InDepth'
  BY <1>1, <1>2, <1>3, <1>4, DrainSignals, DrainRest, Facts DEF InDepth, Running
<1>14. SignalBehindWork'
  BY <1>1, <1>2, <1>3, <1>4, DrainSignals, DrainRest, Facts DEF SignalBehindWork, Running, OnItsQueue, InDepth
<1>15. CancelledOver'
  BY <1>1, <1>2, <1>3, <1>4, DrainSignals, DrainRest, Facts DEF CancelledOver, Running, Expired, Unclaimed, Young, InFlight, Dated
<1>16. Chains' /\ Dated' /\ Young'
  BY DEF Housekeeping, coreVars, hostVars, Chains, Dated, Young, InFlight, Running
<1>17. QED
  BY <1>5, <1>6, <1>7, <1>8, <1>9, <1>10, <1>11, <1>12, <1>13, <1>14, <1>15, <1>16

LEMMA EvaluateEndKeeps ==
  ASSUME TypeOK, IInv, EvaluateEnd
  PROVE  IInv'
<1> USE DEF IInv
<1>1. evaluating' = NoList /\ UNCHANGED <<coreVars, hostVars, evalCounter, presenting, depth, fenceAt, lost>>
  BY DEF EvaluateEnd
<1>2. WritesInList'
  BY <1>1, Facts, ListsAssumption DEF WritesInList, ThisEvaluate, Pending, Unclaimed, Signalled, coreVars, hostVars
<1>3. CallsApart'
  BY <1>1, Facts DEF CallsApart, coreVars, hostVars
<1>4. InListFresh' /\ BeyondBlank' /\ Chains' /\ Dated' /\ HookedRan' /\ Young' /\ ClaimedInCall' /\ SettledBehindCalls' /\ OnItsQueue' /\ InDepth' /\ SignalBehindWork' /\ CancelledOver'
  BY DEF EvaluateEnd, coreVars, hostVars, InListFresh, BeyondBlank, Chains, Dated, HookedRan, Young, ClaimedInCall, SettledBehindCalls, OnItsQueue, InDepth, SignalBehindWork, CancelledOver, InFlight, Reported, Running
<1>5. QED
  BY <1>2, <1>3, <1>4

LEMMA DeviceRemovedKeeps ==
  ASSUME TypeOK, IInv, DeviceRemoved
  PROVE  IInv'
<1> USE DEF IInv
<1>1. lost' = TRUE /\ UNCHANGED <<coreVars, hostVars, evalCounter, evaluating, presenting, depth, fenceAt>>
  BY DEF DeviceRemoved
<1>2. Young'
  BY <1>1, Facts DEF Young, InFlight, Running, coreVars, hostVars
<1>3. InListFresh' /\ BeyondBlank' /\ Chains' /\ Dated' /\ WritesInList' /\ CallsApart' /\ HookedRan' /\ ClaimedInCall' /\ SettledBehindCalls' /\ OnItsQueue' /\ InDepth' /\ SignalBehindWork' /\ CancelledOver'
  BY DEF DeviceRemoved, coreVars, hostVars, InListFresh, BeyondBlank, Chains, Dated, WritesInList, CallsApart, HookedRan, ClaimedInCall, SettledBehindCalls, OnItsQueue, InDepth, SignalBehindWork, CancelledOver, Pending, Reported, Running, Signalled, ThisEvaluate, Unclaimed
<1>4. QED
  BY <1>2, <1>3

LEMMA OtherWorkKeeps ==
  ASSUME TypeOK, IInv, NEW Q \in SUBSET Queues, OtherWork(Q)
  PROVE  IInv'
<1> USE DEF IInv
<1>1. UNCHANGED <<coreVars, hostVars, evalCounter, evaluating, presenting, fenceAt, lost>>
  BY DEF OtherWork
<1>2. InDepth'
  <2>1. \A q \in Queues : depth[q] <= depth'[q] /\ depth[q] \in Nat /\ depth'[q] \in Nat
    BY DEF OtherWork, TypeOK
  <2>2. QED
    BY <1>1, <2>1, Facts DEF InDepth, Running, coreVars, hostVars
<1>3. InListFresh' /\ BeyondBlank' /\ Chains' /\ Dated' /\ WritesInList' /\ CallsApart' /\ HookedRan' /\ Young' /\ ClaimedInCall' /\ SettledBehindCalls' /\ OnItsQueue' /\ SignalBehindWork' /\ CancelledOver'
  BY <1>1 DEF coreVars, hostVars, InListFresh, BeyondBlank, Chains, Dated, WritesInList, CallsApart, HookedRan, Young, InFlight, ClaimedInCall, SettledBehindCalls, OnItsQueue, SignalBehindWork, CancelledOver, Pending, Reported, Running, Signalled, ThisEvaluate, Unclaimed
<1>4. QED
  BY <1>2, <1>3

LEMMA InitInv == Init => IInv
<1> SUFFICES ASSUME Init PROVE IInv
  OBVIOUS
<1>1. /\ \A l \in Lists : content[l] = {} /\ listTag[l] = 0
      /\ \A t \in Tags : /\ rec[t].serial = 0 /\ rec[t].prev = 0 /\ exec[t].left = NotYet
                         /\ sig[t] = NotYet /\ t \in Nat /\ t > 0
      /\ \A q \in Queues : call[q].list = NoList /\ settled[q] = 0 /\ pushed[q] = 0
      /\ nextTag = 0 /\ cancelled = {} /\ NotYet = -1 /\ presenting = FALSE
  BY DEF Init, NoRec, Made, NoExec, NoCall, Calling, Tags, NotYet
<1>2. InListFresh /\ BeyondBlank /\ Chains /\ Dated /\ CallsApart /\ HookedRan
  BY <1>1 DEF InListFresh, BeyondBlank, Chains, Dated, CallsApart, HookedRan
<1>3. WritesInList /\ ClaimedInCall /\ SettledBehindCalls
  BY <1>1 DEF WritesInList, ThisEvaluate, Pending, ClaimedInCall, SettledBehindCalls, Reported
<1>4. Young /\ OnItsQueue /\ InDepth /\ SignalBehindWork /\ CancelledOver
  BY <1>1 DEF Young, InFlight, OnItsQueue, InDepth, SignalBehindWork, CancelledOver, Running
<1>5. QED
  BY <1>2, <1>3, <1>4 DEF IInv

LEMMA StepInv ==
  ASSUME PresentOverlaps = FALSE
  PROVE  TypeOK /\ IInv /\ [Next]_vars => IInv'
<1> SUFFICES ASSUME TypeOK, IInv, [Next]_vars PROVE IInv'
  OBVIOUS
<1>1. CASE \E q \in Queues : Track(q) \/ Untrack(q) \/ NativeAfterReport(q) \/ ReportAfter(q) \/ GpuStep(q)
  BY <1>1, TrackKeeps, UntrackKeeps, NativeAfterReportKeeps, ReportAfterKeeps, GpuStepKeeps
<1>2. CASE \E q \in Queues, l \in Lists : ReportBefore(q, l) \/ NativeHooked(q, l) \/ SubmitUnseen(q, l)
  BY <1>2, ReportBeforeKeeps, NativeHookedKeeps, SubmitUnseenKeeps
<1>3. CASE \E l \in Lists : EvaluateBegin(l) \/ UsePoint(l) \/ UsePointFails(l) \/ Discard(l)
  BY <1>3, EvaluateBeginKeeps, UsePointKeeps, UsePointFailsKeeps, DiscardKeeps
<1>4. CASE \E first \in BOOLEAN : Housekeeping(first)
  BY <1>4, HousekeepingKeeps
<1>5. CASE EvaluateEnd \/ DeviceRemoved
  BY <1>5, EvaluateEndKeeps, DeviceRemovedKeeps
<1>6. CASE \E Q \in SUBSET Queues : OtherWork(Q)
  BY <1>6, OtherWorkKeeps
<1>7. CASE UNCHANGED vars
  <2> USE <1>7 DEF IInv, vars, coreVars, hostVars
  <2>1. InListFresh' /\ BeyondBlank' /\ Chains' /\ Dated' /\ CallsApart' /\ HookedRan'
    BY DEF InListFresh, BeyondBlank, Chains, Dated, CallsApart, HookedRan
  <2>2. WritesInList' /\ ClaimedInCall' /\ SettledBehindCalls'
    BY DEF WritesInList, ThisEvaluate, Pending, Unclaimed, Signalled, ClaimedInCall, SettledBehindCalls, Reported
  <2>3. Young' /\ OnItsQueue' /\ InDepth' /\ SignalBehindWork' /\ CancelledOver'
    BY DEF Young, InFlight, OnItsQueue, InDepth, SignalBehindWork, CancelledOver, Running
  <2>4. QED
    BY <2>1, <2>2, <2>3
<1>8. QED
  BY <1>1, <1>2, <1>3, <1>4, <1>5, <1>6, <1>7 DEF Next, HostOrGpu

LEMMA InvSafe == TypeOK /\ IInv => ReleaseSafe
<1> SUFFICES ASSUME TypeOK, IInv, NEW t \in 1 .. nextTag, Completed(t) PROVE ~InFlight(t)
  BY DEF ReleaseSafe
<1> USE DEF IInv
<1>1. t \in Tags /\ (t \in cancelled \/ sig[t] = 0)
  BY Facts DEF Completed
<1>2. \A l \in Lists : t \notin content[l]
  BY <1>1, Facts DEF InListFresh
<1>3. ~Running(t)
  BY <1>1, Facts DEF CancelledOver, SignalBehindWork, Running
<1>4. QED
  BY <1>2, <1>3 DEF InFlight

\* As long as a present finds no submission between its event and its native call, a use's
\* fence completes only when the GPU is through with the use, for any queues, lists,
\* devices and mix of event and hook reports.
THEOREM Released ==
  ASSUME PresentOverlaps = FALSE
  PROVE  Spec => []ReleaseSafe
<1>1. Init => TypeOK /\ IInv
  BY InitType, InitInv
<1>2. TypeOK /\ IInv /\ [Next]_vars => (TypeOK /\ IInv)'
  BY StepType, StepInv
<1>3. TypeOK /\ IInv => ReleaseSafe
  BY InvSafe
<1>4. QED
  BY <1>1, <1>2, <1>3, PTL DEF Spec

-----------------------------------------------------------------------------
(* AbandonedWindow: what is unclaimed stays in its window.                 *)

\* A recording is unclaimed after a step because it was before, or because it is new.
UnclaimedForward ==
  \A t \in Tags : Unclaimed(t)' =>
    \/ Unclaimed(t) /\ rec'[t] = rec[t]
    \/ t > nextTag /\ rec'[t].created = evalCounter

LEMMA UnclaimedPush ==
  ASSUME TypeOK, NEW q \in Queues, NEW l \in Lists, Push(q, l), UNCHANGED <<nextTag, sig, cancelled>>
  PROVE  UnclaimedForward
<1> SUFFICES ASSUME NEW t \in Tags, Unclaimed(t)' PROVE Unclaimed(t) /\ rec'[t] = rec[t]
  BY DEF UnclaimedForward
<1>1. \/ rec'[t] = rec[t]
      \/ q \in tracked /\ rec'[t] = Claimed(rec[t], q, pushed[q] + 1)
  BY DEF Push
<1>2. rec'[t].serial = 0
  BY DEF Unclaimed
<1>3. rec'[t] = rec[t]
  BY <1>1, <1>2, Facts DEF Claimed
<1>4. QED
  BY <1>3 DEF Unclaimed, Signalled

LEMMA UnclaimedDrain ==
  ASSUME TypeOK, NEW policy, Drain(policy), UNCHANGED <<nextTag, rec>>
  PROVE  UnclaimedForward /\ (~lost => \A t \in Tags : Unclaimed(t)' => t \notin Expired)
<1>1. ASSUME NEW t \in Tags, Unclaimed(t)'
      PROVE  Unclaimed(t) /\ (~lost => t \notin Expired)
  <2>1. t \in 1 .. nextTag /\ rec[t].fence /\ rec[t].serial = 0 /\ sig'[t] = NotYet /\ t \notin cancelled'
    BY <1>1 DEF Unclaimed, Signalled
  <2>2. sig[t] = NotYet
    BY <2>1, DrainSignals
  <2>3. t \notin cancelled /\ (~lost => t \notin Expired)
    BY <2>1 DEF Drain
  <2>4. QED
    BY <2>1, <2>2, <2>3 DEF Unclaimed, Signalled
<1>2. QED
  BY <1>1 DEF UnclaimedForward

LEMMA UnclaimedStep ==
  ASSUME TypeOK, [Next]_vars
  PROVE  UnclaimedForward
<1> USE DEF UnclaimedForward
<1>1. ASSUME NEW q \in Queues, Track(q) PROVE UnclaimedForward
  BY <1>1 DEF Track, Unclaimed, Signalled
<1>2. ASSUME NEW q \in Queues, Untrack(q) PROVE UnclaimedForward
  <2>1. UNCHANGED <<nextTag, rec>> /\ cancelled \subseteq cancelled'
    BY <1>2 DEF Untrack
  <2>2. \A t \in Tags : \/ sig'[t] = sig[t]
                        \/ sig[t] = NotYet
    BY <1>2 DEF Untrack, DueOn, Signalled
  <2>3. \A t \in Tags : sig'[t] = NotYet => sig[t] = NotYet
    BY <2>2, Facts
  <2>4. QED
    BY <2>1, <2>3 DEF Unclaimed, Signalled
<1>3. ASSUME NEW q \in Queues, GpuStep(q) PROVE UnclaimedForward
  <2>1. UNCHANGED <<nextTag, rec, cancelled>>
    BY <1>3 DEF GpuStep
  <2>2. \A t \in Tags : sig'[t] = IF rec[t].queue = q THEN Closer(sig[t]) ELSE sig[t]
    BY <1>3 DEF GpuStep
  <2>3. \A t \in Tags : sig'[t] = NotYet => sig[t] = NotYet
    BY <2>2, Facts DEF Closer
  <2>4. QED
    BY <2>1, <2>3 DEF Unclaimed, Signalled
<1>4. ASSUME NEW q \in Queues, NEW l \in Lists, ReportBefore(q, l) PROVE UnclaimedForward
  BY <1>4, UnclaimedPush DEF ReportBefore
<1>5. ASSUME NEW q \in Queues, ReportAfter(q) PROVE UnclaimedForward
  BY <1>5, UnclaimedPush, Facts DEF ReportAfter
<1>6. ASSUME NEW l \in Lists, EvaluateBegin(l) PROVE UnclaimedForward
  BY <1>6, UnclaimedDrain DEF EvaluateBegin
<1>7. ASSUME NEW l \in Lists, UsePoint(l) \/ UsePointFails(l) PROVE UnclaimedForward
  <2>1. UNCHANGED <<cancelled, sig>>
    BY <1>7 DEF UsePoint, UsePointFails
  <2>2. \/ UNCHANGED <<nextTag, rec>>
        \/ /\ nextTag' = nextTag + 1
           /\ \A t \in Tags : \/ t = nextTag + 1 /\ rec'[t].created = evalCounter
                              \/ rec'[t] = rec[t] /\ t # nextTag + 1
    BY <1>7 DEF UsePoint, UsePointFails, Made, TypeOK
  <2>3. QED
    BY <2>1, <2>2, Facts DEF Unclaimed, Signalled
<1>8. ASSUME NEW first \in BOOLEAN, Housekeeping(first) PROVE UnclaimedForward
  <2>1. CASE Drain("Settled")
    BY <1>8, <2>1, UnclaimedDrain DEF Housekeeping
  <2>2. CASE UNCHANGED <<sig, cancelled>>
    BY <1>8, <2>2 DEF Housekeeping, Unclaimed, Signalled
  <2>3. QED
    BY <1>8, <2>1, <2>2 DEF Housekeeping
<1>9. CASE UNCHANGED coreVars
  BY <1>9 DEF coreVars, Unclaimed, Signalled
<1>10. QED
  BY <1>1, <1>2, <1>3, <1>4, <1>5, <1>6, <1>7, <1>8, <1>9
     DEF Next, HostOrGpu, NativeAfterReport, NativeHooked, SubmitUnseen, OtherWork, Discard, EvaluateEnd, DeviceRemoved, vars

LEMMA WindowStep == TypeOK /\ AbandonedWindow /\ [Next]_vars => AbandonedWindow'
<1> SUFFICES ASSUME TypeOK, AbandonedWindow, [Next]_vars, ~lost',
                    NEW t \in Tags, Unclaimed(t)'
             PROVE  evalCounter' - rec'[t].created <= Expiry
  BY DEF AbandonedWindow
<1>1. ~lost
  BY DEF Next, HostOrGpu, vars, Track, Untrack, NativeAfterReport, ReportAfter, GpuStep, ReportBefore, NativeHooked,
         SubmitUnseen, EvaluateBegin, UsePoint, UsePointFails, Discard, OtherWork, Housekeeping,
         EvaluateEnd, DeviceRemoved
<1>2. \/ Unclaimed(t) /\ rec'[t] = rec[t]
      \/ t > nextTag /\ rec'[t].created = evalCounter
  BY UnclaimedStep DEF UnclaimedForward
<1>3. CASE \E l \in Lists : EvaluateBegin(l)
  <2>1. PICK l \in Lists : EvaluateBegin(l)
    BY <1>3
  <2>2. /\ evalCounter' = evalCounter + 1 /\ Drain("All") /\ UNCHANGED <<nextTag, rec>>
    BY <2>1 DEF EvaluateBegin
  <2>3. Unclaimed(t) /\ t \notin Expired
    BY <1>1, <1>2, <2>2, UnclaimedDrain, Facts DEF Unclaimed
  <2>4. QED
    BY <2>2, <2>3, Facts DEF Expired
<1>4. CASE UNCHANGED evalCounter
  BY <1>1, <1>2, <1>4, Facts DEF AbandonedWindow
<1>5. QED
  BY <1>3, <1>4
     DEF Next, HostOrGpu, vars, Track, Untrack, NativeAfterReport, ReportAfter, GpuStep, ReportBefore, NativeHooked,
         SubmitUnseen, UsePoint, UsePointFails, Discard, OtherWork, Housekeeping,
         EvaluateEnd, DeviceRemoved

\* A use the host never reports is cancelled when the window of Expiry evaluates closes,
\* whatever queues come and go, and whatever presents overlap with.
THEOREM CancelledInTime == Spec => []AbandonedWindow
<1>1. Init => TypeOK /\ AbandonedWindow
  BY InitType DEF Init, AbandonedWindow, Unclaimed
<1>2. TypeOK /\ AbandonedWindow /\ [Next]_vars => (TypeOK /\ AbandonedWindow)'
  BY StepType, WindowStep
<1>3. QED
  BY <1>1, <1>2, PTL DEF Spec

-----------------------------------------------------------------------------
(* ClaimsWholeList: the chain of a list reaches all that waits in it.      *)

\* A fenced use still in its list and not claimed yet.
Awaiting(l, t) == t \in content[l] /\ rec[t].fence /\ rec[t].serial = 0

\* Such a use is the list's tag or the link of another one.
ChainWhole ==
  \A l \in Lists : \A t \in Tags : Awaiting(l, t) =>
    t = listTag[l] \/ \E u \in Tags : Awaiting(l, u) /\ rec[u].prev = t

ClaimInv == ChainWhole /\ ClaimsWholeList

\* A use that waits for its claim is one a submission may claim.
LEMMA AwaitingUnclaimed ==
  ASSUME TypeOK, IInv, NEW l \in Lists, NEW t, Awaiting(l, t)
  PROVE  t \in Tags /\ Unclaimed(t) /\ rec[t].list = l
BY Facts DEF IInv, InListFresh, Awaiting, Unclaimed, Signalled

\* So the walk over previousTag meets every one of them: take the greatest one it misses.
LEMMA WalkMeetsAll ==
  ASSUME TypeOK, IInv, ChainWhole, NEW l \in Lists, NEW t \in Tags, Awaiting(l, t)
  PROVE  t \in Claims(l)
<1> DEFINE links(v) == {u \in Tags : u = v /\ Unclaimed(u)}
<1> SUFFICES ASSUME NEW S \in SUBSET Tags, links(listTag[l]) \subseteq S,
                    \A u \in S : links(rec[u].prev) \subseteq S
             PROVE  t \in S
  BY DEF Claims
<1> DEFINE Missed == {u \in Tags : Awaiting(l, u) /\ u \notin S}
           Behind == {n \in Nat : \E u \in Missed : n = MaxRecordings - u}
<1>1. SUFFICES ASSUME t \notin S PROVE FALSE
  OBVIOUS
<1>2. \A u \in Tags : u \in Nat /\ MaxRecordings - u \in Nat
  BY BoundsAssumption DEF Tags
<1>3. MaxRecordings - t \in Behind
  BY <1>1, <1>2
<1>4. PICK n \in Behind : \A k \in Behind : n <= k
  <2>1. Behind \in SUBSET Nat /\ Behind # {}
    BY <1>3
  <2> HIDE DEF Behind
  <2>2. QED
    BY <2>1, Least
<1>5. PICK u \in Missed : n = MaxRecordings - u
  BY <1>4
<1>6. \A v \in Missed : v <= u
  <2>1. ASSUME NEW v \in Missed PROVE v <= u
    <3>1. MaxRecordings - v \in Behind
      BY <1>2
    <3>2. MaxRecordings - u <= MaxRecordings - v
      BY <1>4, <1>5, <3>1
    <3>3. QED
      BY <1>2, <3>2, BoundsAssumption
  <2>2. QED
    BY <2>1
<1>7. Unclaimed(u)
  BY AwaitingUnclaimed
<1>8. u # listTag[l]
  BY <1>7
<1>9. PICK v \in Tags : Awaiting(l, v) /\ rec[v].prev = u
  BY <1>8 DEF ChainWhole
<1>10. v \in S
  <2>1. rec[v].prev < v /\ v \in Nat /\ u \in Nat
    BY Facts
  <2>2. QED
    BY <1>6, <1>9, <2>1
<1>11. QED
  BY <1>7, <1>9, <1>10

\* Steps that leave lists, claims and calls as they are, or only empty lists.
LEMMA QuietClaims ==
  ASSUME TypeOK, ClaimInv, UNCHANGED <<rec, listTag>>,
         \A l \in Lists : content'[l] = {} \/ content'[l] = content[l],
         \A q \in Queues : Reported(q)' => /\ Reported(q) /\ call'[q].list = call[q].list
                                           /\ call'[q].serial = call[q].serial
  PROVE  ClaimInv'
<1>1. ChainWhole'
  BY DEF ClaimInv, ChainWhole, Awaiting
<1>2. ClaimsWholeList'
  BY Facts DEF ClaimInv, ClaimsWholeList, Reported
<1>3. QED
  BY <1>1, <1>2 DEF ClaimInv

\* A Push claims all that waits in its list, and nothing in another.
LEMMA PushClaims ==
  ASSUME TypeOK, IInv, ClaimInv, NEW q \in Queues, NEW l \in Lists, Push(q, l),
         UNCHANGED <<listTag, content>>
  PROVE  /\ ChainWhole'
         /\ \A k \in Lists : \A t \in content[k] : k # l => rec'[t] = rec[t]
         /\ q \in tracked => \A t \in content[l] : Awaiting(l, t) =>
              rec'[t].queue = q /\ rec'[t].serial = pushed[q] + 1
<1>1. ASSUME NEW k \in Lists, NEW t \in content[k], k # l PROVE rec'[t] = rec[t]
  <2>1. t \in Tags /\ rec[t].list = k
    BY Facts DEF IInv, InListFresh
  <2>2. t \notin Claims(l)
    BY <1>1, <2>1, ClaimsOnList DEF IInv
  <2>3. QED
    BY <2>1, <2>2 DEF Push
<1>2. ASSUME q \in tracked, NEW t \in content[l], Awaiting(l, t)
      PROVE  rec'[t].queue = q /\ rec'[t].serial = pushed[q] + 1
  <2>1. t \in Tags /\ t \in Claims(l)
    BY <1>2, Facts, WalkMeetsAll DEF ClaimInv
  <2>2. rec'[t] = Claimed(rec[t], q, pushed[q] + 1)
    BY <1>2, <2>1 DEF Push
  <2>3. QED
    BY <2>2 DEF Claimed
<1>3. ChainWhole'
  <2>1. ASSUME NEW k \in Lists, NEW t \in Tags, Awaiting(k, t)'
        PROVE  t = listTag'[k] \/ \E u \in Tags : Awaiting(k, u)' /\ rec'[u].prev = t
    <3>1. t \in content[k] /\ rec'[t].fence /\ rec'[t].serial = 0
      BY <2>1 DEF Awaiting
    <3>2. CASE k # l
      <4>1. Awaiting(k, t)
        BY <1>1, <3>1, <3>2 DEF Awaiting
      <4>2. t = listTag[k] \/ \E u \in Tags : Awaiting(k, u) /\ rec[u].prev = t
        BY <4>1 DEF ClaimInv, ChainWhole
      <4>3. QED
        BY <1>1, <3>2, <4>2 DEF Awaiting
    <3>3. CASE k = l /\ q \in tracked
      <4>1. rec'[t].fence = rec[t].fence /\ (rec[t].serial = 0 \/ rec'[t].serial = rec[t].serial)
        BY PushEffect, Facts DEF IInv, Unclaimed
      <4>2. Awaiting(l, t)
        BY <3>1, <3>3, <4>1 DEF Awaiting
      <4>3. rec'[t].serial = pushed[q] + 1 /\ pushed[q] + 1 # 0
        BY <1>2, <3>1, <3>3, <4>2, Facts
      <4>4. QED
        BY <3>1, <4>3
    <3>4. CASE q \notin tracked
      BY <2>1, <3>4 DEF Push, ClaimInv, ChainWhole, Awaiting
    <3>5. QED
      BY <3>2, <3>3, <3>4
  <2>2. QED
    BY <2>1 DEF ChainWhole
<1>4. QED
  BY <1>1, <1>2, <1>3

LEMMA ReportBeforeClaims ==
  ASSUME TypeOK, IInv, ClaimInv, NEW q \in Queues, NEW l \in Lists, ReportBefore(q, l)
  PROVE  ClaimInv'
<1>1. /\ MaySubmit(q, l) /\ Push(q, l) /\ UNCHANGED <<listTag, content>>
      /\ \A p \in Queues : call'[p] = IF p = q THEN Calling(l, IF q \in tracked THEN pushed[q] + 1 ELSE 0, NotYet)
                                               ELSE call[p]
  BY DEF ReportBefore, TypeOK
<1>2. ASSUME NEW p \in Queues, Reported(p)', call'[p].serial > 0,
             NEW t \in content'[call'[p].list], rec'[t].fence
      PROVE  rec'[t].queue = p /\ rec'[t].serial = call'[p].serial
  <2>1. CASE p = q
    <3>1. q \in tracked /\ call'[p].list = l /\ call'[p].serial = pushed[q] + 1 /\ t \in content[l]
      BY <1>1, <1>2, <2>1 DEF Calling
    <3>2. t \in Tags /\ rec[t].fence
      BY <1>1, <1>2, <3>1, PushEffect, Facts DEF IInv
    <3>3. rec[t].serial = 0
      <4>1. rec[t].serial > 0 => rec[t].queue \in Queues /\ call[rec[t].queue].list = l
        BY <3>1 DEF IInv, ClaimedInCall
      <4>2. QED
        BY <1>1, <3>2, <4>1, Facts DEF MaySubmit
    <3>4. QED
      BY <1>1, <2>1, <3>1, <3>2, <3>3, PushClaims DEF Awaiting
  <2>2. CASE p # q
    <3>1. call'[p] = call[p] /\ Reported(p) /\ call[p].list \in Lists /\ call[p].list # l
      BY <1>1, <1>2, <2>2, Facts DEF Reported, MaySubmit
    <3>2. rec'[t] = rec[t]
      BY <1>1, <1>2, <3>1, PushClaims
    <3>3. QED
      BY <1>1, <1>2, <3>1, <3>2 DEF ClaimInv, ClaimsWholeList
  <2>3. QED
    BY <2>1, <2>2
<1>3. ClaimsWholeList'
  BY <1>2 DEF ClaimsWholeList
<1>4. QED
  BY <1>1, <1>3, PushClaims DEF ClaimInv

LEMMA ReportAfterClaims ==
  ASSUME TypeOK, IInv, ClaimInv, NEW q \in Queues, ReportAfter(q)
  PROVE  ClaimInv'
<1> DEFINE l == call[q].list
<1>1. /\ l \in Lists /\ Push(q, l) /\ UNCHANGED <<listTag, content>> /\ content[l] = {}
      /\ \A p \in Queues : call'[p] = IF p = q THEN NoCall ELSE call[p]
  BY Facts DEF ReportAfter, TypeOK, IInv, HookedRan
<1>2. ASSUME NEW p \in Queues, Reported(p)', call'[p].serial > 0,
             NEW t \in content'[call'[p].list], rec'[t].fence
      PROVE  rec'[t].queue = p /\ rec'[t].serial = call'[p].serial
  <2>1. p # q /\ call'[p] = call[p] /\ Reported(p) /\ call[p].list \in Lists
    BY <1>1, <1>2, Facts DEF Reported, NoCall, Calling
  <2>2. call[p].list # l /\ t \in content[call[p].list]
    BY <1>1, <1>2, <2>1
  <2>3. rec'[t] = rec[t]
    BY <1>1, <2>1, <2>2, PushClaims
  <2>4. QED
    BY <1>2, <2>1, <2>2, <2>3 DEF ClaimInv, ClaimsWholeList
<1>3. ClaimsWholeList'
  BY <1>2 DEF ClaimsWholeList
<1>4. QED
  BY <1>1, <1>3, PushClaims DEF ClaimInv

\* What is in a list was handed out before.
LEMMA InListOld ==
  ASSUME TypeOK, IInv
  PROVE  \A k \in Lists : \A t \in content[k] : t \in Tags /\ t # nextTag + 1
BY Facts DEF IInv, InListFresh

LEMMA UsePointClaims ==
  ASSUME TypeOK, IInv, ClaimInv, NEW l \in Lists, UsePoint(l)
  PROVE  ClaimInv'
<1>1. /\ evaluating = l /\ UNCHANGED call
      /\ \/ /\ ThisEvaluate(l)
            /\ \A k \in Lists : content'[k] = IF k = l THEN content[l] \cup {listTag[l]} ELSE content[k]
            /\ UNCHANGED <<rec, listTag>>
         \/ /\ nextTag + 1 \in Tags
            /\ \A t \in Tags : rec'[t] = IF t = nextTag + 1 THEN Made(l, evalCounter, Previous(l), TRUE) ELSE rec[t]
            /\ \A k \in Lists : listTag'[k] = IF k = l THEN nextTag + 1 ELSE listTag[k]
            /\ \A k \in Lists : content'[k] = IF k = l THEN content[l] \cup {nextTag + 1} ELSE content[k]
  BY DEF UsePoint, TypeOK
<1>2. CASE ThisEvaluate(l) /\ UNCHANGED <<rec, listTag>> /\
           \A k \in Lists : content'[k] = IF k = l THEN content[l] \cup {listTag[l]} ELSE content[k]
  <2>1. \A k \in Lists : content'[k] = content[k]
    BY <1>1, <1>2 DEF IInv, WritesInList
  <2>2. QED
    BY <1>1, <1>2, <2>1, QuietClaims DEF Reported
<1>3. CASE /\ nextTag + 1 \in Tags
           /\ \A t \in Tags : rec'[t] = IF t = nextTag + 1 THEN Made(l, evalCounter, Previous(l), TRUE) ELSE rec[t]
           /\ \A k \in Lists : listTag'[k] = IF k = l THEN nextTag + 1 ELSE listTag[k]
           /\ \A k \in Lists : content'[k] = IF k = l THEN content[l] \cup {nextTag + 1} ELSE content[k]
  <2>1. \A k \in Lists : \A t \in content[k] : t \in Tags /\ t # nextTag + 1 /\ rec'[t] = rec[t]
    BY <1>3, InListOld
  <2> PICK n \in Tags : n = nextTag + 1
    BY <1>3
  <2>2. rec'[n].prev = Previous(l) /\ Awaiting(l, n)'
    <3>1. rec'[n] = Made(l, evalCounter, Previous(l), TRUE) /\ n \in content'[l]
      BY <1>3
    <3>2. QED
      BY <3>1 DEF Made, Awaiting
  <2>3. ASSUME NEW k \in Lists, NEW t \in Tags, Awaiting(k, t)'
        PROVE  t = listTag'[k] \/ \E u \in Tags : Awaiting(k, u)' /\ rec'[u].prev = t
    <3>1. CASE t \notin content[k]
      BY <1>3, <2>3, <3>1 DEF Awaiting
    <3>2. CASE t \in content[k]
      <4>1. Awaiting(k, t)
        BY <2>1, <2>3, <3>2 DEF Awaiting
      <4>2. t = listTag[k] \/ \E u \in Tags : Awaiting(k, u) /\ rec[u].prev = t
        BY <4>1 DEF ClaimInv, ChainWhole
      <4>3. CASE \E u \in Tags : Awaiting(k, u) /\ rec[u].prev = t
        BY <1>3, <2>1, <4>3 DEF Awaiting
      <4>4. CASE t = listTag[k] /\ k = l
        <5>1. Unclaimed(t) /\ t # 0
          BY <4>1, AwaitingUnclaimed, Facts
        <5>2. Previous(l) = t
          BY <4>4, <5>1 DEF Previous, Pending
        <5>3. QED
          BY <2>2, <4>4, <5>2 DEF Awaiting
      <4>5. CASE t = listTag[k] /\ k # l
        BY <1>3, <4>5
      <4>6. QED
        BY <4>2, <4>3, <4>4, <4>5
    <3>3. QED
      BY <3>1, <3>2
  <2>4. ChainWhole'
    BY <2>3 DEF ChainWhole
  <2>5. ASSUME NEW p \in Queues, Reported(p)', call'[p].serial > 0,
               NEW t \in content'[call'[p].list], rec'[t].fence
        PROVE  rec'[t].queue = p /\ rec'[t].serial = call'[p].serial
    <3>1. Reported(p) /\ call[p].list \in Lists /\ call[p].list # l
      BY <1>1, <2>5, Facts DEF Reported, IInv, CallsApart
    <3>2. t \in content[call[p].list] /\ rec'[t] = rec[t]
      BY <1>1, <1>3, <2>1, <2>5, <3>1
    <3>3. QED
      BY <1>1, <2>5, <3>1, <3>2 DEF ClaimInv, ClaimsWholeList
  <2>6. ClaimsWholeList'
    BY <2>5 DEF ClaimsWholeList
  <2>7. QED
    BY <2>4, <2>6 DEF ClaimInv
<1>4. QED
  BY <1>1, <1>2, <1>3

LEMMA UsePointFailsClaims ==
  ASSUME TypeOK, IInv, ClaimInv, NEW l \in Lists, UsePointFails(l)
  PROVE  ClaimInv'
<1>1. /\ evaluating = l /\ UNCHANGED <<call, listTag>>
      /\ nextTag + 1 \in Tags
      /\ \A t \in Tags : rec'[t] = IF t = nextTag + 1 THEN Made(l, evalCounter, 0, FALSE) ELSE rec[t]
      /\ \A k \in Lists : content'[k] = IF k = l THEN content[l] \cup {nextTag + 1} ELSE content[k]
  BY DEF UsePointFails, TypeOK
<1>2. \A k \in Lists : \A t \in content[k] : t \in Tags /\ t # nextTag + 1 /\ rec'[t] = rec[t]
  BY <1>1, InListOld
<1>3. \A k \in Lists : \A t \in Tags : Awaiting(k, t)' <=> Awaiting(k, t)
  BY <1>1, <1>2 DEF Awaiting, Made
<1>4. ChainWhole'
  BY <1>1, <1>2, <1>3 DEF ClaimInv, ChainWhole, Awaiting
<1>5. ASSUME NEW p \in Queues, Reported(p)', call'[p].serial > 0,
             NEW t \in content'[call'[p].list], rec'[t].fence
      PROVE  rec'[t].queue = p /\ rec'[t].serial = call'[p].serial
  <2>1. Reported(p) /\ call[p].list \in Lists /\ call[p].list # l
    BY <1>1, <1>5, Facts DEF Reported, IInv, CallsApart
  <2>2. t \in content[call[p].list] /\ rec'[t] = rec[t]
    BY <1>1, <1>2, <1>5, <2>1
  <2>3. QED
    BY <1>1, <1>5, <2>1, <2>2 DEF ClaimInv, ClaimsWholeList
<1>6. ClaimsWholeList'
  BY <1>5 DEF ClaimsWholeList
<1>7. QED
  BY <1>4, <1>6 DEF ClaimInv

LEMMA StepClaims ==
  ASSUME TypeOK, IInv, ClaimInv, [Next]_vars
  PROVE  ClaimInv'
<1>1. ASSUME NEW q \in Queues, Track(q) \/ Untrack(q) PROVE ClaimInv'
  <2>1. /\ UNCHANGED <<rec, listTag, call>>
        /\ \A l \in Lists : content'[l] = {} \/ content'[l] = content[l]
    BY <1>1 DEF Track, Untrack
  <2>2. QED
    BY <2>1, QuietClaims DEF Reported
<1>2. ASSUME NEW q \in Queues, NEW l \in Lists, Native(q, l), UNCHANGED <<rec, listTag>>,
             UNCHANGED call \/ call' = [call EXCEPT ![q] = NoCall]
               \/ call' = [call EXCEPT ![q] = Calling(l, 0, depth[q] + 1)]
      PROVE  ClaimInv'
  <2>1. \A k \in Lists : content'[k] = {} \/ content'[k] = content[k]
    BY <1>2, NativeEffect
  <2>2. depth[q] + 1 # NotYet
    BY Facts
  <2>3. \A p \in Queues : Reported(p)' => call'[p] = call[p]
    BY <1>2, <2>2 DEF TypeOK, Reported, NoCall, Calling
  <2>4. QED
    BY <1>2, <2>1, <2>3, QuietClaims DEF Reported
<1>3. ASSUME NEW q \in Queues, NativeAfterReport(q) PROVE ClaimInv'
  BY <1>2, <1>3, Facts DEF NativeAfterReport, Reported, coreVars
<1>4. ASSUME NEW q \in Queues, NEW l \in Lists, NativeHooked(q, l) \/ SubmitUnseen(q, l) PROVE ClaimInv'
  BY <1>2, <1>4 DEF NativeHooked, SubmitUnseen, coreVars
<1>5. ASSUME NEW q \in Queues, GpuStep(q) PROVE ClaimInv'
  <2>1. \A p \in Queues : /\ call'[p].list = call[p].list /\ call'[p].serial = call[p].serial
                          /\ call'[p].left = IF p = q THEN Closer(call[p].left) ELSE call[p].left
    BY <1>5 DEF GpuStep, TypeOK, Submitting
  <2>2. \A p \in Queues : Reported(p)' => Reported(p)
    BY <2>1, Facts DEF Reported, Closer
  <2>3. UNCHANGED <<rec, listTag, content>>
    BY <1>5 DEF GpuStep
  <2>4. QED
    BY <2>1, <2>2, <2>3, QuietClaims
<1>6. ASSUME NEW first \in BOOLEAN, Housekeeping(first) PROVE ClaimInv'
  <2>1. \A p \in Queues : call'[p].list = call[p].list /\ call'[p].serial = call[p].serial
                           /\ call'[p].left = call[p].left
    BY <1>6 DEF Housekeeping, TypeOK, Submitting
  <2>2. UNCHANGED <<rec, listTag, content>>
    BY <1>6 DEF Housekeeping
  <2>3. QED
    BY <2>1, <2>2, QuietClaims DEF Reported
<1>7. ASSUME NEW l \in Lists, EvaluateBegin(l) PROVE ClaimInv'
  BY <1>7, QuietClaims DEF EvaluateBegin, hostVars, Reported
<1>8. ASSUME NEW l \in Lists, Discard(l) PROVE ClaimInv'
  <2>1. UNCHANGED <<rec, listTag, call>> /\ \A k \in Lists : content'[k] = {} \/ content'[k] = content[k]
    BY <1>8 DEF Discard, coreVars, TypeOK
  <2>2. QED
    BY <2>1, QuietClaims DEF Reported
<1>9. CASE UNCHANGED <<coreVars, hostVars>>
  BY <1>9, QuietClaims DEF coreVars, hostVars, Reported
<1>10. QED
  BY <1>1, <1>3, <1>4, <1>5, <1>6, <1>7, <1>8, <1>9,
     ReportBeforeClaims, ReportAfterClaims, UsePointClaims, UsePointFailsClaims
     DEF Next, HostOrGpu, OtherWork, EvaluateEnd, DeviceRemoved, vars

\* A reported submission claims all the list holds: the chain of previousTag has no hole,
\* however many evaluates wrote into the list.
THEOREM ClaimedWhole ==
  ASSUME PresentOverlaps = FALSE
  PROVE  Spec => []ClaimsWholeList
<1>1. Init => TypeOK /\ IInv /\ ClaimInv
  <2>1. Init => ClaimInv
    BY DEF Init, ClaimInv, ChainWhole, ClaimsWholeList, Awaiting, Reported, NoCall, Calling
  <2>2. QED
    BY <2>1, InitType, InitInv
<1>2. TypeOK /\ IInv /\ ClaimInv /\ [Next]_vars => (TypeOK /\ IInv /\ ClaimInv)'
  BY StepType, StepInv, StepClaims
<1>3. ClaimInv => ClaimsWholeList
  BY DEF ClaimInv
<1>4. QED
  BY <1>1, <1>2, <1>3, PTL DEF Spec

-----------------------------------------------------------------------------
(* SerialBehindWork: a serial fence passes after what was counted.         *)

\* Every serial counted so far has reached its queue, but for the one of a call whose
\* event fired.
CountedRan ==
  \A q \in Queues : \A s \in Serials : s <= pushed[q] /\ serialAt[q][s] = NotYet =>
    Reported(q) /\ call[q].serial = s

\* The serial fence of a tracked queue was signalled for counted serials only, all of them
\* older than a call whose event fired.
FenceCounted ==
  \A q \in tracked : \A v \in Serials : fenceAt[q][v] # NotYet =>
    v <= pushed[q] /\ (Reported(q) /\ call[q].serial > 0 => v < call[q].serial)

\* Submissions and signals not finished are among the operations of their queue.
SerialsInDepth ==
  \A q \in Queues :
    /\ call[q].left <= depth[q]
    /\ \A s \in Serials : serialAt[q][s] <= depth[q] /\ fenceAt[q][s] <= depth[q]

SerialInv == CountedRan /\ FenceCounted /\ SerialsInDepth /\ SerialBehindWork

\* The types of a serial's place in its queue.
LEMMA SerialFacts ==
  ASSUME TypeOK
  PROVE  \A q \in Queues : \A s \in Serials :
           /\ s \in Nat /\ s > 0
           /\ serialAt[q][s] \in Int /\ serialAt[q][s] >= NotYet
           /\ fenceAt[q][s] \in Int /\ fenceAt[q][s] >= NotYet
<1> SUFFICES ASSUME NEW q \in Queues, NEW s \in Serials
             PROVE  /\ s \in Nat /\ s > 0
                    /\ serialAt[q][s] \in Int /\ serialAt[q][s] >= NotYet
                    /\ fenceAt[q][s] \in Int /\ fenceAt[q][s] >= NotYet
  OBVIOUS
<1>1. serialAt[q] \in [Serials -> Steps] /\ fenceAt[q] \in [Serials -> Steps]
  BY DEF TypeOK
<1>2. serialAt[q][s] \in Steps /\ fenceAt[q][s] \in Steps
  BY <1>1
<1>3. QED
  BY <1>2 DEF Steps, NotYet, Serials

\* Steps that report nothing and signal no serial, and take nothing off a queue.
CalmSerials ==
  /\ UNCHANGED <<tracked, pushed, serialAt, fenceAt>>
  /\ \A q \in Queues : /\ depth'[q] \in Nat /\ depth'[q] >= depth[q]
                       /\ call'[q].list = call[q].list /\ call'[q].serial = call[q].serial
                       /\ call'[q].left = call[q].left

LEMMA CalmKeepsSerials ==
  ASSUME TypeOK, SerialInv, CalmSerials
  PROVE  SerialInv'
<1> USE DEF SerialInv, CalmSerials
<1>1. CountedRan' /\ FenceCounted' /\ SerialBehindWork'
  BY Facts DEF CountedRan, FenceCounted, SerialBehindWork, Reported
<1>2. SerialsInDepth'
  BY Facts, SerialFacts DEF SerialsInDepth
<1>3. QED
  BY <1>1, <1>2

\* What a Drain does to the serial fences: nothing, or a signal of the target behind all
\* the queue was given.
LEMMA DrainFences ==
  ASSUME TypeOK, NEW policy, Drain(policy)
  PROVE  \A q \in Queues, v \in Serials :
              \/ fenceAt'[q][v] = fenceAt[q][v]
              \/ /\ q \in tracked /\ v = Target(policy)[q]
                 /\ fenceAt'[q][v] = depth[q] + 1 /\ depth'[q] = depth[q] + 1
<1> SUFFICES ASSUME NEW q \in Queues, NEW v \in Serials
             PROVE  \/ fenceAt'[q][v] = fenceAt[q][v]
                    \/ /\ q \in tracked /\ v = Target(policy)[q]
                       /\ fenceAt'[q][v] = depth[q] + 1 /\ depth'[q] = depth[q] + 1
  OBVIOUS
<1> DEFINE rise == {p \in tracked : ~lost /\ Target(policy)[p] > signalled[p]}
           dirty == rise \cup {p \in tracked : ~lost /\ DueOn(p, Target(policy)[p]) # {}}
<1>1. /\ fenceAt' = [p \in Queues |-> [w \in Serials |->
              IF p \in rise /\ w = Target(policy)[p] THEN depth[p] + 1 ELSE fenceAt[p][w]]]
      /\ depth' = [p \in Queues |-> IF p \in dirty THEN depth[p] + 1 ELSE depth[p]]
  BY DEF Drain
<1>2. fenceAt'[q][v] = IF q \in rise /\ v = Target(policy)[q] THEN depth[q] + 1 ELSE fenceAt[q][v]
  BY <1>1
<1>3. depth'[q] = IF q \in dirty THEN depth[q] + 1 ELSE depth[q]
  BY <1>1
<1>4. q \in rise => q \in dirty /\ q \in tracked
  OBVIOUS
<1>5. QED
  BY <1>2, <1>3, <1>4

\* A Drain whose targets are older than every call whose event fired keeps the order.
LEMMA DrainKeepsSerials ==
  ASSUME TypeOK, SerialInv, NEW policy, Drain(policy), UNCHANGED <<tracked, pushed, serialAt>>,
         \A q \in Queues : /\ call'[q].list = call[q].list /\ call'[q].serial = call[q].serial
                           /\ call'[q].left = call[q].left,
         \A q \in tracked : /\ Target(policy)[q] <= pushed[q]
                            /\ Reported(q) /\ call[q].serial > 0 => Target(policy)[q] < call[q].serial
  PROVE  SerialInv'
<1> USE DEF SerialInv
<1>1. \A q \in Queues : Reported(q)' <=> Reported(q)
  BY DEF Reported
<1>2. \A q \in Queues, v \in Serials :
        \/ fenceAt'[q][v] = fenceAt[q][v]
        \/ /\ q \in tracked /\ v = Target(policy)[q]
           /\ fenceAt'[q][v] = depth[q] + 1 /\ depth'[q] = depth[q] + 1
  BY DrainFences
<1>3. \A q \in Queues : Target(policy)[q] \in Nat
  BY DEF Target, TypeOK
<1>4. CountedRan'
  BY <1>1 DEF CountedRan
<1>5. FenceCounted'
  BY <1>1, <1>2, <1>3, Facts DEF FenceCounted
<1>6. SerialsInDepth'
  BY <1>2, DrainRest, Facts, SerialFacts DEF SerialsInDepth
<1>7. ASSUME NEW q \in Queues, NEW v \in Serials, fenceAt'[q][v] # NotYet,
             NEW s \in Serials, s <= v, s <= pushed[q]
      PROVE  serialAt[q][s] = 0 \/ serialAt[q][s] \in 1 .. fenceAt'[q][v] - 1
  <2>1. CASE fenceAt'[q][v] = fenceAt[q][v]
    BY <1>7, <2>1 DEF SerialBehindWork
  <2>2. CASE q \in tracked /\ v = Target(policy)[q] /\ fenceAt'[q][v] = depth[q] + 1
    <3>1. ~(Reported(q) /\ call[q].serial = s)
      BY <1>3, <1>7, <2>2, SerialFacts, Facts
    <3>2. serialAt[q][s] # NotYet /\ serialAt[q][s] <= depth[q]
      BY <1>7, <3>1 DEF CountedRan, SerialsInDepth
    <3>3. QED
      BY <2>2, <3>2, SerialFacts, Facts
  <2>3. QED
    BY <1>2, <2>1, <2>2
<1>8. SerialBehindWork'
  BY <1>7 DEF SerialBehindWork
<1>9. QED
  BY <1>4, <1>5, <1>6, <1>8

LEMMA TrackSerials ==
  ASSUME TypeOK, SerialInv, NEW q \in Queues, Track(q), SettledBehindCalls
  PROVE  SerialInv'
<1> USE DEF SerialInv
<1>1. /\ tracked' = tracked \cup {q} /\ q \notin tracked
      /\ \A p \in Queues : /\ pushed'[p] = IF p = q THEN 0 ELSE pushed[p]
                           /\ \A v \in Serials : /\ serialAt'[p][v] = IF p = q THEN NotYet ELSE serialAt[p][v]
                                                 /\ fenceAt'[p][v] = IF p = q THEN NotYet ELSE fenceAt[p][v]
      /\ UNCHANGED <<call, depth>>
  BY DEF Track, TypeOK
<1>2. \A p \in Queues : Reported(p)' <=> Reported(p)
  BY <1>1 DEF Reported
<1>3. CountedRan'
  BY <1>1, <1>2, SerialFacts DEF CountedRan
<1>4. FenceCounted'
  BY <1>1, <1>2, Facts DEF FenceCounted
<1>5. SerialsInDepth'
  BY <1>1, Facts DEF SerialsInDepth
<1>6. SerialBehindWork'
  BY <1>1 DEF SerialBehindWork
<1>7. QED
  BY <1>3, <1>4, <1>5, <1>6

LEMMA UntrackSerials ==
  ASSUME TypeOK, SerialInv, NEW q \in Queues, Untrack(q)
  PROVE  SerialInv'
<1> USE DEF SerialInv
<1>1. /\ tracked' = tracked \ {q} /\ call[q].list = NoList /\ UNCHANGED <<pushed, call, serialAt>>
      /\ \A p \in Queues : depth'[p] = IF p = q /\ ~lost THEN depth[p] + 1 ELSE depth[p]
      /\ \A p \in Queues : \A v \in Serials :
           fenceAt'[p][v] = IF p = q /\ ~lost /\ fenceAt[p][v] = NotYet THEN depth[q] + 1 ELSE fenceAt[p][v]
  BY DEF Untrack, TypeOK, NoCall, Calling
<1>2. \A p \in Queues : Reported(p)' <=> Reported(p)
  BY <1>1 DEF Reported
<1>3. CountedRan' /\ FenceCounted'
  BY <1>1, <1>2, Facts DEF CountedRan, FenceCounted
<1>4. SerialsInDepth'
  BY <1>1, Facts, SerialFacts DEF SerialsInDepth
<1>5. ASSUME NEW p \in Queues, NEW v \in Serials, fenceAt'[p][v] # NotYet,
             NEW s \in Serials, s <= v, s <= pushed[p]
      PROVE  serialAt[p][s] = 0 \/ serialAt[p][s] \in 1 .. fenceAt'[p][v] - 1
  <2>1. CASE fenceAt'[p][v] = fenceAt[p][v]
    BY <1>5, <2>1 DEF SerialBehindWork
  <2>2. CASE p = q /\ fenceAt'[p][v] = depth[q] + 1
    <3>1. serialAt[q][s] # NotYet /\ serialAt[q][s] <= depth[q]
      BY <1>1, <1>5, <2>2 DEF CountedRan, SerialsInDepth, Reported
    <3>2. QED
      BY <2>2, <3>1, SerialFacts, Facts
  <2>3. QED
    BY <1>1, <2>1, <2>2
<1>6. SerialBehindWork'
  BY <1>1, <1>5 DEF SerialBehindWork
<1>7. QED
  BY <1>3, <1>4, <1>6

LEMMA NativeAfterReportSerials ==
  ASSUME TypeOK, SerialInv, SettledBehindCalls, NEW q \in Queues, NativeAfterReport(q)
  PROVE  SerialInv'
<1> USE DEF SerialInv
<1>1. Reported(q) /\ call[q].list \in Lists /\ Native(q, call[q].list) /\ UNCHANGED <<tracked, pushed, fenceAt>>
  BY Facts DEF NativeAfterReport, Reported, coreVars
<1>2. \A p \in Queues : /\ call'[p] = IF p = q THEN NoCall ELSE call[p]
                        /\ depth'[p] = IF p = q THEN depth[q] + 1 ELSE depth[p]
  BY <1>1, NativeEffect DEF NativeAfterReport, TypeOK
<1>3. \A p \in Queues : \A s \in Serials :
        serialAt'[p][s] = IF p = q /\ s = call[q].serial THEN depth[q] + 1 ELSE serialAt[p][s]
  <2>1. CASE call[q].serial = 0
    BY <2>1, SerialFacts DEF NativeAfterReport
  <2>2. CASE call[q].serial # 0
    BY <2>2 DEF NativeAfterReport, TypeOK
  <2>3. QED
    BY <2>1, <2>2
<1>4. \A p \in Queues : Reported(p)' <=> p # q /\ Reported(p)
  BY <1>2 DEF Reported, NoCall, Calling
<1>5. CountedRan'
  BY <1>1, <1>2, <1>3, <1>4, Facts DEF CountedRan, NotYet
<1>6. FenceCounted'
  BY <1>1, <1>2, <1>4 DEF FenceCounted, TypeOK
<1>7. SerialsInDepth'
  BY <1>1, <1>2, <1>3, Facts, SerialFacts DEF SerialsInDepth, NoCall, Calling
<1>8. ASSUME NEW p \in Queues, NEW v \in Serials, fenceAt[p][v] # NotYet,
             NEW s \in Serials, s <= v, s <= pushed[p]
      PROVE  serialAt'[p][s] = 0 \/ serialAt'[p][s] \in 1 .. fenceAt[p][v] - 1
  <2>1. ~(p = q /\ s = call[q].serial)
    BY <1>1, <1>8, SerialFacts, Facts DEF FenceCounted, SettledBehindCalls
  <2>2. QED
    BY <1>3, <1>8, <2>1 DEF SerialBehindWork
<1>9. SerialBehindWork'
  BY <1>1, <1>8 DEF SerialBehindWork
<1>10. QED
  BY <1>5, <1>6, <1>7, <1>9

LEMMA ReportBeforeSerials ==
  ASSUME TypeOK, SerialInv, NEW q \in Queues, NEW l \in Lists, ReportBefore(q, l)
  PROVE  SerialInv'
<1> USE DEF SerialInv
<1>1. /\ call[q].list = NoList /\ Push(q, l) /\ UNCHANGED <<tracked, depth, serialAt, fenceAt>>
      /\ \A p \in Queues : call'[p] = IF p = q THEN Calling(l, IF q \in tracked THEN pushed[q] + 1 ELSE 0, NotYet)
                                               ELSE call[p]
  BY DEF ReportBefore, MaySubmit, NoCall, Calling, TypeOK
<1>2. \A p \in Queues : pushed'[p] = IF p = q /\ q \in tracked THEN pushed[p] + 1 ELSE pushed[p]
  BY <1>1, PushSerials
<1>3. /\ ~Reported(q)
      /\ Reported(q)' /\ call'[q].serial = (IF q \in tracked THEN pushed[q] + 1 ELSE 0) /\ call'[q].left = NotYet
      /\ \A p \in Queues : p # q => (Reported(p)' <=> Reported(p)) /\ call'[p] = call[p]
  BY <1>1, ListsAssumption DEF Reported, Calling
<1>4. CountedRan'
  BY <1>1, <1>2, <1>3, Facts, SerialFacts DEF CountedRan
<1>5. FenceCounted'
  BY <1>1, <1>2, <1>3, Facts, SerialFacts DEF FenceCounted
<1>6. SerialsInDepth'
  BY <1>1, <1>3, Facts DEF SerialsInDepth
<1>7. SerialBehindWork'
  BY <1>1, <1>2, Facts, SerialFacts DEF SerialBehindWork, FenceCounted
<1>8. QED
  BY <1>4, <1>5, <1>6, <1>7

LEMMA NativeHookedSerials ==
  ASSUME TypeOK, SerialInv, NEW q \in Queues, NEW l \in Lists, NativeHooked(q, l)
  PROVE  SerialInv'
<1> USE DEF SerialInv
<1>1. /\ call[q].list = NoList /\ Native(q, l) /\ UNCHANGED <<tracked, pushed, serialAt, fenceAt>>
      /\ \A p \in Queues : call'[p] = IF p = q THEN Calling(l, 0, depth[q] + 1) ELSE call[p]
  BY DEF NativeHooked, MaySubmit, NoCall, Calling, TypeOK, coreVars
<1>2. \A p \in Queues : depth'[p] = IF p = q THEN depth[q] + 1 ELSE depth[p]
  BY <1>1, NativeEffect
<1>3. /\ ~Reported(q) /\ call'[q].left = depth[q] + 1 /\ ~Reported(q)'
      /\ \A p \in Queues : p # q => (Reported(p)' <=> Reported(p)) /\ call'[p] = call[p]
  BY <1>1, Facts DEF Reported, Calling
<1>4. CountedRan'
  BY <1>1, <1>3 DEF CountedRan
<1>5. FenceCounted'
  BY <1>1, <1>3, Facts DEF FenceCounted
<1>6. SerialsInDepth'
  BY <1>1, <1>2, <1>3, Facts, SerialFacts DEF SerialsInDepth
<1>7. SerialBehindWork'
  BY <1>1 DEF SerialBehindWork
<1>8. QED
  BY <1>4, <1>5, <1>6, <1>7

LEMMA ReportAfterSerials ==
  ASSUME TypeOK, SerialInv, NEW q \in Queues, ReportAfter(q)
  PROVE  SerialInv'
<1> USE DEF SerialInv
<1>1. /\ call[q].list \in Lists /\ call[q].left # NotYet /\ Push(q, call[q].list)
      /\ UNCHANGED <<tracked, depth, fenceAt>>
      /\ \A p \in Queues : call'[p] = IF p = q THEN NoCall ELSE call[p]
      /\ \A p \in Queues : \A s \in Serials :
           serialAt'[p][s] = IF p = q /\ q \in tracked /\ s = pushed[q] + 1 THEN call[q].left ELSE serialAt[p][s]
  BY Facts DEF ReportAfter, TypeOK
<1>2. \A p \in Queues : pushed'[p] = IF p = q /\ q \in tracked THEN pushed[p] + 1 ELSE pushed[p]
  BY <1>1, PushSerials
<1>3. /\ ~Reported(q) /\ ~Reported(q)' /\ call'[q].left = NotYet
      /\ \A p \in Queues : p # q => (Reported(p)' <=> Reported(p)) /\ call'[p] = call[p]
  BY <1>1 DEF Reported, NoCall, Calling
<1>4. CountedRan'
  BY <1>1, <1>2, <1>3, Facts, SerialFacts DEF CountedRan
<1>5. FenceCounted'
  BY <1>1, <1>2, <1>3, Facts, SerialFacts DEF FenceCounted
<1>6. SerialsInDepth'
  BY <1>1, <1>3, Facts DEF SerialsInDepth
<1>7. SerialBehindWork'
  BY <1>1, <1>2, Facts, SerialFacts DEF SerialBehindWork, FenceCounted
<1>8. QED
  BY <1>4, <1>5, <1>6, <1>7

LEMMA GpuStepSerials ==
  ASSUME TypeOK, SerialInv, NEW q \in Queues, GpuStep(q)
  PROVE  SerialInv'
<1> USE DEF SerialInv
<1>1. /\ UNCHANGED <<tracked, pushed>>
      /\ \A p \in Queues : /\ depth'[p] = IF p = q THEN depth[p] - 1 ELSE depth[p]
                           /\ call'[p].list = call[p].list /\ call'[p].serial = call[p].serial
                           /\ call'[p].left = IF p = q THEN Closer(call[p].left) ELSE call[p].left
      /\ depth[q] > 0
  BY DEF GpuStep, TypeOK, Submitting
<1>2. \A p \in Queues : \A s \in Serials :
        /\ serialAt'[p][s] = IF p = q THEN Closer(serialAt[p][s]) ELSE serialAt[p][s]
        /\ fenceAt'[p][s] = IF p = q THEN Closer(fenceAt[p][s]) ELSE fenceAt[p][s]
  BY DEF GpuStep, TypeOK
<1>3. \A p \in Queues : Reported(p)' <=> Reported(p)
  BY <1>1, Facts DEF Reported, Closer
<1>4. CountedRan'
  BY <1>1, <1>2, <1>3, Facts, SerialFacts DEF CountedRan, Closer
<1>5. FenceCounted'
  BY <1>1, <1>2, <1>3, Facts, SerialFacts DEF FenceCounted, Closer
<1>6. SerialsInDepth'
  BY <1>1, <1>2, Facts, SerialFacts DEF SerialsInDepth, Closer
<1>7. SerialBehindWork'
  BY <1>1, <1>2, Facts, SerialFacts DEF SerialBehindWork, Closer
<1>8. QED
  BY <1>4, <1>5, <1>6, <1>7

LEMMA StepSerials ==
  ASSUME PresentOverlaps = FALSE, TypeOK, IInv, SerialInv, [Next]_vars
  PROVE  SerialInv'
<1>0. SettledBehindCalls
  BY DEF IInv
<1>1. ASSUME NEW l \in Lists, EvaluateBegin(l) PROVE SerialInv'
  <2>1. /\ \A q \in Queues : ~Reported(q)
        /\ Drain("All") /\ UNCHANGED <<tracked, pushed, serialAt, call>>
    BY <1>1 DEF EvaluateBegin, hostVars
  <2>2. Target("All") = pushed
    BY DEF Target
  <2>3. QED
    BY <2>1, <2>2, DrainKeepsSerials, Facts
<1>2. ASSUME NEW first \in BOOLEAN, Housekeeping(first) PROVE SerialInv'
  <2>1. /\ first => \A q \in Queues : ~Reported(q)
        /\ presenting = ~first /\ UNCHANGED <<tracked, pushed, serialAt>>
        /\ \A p \in Queues : call'[p].list = call[p].list /\ call'[p].serial = call[p].serial
                             /\ call'[p].left = call[p].left
    BY <1>2 DEF Housekeeping, TypeOK, Submitting
  <2>2. CASE Drain("Settled")
    <3>1. Target("Settled") = settled
      BY DEF Target
    <3>2. \A q \in tracked : /\ settled[q] <= pushed[q]
                             /\ Reported(q) /\ call[q].serial > 0 => settled[q] < call[q].serial
      BY <1>0, <2>1, Facts DEF SettledBehindCalls
    <3>3. QED
      BY <2>1, <2>2, <3>1, <3>2, DrainKeepsSerials
  <2>3. CASE UNCHANGED <<depth, fenceAt>>
    BY <2>1, <2>3, CalmKeepsSerials, Facts DEF CalmSerials
  <2>4. QED
    BY <1>2, <2>2, <2>3 DEF Housekeeping
<1>3. ASSUME NEW q \in Queues, NEW l \in Lists, SubmitUnseen(q, l) PROVE SerialInv'
  BY <1>3, NativeEffect, CalmKeepsSerials, Facts DEF SubmitUnseen, CalmSerials, coreVars
<1>4. ASSUME NEW Q \in SUBSET Queues, OtherWork(Q) PROVE SerialInv'
  <2>1. \A q \in Queues : depth'[q] = depth[q] \/ depth'[q] = depth[q] + 1
    BY <1>4 DEF OtherWork
  <2>2. QED
    BY <1>4, <2>1, CalmKeepsSerials, Facts DEF OtherWork, CalmSerials, coreVars, hostVars
<1>5. CASE UNCHANGED <<tracked, pushed, serialAt, fenceAt, depth, call>>
  BY <1>5, CalmKeepsSerials, Facts DEF CalmSerials
<1>6. QED
  BY <1>0, <1>1, <1>2, <1>3, <1>4, <1>5, TrackSerials, UntrackSerials, NativeAfterReportSerials,
     ReportBeforeSerials, NativeHookedSerials, ReportAfterSerials, GpuStepSerials
     DEF Next, HostOrGpu, UsePoint, UsePointFails, Discard, EvaluateEnd, DeviceRemoved, vars, coreVars, hostVars

\* The serial fence reaches a value only behind every submission counted up to it, the
\* terminal signal of Untrack included: what the gates of the graveyard wait for.
THEOREM SerialsBehindWork ==
  ASSUME PresentOverlaps = FALSE
  PROVE  Spec => []SerialBehindWork
<1>1. Init => TypeOK /\ IInv /\ SerialInv
  <2>1. ASSUME Init PROVE SerialInv
    <3>1. \A q \in Queues : /\ pushed[q] = 0 /\ depth[q] = 0 /\ call[q].left = NotYet
                            /\ \A v \in Serials : serialAt[q][v] = NotYet /\ fenceAt[q][v] = NotYet
      BY <2>1 DEF Init, NoCall, Calling
    <3>2. tracked = {} /\ NotYet = -1 /\ \A s \in Serials : s \in Nat /\ s > 0
      BY <2>1 DEF Init, NotYet, Serials
    <3>3. QED
      BY <3>1, <3>2 DEF SerialInv, CountedRan, FenceCounted, SerialsInDepth, SerialBehindWork
  <2>2. QED
    BY <2>1, InitType, InitInv
<1>2. TypeOK /\ IInv /\ SerialInv /\ [Next]_vars => (TypeOK /\ IInv /\ SerialInv)'
  BY StepType, StepInv, StepSerials
<1>3. SerialInv => SerialBehindWork
  BY DEF SerialInv
<1>4. QED
  BY <1>1, <1>2, <1>3, PTL DEF Spec

-----------------------------------------------------------------------------
(* What the refinement of GpuUses needs beside the invariant.              *)

\* What the evaluate in progress opened is still in its list.
Opened == \A t \in Tags : IsOpen(t) => t \in content[evaluating]

\* A tag not handed out has no fence.
Unmade == \A t \in Tags : rec[t].fence => t <= nextTag

\* Only a claimed use is signalled by a queue.
Unsignalled == \A t \in Tags : rec[t].serial = 0 => sig[t] = NotYet

CInv == Opened /\ Unmade /\ Unsignalled

-----------------------------------------------------------------------------
(* The invariant of the refinement.                                        *)

LEMMA InitContract == Init => CInv
<1> SUFFICES ASSUME Init PROVE CInv
  OBVIOUS
<1>1. \A t \in Tags : rec[t].fence = FALSE /\ sig[t] = NotYet /\ ~(t <= nextTag)
  BY DEF Init, NoRec, Made, Tags
<1>2. QED
  BY <1>1 DEF CInv, Opened, Unmade, Unsignalled, IsOpen

\* What no step but an evaluate's changes: which uses exist, when and where they were
\* recorded, and a list being recorded keeps what it has.
RecordingStays ==
  /\ UNCHANGED <<evalCounter, evaluating, nextTag, lost>>
  /\ \A t \in Tags : /\ rec'[t].list = rec[t].list /\ rec'[t].created = rec[t].created
                     /\ rec'[t].fence = rec[t].fence
  /\ \A l \in Lists : l = evaluating => content[l] \subseteq content'[l]

\* A use is claimed once, when it has a fence and its list is not being recorded, and a
\* queue signals it after that.
ClaimsForward ==
  \A t \in Tags :
    /\ \/ rec'[t].serial = rec[t].serial
       \/ rec[t].serial = 0 /\ rec'[t].serial > 0 /\ rec[t].fence /\ rec[t].list # evaluating
    /\ sig'[t] # NotYet => sig[t] # NotYet \/ rec'[t].serial > 0

\* The GPU and the host only get on with what flies, and a passed fence stays passed.
FliesForward ==
  \A t \in Tags : (InFlight(t)' => InFlight(t)) /\ (Completed(t) => Completed(t)')

Forward == RecordingStays /\ ClaimsForward /\ FliesForward

LEMMA ForwardKeeps ==
  ASSUME TypeOK, IInv, CInv, Forward
  PROVE  CInv'
<1> USE DEF Forward, CInv
<1>1. Opened'
  <2> SUFFICES ASSUME NEW t \in Tags, IsOpen(t)' PROVE t \in content'[evaluating']
    BY DEF Opened
  <2>1. IsOpen(t) /\ evaluating' = evaluating
    BY DEF RecordingStays, IsOpen
  <2>2. rec[t].list \in Lists /\ rec[t].list = evaluating /\ t \in content[evaluating]
    BY <2>1, Facts DEF IsOpen, IInv, Dated, Opened
  <2>3. QED
    BY <2>1, <2>2 DEF RecordingStays
<1>2. Unmade'
  BY DEF RecordingStays, Unmade
<1>3. Unsignalled'
  BY Facts DEF ClaimsForward, Unsignalled
<1>4. QED
  BY <1>1, <1>2, <1>3

-----------------------------------------------------------------------------
(* Every step outside the evaluate's own goes forward.                     *)

LEMMA TrackForward ==
  ASSUME NEW q \in Queues, Track(q)
  PROVE  Forward
BY DEF Track, Forward, RecordingStays, ClaimsForward, FliesForward, InFlight, Running, Completed

LEMMA UntrackForward ==
  ASSUME TypeOK, IInv, CInv, NEW q \in Queues, Untrack(q)
  PROVE  Forward
<1>1. \A t \in Tags : \/ sig'[t] = sig[t]
                      \/ sig[t] = NotYet /\ rec[t].serial > 0
  BY DEF Untrack, DueOn, Signalled
<1>2. /\ \A k \in Lists : content'[k] = IF LastOfDevice(q) /\ ListDevice[k] = QueueDevice[q]
                                        THEN {} ELSE content[k]
      /\ LastOfDevice(q) => \A l \in Lists : evaluating = l => ListDevice[l] # QueueDevice[q]
      /\ cancelled \subseteq cancelled'
  BY DEF Untrack, TypeOK
<1>3. UNCHANGED <<nextTag, rec, evalCounter, evaluating, exec, lost>>
  BY DEF Untrack
<1>4. RecordingStays
  BY <1>2, <1>3 DEF RecordingStays
<1>5. ClaimsForward
  BY <1>1, <1>3 DEF ClaimsForward
<1>6. FliesForward
  BY <1>1, <1>2, <1>3 DEF FliesForward, InFlight, Running, Completed, NotYet
<1>7. QED
  BY <1>4, <1>5, <1>6 DEF Forward

\* A native call puts the uses of a list on a queue: they fly as before.
LEMMA NativeForward ==
  ASSUME TypeOK, IInv, NEW q \in Queues, NEW l \in Lists, l # evaluating, Native(q, l),
         UNCHANGED <<coreVars, evalCounter, evaluating, lost>>
  PROVE  Forward
<1>1. /\ \A t \in Tags : t \in content[l] \/ exec'[t] = exec[t]
      /\ \A k \in Lists : content'[k] = IF k = l THEN {} ELSE content[k]
  BY NativeEffect
<1>2. RecordingStays
  BY <1>1 DEF RecordingStays, coreVars
<1>3. ClaimsForward
  BY DEF ClaimsForward, coreVars
<1>4. FliesForward
  BY <1>1 DEF FliesForward, InFlight, Running, Completed, coreVars
<1>5. QED
  BY <1>2, <1>3, <1>4 DEF Forward

\* A report claims uses of a list nobody records into.
LEMMA PushForward ==
  ASSUME TypeOK, IInv, NEW q \in Queues, NEW l \in Lists, l # evaluating, Push(q, l),
         UNCHANGED <<nextTag, cancelled, sig, evalCounter, evaluating, content, exec, lost>>
  PROVE  Forward
<1>1. \A t \in Tags :
        /\ rec'[t].list = rec[t].list /\ rec'[t].created = rec[t].created
        /\ rec'[t].fence = rec[t].fence
        /\ \/ rec'[t].serial = rec[t].serial
           \/ Unclaimed(t) /\ rec[t].list = l /\ rec'[t].serial = pushed[q] + 1
  BY PushEffect DEF IInv
<1>2. RecordingStays
  BY <1>1 DEF RecordingStays
<1>3. ClaimsForward
  BY <1>1, Facts DEF ClaimsForward, Unclaimed
<1>4. FliesForward
  BY DEF FliesForward, InFlight, Running, Completed
<1>5. QED
  BY <1>2, <1>3, <1>4 DEF Forward

\* A queue that gets on finishes work, it starts none.
LEMMA GpuStepForward ==
  ASSUME TypeOK, NEW q \in Queues, GpuStep(q)
  PROVE  Forward
<1>1. \A t \in Tags : /\ sig'[t] = IF rec[t].queue = q THEN Closer(sig[t]) ELSE sig[t]
                      /\ exec'[t].left = IF exec[t].queue = q THEN Closer(exec[t].left) ELSE exec[t].left
  BY DEF GpuStep, TypeOK, Executing
<1>2. UNCHANGED <<nextTag, rec, cancelled, content, evalCounter, evaluating, lost>>
  BY DEF GpuStep
<1>3. RecordingStays
  BY <1>2 DEF RecordingStays
<1>4. ClaimsForward
  BY <1>1, <1>2, Facts DEF ClaimsForward, Closer
<1>5. FliesForward
  BY <1>1, <1>2, Facts DEF FliesForward, InFlight, Running, Completed, Closer
<1>6. QED
  BY <1>3, <1>4, <1>5 DEF Forward

\* Housekeeping signals what was claimed.
LEMMA HousekeepingForward ==
  ASSUME TypeOK, NEW first \in BOOLEAN, Housekeeping(first)
  PROVE  Forward
<1>1. UNCHANGED <<nextTag, rec, evalCounter, evaluating, content, exec, lost>>
  BY DEF Housekeeping
<1>2. /\ cancelled \subseteq cancelled'
      /\ \A t \in Tags : \/ sig'[t] = sig[t]
                         \/ sig[t] = NotYet /\ rec[t].serial > 0
  <2>1. CASE Drain("Settled")
    BY <2>1, DrainSignals DEF Drain
  <2>2. CASE UNCHANGED <<sig, cancelled>>
    BY <2>2
  <2>3. QED
    BY <2>1, <2>2 DEF Housekeeping
<1>3. RecordingStays
  BY <1>1 DEF RecordingStays
<1>4. ClaimsForward
  BY <1>1, <1>2 DEF ClaimsForward
<1>5. FliesForward
  BY <1>1, <1>2 DEF FliesForward, InFlight, Running, Completed, NotYet
<1>6. QED
  BY <1>3, <1>4, <1>5 DEF Forward

\* All the steps that are one Proceed of the contract.
LEMMA HostOrGpuForward ==
  ASSUME TypeOK, IInv, CInv, HostOrGpu
  PROVE  Forward
<1>1. ASSUME NEW q \in Queues, Track(q) \/ Untrack(q) \/ GpuStep(q)
      PROVE  Forward
  BY <1>1, TrackForward, UntrackForward, GpuStepForward
<1>2. ASSUME NEW q \in Queues, NativeAfterReport(q)
      PROVE  Forward
  <2>1. call[q].list \in Lists /\ call[q].list # evaluating /\ Native(q, call[q].list)
    BY <1>2, Facts DEF NativeAfterReport, Reported, IInv, CallsApart
  <2>2. UNCHANGED <<coreVars, evalCounter, evaluating, lost>>
    BY <1>2 DEF NativeAfterReport
  <2>3. QED
    BY <2>1, <2>2, NativeForward
<1>3. ASSUME NEW q \in Queues, ReportAfter(q)
      PROVE  Forward
  <2>1. call[q].list \in Lists /\ call[q].list # evaluating /\ Push(q, call[q].list)
    BY <1>3, Facts DEF ReportAfter, IInv, CallsApart
  <2>2. UNCHANGED <<nextTag, cancelled, sig, evalCounter, evaluating, content, exec, lost>>
    BY <1>3 DEF ReportAfter
  <2>3. QED
    BY <2>1, <2>2, PushForward
<1>4. ASSUME NEW q \in Queues, NEW l \in Lists, ReportBefore(q, l)
      PROVE  Forward
  <2>1. l # evaluating /\ Push(q, l)
    BY <1>4 DEF ReportBefore, MaySubmit
  <2>2. UNCHANGED <<nextTag, cancelled, sig, evalCounter, evaluating, content, exec, lost>>
    BY <1>4 DEF ReportBefore
  <2>3. QED
    BY <2>1, <2>2, PushForward
<1>5. ASSUME NEW q \in Queues, NEW l \in Lists, NativeHooked(q, l) \/ SubmitUnseen(q, l)
      PROVE  Forward
  <2>1. l # evaluating /\ Native(q, l)
    BY <1>5 DEF NativeHooked, SubmitUnseen, MaySubmit
  <2>2. UNCHANGED <<coreVars, evalCounter, evaluating, lost>>
    BY <1>5 DEF NativeHooked, SubmitUnseen
  <2>3. QED
    BY <2>1, <2>2, NativeForward
<1>6. ASSUME NEW l \in Lists, Discard(l)
      PROVE  Forward
  <2>1. l # evaluating /\ \A k \in Lists : content'[k] = IF k = l THEN {} ELSE content[k]
    BY <1>6 DEF Discard, TypeOK
  <2>2. UNCHANGED <<coreVars, exec, evalCounter, evaluating, lost>>
    BY <1>6 DEF Discard
  <2>3. QED
    BY <2>1, <2>2 DEF Forward, RecordingStays, ClaimsForward, FliesForward, InFlight, Running, Completed, coreVars
<1>7. ASSUME NEW Q \in SUBSET Queues, OtherWork(Q)
      PROVE  Forward
  BY <1>7 DEF OtherWork, coreVars, hostVars, Forward, RecordingStays, ClaimsForward, FliesForward,
              InFlight, Running, Completed
<1>8. ASSUME NEW first \in BOOLEAN, Housekeeping(first)
      PROVE  Forward
  BY <1>8, HousekeepingForward
<1>9. QED
  BY <1>1, <1>2, <1>3, <1>4, <1>5, <1>6, <1>7, <1>8 DEF HostOrGpu

-----------------------------------------------------------------------------
(* The evaluate's own steps keep the invariant.                            *)

LEMMA EvaluateBeginContract ==
  ASSUME TypeOK, IInv, CInv, NEW l \in Lists, EvaluateBegin(l)
  PROVE  CInv'
<1> USE DEF CInv
<1>1. /\ Drain("All") /\ evalCounter' = evalCounter + 1
      /\ UNCHANGED <<nextTag, rec>>
  BY DEF EvaluateBegin
<1>2. \A t \in Tags : t <= nextTag => ~IsOpen(t)'
  BY <1>1, Facts DEF IsOpen, IInv, Dated
<1>3. Opened'
  BY <1>1, <1>2 DEF Opened, IsOpen
<1>4. Unmade' /\ Unsignalled'
  BY <1>1, DrainSignals, Facts DEF Unmade, Unsignalled
<1>5. QED
  BY <1>3, <1>4

\* A new recording for the list.
NewUse(l, previous, hasFence) ==
  /\ evaluating = l
  /\ nextTag + 1 \in Tags /\ nextTag' = nextTag + 1
  /\ rec' = [rec EXCEPT ![nextTag + 1] = Made(l, evalCounter, previous, hasFence)]
  /\ content' = [content EXCEPT ![l] = @ \cup {nextTag + 1}]

\* UsePoint makes a recording, or what the evaluate records joins a use it already opened.
LEMMA UsePointEffect ==
  ASSUME TypeOK, IInv, NEW l \in Lists, UsePoint(l) \/ UsePointFails(l)
  PROVE  /\ UNCHANGED <<cancelled, sig, exec, evalCounter, evaluating, lost>>
         /\ \/ UNCHANGED <<nextTag, rec, content>>
            \/ \E previous : \E hasFence \in BOOLEAN : NewUse(l, previous, hasFence)
<1>1. UNCHANGED <<cancelled, sig, exec, evalCounter, evaluating, lost>>
  BY DEF UsePoint, UsePointFails
<1>2. CASE UsePoint(l) /\ ThisEvaluate(l)
  <2>1. /\ evaluating = l /\ content' = [content EXCEPT ![l] = @ \cup {listTag[l]}]
        /\ UNCHANGED <<nextTag, rec>>
    BY <1>2 DEF UsePoint
  <2>2. content[l] \cup {listTag[l]} = content[l]
    BY <1>2, <2>1 DEF IInv, WritesInList
  <2>3. content \in [Lists -> SUBSET Tags]
    BY DEF TypeOK
  <2>4. content' = content
    BY <2>1, <2>2, <2>3
  <2>5. QED
    BY <1>1, <2>1, <2>4
<1>3. CASE UsePoint(l) /\ ~ThisEvaluate(l)
  <2>1. NewUse(l, Previous(l), TRUE)
    BY <1>3 DEF UsePoint, NewUse
  <2>2. QED
    BY <1>1, <2>1
<1>4. CASE UsePointFails(l)
  <2>1. NewUse(l, 0, FALSE)
    BY <1>4 DEF UsePointFails, NewUse
  <2>2. QED
    BY <1>1, <2>1
<1>5. QED
  BY <1>2, <1>3, <1>4

LEMMA UsePointContract ==
  ASSUME TypeOK, IInv, CInv, NEW l \in Lists, UsePoint(l) \/ UsePointFails(l)
  PROVE  CInv'
<1> USE DEF CInv
<1>1. UNCHANGED <<sig, evalCounter, evaluating>>
  BY UsePointEffect
<1>2. CASE UNCHANGED <<nextTag, rec, content>>
  BY <1>1, <1>2 DEF Opened, IsOpen, Unmade, Unsignalled
<1>3. ASSUME NEW previous, NEW hasFence, NewUse(l, previous, hasFence)
      PROVE  CInv'
  <2>1. \A t \in Tags : IF t = nextTag + 1
                        THEN rec'[t].serial = 0 /\ sig[t] = NotYet
                        ELSE rec'[t] = rec[t]
    BY <1>3, Facts DEF NewUse, TypeOK, Made, IInv, BeyondBlank
  <2>2. nextTag' = nextTag + 1 /\ evaluating = l /\ content'[l] = content[l] \cup {nextTag + 1}
    BY <1>3 DEF NewUse, TypeOK
  <2>3. Opened'
    BY <1>1, <2>1, <2>2, Facts DEF Opened, IsOpen
  <2>4. Unmade' /\ Unsignalled'
    BY <1>1, <2>1, <2>2, Facts DEF Unmade, Unsignalled
  <2>5. QED
    BY <2>3, <2>4
<1>4. QED
  BY <1>2, <1>3, UsePointEffect

LEMMA StepContract ==
  ASSUME TypeOK, IInv, CInv, [Next]_vars
  PROVE  CInv'
<1>1. CASE HostOrGpu
  BY <1>1, HostOrGpuForward, ForwardKeeps
<1>2. CASE \E l \in Lists : EvaluateBegin(l)
  BY <1>2, EvaluateBeginContract
<1>3. CASE \E l \in Lists : UsePoint(l) \/ UsePointFails(l)
  BY <1>3, UsePointContract
<1>4. CASE EvaluateEnd
  <2>1. UNCHANGED <<nextTag, rec, sig, content, evalCounter>> /\ evaluating' = NoList
    BY <1>4 DEF EvaluateEnd, coreVars, hostVars
  <2>2. \A t \in Tags : ~IsOpen(t)'
    BY <2>1, ListsAssumption DEF IsOpen, IInv, Dated
  <2>3. QED
    BY <2>1, <2>2 DEF CInv, Opened, Unmade, Unsignalled
<1>5. CASE DeviceRemoved \/ UNCHANGED vars
  BY <1>5 DEF DeviceRemoved, vars, coreVars, hostVars, CInv, Opened, Unmade, Unsignalled, IsOpen
<1>6. QED
  BY <1>1, <1>2, <1>3, <1>4, <1>5 DEF Next, HostOrGpu

-----------------------------------------------------------------------------
(* The steps of the contract.                                              *)

\* What the phases of the contract say of a use.
PhasesMean ==
  \A t \in Tags :
    /\ PhaseOf(t) = "open" => InFlight(t) /\ evaluating # NoList
    /\ PhaseOf(t) = "flying" => InFlight(t) /\ ~lost
    /\ Completed(t) => PhaseOf(t) = "over"

LEMMA Phases == TypeOK /\ IInv /\ CInv => PhasesMean
<1> SUFFICES ASSUME TypeOK, IInv, CInv, NEW t \in Tags
             PROVE  /\ PhaseOf(t) = "open" => InFlight(t) /\ evaluating # NoList
                    /\ PhaseOf(t) = "flying" => InFlight(t) /\ ~lost
                    /\ Completed(t) => PhaseOf(t) = "over"
  BY DEF PhasesMean
<1>1. IsOpen(t) => InFlight(t) /\ evaluating # NoList
  <2> SUFFICES ASSUME IsOpen(t) PROVE InFlight(t) /\ evaluating # NoList
    OBVIOUS
  <2>1. evaluating \in Lists /\ t \in content[evaluating]
    BY DEF IsOpen, IInv, Dated, CInv, Opened
  <2>2. QED
    BY <2>1, ListsAssumption DEF InFlight
<1>2. Completed(t) => t \in 1 .. nextTag
  BY Facts DEF Completed, IInv, BeyondBlank
<1>3. Completed(t) => ~InFlight(t)
  BY <1>2, InvSafe DEF ReleaseSafe
<1>4. QED
  BY <1>1, <1>2, <1>3, Facts DEF PhaseOf

LEMMA LaterPhases == (TypeOK /\ IInv /\ CInv)' => PhasesMean'
BY Phases, PTL

LEMMA InitPromise == Init => Promise!UInit
<1> SUFFICES ASSUME Init PROVE Promise!UInit
  OBVIOUS
<1>1. \A t \in Tags : /\ t > nextTag /\ rec[t].fence = FALSE /\ rec[t].serial = 0
                      /\ rec[t].created = 0 /\ sig[t] = NotYet /\ t \notin cancelled
  BY DEF Init, NoRec, Made, Tags
<1>2. \A t \in Tags : PhaseOf(t) = "unused" /\ ~Completed(t)
  BY <1>1 DEF PhaseOf, Completed, NotYet
<1>3. evalCounter = 0 /\ evaluating = NoList /\ lost = FALSE
  BY DEF Init
<1>4. QED
  BY <1>1, <1>2, <1>3 DEF Promise!UInit, Promise!UseIds, Tags

\* An evaluate starts.
LEMMA BeginPromise ==
  ASSUME TypeOK, IInv, CInv, TypeOK', IInv', CInv', NEW l \in Lists, EvaluateBegin(l)
  PROVE  Promise!Begin
<1>1. /\ evaluating = NoList /\ evaluating' = l /\ evalCounter < MaxEval
      /\ evalCounter' = evalCounter + 1 /\ OnTime(evalCounter + 1) /\ Drain("All")
      /\ UNCHANGED <<nextTag, rec, content, exec, lost>>
  BY DEF EvaluateBegin, hostVars
<1>2. l # NoList
  BY ListsAssumption
<1>3. \A t \in Tags : t <= nextTag => ~IsOpen(t) /\ ~IsOpen(t)'
  BY <1>1, ListsAssumption, Facts DEF IsOpen, IInv, Dated
<1>4. \A t \in Tags : PhaseOf(t)' = PhaseOf(t)
  BY <1>1, <1>3, Facts DEF PhaseOf, InFlight, Running
<1>5. ASSUME NEW t \in Tags, PhaseOf(t) = "flying", rec[t].serial = 0, ~lost
      PROVE  evalCounter + 1 - rec[t].created < Expiry
  <2>1. InFlight(t) /\ t <= nextTag
    BY <1>5, Facts DEF PhaseOf
  <2>2. QED
    BY <1>1, <1>5, <2>1, Facts DEF OnTime, IInv, Dated
<1>6. ASSUME NEW t \in Tags, Completed(t)'
      PROVE  PhaseOf(t) = "over"
  BY <1>4, <1>6, LaterPhases DEF PhasesMean
<1>7. ASSUME NEW t \in Tags, Completed(t)
      PROVE  Completed(t)'
  <2>1. t \in cancelled => t \in cancelled'
    BY <1>1 DEF Drain
  <2>2. sig[t] = 0 => sig'[t] = 0
    BY <1>1, DrainSignals DEF NotYet
  <2>3. QED
    BY <1>1, <1>7, <2>1, <2>2 DEF Completed
<1>8. ASSUME NEW t \in Tags, ~lost, rec[t].fence, rec[t].serial = 0,
             evalCounter - rec[t].created >= Expiry
      PROVE  Completed(t)'
  <2>1. t \in 1 .. nextTag /\ sig[t] = NotYet
    BY <1>8, Facts DEF CInv, Unmade, Unsignalled
  <2>2. t \in cancelled \/ t \in Expired
    BY <1>8, <2>1 DEF Expired, Unclaimed, Signalled
  <2>3. t \in cancelled'
    BY <1>1, <1>8, <2>2 DEF Drain
  <2>4. QED
    BY <1>1, <1>8, <2>3 DEF Completed
<1>9. [t \in Tags |-> PhaseOf(t)]' = [t \in Tags |-> PhaseOf(t)]
  BY <1>4
<1>10. lost \/ \A t \in Promise!InPhase("flying") \ {t \in Tags : rec[t].serial > 0} :
                 evalCounter + 1 - [u \in Tags |-> rec[u].created][t] < Expiry
  BY <1>5, Facts DEF Promise!InPhase, Promise!UseIds, Tags
<1>11. Promise!Passes(Promise!InPhase("over"))
  BY <1>6, <1>7 DEF Promise!Passes, Promise!InPhase, Promise!UseIds, Tags
<1>12. lost \/ Promise!Overdue \subseteq {t \in Tags : Completed(t)}'
  BY <1>8, Facts DEF Promise!Overdue
<1>13. QED
  BY <1>1, <1>2, <1>9, <1>10, <1>11, <1>12 DEF Promise!Begin

\* An evaluate opens a use.
LEMMA OpenPromise ==
  ASSUME TypeOK, IInv, CInv, NEW l \in Lists, NEW previous, NEW hasFence \in BOOLEAN,
         NewUse(l, previous, hasFence),
         UNCHANGED <<cancelled, sig, exec, evalCounter, evaluating, lost>>
  PROVE  nextTag + 1 \in Tags /\ Promise!Open(nextTag + 1, hasFence)
<1> USE DEF NewUse
<1> DEFINE u == nextTag + 1
<1>1. l # NoList
  BY ListsAssumption
<1>2. \A t \in Tags : rec'[t] = IF t = u THEN Made(l, evalCounter, previous, hasFence) ELSE rec[t]
  BY DEF TypeOK
<1>3. \A t \in Tags : t # u => (InFlight(t)' <=> InFlight(t))
  BY DEF InFlight, Running, TypeOK
<1>4. \A t \in Tags : PhaseOf(t)' = IF t = u THEN "open" ELSE PhaseOf(t)
  BY <1>2, <1>3, Facts DEF PhaseOf, IsOpen, Made
<1>5. PhaseOf(u) = "unused" /\ \A t \in 1 .. nextTag : PhaseOf(t) # "unused"
  BY Facts DEF PhaseOf
<1>6. ~rec[u].fence /\ rec[u].serial = 0
  BY Facts DEF CInv, Unmade, IInv, BeyondBlank
<1>7. {t \in Tags : rec'[t].fence} = IF hasFence THEN {t \in Tags : rec[t].fence} \cup {u}
                                     ELSE {t \in Tags : rec[t].fence}
  BY <1>2, <1>6 DEF Made
<1>8. {t \in Tags : rec'[t].serial > 0} = {t \in Tags : rec[t].serial > 0}
  BY <1>2, <1>6 DEF Made
<1>9. [t \in Tags |-> rec'[t].created] = [[t \in Tags |-> rec[t].created] EXCEPT ![u] = evalCounter]
  <2>1. \A t \in Tags : rec'[t].created = IF t = u THEN evalCounter ELSE rec[t].created
    BY <1>2 DEF Made
  <2> HIDE DEF NewUse
  <2>2. QED
    BY <2>1
<1>10. {t \in Tags : Completed(t)}' = {t \in Tags : Completed(t)}
  BY DEF Completed
<1>11. [t \in Tags |-> PhaseOf(t)]' = [[t \in Tags |-> PhaseOf(t)] EXCEPT ![u] = "open"]
  BY <1>4
<1>12. /\ [t \in Tags |-> PhaseOf(t)][u] = "unused"
       /\ \A t \in 1 .. (u - 1) : [k \in Tags |-> PhaseOf(k)][t] # "unused"
  BY <1>5, Facts
<1>13. u \in Tags /\ evaluating # NoList /\ UNCHANGED <<evalCounter, evaluating, lost>>
  BY <1>1
<1> HIDE DEF u, NewUse
<1>14. Promise!Open(u, hasFence)
  BY <1>7, <1>8, <1>9, <1>10, <1>11, <1>12, <1>13 DEF Promise!Open
<1>15. QED
  BY <1>13, <1>14 DEF u

LEMMA UsePointPromise ==
  ASSUME TypeOK, IInv, CInv, NEW l \in Lists, UsePoint(l) \/ UsePointFails(l)
  PROVE  \/ \E hasFence \in BOOLEAN : nextTag + 1 \in Tags /\ Promise!Open(nextTag + 1, hasFence)
         \/ UNCHANGED Promise!uvars
<1>1. UNCHANGED <<cancelled, sig, exec, evalCounter, evaluating, lost>>
  BY UsePointEffect
<1>2. CASE UNCHANGED <<nextTag, rec, content>>
  BY <1>1, <1>2 DEF Promise!uvars, PhaseOf, IsOpen, InFlight, Running, Completed
<1>3. CASE \E previous : \E hasFence \in BOOLEAN : NewUse(l, previous, hasFence)
  BY <1>1, <1>3, OpenPromise
<1>4. QED
  BY <1>2, <1>3, UsePointEffect

\* The evaluate ends.
LEMMA EndPromise ==
  ASSUME TypeOK, IInv, CInv, EvaluateEnd
  PROVE  Promise!End
<1>1. /\ evaluating # NoList /\ evaluating' = NoList
      /\ UNCHANGED <<nextTag, rec, cancelled, sig, content, exec, evalCounter, lost>>
  BY DEF EvaluateEnd, coreVars, hostVars
<1>2. \A t \in Tags : ~IsOpen(t)' /\ (InFlight(t)' <=> InFlight(t))
  BY <1>1, ListsAssumption DEF IsOpen, IInv, Dated, InFlight, Running
<1>3. \A t \in Tags : PhaseOf(t)' = IF PhaseOf(t) = "open"
                                    THEN IF lost THEN "over" ELSE "flying"
                                    ELSE PhaseOf(t)
  BY <1>1, <1>2, Phases DEF PhaseOf, PhasesMean
<1>4. QED
  BY <1>1, <1>3 DEF Promise!End, Promise!UseIds, Tags, Completed

\* The device goes.
LEMMA RemovePromise ==
  ASSUME TypeOK, DeviceRemoved
  PROVE  Promise!Remove
<1>1. /\ ~lost /\ lost' = TRUE
      /\ UNCHANGED <<nextTag, rec, cancelled, sig, content, exec, evalCounter, evaluating>>
  BY DEF DeviceRemoved, coreVars, hostVars
<1>2. \A t \in Tags : PhaseOf(t)' = IF PhaseOf(t) = "flying" THEN "over" ELSE PhaseOf(t)
  BY <1>1 DEF PhaseOf, IsOpen
<1>3. {t \in Tags : Completed(t)}' = {}
  BY <1>1 DEF Completed
<1>4. QED
  BY <1>1, <1>2, <1>3 DEF Promise!Remove, Promise!UseIds, Tags

\* A step forward is a Proceed: what it finishes and what it reports are what changed.
LEMMA ProceedPromise ==
  ASSUME TypeOK, IInv, CInv, TypeOK', IInv', CInv', Forward
  PROVE  Promise!Proceed
<1> DEFINE finished == {t \in Tags : PhaseOf(t) = "flying" /\ PhaseOf(t)' = "over"}
           reported == {t \in Tags : rec[t].serial = 0 /\ rec'[t].serial > 0}
<1> USE DEF Forward
<1>1. \A t \in Tags : IsOpen(t)' <=> IsOpen(t)
  BY DEF RecordingStays, IsOpen
<1>2. \A t \in Tags : PhaseOf(t)' = IF t \in finished THEN "over" ELSE PhaseOf(t)
  BY <1>1 DEF RecordingStays, FliesForward, PhaseOf
<1>3. \A t \in Tags : rec[t].serial = 0 \/ rec'[t].serial = rec[t].serial
  BY DEF ClaimsForward
<1>4. {t \in Tags : rec'[t].serial > 0} = {t \in Tags : rec[t].serial > 0} \cup reported
  BY <1>3, Facts
<1>5. \A t \in reported : rec[t].fence /\ ~(rec[t].serial > 0) /\ PhaseOf(t) # "open"
  BY Facts DEF ClaimsForward, PhaseOf, IsOpen
<1>6. ASSUME NEW t \in Tags, Completed(t)'
      PROVE  PhaseOf(t) = "over" \/ t \in finished
  <2>1. PhaseOf(t)' = "over"
    BY <1>6, LaterPhases DEF PhasesMean
  <2>2. QED
    BY <1>2, <2>1
<1>7. \A t \in Tags : Completed(t) => Completed(t)'
  BY DEF FliesForward
<1>8. finished \in SUBSET Promise!InPhase("flying")
  BY DEF Promise!InPhase, Promise!UseIds, Tags
<1>9. reported \in SUBSET ({t \in Tags : rec[t].fence}
                           \ ({t \in Tags : rec[t].serial > 0} \cup Promise!InPhase("open")))
  BY <1>5 DEF Promise!InPhase, Promise!UseIds, Tags
<1>10. [t \in Tags |-> PhaseOf(t)]' = [t \in Promise!UseIds |-> IF t \in finished THEN "over"
                                                              ELSE [u \in Tags |-> PhaseOf(u)][t]]
  BY <1>2 DEF Promise!UseIds, Tags
<1>11. Promise!Passes(Promise!InPhase("over") \cup finished)
  BY <1>6, <1>7 DEF Promise!Passes, Promise!InPhase, Promise!UseIds, Tags
<1>12. /\ UNCHANGED <<evalCounter, lost, evaluating>>
       /\ {t \in Tags : rec[t].fence}' = {t \in Tags : rec[t].fence}
       /\ [t \in Tags |-> rec[t].created]' = [t \in Tags |-> rec[t].created]
  BY DEF RecordingStays
<1> HIDE DEF finished, reported
<1>13. QED
  BY <1>4, <1>8, <1>9, <1>10, <1>11, <1>12 DEF Promise!Proceed

LEMMA StepPromise ==
  ASSUME TypeOK, IInv, CInv, TypeOK', IInv', CInv', [Next]_vars
  PROVE  [Promise!UNext]_(Promise!uvars)
<1>1. CASE HostOrGpu
  BY <1>1, HostOrGpuForward, ProceedPromise DEF Promise!UNext
<1>2. CASE \E l \in Lists : EvaluateBegin(l)
  BY <1>2, BeginPromise DEF Promise!UNext
<1>3. CASE \E l \in Lists : UsePoint(l) \/ UsePointFails(l)
  BY <1>3, UsePointPromise DEF Promise!UNext, Promise!UseIds, Tags
<1>4. CASE EvaluateEnd
  BY <1>4, EndPromise DEF Promise!UNext
<1>5. CASE DeviceRemoved
  BY <1>5, RemovePromise DEF Promise!UNext
<1>6. CASE UNCHANGED vars
  BY <1>6 DEF vars, coreVars, hostVars, Promise!uvars, PhaseOf, IsOpen, InFlight, Running, Completed
<1>7. QED
  BY <1>1, <1>2, <1>3, <1>4, <1>5, <1>6 DEF Next, HostOrGpu

\* As long as a present finds no submission between its event and its native call, the
\* tracking of submissions keeps the contract that the descriptor pools and the graves are
\* built on, whatever the queues, lists and devices.
THEOREM ContractKept ==
  ASSUME PresentOverlaps = FALSE
  PROVE  Spec => PromiseKept
<1> DEFINE AllInv == TypeOK /\ IInv /\ CInv
<1>1. Init => AllInv /\ Promise!UInit
  BY InitType, InitInv, InitContract, InitPromise
<1>2. AllInv /\ [Next]_vars => AllInv'
  BY StepType, StepInv, StepContract
<1>3. AllInv /\ AllInv' /\ [Next]_vars => [Promise!UNext]_(Promise!uvars)
  BY StepPromise
<1>4. QED
  BY <1>1, <1>2, <1>3, PTL DEF Spec, PromiseKept, Promise!USpec
-----------------------------------------------------------------------------
(* The ring.  Untrack moves each entry it keeps to the place its number    *)
(* among the kept ones says, so what stood in order stays in order.        *)

Rank(K, i) == Cardinality({j \in K : j < i})

\* A rank counts the members of a set below a number, one by one.
LEMMA RankCounts ==
  ASSUME NEW n \in Nat, NEW K \in SUBSET (1 .. n)
  PROVE  /\ IsFiniteSet(K) /\ Cardinality(K) \in Nat /\ Cardinality(K) <= n
         /\ Rank(K, 0) = 0 /\ Rank(K, n + 1) = Cardinality(K)
         /\ \A i \in Nat : Rank(K, i) \in Nat /\ Rank(K, i + 1) = IF i \in K THEN Rank(K, i) + 1 ELSE Rank(K, i)
         /\ \A i, j \in Nat : i <= j => Rank(K, i) <= Rank(K, j)
<1>0. \A x \in K : x \in Int /\ 0 < x /\ x < n + 1
  OBVIOUS
<1>1. IsFiniteSet(1 .. n) /\ Cardinality(1 .. n) <= n
  BY FS_Interval
<1>2. IsFiniteSet(K) /\ Cardinality(K) <= Cardinality(1 .. n)
  BY <1>1, FS_Subset
<1>3. Cardinality(K) \in Nat /\ Cardinality(1 .. n) \in Nat
  BY <1>1, <1>2, FS_CardinalityType
<1>4. \A i \in Nat : {j \in K : j < i} \in SUBSET K
  OBVIOUS
<1>5. \A i \in Nat : IsFiniteSet({j \in K : j < i})
  BY <1>2, <1>4, FS_Subset
<1>6. \A i \in Nat : Rank(K, i) \in Nat
  BY <1>5, FS_CardinalityType DEF Rank
<1>7. Rank(K, 0) = 0
  <2>1. \A j \in K : ~(j < 0)
    BY <1>0
  <2>2. {j \in K : j < 0} = {}
    BY <2>1, Zenon
  <2>3. QED
    BY <2>2, FS_EmptySet DEF Rank
<1>8. Rank(K, n + 1) = Cardinality(K)
  <2>1. \A j \in K : j < n + 1
    BY <1>0
  <2>2. {j \in K : j < n + 1} = K
    BY <2>1, Zenon
  <2>3. QED
    BY <2>2 DEF Rank
<1>9. ASSUME NEW i \in Nat
      PROVE  Rank(K, i + 1) = IF i \in K THEN Rank(K, i) + 1 ELSE Rank(K, i)
  <2>1. CASE i \notin K
    <3>1. \A j \in K : j < i + 1 <=> j < i
      BY <1>0, <2>1
    <3>2. {j \in K : j < i + 1} = {j \in K : j < i}
      BY <3>1, Zenon
    <3>3. QED
      BY <2>1, <3>2 DEF Rank
  <2>2. CASE i \in K
    <3>0. \A j \in K : j < i + 1 <=> j < i \/ j = i
      BY <1>0, <2>2
    <3>1. {j \in K : j < i + 1} = {j \in K : j < i} \cup {i}
      BY <2>2, <3>0, Zenon
    <3>2. i \notin {j \in K : j < i}
      OBVIOUS
    <3>3. Cardinality({j \in K : j < i} \cup {i}) = Cardinality({j \in K : j < i}) + 1
      BY <1>5, <3>2, FS_AddElement
    <3>4. QED
      BY <2>2, <3>1, <3>3 DEF Rank
  <2>3. QED
    BY <2>1, <2>2
<1>10. ASSUME NEW i \in Nat, NEW j \in Nat, i <= j
       PROVE  Rank(K, i) <= Rank(K, j)
  <2>1. \A x \in K : x < i => x < j
    BY <1>0, <1>10
  <2>2. {x \in K : x < i} \in SUBSET {x \in K : x < j}
    BY <2>1, Zenon
  <2>3. QED
    BY <1>5, <2>2, FS_Subset DEF Rank
<1>11. Cardinality(K) <= n
  BY <1>1, <1>2, <1>3
<1>12. QED
  BY <1>2, <1>3, <1>6, <1>7, <1>8, <1>9, <1>10, <1>11

\* Every rank below the number of members is that of a member.
LEMMA Ranked ==
  ASSUME NEW n \in Nat, NEW K \in SUBSET (1 .. n), NEW k \in 1 .. Cardinality(K)
  PROVE  \E i \in K : Rank(K, i) = k - 1
<1> DEFINE S == {i \in Nat : Rank(K, i) >= k}
<1>1. k \in Nat /\ k > 0 /\ k <= Rank(K, n + 1)
  BY RankCounts
<1>2. S \in SUBSET Nat /\ S # {}
  BY <1>1
<1>3. PICK m \in S : \A i \in S : m <= i
  <2> HIDE DEF S
  <2>1. QED
    BY <1>2, Least
<1>4. m \in Nat /\ Rank(K, m) >= k /\ m # 0
  BY <1>1, <1>3, RankCounts
<1>5. m - 1 \in Nat /\ ~(m - 1 \in S) /\ (m - 1) + 1 = m
  BY <1>3, <1>4
<1>6. Rank(K, m - 1) \in Nat /\ Rank(K, m - 1) < k
  <2>1. Rank(K, m - 1) \in Nat
    BY <1>5, RankCounts
  <2>2. QED
    BY <1>1, <1>5, <2>1
<1>7. Rank(K, m) = IF m - 1 \in K THEN Rank(K, m - 1) + 1 ELSE Rank(K, m - 1)
  BY <1>5, RankCounts
<1>8. m - 1 \in K /\ Rank(K, m - 1) = k - 1
  BY <1>1, <1>4, <1>6, <1>7
<1>9. QED
  BY <1>8

RingEntry == [queue : Queues, list : Lists, serial : Nat]

\* What Untrack leaves: entries of other queues, in the order in which they stood.
LEMMA ForgetKeepsOrder ==
  ASSUME ring \in Seq(RingEntry), NEW q \in Queues
  PROVE  /\ Forget(q) \in Seq(RingEntry) /\ Len(Forget(q)) <= Len(ring)
         /\ \E P \in [1 .. Len(Forget(q)) -> 1 .. Len(ring)] :
              /\ \A k \in 1 .. Len(Forget(q)) : Forget(q)[k] = ring[P[k]] /\ ring[P[k]].queue # q
              /\ \A j, k \in 1 .. Len(Forget(q)) : j < k => P[j] < P[k]
<1> DEFINE n == Len(ring)
           kept == {i \in DOMAIN ring : ring[i].queue # q}
           c == Cardinality(kept)
           P == [k \in 1 .. c |-> CHOOSE i \in kept : Rank(kept, i) = k - 1]
<1>1. n \in Nat /\ kept \in SUBSET (1 .. n)
  OBVIOUS
<1>2. Forget(q) = [k \in 1 .. c |-> ring[P[k]]]
  BY DEF Forget, Rank
<1>3. c \in Nat /\ c <= n
  <2> HIDE DEF n, kept
  <2>1. QED
    BY <1>1, RankCounts
<1>4. ASSUME NEW k \in 1 .. c
      PROVE  P[k] \in kept /\ Rank(kept, P[k]) = k - 1
  <2>1. \E i \in kept : Rank(kept, i) = k - 1
    <3> HIDE DEF n, kept
    <3>1. QED
      BY <1>1, <1>4, Ranked
  <2>2. P[k] = CHOOSE i \in kept : Rank(kept, i) = k - 1
    BY <1>4
  <2> HIDE DEF n, kept, c, P
  <2>3. QED
    BY <2>1, <2>2
<1>5. \A i \in kept : i \in 1 .. n /\ i \in Nat /\ ring[i] \in RingEntry /\ ring[i].queue # q
  OBVIOUS
<1>6. ASSUME NEW j \in 1 .. c, NEW k \in 1 .. c, j < k
      PROVE  P[j] < P[k]
  <2>1. P[j] \in Nat /\ P[k] \in Nat /\ Rank(kept, P[j]) = j - 1 /\ Rank(kept, P[k]) = k - 1
    BY <1>4, <1>5, <1>6
  <2> HIDE DEF n, kept, c, P
  <2>2. P[k] <= P[j] => Rank(kept, P[k]) <= Rank(kept, P[j])
    BY <1>1, <2>1, RankCounts
  <2>3. j \in Int /\ k \in Int
    BY <1>3
  <2>4. QED
    BY <1>6, <2>1, <2>2, <2>3
<1> HIDE DEF n, kept, c, P
<1>7. \A k \in 1 .. c : ring[P[k]] \in RingEntry
  BY <1>4, <1>5
<1>8. Forget(q) \in Seq(RingEntry) /\ Len(Forget(q)) = c
  <2>1. Forget(q) \in [1 .. c -> RingEntry]
    BY <1>2, <1>7
  <2>2. Forget(q) \in Seq(RingEntry)
    BY <1>3, <2>1
  <2>3. Len(Forget(q)) = c
    BY <1>3, <2>1, <2>2
  <2>4. QED
    BY <2>2, <2>3
<1>9. P \in [1 .. c -> 1 .. n]
  BY <1>4, <1>5 DEF P
<1>10. \A k \in 1 .. c : Forget(q)[k] = ring[P[k]] /\ ring[P[k]].queue # q
  BY <1>2, <1>4, <1>5
<1>11. QED
  BY <1>3, <1>6, <1>8, <1>9, <1>10 DEF n

\* The ring holds entries of registered queues, serials in order, and RingSound is inductive with that.
RInv == TypeOK /\ ring \in Seq(RingEntry) /\ RingSound

LEMMA RingPushed ==
  ASSUME RInv, NEW q \in Queues, NEW l \in Lists, Push(q, l), UNCHANGED tracked
  PROVE  ring' \in Seq(RingEntry) /\ RingSound'
<1>1. CASE q \notin tracked
  <2>1. ring' = ring /\ pushed' = pushed
    BY <1>1 DEF Push
  <2>2. QED
    BY <2>1 DEF RInv, RingSound
<1>2. CASE q \in tracked
  <2> DEFINE s == pushed[q] + 1
             e == [queue |-> q, list |-> l, serial |-> s]
             left == IF Len(ring) = RingSize THEN Tail(ring) ELSE ring
  <2>1. pushed' = [pushed EXCEPT ![q] = s] /\ ring' = Append(left, e)
    BY <1>2 DEF Push, RingPush
  <2>2. s \in Nat /\ pushed[q] \in Nat /\ e \in RingEntry /\ pushed \in [Queues -> Nat] /\ tracked \subseteq Queues
    BY DEF RInv, TypeOK, RingEntry
  <2>3. RingSize \in Nat /\ RingSize > 0
    BY BoundsAssumption
  <2>4. Len(ring) \in Nat /\ Len(ring) <= RingSize /\ ring \in Seq(RingEntry)
    BY DEF RInv, RingSound
  <2>5. \A i \in 1 .. Len(ring) : ring[i] \in RingEntry /\ ring[i].serial \in Nat /\ ring[i].queue \in Queues
    <3>1. \A i \in 1 .. Len(ring) : ring[i] \in RingEntry
      BY <2>4
    <3>2. \A e0 \in RingEntry : e0.serial \in Nat /\ e0.queue \in Queues
      BY DEF RingEntry
    <3>3. QED
      BY <3>1, <3>2, Zenon
  <2>6. \E d \in {0, 1} : /\ left \in Seq(RingEntry) /\ Len(left) = Len(ring) - d /\ Len(left) < RingSize
                          /\ Len(left) \in Nat
                          /\ \A i \in 1 .. Len(left) : i + d \in 1 .. Len(ring) /\ left[i] = ring[i + d]
    <3>1. CASE Len(ring) = RingSize
      <4>1. ring # <<>> /\ left = Tail(ring)
        BY <2>3, <3>1
      <4>2. left \in Seq(RingEntry) /\ Len(left) = Len(ring) - 1 /\ \A i \in 1 .. Len(left) : left[i] = ring[i + 1]
        BY <2>4, <4>1
      <4>3. QED
        BY <2>3, <2>4, <3>1, <4>2
    <3>2. CASE Len(ring) # RingSize
      BY <2>4, <2>3, <3>2
    <3>3. QED
      BY <3>1, <3>2
  <2>7. PICK d \in {0, 1} : /\ left \in Seq(RingEntry) /\ Len(left) = Len(ring) - d /\ Len(left) < RingSize
                            /\ Len(left) \in Nat
                            /\ \A i \in 1 .. Len(left) : i + d \in 1 .. Len(ring) /\ left[i] = ring[i + d]
    BY <2>6
  <2> HIDE DEF s, e, left
  <2>8. ring' \in Seq(RingEntry) /\ Len(ring') = Len(left) + 1 /\ ring'[Len(left) + 1] = e
        /\ \A i \in 1 .. Len(left) : ring'[i] = left[i]
    BY <2>1, <2>2, <2>7
  <2>9. e.queue = q /\ e.serial = s /\ s = pushed[q] + 1
    BY DEF e, s
  <2>10. \A p \in Queues : pushed'[p] = IF p = q THEN s ELSE pushed[p]
    BY <2>1, <2>2
  <2>11. ASSUME NEW i \in 1 .. Len(left)
         PROVE  /\ ring'[i].queue \in tracked /\ ring'[i].serial \in Nat
                /\ ring'[i].serial <= pushed[ring'[i].queue]
                /\ ring'[i].serial <= pushed'[ring'[i].queue]
                /\ \A j \in 1 .. i - 1 : ring'[j].queue = ring'[i].queue => ring'[j].serial < ring'[i].serial
    <3>1. i + d \in 1 .. Len(ring) /\ ring'[i] = ring[i + d]
      BY <2>7, <2>8
    <3>2. /\ ring'[i].queue \in tracked /\ ring'[i].serial \in Nat
          /\ ring'[i].serial <= pushed[ring'[i].queue]
      BY <2>5, <3>1 DEF RInv, RingSound
    <3>3. ring'[i].serial <= pushed'[ring'[i].queue]
      <4>1. ring'[i].queue \in Queues /\ pushed[ring'[i].queue] \in Nat
        BY <2>2, <3>2
      <4>2. QED
        BY <2>2, <2>9, <2>10, <3>2, <4>1
    <3>4. ASSUME NEW j \in 1 .. i - 1, ring'[j].queue = ring'[i].queue
          PROVE  ring'[j].serial < ring'[i].serial
      <4>1. j \in 1 .. Len(left) /\ j + d \in 1 .. (i + d) - 1
        BY <2>7
      <4>2. ring'[j] = ring[j + d]
        BY <2>7, <2>8, <4>1
      <4>3. QED
        BY <3>1, <3>4, <4>1, <4>2 DEF RInv, RingSound
    <3>5. QED
      BY <3>2, <3>3, <3>4
  <2>12. /\ ring'[Len(left) + 1].queue \in tracked
         /\ ring'[Len(left) + 1].serial <= pushed'[ring'[Len(left) + 1].queue]
         /\ \A j \in 1 .. Len(left) : ring'[j].queue = q => ring'[j].serial < s
    BY <1>2, <2>2, <2>8, <2>9, <2>10, <2>11
  <2>13. ASSUME NEW i \in 1 .. Len(ring')
         PROVE  /\ ring'[i].queue \in tracked /\ ring'[i].serial <= pushed'[ring'[i].queue]
                /\ \A j \in 1 .. i - 1 : ring'[j].queue = ring'[i].queue => ring'[j].serial < ring'[i].serial
    <3>1. i \in 1 .. Len(left) \/ (i = Len(left) + 1 /\ 1 .. i - 1 = 1 .. Len(left))
      BY <2>7, <2>8
    <3>2. QED
      BY <2>8, <2>9, <2>11, <2>12, <3>1
  <2>14. Len(ring') <= RingSize
    BY <2>3, <2>7, <2>8
  <2>15. QED
    BY <2>8, <2>13, <2>14 DEF RingSound
<1>3. QED
  BY <1>1, <1>2

LEMMA RingForgotten ==
  ASSUME RInv, NEW q \in Queues, Untrack(q)
  PROVE  ring' \in Seq(RingEntry) /\ RingSound'
<1>1. ring' = Forget(q) /\ tracked' = tracked \ {q} /\ pushed' = pushed
  BY DEF Untrack
<1>2. ring \in Seq(RingEntry) /\ Len(ring) \in Nat /\ Len(ring) <= RingSize /\ RingSize \in Nat
  BY BoundsAssumption DEF RInv, RingSound
<1>3. PICK P \in [1 .. Len(ring') -> 1 .. Len(ring)] :
        /\ \A k \in 1 .. Len(ring') : ring'[k] = ring[P[k]] /\ ring[P[k]].queue # q
        /\ \A j, k \in 1 .. Len(ring') : j < k => P[j] < P[k]
  BY <1>1, <1>2, ForgetKeepsOrder
<1>4. ring' \in Seq(RingEntry) /\ Len(ring') <= Len(ring)
  BY <1>1, <1>2, ForgetKeepsOrder
<1>5. Len(ring') \in Nat /\ Len(ring') <= RingSize
  BY <1>2, <1>4
<1>6. ASSUME NEW i \in 1 .. Len(ring')
      PROVE  /\ ring'[i].queue \in tracked' /\ ring'[i].serial <= pushed'[ring'[i].queue]
             /\ \A j \in 1 .. i - 1 : ring'[j].queue = ring'[i].queue => ring'[j].serial < ring'[i].serial
  <2>1. P[i] \in 1 .. Len(ring) /\ ring'[i] = ring[P[i]] /\ ring[P[i]].queue # q
    BY <1>3
  <2>2. ring'[i].queue \in tracked' /\ ring'[i].serial <= pushed'[ring'[i].queue]
    BY <1>1, <2>1 DEF RInv, RingSound
  <2>3. ASSUME NEW j \in 1 .. i - 1, ring'[j].queue = ring'[i].queue
        PROVE  ring'[j].serial < ring'[i].serial
    <3>1. j \in 1 .. Len(ring') /\ j < i
      BY <1>5
    <3>2. P[j] < P[i] /\ P[j] \in 1 .. Len(ring) /\ ring'[j] = ring[P[j]]
      BY <1>3, <3>1
    <3>3. P[j] \in 1 .. P[i] - 1
      BY <1>2, <2>1, <3>2
    <3>4. QED
      BY <2>1, <2>3, <3>2, <3>3 DEF RInv, RingSound
  <2>4. QED
    BY <2>2, <2>3
<1>7. QED
  BY <1>4, <1>5, <1>6 DEF RingSound

LEMMA RingTracked ==
  ASSUME RInv, NEW q \in Queues, Track(q)
  PROVE  ring' \in Seq(RingEntry) /\ RingSound'
<1>1. ring' = ring /\ q \notin tracked /\ tracked' = tracked \cup {q} /\ pushed' = [pushed EXCEPT ![q] = 0]
  BY DEF Track
<1>2. \A p \in tracked : p \in Queues /\ p # q /\ pushed'[p] = pushed[p]
  BY <1>1 DEF RInv, TypeOK
<1>3. QED
  BY <1>1, <1>2 DEF RInv, RingSound

LEMMA RingStep == RInv /\ [Next]_vars => RInv'
<1> SUFFICES ASSUME RInv, [Next]_vars PROVE RInv'
  OBVIOUS
<1>0. TypeOK'
  BY StepType DEF RInv
<1>1. CASE UNCHANGED <<ring, tracked, pushed>>
  BY <1>0, <1>1 DEF RInv, RingSound
<1>2. CASE ring' = <<>>
  BY <1>0, <1>2, BoundsAssumption DEF RInv, RingSound
<1>3. ASSUME NEW q \in Queues, Track(q)
      PROVE  RInv'
  BY <1>0, <1>3, RingTracked DEF RInv
<1>4. ASSUME NEW q \in Queues, Untrack(q)
      PROVE  RInv'
  BY <1>0, <1>4, RingForgotten DEF RInv
<1>5. ASSUME NEW q \in Queues, NEW l \in Lists, Push(q, l), UNCHANGED tracked
      PROVE  RInv'
  BY <1>0, <1>5, RingPushed DEF RInv
<1>6. ASSUME NEW q \in Queues, ReportAfter(q)
      PROVE  RInv'
  <2>1. call[q].list \in Lists
    BY <1>6 DEF ReportAfter, RInv, TypeOK, Submitting
  <2>2. QED
    BY <1>5, <1>6, <2>1 DEF ReportAfter
<1>7. ASSUME NEW q \in Queues, NEW l \in Lists, ReportBefore(q, l)
      PROVE  RInv'
  BY <1>5, <1>7 DEF ReportBefore
<1>8. ASSUME NEW q \in Queues, NativeAfterReport(q) \/ GpuStep(q)
      PROVE  RInv'
  BY <1>1, <1>8 DEF NativeAfterReport, GpuStep, coreVars
<1>9. ASSUME NEW q \in Queues, NEW l \in Lists, NativeHooked(q, l) \/ SubmitUnseen(q, l)
      PROVE  RInv'
  BY <1>1, <1>9 DEF NativeHooked, SubmitUnseen, coreVars
<1>10. ASSUME NEW l \in Lists, EvaluateBegin(l)
       PROVE  RInv'
  BY <1>2, <1>10 DEF EvaluateBegin, Drain
<1>11. ASSUME NEW l \in Lists, UsePoint(l) \/ UsePointFails(l) \/ Discard(l)
       PROVE  RInv'
  BY <1>1, <1>11 DEF UsePoint, UsePointFails, Discard, coreVars
<1>12. ASSUME NEW first \in BOOLEAN, Housekeeping(first)
       PROVE  RInv'
  BY <1>1, <1>2, <1>12 DEF Housekeeping, Drain
<1>13. CASE (\E Q \in SUBSET Queues : OtherWork(Q)) \/ EvaluateEnd \/ DeviceRemoved \/ UNCHANGED vars
  BY <1>1, <1>13 DEF OtherWork, EvaluateEnd, DeviceRemoved, vars, coreVars
<1>14. QED
  BY <1>3, <1>4, <1>6, <1>7, <1>8, <1>9, <1>10, <1>11, <1>12, <1>13 DEF Next, HostOrGpu

\* Push, Untrack and Drain: the entries the next Drain hands to the readers of the ring name registered
\* queues only (Untrack removes what the ring borrowed before it releases the queue), each queue's come
\* in the order of their submissions, none is past the last submission, and the buffer is not exceeded.
THEOREM RingStaysSound ==
  Spec => []RingSound
<1>1. Init => RInv
  <2>1. Init => ring \in Seq(RingEntry) /\ RingSound
    BY BoundsAssumption DEF Init, RingSound
  <2>2. QED
    BY <2>1, InitType DEF RInv
<1>2. RInv => RingSound
  BY DEF RInv
<1>3. QED
  BY <1>1, <1>2, RingStep, PTL DEF Spec
=============================================================================

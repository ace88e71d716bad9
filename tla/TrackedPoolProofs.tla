--------------------------- MODULE TrackedPoolProofs ---------------------------
(***************************************************************************)
(* Proofs about TrackedPool: the pool over the tracker is the pool of      *)
(* DescriptorPool, so what is proved of that one holds down to the lists   *)
(* the game submits.                                                       *)
(***************************************************************************)
EXTENDS TrackedPool, SubmissionProofs

Pools == INSTANCE DescriptorPoolProofs WITH
  MaxUses <- MaxRecordings,
  MaxEvals <- MaxEval,
  evals <- evalCounter,
  Deadline <- Expiry,
  inEvaluate <- evaluating # NoList,
  phase <- [t \in Tags |-> PhaseOf(t)],
  fenced <- {t \in Tags : rec[t].fence},
  claimed <- {t \in Tags : rec[t].serial > 0},
  made <- [t \in Tags |-> rec[t].created],
  done <- {t \in Tags : Completed(t)},
  removed <- lost

AllInv == TypeOK /\ IInv /\ CInv

\* What the frame does with the pool is nothing to the tracker, and the rest is a step of it.
LEMMA TrackerStep == [TNext]_tvars => [Next]_vars
<1>1. ASSUME FrameBegins \/ FrameGoesOn \/ OthersGoOn PROVE Next
  BY <1>1 DEF FrameBegins, FrameGoesOn, OthersGoOn, Next
<1>2. ASSUME FrameTakes \/ WaitReturns \/ UNCHANGED tvars PROVE UNCHANGED vars
  BY <1>2 DEF FrameTakes, WaitReturns, tvars
<1>3. QED
  BY <1>1, <1>2 DEF TNext

\* The tracker goes its way under a pool: what is proved of Submission holds here.
THEOREM TrackerGoesOn == TSpec => Spec
<1>1. TInit => Init
  BY DEF TInit
<1>2. QED
  BY <1>1, TrackerStep, PTL DEF TSpec, Spec

\* A state in which nothing of the tracker moves shows the pool no change.
LEMMA StillSeen ==
  ASSUME UNCHANGED vars
  PROVE  UNCHANGED Promise!uvars
BY DEF vars, coreVars, hostVars, Promise!uvars, PhaseOf, IsOpen, InFlight, Running, Completed

LEMMA PoolStep ==
  ASSUME AllInv, AllInv', [TNext]_tvars
  PROVE  [Pool!PNext]_(Pool!pvars)
<1> USE DEF AllInv
<1>1. CASE FrameBegins
  <2>1. PICK l \in Lists : EvaluateBegin(l)
    BY <1>1 DEF FrameBegins
  <2>2. Promise!Begin
    BY <2>1, BeginPromise
  <2>3. Pool!Begin
    BY <2>2 DEF Promise!Begin, Pool!Begin, Promise!Passes, Pool!Passes, Promise!InPhase, Pool!InPhase,
                Promise!UseIds, Pool!UseIds, Promise!Overdue, Pool!Overdue
  <2>4. QED
    BY <1>1, <2>3 DEF FrameBegins, Pool!PBegin, Pool!PNext
<1>2. CASE FrameGoesOn
  <2>1. CASE EvaluateEnd
    BY <1>2, <2>1, EndPromise DEF FrameGoesOn, Promise!End, Pool!End, Promise!UseIds, Pool!UseIds,
                                  poolVars, Pool!poolVars, Pool!PEvaluate, Pool!PNext
  <2>2. ASSUME NEW l \in Lists, UsePoint(l) \/ UsePointFails(l)
        PROVE  [Pool!PNext]_(Pool!pvars)
    <3>1. CASE UNCHANGED Promise!uvars
      BY <1>2, <3>1 DEF FrameGoesOn, Promise!uvars, Pool!uvars, Pool!pvars, poolVars, Pool!poolVars
    <3>2. ASSUME NEW hasFence \in BOOLEAN, nextTag + 1 \in Tags, Promise!Open(nextTag + 1, hasFence)
          PROVE  Pool!PEvaluate
      BY <1>2, <3>2 DEF FrameGoesOn, Promise!Open, Pool!Open, Pool!UseIds, Tags,
                        poolVars, Pool!poolVars, Pool!PEvaluate
    <3>3. QED
      BY <2>2, <3>1, <3>2, UsePointPromise DEF Pool!PNext
  <2>3. QED
    BY <1>2, <2>1, <2>2 DEF FrameGoesOn
<1>3. CASE FrameTakes
  BY <1>3 DEF FrameTakes, Pool!PNext, Pool!UseIds, Tags
<1>4. CASE WaitReturns
  BY <1>4 DEF WaitReturns, Pool!PNext
<1>5. CASE OthersGoOn
  <2>1. CASE HostOrGpu
    <3>1. Promise!Proceed
      BY <2>1, HostOrGpuForward, ProceedPromise
    <3>2. Pool!Proceed
      BY <3>1 DEF Promise!Proceed, Pool!Proceed, Promise!Passes, Pool!Passes, Promise!InPhase, Pool!InPhase,
                  Promise!UseIds, Pool!UseIds
    <3>3. QED
      BY <1>5, <3>2 DEF OthersGoOn, poolVars, Pool!poolVars, Pool!PNext
  <2>2. CASE DeviceRemoved
    BY <1>5, <2>2, RemovePromise DEF OthersGoOn, Promise!Remove, Pool!Remove, Promise!UseIds, Pool!UseIds,
                                     poolVars, Pool!poolVars, Pool!PNext
  <2>3. QED
    BY <1>5, <2>1, <2>2 DEF OthersGoOn
<1>6. CASE UNCHANGED tvars
  BY <1>6, StillSeen DEF tvars, Promise!uvars, Pool!uvars, Pool!pvars, poolVars, Pool!poolVars
<1>7. QED
  BY <1>1, <1>2, <1>3, <1>4, <1>5, <1>6 DEF TNext

LEMMA TrackedStep ==
  ASSUME PresentOverlaps = FALSE
  PROVE  /\ TInit => AllInv
         /\ AllInv /\ [Next]_vars => AllInv'
<1>1. Init => AllInv
  BY InitType, InitInv, InitContract DEF AllInv
<1>2. AllInv /\ [Next]_vars => AllInv'
  BY StepType, StepInv, StepContract DEF AllInv
<1>3. QED
  BY <1>1, <1>2 DEF TInit

\* The pool over the tracker is the pool of DescriptorPool, for any queues, lists and devices, any size of the
\* pool, and however the events, the submissions and the GPU fall between the steps of a frame.
THEOREM TrackerCarriesPool ==
  ASSUME PresentOverlaps = FALSE
  PROVE  TSpec => PoolKept
<1>1. TInit => Pool!PInit
  BY DEF TInit
<1>2. QED
  BY <1>1, TrackedStep, TrackerStep, PoolStep, PTL DEF TSpec, PoolKept, Pool!PSpec

-----------------------------------------------------------------------------
(* What is proved of DescriptorPool, read in terms of lists and queues.    *)

\* The two instances speak of the same pool.
LEMMA SamePool == /\ Pool!PInit <=> Pools!PInit
                  /\ [Pool!PNext]_(Pool!pvars) <=> [Pools!PNext]_(Pools!pvars)
                  /\ Pool!SlotsApart <=> Pools!SlotsApart
                  /\ Pool!Sized <=> Pools!Sized
<1>1. Pool!PInit <=> Pools!PInit
  BY DEF Pool!PInit, Pools!PInit, Pool!UInit, Pools!UInit, Pool!UseIds, Pools!UseIds, Pool!Slots, Pools!Slots,
         Pool!Idle, Pools!Idle, Pool!NoSlot, Pools!NoSlot
<1>2. ASSUME NEW i PROVE Pool!Passed(i) <=> Pools!Passed(i)
  BY DEF Pool!Passed, Pools!Passed
<1>3. ASSUME NEW S PROVE Pool!First(S) = Pools!First(S)
  BY DEF Pool!First, Pools!First, Pool!Ahead, Pools!Ahead
<1>4. Pool!Oldest = Pools!Oldest /\ Pool!Fenced = Pools!Fenced /\ Pool!Slots = Pools!Slots /\ Pool!Idle = Pools!Idle
      /\ Pool!UseIds = Pools!UseIds
  BY DEF Pool!Oldest, Pools!Oldest, Pool!Fenced, Pools!Fenced, Pool!Slots, Pools!Slots, Pool!Idle, Pools!Idle,
         Pool!NoSlot, Pools!NoSlot, Pool!UseIds, Pools!UseIds
<1>5. ASSUME NEW i, NEW t PROVE Pool!Tag(i, t) <=> Pools!Tag(i, t)
  BY DEF Pool!Tag, Pools!Tag, Pool!UseIds, Pools!UseIds
<1>6. ASSUME NEW t, NEW nonBlocking PROVE Pool!Acquire(t, nonBlocking) <=> Pools!Acquire(t, nonBlocking)
  BY <1>2, <1>3, <1>4, <1>5 DEF Pool!Acquire, Pools!Acquire, Pool!uvars, Pools!uvars
<1>7. (Pool!WaitEnds <=> Pools!WaitEnds) /\ (Pool!WaitFails <=> Pools!WaitFails)
  BY <1>4, <1>5 DEF Pool!WaitEnds, Pools!WaitEnds, Pool!WaitFails, Pools!WaitFails, Pool!uvars, Pools!uvars
<1>8. Pool!PBegin <=> Pools!PBegin
  BY DEF Pool!PBegin, Pools!PBegin, Pool!Begin, Pools!Begin, Pool!InPhase, Pools!InPhase, Pool!UseIds,
         Pools!UseIds, Pool!Passes, Pools!Passes, Pool!Overdue, Pools!Overdue
<1>9. Pool!PEvaluate <=> Pools!PEvaluate
  BY DEF Pool!PEvaluate, Pools!PEvaluate, Pool!End, Pools!End, Pool!Open, Pools!Open, Pool!UseIds, Pools!UseIds,
         Pool!Idle, Pools!Idle, Pool!NoSlot, Pools!NoSlot, Pool!poolVars, Pools!poolVars
<1>10. Pool!Proceed <=> Pools!Proceed
  BY DEF Pool!Proceed, Pools!Proceed, Pool!InPhase, Pools!InPhase, Pool!UseIds, Pools!UseIds, Pool!Passes,
         Pools!Passes
<1>11. Pool!Remove <=> Pools!Remove
  BY DEF Pool!Remove, Pools!Remove, Pool!UseIds, Pools!UseIds
<1>12. Pool!PNext <=> Pools!PNext
  BY <1>4, <1>6, <1>7, <1>8, <1>9, <1>10, <1>11 DEF Pool!PNext, Pools!PNext, Pool!poolVars, Pools!poolVars
<1>13. (UNCHANGED Pool!pvars) <=> UNCHANGED Pools!pvars
  BY DEF Pool!pvars, Pools!pvars, Pool!uvars, Pools!uvars, Pool!poolVars, Pools!poolVars
<1>14. (Pool!SlotsApart <=> Pools!SlotsApart) /\ (Pool!Sized <=> Pools!Sized)
  BY DEF Pool!SlotsApart, Pools!SlotsApart, Pool!Sized, Pools!Sized, Pool!Slots, Pools!Slots, Pool!UseIds,
         Pools!UseIds
<1>15. QED
  BY <1>1, <1>12, <1>13, <1>14

LEMMA PoolBehaves ==
  ASSUME PresentOverlaps = FALSE
  PROVE  TSpec => Pools!PSpec
<1>1. QED
  BY TrackerCarriesPool, SamePool, PTL DEF PoolKept, Pool!PSpec, Pools!PSpec

LEMMA Assumed == /\ Expiry \in Nat \ {0} /\ MaxRecordings \in Nat /\ MaxEval \in Nat
                 /\ Count \in Nat /\ PerEvaluate \in Nat
BY BoundsAssumption, TableAssumption

\* A table stands while a list that reads it is recorded into, waits or runs: the pools' theorem for the
\* tracker that is really under them, whatever the queues, the lists and the order of events.
THEOREM TablesAreKept ==
  ASSUME PresentOverlaps = FALSE
  PROVE  TSpec => []TablesStand
<1>1. Pools!PSpec => []Pools!SlotsApart
  BY Assumed, Pools!NeverRewritten
<1>2. TypeOK /\ IInv /\ CInv /\ Pool!SlotsApart => TablesStand
  <2> SUFFICES ASSUME TypeOK, IInv, CInv, Pool!SlotsApart PROVE TablesStand
    OBVIOUS
  <2>1. \A t \in Tags : InFlight(t) /\ ~lost => PhaseOf(t) # "over"
    BY Facts DEF CInv, Unmade, PhaseOf
  <2>2. QED
    BY <2>1 DEF TablesStand, Pool!SlotsApart, Pool!UseIds, Tags
<1>3. QED
  BY <1>1, <1>2, SamePool, PoolBehaves, TrackedStep, TrackerStep, PTL DEF TSpec, AllInv

\* A pool of its documented size does not run dry of uses nobody reports, over the tracker.
THEOREM TablesLast ==
  ASSUME PresentOverlaps = FALSE
  PROVE  TSpec => []PoolLasts
<1>1. Pools!PSpec => []Pools!Sized
  BY Assumed, Pools!NeverDry
<1>2. QED
  BY <1>1, SamePool, PoolBehaves, PTL DEF PoolLasts
=============================================================================

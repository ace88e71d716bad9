------------------------- MODULE DescriptorPoolProofs -------------------------
(***************************************************************************)
(* Proofs about DescriptorPool, for every pool size, window and number of  *)
(* uses: its type invariant, that no slot is written while a list that     *)
(* reads it is not over, and that a pool as large as its window never runs *)
(* dry of unreported uses.                                                 *)
(***************************************************************************)
EXTENDS DescriptorPool, WellFoundedInduction, FiniteSetTheorems, TLAPS

-----------------------------------------------------------------------------
(* The least-number principle, which the CHOOSE of the oldest slot rests   *)
(* on.                                                                     *)

\* Every set of naturals with an element has a least one.
LEMMA Least ==
  ASSUME NEW S \in SUBSET Nat, S # {}
  PROVE  \E n \in S : \A k \in S : n <= k
<1> DEFINE R == OpToRel(<, Nat)
<1>1. IsWellFoundedOn(R, Nat)
  BY NatLessThanWellFounded
<1>2. \A x, y \in Nat : y < x => <<y, x>> \in R
  BY DEF OpToRel
<1> HIDE DEF R
<1>3. PICK x \in S : \A y \in S : ~(<<y, x>> \in R)
  BY <1>1, WFMin
<1>4. ASSUME NEW k \in S PROVE x <= k
  <2>1. x \in Nat /\ k \in Nat
    OBVIOUS
  <2>2. ~(k < x)
    BY <1>2, <1>3, <2>1
  <2>3. QED
    BY <2>1, <2>2
<1>5. QED
  BY <1>4

\* What a set of indices is ordered by has a least value at one of them.
LEMMA LeastBy ==
  ASSUME NEW S, S # {}, NEW f, \A i \in S : f[i] \in Nat
  PROVE  \E i \in S : \A k \in S : f[i] <= f[k]
<1> DEFINE V == {f[i] : i \in S}
<1>1. V \in SUBSET Nat /\ V # {}
  OBVIOUS
<1>2. PICK n \in V : \A k \in V : n <= k
  <2> HIDE DEF V
  <2>1. QED
    BY <1>1, Least
<1>3. QED
  BY <1>2
-----------------------------------------------------------------------------
(* What the contract keeps.                                                *)

\* A fence that passed is that of a use that is over.
DoneOver == \A t \in done : phase[t] = "over"

\* The evaluate in progress opened its uses itself.
OpenNow == \A t \in UseIds : phase[t] = "open" => inEvaluate /\ made[t] = evals

\* What is unclaimed and not over is younger than its deadline.
FlyingYoung ==
  \A t \in UseIds \ claimed : phase[t] = "flying" => evals - made[t] < Deadline

RemovedStill == removed => InPhase("flying") = {}

\* What a use has, it has since it was opened.
UnusedBlank == \A t \in fenced : phase[t] # "unused"

UsesInv == UsesTypeOK /\ DoneOver /\ OpenNow /\ FlyingYoung /\ RemovedStill /\ UnusedBlank

LEMMA InitUses == UInit => UsesInv
<1> SUFFICES ASSUME UInit PROVE UsesInv
  OBVIOUS
<1>1. UsesTypeOK
  BY DEF UInit, UsesTypeOK
<1>2. \A t \in UseIds : phase[t] = "unused"
  BY DEF UInit
<1>3. DoneOver /\ UnusedBlank
  BY DEF UInit, DoneOver, UnusedBlank
<1>4. OpenNow /\ FlyingYoung /\ RemovedStill
  BY <1>2 DEF OpenNow, FlyingYoung, RemovedStill, InPhase
<1>5. QED
  BY <1>1, <1>3, <1>4 DEF UsesInv

LEMMA BeginKeeps ==
  ASSUME UsesInv, Begin
  PROVE  UsesInv'
<1> USE UsesAssumption DEF UsesInv, Begin, InPhase
<1>1. UsesTypeOK'
  BY DEF UsesTypeOK, Passes
<1>2. DoneOver'
  BY DEF Passes, DoneOver
<1>3. OpenNow' /\ UnusedBlank'
  BY DEF OpenNow, UnusedBlank
<1>4. FlyingYoung' /\ RemovedStill'
  BY DEF FlyingYoung, RemovedStill, UsesTypeOK
<1>5. QED
  BY <1>1, <1>2, <1>3, <1>4

LEMMA OpenKeeps ==
  ASSUME UsesInv, NEW t \in UseIds, NEW hasFence \in BOOLEAN, Open(t, hasFence)
  PROVE  UsesInv'
<1> USE UsesAssumption DEF UsesInv, Open, InPhase
<1>1. UsesTypeOK'
  BY DEF UsesTypeOK
<1>2. DoneOver' /\ OpenNow' /\ UnusedBlank'
  BY DEF DoneOver, OpenNow, UnusedBlank, UsesTypeOK
<1>3. FlyingYoung' /\ RemovedStill'
  BY DEF FlyingYoung, RemovedStill, UsesTypeOK
<1>4. QED
  BY <1>1, <1>2, <1>3

LEMMA EndKeeps ==
  ASSUME UsesInv, End
  PROVE  UsesInv'
<1> USE UsesAssumption DEF UsesInv, End, InPhase
<1>1. UsesTypeOK'
  BY DEF UsesTypeOK
<1>2. DoneOver' /\ OpenNow' /\ UnusedBlank'
  BY DEF DoneOver, OpenNow, UnusedBlank, UsesTypeOK
<1>3. FlyingYoung' /\ RemovedStill'
  BY DEF FlyingYoung, OpenNow, RemovedStill, UsesTypeOK
<1>4. QED
  BY <1>1, <1>2, <1>3

LEMMA ProceedKeeps ==
  ASSUME UsesInv, Proceed
  PROVE  UsesInv'
<1> USE UsesAssumption DEF UsesInv, InPhase
<1>1. PICK finished \in SUBSET InPhase("flying"),
           reported \in SUBSET (fenced \ (claimed \cup InPhase("open"))) :
        /\ phase' = [t \in UseIds |-> IF t \in finished THEN "over" ELSE phase[t]]
        /\ claimed' = claimed \cup reported
        /\ Passes(InPhase("over") \cup finished)
        /\ UNCHANGED <<evals, inEvaluate, fenced, made, removed>>
  BY DEF Proceed
<1>2. UsesTypeOK'
  BY <1>1 DEF UsesTypeOK, Passes
<1>3. DoneOver' /\ OpenNow' /\ UnusedBlank'
  BY <1>1 DEF DoneOver, OpenNow, UnusedBlank, UsesTypeOK, Passes
<1>4. FlyingYoung' /\ RemovedStill'
  BY <1>1 DEF FlyingYoung, RemovedStill, UsesTypeOK
<1>5. QED
  BY <1>2, <1>3, <1>4

LEMMA RemoveKeeps ==
  ASSUME UsesInv, Remove
  PROVE  UsesInv'
BY UsesAssumption DEF UsesInv, Remove, InPhase, UsesTypeOK, DoneOver, OpenNow, FlyingYoung, RemovedStill, UnusedBlank

-----------------------------------------------------------------------------
(* The pool.                                                               *)

\* A wait is for a fenced slot, and for a use of the evaluate in progress.
WaitsOpen ==
  waiting # Idle => waiting.slot \in Fenced /\ phase[waiting.use] = "open"

\* What is tagged was opened.
TaggedUsed == \A i \in Slots : slots[i].use # 0 => phase[slots[i].use] # "unused"

\* The only list that may still read a slot is that of the use it is tagged with.
LastReads ==
  \A i \in Slots : \A u \in UseIds :
    readers[i][u] > 0 /\ phase[u] # "over" => u = slots[i].use /\ readers[i][u] = 1

PoolInv == UsesInv /\ PoolTypeOK /\ WaitsOpen /\ TaggedUsed /\ LastReads

\* What the pool takes for passed is over.
LEMMA PassedOver ==
  ASSUME PoolInv, NEW i \in Slots, slots[i].use # 0,
         slots[i].use \in done \/ Passed(i)
  PROVE  phase[slots[i].use] = "over"
<1> DEFINE t == slots[i].use
<1> USE UsesAssumption DEF PoolInv, UsesInv
<1>1. t \in UseIds /\ phase[t] # "unused"
  BY DEF PoolTypeOK, TaggedUsed, UseIds
<1>2. CASE t \in done
  BY <1>2 DEF DoneOver
<1>3. CASE t \notin fenced /\ evals >= made[t] + Deadline
  <2>1. t \notin claimed
    BY <1>3 DEF UsesTypeOK
  <2>2. evals \in Nat /\ made[t] \in Nat
    BY <1>1 DEF UsesTypeOK
  <2>3. phase[t] # "open"
    BY <1>1, <1>3, <2>2 DEF OpenNow
  <2>4. phase[t] # "flying"
    BY <1>1, <1>3, <2>1, <2>2 DEF FlyingYoung
  <2>5. QED
    BY <1>1, <2>3, <2>4 DEF UsesTypeOK
<1>4. QED
  BY <1>2, <1>3 DEF Passed

\* The scan takes a slot of its set, the wait one with a fence.
LEMMA FirstChosen ==
  ASSUME PoolTypeOK, NEW S \in SUBSET Slots, S # {}
  PROVE  First(S) \in S
<1> DEFINE f == [i \in S |-> Ahead(i)]
<1>1. \A i \in S : f[i] \in Nat
  BY PoolAssumption DEF Ahead, Slots, PoolTypeOK
<1>2. \E i \in S : \A k \in S : f[i] <= f[k]
  <2> HIDE DEF f
  <2>1. QED
    BY <1>1, LeastBy
<1>3. QED
  BY <1>2 DEF First

LEMMA OldestChosen ==
  ASSUME PoolTypeOK, Fenced # {}
  PROVE  Oldest \in Fenced
<1> DEFINE f == [i \in Fenced |-> slots[i].ticket]
<1>1. \A i \in Fenced : f[i] \in Nat
  BY DEF Fenced, PoolTypeOK
<1>2. \E i \in Fenced : \A k \in Fenced : f[i] <= f[k]
  <2> HIDE DEF f
  <2>1. QED
    BY <1>1, LeastBy
<1>3. QED
  BY <1>2 DEF Oldest

\* A slot whose tag is over, or that nobody took, may be tagged by an open use.
LEMMA TagKeeps ==
  ASSUME PoolInv, NEW i \in Slots, NEW t \in UseIds, Tag(i, t), phase[t] = "open",
         slots[i].use = 0 \/ phase[slots[i].use] = "over",
         UNCHANGED uvars, waiting' = Idle, refused' \in BOOLEAN, acquires' \in Nat
  PROVE  PoolInv'
<1> USE DEF PoolInv
<1>1. UsesInv'
  BY DEF UsesInv, uvars, UsesTypeOK, DoneOver, OpenNow, FlyingYoung, RemovedStill, UnusedBlank, InPhase
<1>2. PoolTypeOK'
  <2>1. Count \in Nat /\ Count > 0 /\ i \in Nat /\ cursor' \in Slots
    BY PoolAssumption DEF Slots, Tag
  <2>2. slots' \in [Slots -> [use : 0 .. MaxUses, ticket : Nat]] /\ ticket' \in Nat
    BY UsesAssumption DEF Tag, PoolTypeOK, UseIds
  <2>3. readers' \in [Slots -> [UseIds -> Nat]]
    BY DEF Tag, PoolTypeOK
  <2>4. cursor' \in Nat
    BY <2>1 DEF Slots
  <2>5. QED
    BY <2>1, <2>2, <2>3, <2>4 DEF PoolTypeOK
<1>3. WaitsOpen' /\ TaggedUsed'
  BY DEF WaitsOpen, TaggedUsed, Tag, PoolTypeOK, uvars
<1>4. LastReads'
  <2> SUFFICES ASSUME NEW k \in Slots, NEW u \in UseIds, readers'[k][u] > 0, phase'[u] # "over"
               PROVE  u = slots'[k].use /\ readers'[k][u] = 1
    BY DEF LastReads
  <2>1. phase' = phase
    BY DEF uvars
  <2>2. CASE k # i
    BY <2>1, <2>2 DEF Tag, LastReads, PoolTypeOK
  <2>3. CASE k = i /\ u # t
    <3>1. readers'[k][u] = readers[k][u] /\ u # 0
      BY <2>1, <2>3 DEF Tag, PoolTypeOK, UseIds
    <3>2. u = slots[k].use
      BY <2>1, <3>1 DEF LastReads
    <3>3. QED
      BY <2>1, <2>3, <3>1, <3>2
  <2>4. CASE k = i /\ u = t
    <3>1. readers'[k][u] = readers[k][u] + 1 /\ slots'[k].use = t /\ u # 0
      BY <2>4 DEF Tag, PoolTypeOK, UseIds
    <3>2. ~(readers[k][u] > 0)
      BY <2>1, <2>4, <3>1 DEF LastReads
    <3>3. readers[k][u] \in Nat
      BY DEF PoolTypeOK
    <3>4. QED
      BY <2>4, <3>1, <3>2, <3>3
  <2>5. QED
    BY <2>2, <2>3, <2>4
<1>5. QED
  BY <1>1, <1>2, <1>3, <1>4

\* A step of the contract moves uses forward and leaves the pool alone.
LEMMA ContractKeeps ==
  ASSUME PoolInv, UsesInv', UNCHANGED <<slots, cursor, ticket, waiting, readers>>,
         refused' \in BOOLEAN, acquires' \in Nat, fenced \subseteq fenced',
         \A t \in UseIds : phase[t] # "unused" => phase'[t] # "unused",
         \A t \in UseIds : phase[t] = "over" => phase'[t] = "over",
         waiting # Idle => phase'[waiting.use] = "open"
  PROVE  PoolInv'
<1> USE DEF PoolInv
<1>1. PoolTypeOK'
  BY DEF PoolTypeOK
<1>2. WaitsOpen'
  BY DEF WaitsOpen, Fenced
<1>3. TaggedUsed'
  BY DEF TaggedUsed, PoolTypeOK, UseIds
<1>4. LastReads'
  BY DEF LastReads
<1>5. QED
  BY <1>1, <1>2, <1>3, <1>4

LEMMA AcquireKeeps ==
  ASSUME PoolInv, NEW t \in UseIds, NEW nonBlocking \in BOOLEAN, Acquire(t, nonBlocking)
  PROVE  PoolInv'
<1> DEFINE free == {i \in Slots : Passed(i)}
<1>1. acquires' \in Nat
  BY DEF Acquire, PoolInv, PoolTypeOK
<1>2. CASE free # {} /\ Tag(First(free), t) /\ UNCHANGED <<waiting, refused>>
  <2>1. First(free) \in free
    BY <1>2, FirstChosen DEF PoolInv
  <2>2. slots[First(free)].use = 0 \/ phase[slots[First(free)].use] = "over"
    BY <2>1, PassedOver
  <2>3. waiting' = Idle /\ refused' \in BOOLEAN /\ UNCHANGED uvars /\ phase[t] = "open"
    BY <1>2 DEF Acquire, PoolInv, PoolTypeOK
  <2>4. QED
    BY <1>1, <1>2, <2>1, <2>2, <2>3, TagKeeps
<1>3. ASSUME UNCHANGED <<slots, ticket, cursor, readers>>, refused' \in BOOLEAN,
             \/ waiting' = waiting
             \/ Fenced # {} /\ waiting' = [slot |-> Oldest, use |-> t]
      PROVE  PoolInv'
  <2>1. UNCHANGED uvars /\ phase[t] = "open" /\ waiting = Idle
    BY DEF Acquire
  <2>2. UsesInv'
    BY <2>1 DEF PoolInv, UsesInv, uvars, UsesTypeOK, DoneOver, OpenNow, FlyingYoung, RemovedStill, UnusedBlank, InPhase
  <2>3. Fenced # {} => Oldest \in Fenced /\ Oldest \in Slots
    BY OldestChosen DEF PoolInv, Fenced
  <2>4. PoolTypeOK'
    BY <1>1, <1>3, <2>1, <2>3 DEF PoolInv, PoolTypeOK
  <2>5. WaitsOpen'
    BY <1>3, <2>1, <2>3 DEF WaitsOpen, Fenced, uvars
  <2>6. TaggedUsed' /\ LastReads'
    BY <1>3, <2>1 DEF PoolInv, TaggedUsed, LastReads, uvars
  <2>7. QED
    BY <2>2, <2>4, <2>5, <2>6 DEF PoolInv
<1>4. QED
  BY <1>2, <1>3 DEF Acquire, PoolInv, PoolTypeOK

LEMMA StepPool == PoolInv /\ [PNext]_pvars => PoolInv'
<1> SUFFICES ASSUME PoolInv, [PNext]_pvars PROVE PoolInv'
  OBVIOUS
<1> USE DEF PoolInv
<1>1. ASSUME NEW t \in UseIds, NEW nonBlocking \in BOOLEAN, Acquire(t, nonBlocking) PROVE PoolInv'
  BY <1>1, AcquireKeeps
<1>2. CASE WaitEnds
  <2>1. waiting.slot \in Slots /\ waiting.use \in UseIds /\ waiting.slot \in Fenced /\ phase[waiting.use] = "open"
    BY <1>2 DEF WaitEnds, WaitsOpen, PoolTypeOK, Fenced
  <2>2. slots[waiting.slot].use # 0
    BY <1>2, <2>1 DEF Fenced, UsesInv, UsesTypeOK, UseIds
  <2>3. phase[slots[waiting.slot].use] = "over"
    BY <1>2, <2>1, <2>2, PassedOver DEF WaitEnds
  <2>4. refused' \in BOOLEAN /\ acquires' \in Nat /\ waiting' = Idle /\ UNCHANGED uvars /\ Tag(waiting.slot, waiting.use)
    BY <1>2 DEF WaitEnds, PoolTypeOK
  <2>5. QED
    BY <2>1, <2>3, <2>4, TagKeeps
<1>3. CASE WaitFails
  <2>1. UsesInv'
    BY <1>3 DEF WaitFails, UsesInv, uvars, UsesTypeOK, DoneOver, OpenNow, FlyingYoung, RemovedStill, UnusedBlank, InPhase
  <2>2. QED
    BY <1>3, <2>1 DEF WaitFails, PoolTypeOK, WaitsOpen, TaggedUsed, LastReads, uvars
<1>4. CASE PBegin
  <2>1. waiting = Idle
    BY <1>4 DEF PBegin, Begin, UsesInv, OpenNow, WaitsOpen, PoolTypeOK
  <2>2. UsesInv'
    BY <1>4, BeginKeeps DEF PBegin
  <2>3. QED
    BY <1>4, <2>1, <2>2, ContractKeeps DEF PBegin, Begin
<1>5. CASE PEvaluate
  <2>1. waiting = Idle /\ UNCHANGED poolVars
    BY <1>5 DEF PEvaluate
  <2>2. CASE End
    BY <2>1, <2>2, EndKeeps, ContractKeeps DEF End, poolVars, PoolTypeOK, UsesInv, UsesTypeOK
  <2>3. ASSUME NEW t \in UseIds, NEW hasFence \in BOOLEAN, Open(t, hasFence) PROVE PoolInv'
    BY <2>1, <2>3, OpenKeeps, ContractKeeps DEF Open, poolVars, PoolTypeOK, UsesInv, UsesTypeOK
  <2>4. QED
    BY <1>5, <2>2, <2>3 DEF PEvaluate
<1>6. CASE (Proceed \/ Remove) /\ UNCHANGED poolVars
  <2>1. UsesInv'
    BY <1>6, ProceedKeeps, RemoveKeeps
  <2>2. /\ fenced' = fenced
        /\ \A t \in UseIds : phase'[t] = phase[t] \/ (phase[t] = "flying" /\ phase'[t] = "over")
    <3>1. CASE Proceed
      <4>1. PICK finished \in SUBSET InPhase("flying") :
              phase' = [t \in UseIds |-> IF t \in finished THEN "over" ELSE phase[t]] /\ fenced' = fenced
        BY <3>1 DEF Proceed
      <4>2. QED
        BY <4>1 DEF InPhase, UsesInv, UsesTypeOK
    <3>2. CASE Remove
      BY <3>2 DEF Remove, UsesInv, UsesTypeOK
    <3>3. QED
      BY <1>6, <3>1, <3>2
  <2>3. waiting # Idle => waiting.use \in UseIds /\ phase[waiting.use] = "open"
    BY DEF WaitsOpen, PoolTypeOK
  <2>4. QED
    BY <1>6, <2>1, <2>2, <2>3, ContractKeeps DEF poolVars, PoolTypeOK
<1>7. CASE UNCHANGED pvars
  <2>1. UsesInv'
    BY <1>7 DEF pvars, UsesInv, uvars, UsesTypeOK, DoneOver, OpenNow, FlyingYoung, RemovedStill, UnusedBlank, InPhase
  <2>2. QED
    BY <1>7, <2>1 DEF pvars, poolVars, PoolTypeOK, WaitsOpen, TaggedUsed, LastReads, uvars, Fenced
<1>8. QED
  BY <1>1, <1>2, <1>3, <1>4, <1>5, <1>6, <1>7 DEF PNext

LEMMA InitPool == PInit => PoolInv
<1> SUFFICES ASSUME PInit PROVE PoolInv
  OBVIOUS
<1>1. UsesInv
  BY InitUses DEF PInit
<1>2. PoolTypeOK
  <2>1. cursor \in Nat /\ (Count > 0 => cursor \in Slots) /\ ticket \in Nat
    BY PoolAssumption DEF PInit, Slots
  <2>2. slots \in [Slots -> [use : 0 .. MaxUses, ticket : Nat]]
    BY UsesAssumption DEF PInit
  <2>3. waiting = Idle /\ refused \in BOOLEAN /\ acquires \in Nat /\ readers \in [Slots -> [UseIds -> Nat]]
    BY DEF PInit
  <2>4. QED
    BY <2>1, <2>2, <2>3 DEF PoolTypeOK
<1>3. WaitsOpen /\ TaggedUsed /\ LastReads
  BY DEF PInit, WaitsOpen, TaggedUsed, LastReads
<1>4. QED
  BY <1>1, <1>2, <1>3 DEF PoolInv

\* No slot is handed out while a list that was written into it may still run, and no list
\* gets the same slot twice: whatever the pool's size, the window and the uses.
THEOREM NeverRewritten == PSpec => []SlotsApart
<1>1. PoolInv => SlotsApart
  BY DEF PoolInv, LastReads, SlotsApart
<1>2. QED
  BY <1>1, InitPool, StepPool, PTL DEF PSpec

\* Every reachable state of a pool is well typed.
THEOREM PoolTyped == PSpec => []PoolTypeOK
<1>1. PoolInv => PoolTypeOK
  BY DEF PoolInv
<1>2. QED
  BY <1>1, InitPool, StepPool, PTL DEF PSpec

-----------------------------------------------------------------------------
(* Sized: the slots the last Deadline + 1 evaluates can hold.                *)

\* A use is opened once, in an evaluate that has begun.
MadePast == \A t \in UseIds : made[t] <= evals

\* While the device is there, an unclaimed fence does not outlive its window.
ExpiredPasses ==
  ~removed => \A t \in fenced \ claimed : t \in done \/ evals - made[t] <= Deadline

\* The slots that uses of evaluate e hold.
TakenIn(e) == {i \in Slots : slots[i].use # 0 /\ made[slots[i].use] = e}

\* No evaluate took more slots than it made Acquires, one of which may wait.
TakenBounded ==
  /\ acquires <= PerEvaluate
  /\ \A e \in Nat : e < evals => Cardinality(TakenIn(e)) <= PerEvaluate
  /\ Cardinality(TakenIn(evals)) + (IF waiting = Idle THEN 0 ELSE 1) <= acquires

\* An Acquire that found nothing found a claimed use, whether it waits or was refused.
DryOfClaims ==
  /\ refused => waiting = Idle
  /\ Count >= (Deadline + 1) * PerEvaluate /\ (refused \/ waiting # Idle) /\ ~removed =>
       \E i \in Slots : slots[i].use \in claimed

SizeInv == MadePast /\ ExpiredPasses /\ TakenBounded /\ DryOfClaims

\* A set of slots can be counted.
LEMMA SlotsFinite ==
  ASSUME NEW S \in SUBSET Slots
  PROVE  /\ IsFiniteSet(Slots) /\ Cardinality(Slots) = Count
         /\ IsFiniteSet(S) /\ Cardinality(S) \in Nat
<1>1. IsFiniteSet(Slots) /\ Cardinality(Slots) = Count
  <2>1. 0 \in Int /\ Count - 1 \in Int /\ Count \in Nat
    BY PoolAssumption
  <2>2. IsFiniteSet(0 .. Count - 1) /\ Cardinality(0 .. Count - 1) = IF 0 > Count - 1 THEN 0 ELSE Count - 1 - 0 + 1
    BY <2>1, FS_Interval
  <2>3. QED
    BY <2>1, <2>2 DEF Slots
<1>2. IsFiniteSet(S)
  BY <1>1, FS_Subset
<1>3. QED
  BY <1>1, <1>2, FS_CardinalityType

\* The slots held by the uses of the last k + 1 evaluates: at most k windows full beside
\* those of the evaluate in progress.
LEMMA WindowBound ==
  ASSUME PoolInv, SizeInv, NEW k \in Nat, k <= evals
  PROVE  Cardinality({i \in Slots : slots[i].use # 0 /\ made[slots[i].use] >= evals - k})
           <= acquires + k * PerEvaluate
<1> DEFINE W(n) == {i \in Slots : slots[i].use # 0 /\ made[slots[i].use] >= evals - n}
           Over == {n \in Nat : n <= evals /\ ~(Cardinality(W(n)) <= acquires + n * PerEvaluate)}
<1>1. SUFFICES ASSUME k \in Over PROVE FALSE
  OBVIOUS
<1>2. PICK n \in Over : \A m \in Over : n <= m
  <2>1. Over \in SUBSET Nat /\ Over # {}
    BY <1>1
  <2> HIDE DEF Over
  <2>2. QED
    BY <2>1, Least
<1>3. /\ evals \in Nat /\ acquires \in Nat /\ PerEvaluate \in Nat /\ n \in Nat /\ n <= evals
      /\ \A i \in Slots : slots[i].use # 0 =>
           made[slots[i].use] \in Nat /\ made[slots[i].use] <= evals
  BY PoolAssumption DEF PoolInv, PoolTypeOK, UsesInv, UsesTypeOK, UseIds, SizeInv, MadePast
<1>4. CASE n = 0
  <2>1. W(n) = TakenIn(evals)
    BY <1>3, <1>4 DEF TakenIn
  <2>2. Cardinality(TakenIn(evals)) \in Nat
    BY SlotsFinite DEF TakenIn
  <2>3. Cardinality(W(n)) <= acquires
    <3> HIDE DEF W
    <3>1. Cardinality(TakenIn(evals)) + (IF waiting = Idle THEN 0 ELSE 1) <= acquires
      BY DEF SizeInv, TakenBounded
    <3>2. QED
      BY <1>3, <2>1, <2>2, <3>1
  <2>4. n * PerEvaluate = 0
    BY <1>3, <1>4
  <2>5. QED
    BY <1>3, <2>3, <2>4
<1>5. CASE n # 0
  <2>1. PICK m \in Nat : n = m + 1
    BY <1>3, <1>5
  <2>2. m \notin Over
    BY <1>2, <1>3, <2>1
  <2>3. Cardinality(W(m)) <= acquires + m * PerEvaluate
    BY <1>3, <2>1, <2>2
  <2>4. Cardinality(TakenIn(evals - n)) <= PerEvaluate
    BY <1>3, <1>5 DEF SizeInv, TakenBounded
  <2>5. W(n) = W(m) \cup TakenIn(evals - n)
    BY <1>3, <2>1 DEF TakenIn
  <2>6. /\ IsFiniteSet(W(m)) /\ Cardinality(W(m)) \in Nat
        /\ IsFiniteSet(TakenIn(evals - n)) /\ Cardinality(TakenIn(evals - n)) \in Nat
        /\ Cardinality(W(n)) \in Nat
    BY SlotsFinite DEF TakenIn
  <2>7. Cardinality(W(m) \cap TakenIn(evals - n)) \in Nat
    BY SlotsFinite
  <2>8. Cardinality(W(n)) = Cardinality(W(m)) + Cardinality(TakenIn(evals - n))
                              - Cardinality(W(m) \cap TakenIn(evals - n))
    <3> HIDE DEF W
    <3>1. QED
      BY <2>5, <2>6, FS_Union
  <2>9. n * PerEvaluate = m * PerEvaluate + PerEvaluate /\ m * PerEvaluate \in Nat
    BY <1>3, <2>1
  <2>10. Cardinality(W(n)) <= acquires + n * PerEvaluate
    <3> HIDE DEF W
    <3>1. QED
      BY <1>3, <2>3, <2>4, <2>6, <2>7, <2>8, <2>9
  <2>11. QED
    BY <2>10
<1>6. QED
  BY <1>4, <1>5

\* A pool of the right size in which no slot passed holds a use that was claimed.
LEMMA NothingPassed ==
  ASSUME PoolInv, SizeInv, ~removed, acquires < PerEvaluate,
         Count >= (Deadline + 1) * PerEvaluate,
         \A i \in Slots : ~Passed(i)
  PROVE  \E i \in Slots : slots[i].use \in claimed
<1> SUFFICES ASSUME \A i \in Slots : slots[i].use \notin claimed PROVE FALSE
  OBVIOUS
<1>1. /\ evals \in Nat /\ acquires \in Nat /\ PerEvaluate \in Nat /\ Deadline \in Nat /\ Count \in Nat
  BY PoolAssumption, UsesAssumption DEF PoolInv, PoolTypeOK, UsesInv, UsesTypeOK
<1>2. ASSUME NEW i \in Slots
      PROVE  slots[i].use # 0 /\ made[slots[i].use] \in Nat /\ made[slots[i].use] >= evals - Deadline
  <2>1. slots[i].use # 0
    BY DEF Passed, PoolInv, UsesInv, UsesTypeOK, UseIds
  <2>2. slots[i].use \in UseIds /\ made[slots[i].use] \in Nat
    BY <2>1 DEF PoolInv, PoolTypeOK, UsesInv, UsesTypeOK, UseIds
  <2>3. CASE slots[i].use \in fenced
    <3>1. slots[i].use \notin done /\ slots[i].use \notin claimed
      BY <2>3 DEF Passed
    <3>2. evals - made[slots[i].use] <= Deadline
      BY <2>3, <3>1 DEF SizeInv, ExpiredPasses
    <3>3. QED
      BY <1>1, <2>1, <2>2, <3>2
  <2>4. CASE slots[i].use \notin fenced
    BY <1>1, <2>1, <2>2, <2>4 DEF Passed
  <2>5. QED
    BY <2>1, <2>2, <2>3, <2>4
<1>3. PICK k \in Nat : k <= evals /\ k <= Deadline /\ \A i \in Slots : made[slots[i].use] >= evals - k
  <2>1. CASE Deadline <= evals
    BY <1>1, <1>2, <2>1
  <2>2. CASE evals < Deadline
    BY <1>1, <1>2, <2>2
  <2>3. QED
    BY <1>1, <2>1, <2>2
<1>4. {i \in Slots : slots[i].use # 0 /\ made[slots[i].use] >= evals - k} = Slots
  BY <1>2, <1>3
<1>5. Count <= acquires + k * PerEvaluate
  BY <1>3, <1>4, WindowBound, SlotsFinite
<1>6. k * PerEvaluate <= Deadline * PerEvaluate
  BY <1>1, <1>3
<1>7. (Deadline + 1) * PerEvaluate = Deadline * PerEvaluate + PerEvaluate
  BY <1>1
<1>8. QED
  BY <1>1, <1>3, <1>5, <1>6, <1>7

\* The slots an evaluate holds before and after slot i is tagged by t.
LEMMA TagBounded ==
  ASSUME PoolInv, NEW i \in Slots, NEW t \in UseIds, Tag(i, t), phase[t] = "open", UNCHANGED uvars
  PROVE  /\ \A e \in Nat : e # evals => Cardinality(TakenIn(e)') <= Cardinality(TakenIn(e))
         /\ Cardinality(TakenIn(evals)') <= Cardinality(TakenIn(evals)) + 1
<1>1. /\ \A k \in Slots : slots'[k].use = IF k = i THEN t ELSE slots[k].use
      /\ made[t] = evals /\ made' = made /\ evals' = evals /\ t # 0
  BY DEF Tag, PoolInv, PoolTypeOK, UsesInv, OpenNow, uvars, UseIds
<1>2. ASSUME NEW e \in Nat, e # evals PROVE Cardinality(TakenIn(e)') <= Cardinality(TakenIn(e))
  <2>1. TakenIn(e)' \subseteq TakenIn(e)
    BY <1>1, <1>2 DEF TakenIn
  <2>2. IsFiniteSet(TakenIn(e))
    BY SlotsFinite DEF TakenIn
  <2>3. QED
    BY <2>1, <2>2, FS_Subset
<1>3. Cardinality(TakenIn(evals)') <= Cardinality(TakenIn(evals)) + 1
  <2>1. TakenIn(evals)' \subseteq TakenIn(evals) \cup {i}
    BY <1>1 DEF TakenIn
  <2>2. IsFiniteSet(TakenIn(evals)) /\ Cardinality(TakenIn(evals)) \in Nat
    BY SlotsFinite DEF TakenIn
  <2>3. /\ IsFiniteSet(TakenIn(evals) \cup {i})
        /\ Cardinality(TakenIn(evals) \cup {i}) <= Cardinality(TakenIn(evals)) + 1
        /\ Cardinality(TakenIn(evals) \cup {i}) \in Nat
    <3>1. /\ IsFiniteSet(TakenIn(evals) \cup {i})
          /\ Cardinality(TakenIn(evals) \cup {i}) =
               IF i \in TakenIn(evals) THEN Cardinality(TakenIn(evals)) ELSE Cardinality(TakenIn(evals)) + 1
      BY <2>2, FS_AddElement
    <3>2. QED
      BY <2>2, <3>1
  <2>4. TakenIn(evals)' \in SUBSET Slots
    BY DEF TakenIn, Slots
  <2>5. Cardinality(TakenIn(evals)') \in Nat
    BY <2>4, SlotsFinite
  <2>6. Cardinality(TakenIn(evals)') <= Cardinality(TakenIn(evals) \cup {i})
    BY <2>1, <2>3, FS_Subset
  <2>7. QED
    BY <2>2, <2>3, <2>5, <2>6
<1>4. QED
  BY <1>2, <1>3

LEMMA AcquireSized ==
  ASSUME PoolInv, SizeInv, NEW t \in UseIds, NEW nonBlocking \in BOOLEAN, Acquire(t, nonBlocking)
  PROVE  SizeInv'
<1> DEFINE free == {i \in Slots : Passed(i)}
<1>1. /\ phase[t] = "open" /\ waiting = Idle /\ refused = FALSE /\ UNCHANGED uvars
      /\ acquires < PerEvaluate /\ acquires' = acquires + 1 /\ acquires \in Nat /\ PerEvaluate \in Nat
  BY PoolAssumption DEF Acquire, PoolInv, PoolTypeOK
<1>2. MadePast' /\ ExpiredPasses'
  BY <1>1 DEF SizeInv, MadePast, ExpiredPasses, uvars
<1>3. /\ Cardinality(TakenIn(evals)) <= acquires
      /\ \A e \in Nat : e < evals => Cardinality(TakenIn(e)) <= PerEvaluate
      /\ evals \in Nat /\ evals' = evals
      /\ \A e \in Nat : Cardinality(TakenIn(e)) \in Nat /\ Cardinality(TakenIn(e)') \in Nat
  <2>1. Cardinality(TakenIn(evals)) \in Nat
    BY SlotsFinite DEF TakenIn
  <2>2. \A e \in Nat : TakenIn(e) \in SUBSET Slots /\ TakenIn(e)' \in SUBSET Slots
    BY DEF TakenIn, Slots
  <2>3. QED
    BY <1>1, <2>1, <2>2, SlotsFinite DEF SizeInv, TakenBounded, uvars, PoolInv, UsesInv, UsesTypeOK
<1>4. CASE free # {} /\ Tag(First(free), t) /\ UNCHANGED <<waiting, refused>>
  <2>1. First(free) \in Slots
    BY <1>4, FirstChosen DEF PoolInv
  <2>2. /\ \A e \in Nat : e # evals => Cardinality(TakenIn(e)') <= Cardinality(TakenIn(e))
        /\ Cardinality(TakenIn(evals)') <= Cardinality(TakenIn(evals)) + 1
    BY <1>1, <1>4, <2>1, TagBounded
  <2>3. TakenBounded'
    BY <1>1, <1>3, <1>4, <2>2 DEF TakenBounded
  <2>4. DryOfClaims'
    BY <1>1, <1>4 DEF DryOfClaims
  <2>5. QED
    BY <1>2, <2>3, <2>4 DEF SizeInv
<1>5. ASSUME free = {}, UNCHANGED slots, waiting' # Idle => refused' = FALSE
      PROVE  SizeInv'
  <2>1. \A e \in Nat : TakenIn(e)' = TakenIn(e)
    BY <1>1, <1>5 DEF TakenIn, uvars
  <2>2. TakenIn(evals)' = TakenIn(evals)
    BY <1>1, <1>5 DEF TakenIn, uvars
  <2>3. TakenBounded'
    BY <1>1, <1>3, <2>1, <2>2 DEF TakenBounded
  <2>4. Count >= (Deadline + 1) * PerEvaluate /\ ~removed => \E i \in Slots : slots[i].use \in claimed
    BY <1>1, <1>5, NothingPassed
  <2>5. refused' => waiting' = Idle
    BY <1>5
  <2>6. DryOfClaims'
    BY <1>1, <1>5, <2>4, <2>5 DEF DryOfClaims, uvars
  <2>7. QED
    BY <1>2, <2>3, <2>6 DEF SizeInv
<1>6. QED
  BY <1>1, <1>4, <1>5 DEF Acquire

LEMMA WaitSized ==
  ASSUME PoolInv, SizeInv, WaitEnds \/ WaitFails
  PROVE  SizeInv'
<1>1. /\ UNCHANGED <<evals, phase, fenced, claimed, made, done, removed, acquires>>
      /\ UNCHANGED uvars /\ waiting # Idle /\ waiting' = Idle /\ refused = FALSE
  BY DEF WaitEnds, WaitFails, uvars, SizeInv, DryOfClaims, PoolInv, PoolTypeOK
<1>2. MadePast' /\ ExpiredPasses'
  BY <1>1 DEF SizeInv, MadePast, ExpiredPasses
<1>3. /\ Cardinality(TakenIn(evals)) + 1 <= acquires /\ acquires <= PerEvaluate
      /\ \A e \in Nat : e < evals => Cardinality(TakenIn(e)) <= PerEvaluate
      /\ acquires \in Nat /\ PerEvaluate \in Nat /\ evals \in Nat
      /\ \A e \in Nat : Cardinality(TakenIn(e)) \in Nat /\ Cardinality(TakenIn(e)') \in Nat
  <2>1. \A e \in Nat : TakenIn(e) \in SUBSET Slots /\ TakenIn(e)' \in SUBSET Slots
    BY DEF TakenIn, Slots
  <2>2. QED
    BY <1>1, <2>1, SlotsFinite, PoolAssumption
       DEF SizeInv, TakenBounded, PoolInv, PoolTypeOK, UsesInv, UsesTypeOK
<1>4. CASE WaitEnds
  <2>1. waiting.slot \in Slots /\ waiting.use \in UseIds /\ phase[waiting.use] = "open"
    BY <1>1 DEF PoolInv, WaitsOpen, PoolTypeOK, Fenced
  <2>2. /\ \A e \in Nat : e # evals => Cardinality(TakenIn(e)') <= Cardinality(TakenIn(e))
        /\ Cardinality(TakenIn(evals)') <= Cardinality(TakenIn(evals)) + 1
    BY <1>1, <1>4, <2>1, TagBounded DEF WaitEnds
  <2>3. TakenBounded'
    BY <1>1, <1>3, <2>2 DEF TakenBounded
  <2>4. DryOfClaims'
    BY <1>1, <1>4 DEF DryOfClaims, WaitEnds
  <2>5. QED
    BY <1>2, <2>3, <2>4 DEF SizeInv
<1>5. CASE WaitFails
  <2>1. UNCHANGED slots
    BY <1>5 DEF WaitFails
  <2>2. /\ \A e \in Nat : TakenIn(e)' = TakenIn(e)
        /\ TakenIn(evals)' = TakenIn(evals)
    BY <1>1, <2>1 DEF TakenIn
  <2>3. TakenBounded'
    BY <1>1, <1>3, <2>2 DEF TakenBounded
  <2>4. DryOfClaims'
    BY <1>1, <2>1 DEF SizeInv, DryOfClaims
  <2>5. QED
    BY <1>2, <2>3, <2>4 DEF SizeInv
<1>6. QED
  BY <1>4, <1>5

LEMMA PBeginSized ==
  ASSUME PoolInv, SizeInv, PBegin
  PROVE  SizeInv'
<1>1. /\ evals' = evals + 1 /\ evals \in Nat /\ refused' = FALSE /\ acquires' = 0
      /\ UNCHANGED <<slots, waiting, fenced, claimed, made, removed>>
      /\ made \in [UseIds -> Nat] /\ waiting = Idle
      /\ acquires \in Nat /\ acquires <= PerEvaluate /\ PerEvaluate \in Nat
      /\ done \subseteq done' /\ (~removed => Overdue \subseteq done')
  BY PoolAssumption DEF PBegin, Begin, Passes, PoolInv, UsesInv, UsesTypeOK, OpenNow, WaitsOpen, PoolTypeOK, SizeInv, TakenBounded
<1>2. MadePast'
  BY <1>1 DEF SizeInv, MadePast
<1>3. ExpiredPasses'
  <2> SUFFICES ASSUME ~removed', NEW u \in fenced' \ claimed', u \notin done'
               PROVE  evals' - made'[u] <= Deadline
    BY DEF ExpiredPasses
  <2>1. ~removed /\ u \in fenced /\ u \notin claimed /\ made'[u] = made[u]
    BY <1>1
  <2>2. u \in UseIds /\ made[u] \in Nat /\ u \notin Overdue
    BY <1>1, <2>1 DEF PoolInv, UsesInv, UsesTypeOK
  <2>3. ~(evals - made[u] >= Deadline)
    BY <2>1, <2>2 DEF Overdue
  <2>4. QED
    BY <1>1, <2>1, <2>2, <2>3, UsesAssumption
<1>4. TakenBounded'
  <2>1. \A e \in Nat : TakenIn(e)' = TakenIn(e)
    BY <1>1 DEF TakenIn
  <2>2. TakenIn(evals)' = {}
    <3>1. \A i \in Slots : slots[i].use # 0 => made[slots[i].use] # evals + 1
      <4>1. \A i \in Slots : slots[i].use # 0 => slots[i].use \in UseIds
        BY DEF PoolInv, PoolTypeOK, UseIds
      <4>2. QED
        BY <1>1, <4>1 DEF SizeInv, MadePast
    <3>2. QED
      BY <1>1, <3>1 DEF TakenIn
  <2>3. Cardinality(TakenIn(evals)') = 0
    BY <2>2, FS_EmptySet
  <2>4. Cardinality(TakenIn(evals)) <= PerEvaluate
    <3>1. Cardinality(TakenIn(evals)) \in Nat
      BY SlotsFinite DEF TakenIn
    <3>2. QED
      BY <1>1, <3>1 DEF SizeInv, TakenBounded
  <2>5. \A e \in Nat : e < evals + 1 => Cardinality(TakenIn(e)') <= PerEvaluate
    BY <1>1, <2>1, <2>4 DEF SizeInv, TakenBounded
  <2>6. QED
    BY <1>1, <2>3, <2>5 DEF TakenBounded
<1>5. DryOfClaims'
  BY <1>1 DEF DryOfClaims
<1>6. QED
  BY <1>2, <1>3, <1>4, <1>5 DEF SizeInv

\* A step in which the contract's uses move on leaves the count alone.
LEMMA UsesMoveSized ==
  ASSUME PoolInv, SizeInv, UNCHANGED <<evals, slots, waiting, refused, acquires>>,
         removed => removed', claimed \subseteq claimed',
         \A u \in UseIds : \/ made'[u] = made[u]
                           \/ phase[u] = "unused" /\ made'[u] = evals,
         \A u \in fenced' \ claimed' :
            \/ u \in fenced \ claimed /\ made'[u] = made[u]
            \/ made'[u] = evals,
         ~removed' => done \subseteq done'
  PROVE  SizeInv'
<1>1. evals \in Nat
  BY DEF PoolInv, UsesInv, UsesTypeOK
<1>2. MadePast'
  BY <1>1 DEF SizeInv, MadePast
<1>3. ExpiredPasses'
  BY <1>1, UsesAssumption DEF SizeInv, ExpiredPasses
<1>4. TakenBounded'
  <2>1. \A i \in Slots : slots[i].use # 0 => made'[slots[i].use] = made[slots[i].use]
    BY DEF PoolInv, PoolTypeOK, TaggedUsed, UseIds
  <2>2. /\ \A e \in Nat : TakenIn(e)' = TakenIn(e)
        /\ TakenIn(evals)' = TakenIn(evals)
    BY <2>1 DEF TakenIn
  <2>3. QED
    BY <2>2 DEF SizeInv, TakenBounded
<1>5. DryOfClaims'
  BY DEF SizeInv, DryOfClaims
<1>6. QED
  BY <1>2, <1>3, <1>4, <1>5 DEF SizeInv

LEMMA StepSized ==
  ASSUME PoolInv, SizeInv, [PNext]_pvars
  PROVE  SizeInv'
<1>0. UsesTypeOK
  BY DEF PoolInv, UsesInv
<1>1. CASE PEvaluate
  <2>1. ASSUME NEW t \in UseIds, NEW hasFence \in BOOLEAN, Open(t, hasFence) PROVE SizeInv'
    <3>1. /\ phase[t] = "unused" /\ \A u \in UseIds : made'[u] = IF u = t THEN evals ELSE made[u]
          /\ UNCHANGED <<evals, slots, waiting, refused, acquires, claimed, done, removed>>
          /\ \A u \in fenced' : u \in UseIds /\ (u # t => u \in fenced)
      BY <1>0, <1>1, <2>1 DEF PEvaluate, Open, UsesTypeOK, poolVars
    <3>2. QED
      BY <3>1, UsesMoveSized
  <2>2. CASE End
    BY <1>1, <2>2, UsesMoveSized DEF PEvaluate, End, poolVars
  <2>3. QED
    BY <1>1, <2>1, <2>2 DEF PEvaluate
<1>2. CASE (Proceed \/ Remove) /\ UNCHANGED poolVars
  <2>1. CASE Proceed
    BY <1>2, <2>1, UsesMoveSized DEF Proceed, Passes, poolVars
  <2>2. CASE Remove
    BY <1>2, <2>2, UsesMoveSized DEF Remove, poolVars
  <2>3. QED
    BY <1>2, <2>1, <2>2
<1>3. CASE UNCHANGED pvars
  BY <1>3, UsesMoveSized DEF pvars, uvars, poolVars
<1>4. QED
  BY <1>1, <1>2, <1>3, AcquireSized, WaitSized, PBeginSized DEF PNext

LEMMA InitSized == PInit => SizeInv
<1> SUFFICES ASSUME PInit PROVE SizeInv
  OBVIOUS
<1>1. \A e \in Nat : TakenIn(e) = {}
  BY DEF PInit, TakenIn
<1>2. evals = 0 /\ acquires = 0 /\ waiting = Idle /\ refused = FALSE /\ fenced = {}
      /\ \A t \in UseIds : made[t] = 0
  BY DEF PInit, UInit
<1>3. TakenBounded
  BY <1>1, <1>2, FS_EmptySet, PoolAssumption DEF TakenBounded
<1>4. MadePast /\ ExpiredPasses /\ DryOfClaims
  BY <1>2 DEF MadePast, ExpiredPasses, DryOfClaims
<1>5. QED
  BY <1>3, <1>4 DEF SizeInv

\* A pool of (Deadline + 1) * PerEvaluate slots refuses nobody as long as the host's lists go
\* unreported: the windows of the cancelled uses cover it, for every window and demand.
THEOREM NeverDry == PSpec => []Sized
<1>1. PInit => PoolInv /\ SizeInv
  BY InitPool, InitSized
<1>2. PoolInv /\ SizeInv /\ [PNext]_pvars => (PoolInv /\ SizeInv)'
  BY StepPool, StepSized
<1>3. PoolInv /\ SizeInv => Sized
  BY DEF SizeInv, DryOfClaims, Sized
<1>4. QED
  BY <1>1, <1>2, <1>3, PTL DEF PSpec
=============================================================================

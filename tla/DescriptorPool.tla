---------------------------- MODULE DescriptorPool ----------------------------
(***************************************************************************)
(* core/gpu/descriptor_pool.{h,cpp}, with SetRing on top of it and the     *)
(* table of temporal/resources.cpp as its user: a ring of slots the CPU    *)
(* writes and the GPU reads later.  A slot is tagged with the use that     *)
(* took it, its fence point or, without a fence, a deadline in evaluates,  *)
(* and given out again once that tag has passed.                           *)
(*                                                                         *)
(* The pool sees of the GPU what GpuUses promises and nothing more; it is  *)
(* used under the core's mutex, which a wait for a slot keeps, so that no  *)
(* evaluate and no drain runs while an Acquire waits.                      *)
(***************************************************************************)
EXTENDS GpuUses

CONSTANTS Count,         \* slots
          PerEvaluate    \* Acquires one evaluate makes at most

ASSUME PoolAssumption == Count \in Nat /\ PerEvaluate \in Nat

VARIABLES
  slots,      \* [slot -> the use that took it last (0: none) and its ticket]
  cursor, ticket,
  waiting,    \* the slot and the use of an Acquire that waits
  refused,    \* the frame was refused a slot (Resources::exhausted)
  acquires,   \* Acquires of the evaluate in progress
  readers     \* [slot -> [use -> how often its list took the slot, while it may read it]] (history)

poolVars == <<slots, cursor, ticket, waiting, refused, acquires, readers>>
pvars == <<uvars, poolVars>>

Slots == 0 .. Count - 1
NoSlot == -1
Idle == [slot |-> NoSlot, use |-> 0]

\* A fence point passes with its fence, a deadline with the evaluate count; a slot nobody
\* took has deadline 0.
Passed(i) ==
  LET t == slots[i].use IN
  IF t \in fenced THEN t \in done ELSE t = 0 \/ evals >= made[t] + Deadline

\* The scan starts at the cursor and takes the first slot that passed.
Ahead(i) == IF i >= cursor THEN i - cursor ELSE Count + i - cursor
First(S) == CHOOSE i \in S : \A k \in S : Ahead(i) <= Ahead(k)

\* The oldest slot tagged with a fence: the one a wait is for.
Fenced == {i \in Slots : slots[i].use \in fenced}
Oldest == CHOOSE i \in Fenced : \A k \in Fenced : slots[i].ticket <= slots[k].ticket

\* The caller writes the slot at once; its list reads it until its use is over.
Tag(i, t) ==
  /\ slots' = [slots EXCEPT ![i] = [use |-> t, ticket |-> ticket + 1]]
  /\ ticket' = ticket + 1
  /\ cursor' = (i + 1) % Count
  /\ readers' = [readers EXCEPT ![i] = [u \in UseIds |->
       IF u = t THEN @[u] + 1 ELSE IF phase[u] = "over" THEN 0 ELSE @[u]]]

-----------------------------------------------------------------------------
PInit ==
  /\ UInit
  /\ slots = [i \in Slots |-> [use |-> 0, ticket |-> 0]]
  /\ cursor = 0 /\ ticket = 0
  /\ waiting = Idle
  /\ refused = FALSE /\ acquires = 0
  /\ readers = [i \in Slots |-> [u \in UseIds |-> 0]]

\* Acquire for a use of the evaluate in progress; whoever was refused gives the frame up.
Acquire(t, nonBlocking) ==
  LET free == {i \in Slots : Passed(i)} IN
  /\ phase[t] = "open" /\ waiting = Idle /\ ~refused
  /\ acquires < PerEvaluate /\ acquires' = acquires + 1
  /\ \/ /\ free # {}
        /\ Tag(First(free), t)
        /\ UNCHANGED <<waiting, refused>>
     \/ /\ free = {} /\ Fenced # {} /\ ~nonBlocking
        /\ waiting' = [slot |-> Oldest, use |-> t]
        /\ UNCHANGED <<slots, ticket, cursor, readers, refused>>
     \/ /\ free = {} /\ (Fenced = {} \/ nonBlocking)
        /\ refused' = TRUE
        /\ UNCHANGED <<slots, ticket, cursor, readers, waiting>>
  /\ UNCHANGED uvars

WaitEndsAnyhow ==   \* a mutant of WaitEnds: the event was left signalled by an older wait
  /\ waiting # Idle
  /\ Tag(waiting.slot, waiting.use)
  /\ waiting' = Idle
  /\ UNCHANGED <<uvars, refused, acquires>>

\* WaitFenceValue answers true only for a fence it has read as passed.
WaitEnds ==
  /\ waiting # Idle /\ slots[waiting.slot].use \in done
  /\ Tag(waiting.slot, waiting.use)
  /\ waiting' = Idle
  /\ UNCHANGED <<uvars, refused, acquires>>

\* kPoolWaitMilliseconds are over, or the device is gone.
WaitFails ==
  /\ waiting # Idle /\ slots[waiting.slot].use \notin done
  /\ waiting' = Idle /\ refused' = TRUE
  /\ UNCHANGED <<uvars, slots, cursor, ticket, acquires, readers>>

PBegin ==
  /\ Begin /\ refused' = FALSE /\ acquires' = 0
  /\ UNCHANGED <<slots, cursor, ticket, waiting, readers>>

PEvaluate ==
  /\ waiting = Idle
  /\ End \/ \E t \in UseIds, hasFence \in BOOLEAN : Open(t, hasFence)
  /\ UNCHANGED poolVars

PNext ==
  \/ \E t \in UseIds, nonBlocking \in BOOLEAN : Acquire(t, nonBlocking)
  \/ WaitEnds \/ WaitFails
  \/ PBegin \/ PEvaluate
  \/ (Proceed \/ Remove) /\ UNCHANGED poolVars

PSpec == PInit /\ [][PNext]_pvars

-----------------------------------------------------------------------------
PoolTypeOK ==
  /\ slots \in [Slots -> [use : 0 .. MaxUses, ticket : Nat]]
  /\ cursor \in Nat /\ (Count > 0 => cursor \in Slots)
  /\ ticket \in Nat
  /\ waiting \in [slot : Slots, use : UseIds] \cup {Idle}
  /\ refused \in BOOLEAN /\ acquires \in Nat
  /\ readers \in [Slots -> [UseIds -> Nat]]

\* Two lists the GPU may still read never share a slot, nor does one list get a slot twice.
SlotsApart ==
  \A i \in Slots : \A t, u \in {v \in UseIds : readers[i][v] > 0 /\ phase[v] # "over"} :
    t = u /\ readers[i][t] = 1

\* A pool of Deadline + 1 evaluates' worth of slots never refuses a host whose submissions
\* nobody reports.
Sized ==
  Count >= (Deadline + 1) * PerEvaluate /\ refused /\ ~removed =>
    \E i \in Slots : slots[i].use \in claimed
=============================================================================

----------------------------- MODULE Submission -----------------------------
(***************************************************************************)
(* core/gpu/submission.{h,cpp} and submission_recordings.cpp: how the core *)
(* learns that the GPU has finished with a command list it recorded into   *)
(* and the host submitted.                                                 *)
(*                                                                         *)
(* A use is what the core records into one host list during one evaluate.  *)
(* UsePoint gives it a fence of its own (a recording).  The host reports   *)
(* the submission of a list either just BEFORE the native call (the        *)
(* ReShade event) or just AFTER it returned (the queue hook, queues in     *)
(* Hooked), or not at all (its own Present ring).  Push claims the list's  *)
(* recordings for that submission, and a Drain later enqueues the fence    *)
(* signals on the submitting queue.                                        *)
(*                                                                         *)
(* A D3D12 queue executes in order, so the GPU side is a depth per queue,  *)
(* the operations it has yet to finish, and every operation the model      *)
(* follows knows how many steps of its queue finish it: NotYet while it is *)
(* not enqueued, 0 once it is finished.                                    *)
(***************************************************************************)
EXTENDS Integers, Sequences, FiniteSets

CONSTANTS
  Queues, NoQueue,
  Lists, NoList,
  QueueDevice, ListDevice,   \* the device a queue or a list belongs to
  Hooked,                    \* queues the ExecuteCommandLists hook reports
  Expiry,                    \* kDeferredReleaseEvaluates, 16 in the code
  RingSize,                  \* kSubmissionRing, 256 in the code
  PresentOverlaps,           \* may a present find a submission still in its native call?
  Removable,                 \* may the device be removed?
  MaxEval, MaxRecordings, MaxSubmits,   \* bounds of the model
  MaxOps, OtherOps           \* the same: how deep a queue gets by submissions, by other work

ASSUME QueuesAssumption == NoQueue \notin Queues /\ Hooked \subseteq Queues
ASSUME ListsAssumption == NoList \notin Lists
ASSUME BoundsAssumption ==
  /\ Expiry \in Nat \ {0} /\ RingSize \in Nat \ {0}
  /\ MaxEval \in Nat /\ MaxRecordings \in Nat /\ MaxSubmits \in Nat
  /\ MaxOps \in Nat /\ OtherOps \in Nat
  /\ PresentOverlaps \in BOOLEAN /\ Removable \in BOOLEAN

Tags == 1 .. MaxRecordings
Serials == 1 .. MaxSubmits

VARIABLES
  \* The core's state: queues_, recordings_, the ring, evalCounter.
  tracked,      \* the queues with a Tracked entry
  pushed, settled, signalled,  \* [queue -> serial] of that entry
  nextTag,      \* nextTag_
  rec,          \* [tag -> Recording]; the tags up to nextTag were allocated
  cancelled,    \* tags whose fence the CPU completed (fence->Signal(1))
  sig,          \* [tag -> steps to the queue's signal of its fence]
  listTag,      \* [list -> its private data kSubmissionTag]
  ring,         \* the ring (its count of drops is only reported)
  evalCounter,
  evaluating,   \* the host list of the evaluate in progress, or NoList
  presenting,   \* between the two Housekeeping calls of one present
  \* The host and the GPU.
  content,      \* [list -> uses recorded into it and not yet executed]
  usedAt,       \* [tag -> the last evaluate that recorded work under the tag]
  call,         \* [queue -> the submission between its report and its native call]
  depth,        \* [queue -> operations enqueued and not finished]
  exec,         \* [tag -> the queue that executes the list with this use, and the steps left]
  serialAt,     \* [queue -> [serial -> steps to the end of that submission]]
  fenceAt,      \* [queue -> [value -> steps to that signal of the serial fence]]
  lost          \* the device was removed: every Signal fails

coreVars == <<tracked, pushed, settled, signalled, nextTag, rec, cancelled, sig,
              listTag, ring>>
hostVars == <<content, usedAt, call, exec, serialAt>>
vars == <<coreVars, hostVars, evalCounter, evaluating, presenting, depth, fenceAt, lost>>

NotYet == -1
Steps == Nat \cup {NotYet}

Recording == [list : Lists \cup {NoList}, queue : Queues \cup {NoQueue}, serial : Nat,
              created : Nat, prev : 0 .. MaxRecordings, fence : BOOLEAN]
Submitting == [list : Lists \cup {NoList}, serial : Nat, left : Steps, seen : BOOLEAN]
Executing == [queue : Queues \cup {NoQueue}, left : Steps]
Calling(l, s, left) == [list |-> l, serial |-> s, left |-> left, seen |-> FALSE]
NoCall == Calling(NoList, 0, NotYet)

Made(l, e, previous, hasFence) ==
  [list |-> l, queue |-> NoQueue, serial |-> 0, created |-> e, prev |-> previous, fence |-> hasFence]
Claimed(r, q, s) ==
  [list |-> r.list, queue |-> q, serial |-> s, created |-> r.created, prev |-> r.prev, fence |-> r.fence]
NoRec == Made(NoList, 0, 0, FALSE)
NoExec == [queue |-> NoQueue, left |-> NotYet]

-----------------------------------------------------------------------------
(* What a fence tells, and what the GPU is really doing.                   *)

Signalled(t) == sig[t] # NotYet \/ t \in cancelled

\* A recording a submission may still claim.
Unclaimed(t) == t \in 1 .. nextTag /\ rec[t].fence /\ rec[t].serial = 0 /\ ~Signalled(t)

\* GetCompletedValue() >= 1 on the use's fence (a removed device answers UINT64_MAX,
\* which every reader takes for not passed).
Completed(t) == ~lost /\ (t \in cancelled \/ sig[t] = 0)

\* The use is in a list the host has yet to execute, or the GPU has yet to finish it.
Running(t) == exec[t].left > 0
InFlight(t) == Running(t) \/ \E l \in Lists : t \in content[l]

-----------------------------------------------------------------------------
(* Push: the walk from the list's tag over previousTag, as long as each    *)
(* link is a recording nobody claimed: the least set closed under it.      *)

ClaimsHeadOnly(l) == {t \in Tags : t = listTag[l] /\ Unclaimed(t)}   \* a mutant of Claims

Claims(l) ==
  LET links(t) == {u \in Tags : u = t /\ Unclaimed(u)}
      Closed(S) == /\ links(listTag[l]) \subseteq S
                   /\ \A u \in S : links(rec[u].prev) \subseteq S
  IN {t \in Tags : \A S \in SUBSET Tags : Closed(S) => t \in S}

RingPush(e) ==
  ring' = Append(IF Len(ring) = RingSize THEN Tail(ring) ELSE ring, e)

Push(q, l) ==
  IF q \in tracked
  THEN LET s == pushed[q] + 1
           C == Claims(l)
       IN /\ pushed' = [pushed EXCEPT ![q] = s]
          /\ rec' = [t \in Tags |-> IF t \in C
                                    THEN Claimed(rec[t], q, s)
                                    ELSE rec[t]]
          /\ RingPush([queue |-> q, list |-> l, serial |-> s])
  ELSE UNCHANGED <<pushed, rec, ring>>

-----------------------------------------------------------------------------
(* Drain: signals of one queue are enqueued back to back, so they share a  *)
(* step.  A failed Signal (lost) leaves everything pending.            *)

TargetAlwaysPushed(policy) == pushed   \* a mutant of Target

Target(policy) == IF policy = "All" THEN pushed ELSE settled

DueOnBelow(q, target) == {t \in Tags : /\ rec[t].queue = q /\ rec[t].serial < target
                                       /\ rec[t].serial > 0 /\ ~Signalled(t)}   \* a mutant of DueOn

DueOn(q, target) == {t \in Tags : /\ rec[t].queue = q /\ rec[t].serial <= target
                                  /\ rec[t].serial > 0 /\ ~Signalled(t)}

\* A mutant of Expired.
ExpiredLate == {t \in Tags : Unclaimed(t) /\ evalCounter - rec[t].created > Expiry}

Expired == {t \in Tags : Unclaimed(t) /\ evalCounter - rec[t].created >= Expiry}

Drain(policy) ==
  LET target == Target(policy)
      rise == {q \in tracked : ~lost /\ target[q] > signalled[q]}
      dirty == rise \cup {q \in tracked : ~lost /\ DueOn(q, target[q]) # {}}
  IN /\ ring' = <<>>
     /\ settled' = [q \in Queues |-> IF q \in tracked THEN pushed[q] ELSE settled[q]]
     /\ signalled' = [q \in Queues |-> IF q \in rise THEN target[q] ELSE signalled[q]]
     /\ depth' = [q \in Queues |-> IF q \in dirty THEN depth[q] + 1 ELSE depth[q]]
     /\ sig' = [t \in Tags |->
          IF \E q \in dirty : t \in DueOn(q, target[q])
          THEN depth[rec[t].queue] + 1 ELSE sig[t]]
     /\ fenceAt' = [q \in Queues |-> [v \in Serials |->
          IF q \in rise /\ v = target[q] THEN depth[q] + 1 ELSE fenceAt[q][v]]]
     /\ cancelled' = IF lost THEN cancelled ELSE cancelled \cup Expired

-----------------------------------------------------------------------------
(* The host: what it may do with lists and queues.                         *)

\* The event of a queue outside Hooked fired and its native call was not made yet.
Reported(q) == call[q].list # NoList /\ call[q].left = NotYet

\* A list the host may hand to a queue: nobody records into it, no call has it, and
\* an earlier submission of it still running went to the same queue.
MaySubmit(q, l) ==
  /\ call[q] = NoCall
  /\ l # evaluating
  /\ QueueDevice[q] = ListDevice[l]
  /\ \A p \in Queues : call[p].list # l
  /\ \A t \in Tags : rec[t].list = l /\ Running(t) => exec[t].queue = q
  /\ depth[q] < MaxOps
  /\ IF q \in tracked THEN pushed[q] < MaxSubmits ELSE content[l] # {}

\* ExecuteCommandLists: the uses of the list run last on the queue.
Native(q, l) ==
  /\ depth' = [depth EXCEPT ![q] = @ + 1]
  /\ exec' = [t \in Tags |->
       IF t \in content[l] THEN [queue |-> q, left |-> depth[q] + 1] ELSE exec[t]]
  /\ content' = [content EXCEPT ![l] = {}]

\* The host keeps up: before evaluate e starts, what was recorded Expiry evaluates
\* earlier has been reported submitted, or has run, or was thrown away.
OnTime(e) ==
  lost \/ \A t \in Tags : InFlight(t) /\ rec[t].serial = 0 => e - usedAt[t] < Expiry

-----------------------------------------------------------------------------
Init ==
  /\ tracked = {}
  /\ pushed = [q \in Queues |-> 0] /\ settled = pushed /\ signalled = pushed
  /\ nextTag = 0 /\ cancelled = {}
  /\ rec = [t \in Tags |-> NoRec]
  /\ sig = [t \in Tags |-> NotYet]
  /\ listTag = [l \in Lists |-> 0]
  /\ ring = <<>>
  /\ evalCounter = 0 /\ evaluating = NoList /\ presenting = FALSE
  /\ content = [l \in Lists |-> {}] /\ usedAt = [t \in Tags |-> 0]
  /\ call = [q \in Queues |-> NoCall]
  /\ depth = [q \in Queues |-> 0]
  /\ exec = [t \in Tags |-> NoExec]
  /\ serialAt = [q \in Queues |-> [v \in Serials |-> NotYet]]
  /\ fenceAt = serialAt
  /\ lost = FALSE

\* RegisterQueue -> Submission::Track: a new entry, a new serial fence.
Track(q) ==
  /\ q \notin tracked
  /\ tracked' = tracked \cup {q}
  /\ pushed' = [pushed EXCEPT ![q] = 0]
  /\ settled' = [settled EXCEPT ![q] = 0]
  /\ signalled' = [signalled EXCEPT ![q] = 0]
  /\ serialAt' = [serialAt EXCEPT ![q] = [v \in Serials |-> NotYet]]
  /\ fenceAt' = [fenceAt EXCEPT ![q] = [v \in Serials |-> NotYet]]
  /\ UNCHANGED <<nextTag, rec, cancelled, sig, listTag, ring, evalCounter,
                 evaluating, presenting, content, usedAt, call, depth, exec, lost>>

\* The host destroys the queue: UnregisterQueue -> Submission::Untrack.  With the last
\* queue of a device go the lists nobody can submit any more.
LastOfDevice(q) == \A p \in tracked : QueueDevice[p] = QueueDevice[q] => p = q

\* A mutant of Orphans.
OrphansOfAnyQueue(q) == {t \in Tags : Unclaimed(t) /\ ListDevice[rec[t].list] = QueueDevice[q]}

Orphans(q) == {t \in Tags : /\ LastOfDevice(q) /\ Unclaimed(t)
                            /\ ListDevice[rec[t].list] = QueueDevice[q]}

ForgetNothing(q) == ring   \* a mutant of Forget

\* The entries of other queues move down: each to where those kept before it leave off.
Forget(q) ==
  LET kept == {i \in DOMAIN ring : ring[i].queue # q}
      At(k) == CHOOSE i \in kept : Cardinality({j \in kept : j < i}) = k - 1
  IN [k \in 1 .. Cardinality(kept) |-> ring[At(k)]]

Untrack(q) ==
  LET due == IF lost THEN {} ELSE DueOn(q, pushed[q])
      ofDevice == {l \in Lists : ListDevice[l] = QueueDevice[q]}
  IN /\ q \in tracked
     /\ call[q] = NoCall /\ depth[q] < MaxOps
     /\ LastOfDevice(q) =>
          /\ evaluating \notin ofDevice
          /\ \A p \in Queues : call[p].list \notin ofDevice
          /\ \A t \in Tags : Running(t) /\ rec[t].list \in ofDevice => rec[t].serial > 0
     /\ tracked' = tracked \ {q}
     /\ depth' = IF lost THEN depth ELSE [depth EXCEPT ![q] = @ + 1]
     /\ sig' = [t \in Tags |-> IF t \in due THEN depth[q] + 1 ELSE sig[t]]
     /\ fenceAt' = IF lost THEN fenceAt
                   ELSE [fenceAt EXCEPT ![q] = [v \in Serials |->
                          IF @[v] = NotYet THEN depth[q] + 1 ELSE @[v]]]
     /\ cancelled' = IF lost THEN cancelled ELSE cancelled \cup Orphans(q)
     /\ content' = [l \in Lists |-> IF LastOfDevice(q) /\ l \in ofDevice THEN {} ELSE content[l]]
     /\ ring' = Forget(q)
     /\ UNCHANGED <<pushed, settled, signalled, nextTag, rec, listTag, evalCounter,
                    evaluating, presenting, usedAt, call, exec, serialAt, lost>>

-----------------------------------------------------------------------------
(* An evaluate: Feature::Evaluate drains with Signal::All, counts, and the *)
(* frame's passes ask UsePoint for the host list.                          *)

EvaluateBegin(l) ==
  /\ evaluating = NoList /\ evalCounter < MaxEval
  /\ \A q \in Queues : call[q].list # l /\ ~Reported(q)
  /\ OnTime(evalCounter + 1)
  /\ Drain("All")
  /\ evalCounter' = evalCounter + 1
  /\ evaluating' = l
  /\ UNCHANGED <<tracked, pushed, nextTag, rec, listTag, presenting,
                 hostVars, lost>>

\* UsePoint: the list's recording of this evaluate, or a new one that chains an
\* unclaimed one of an earlier evaluate.
Pending(l) == listTag[l] # 0 /\ Unclaimed(listTag[l])

ThisEvaluateUnchecked(l) == Pending(l)   \* a mutant of ThisEvaluate

ThisEvaluate(l) == Pending(l) /\ rec[listTag[l]].created = evalCounter

PreviousIsItself(l) == IF Pending(l) THEN nextTag + 1 ELSE 0   \* a mutant of Previous

Previous(l) == IF Pending(l) THEN listTag[l] ELSE 0

UsePoint(l) ==
  LET t == nextTag + 1 IN
     /\ evaluating = l
     /\ \/ /\ ThisEvaluate(l)
           /\ content' = [content EXCEPT ![l] = @ \cup {listTag[l]}]
           /\ usedAt' = [usedAt EXCEPT ![listTag[l]] = evalCounter]
           /\ UNCHANGED <<nextTag, rec, listTag>>
        \/ /\ ~ThisEvaluate(l) /\ t \in Tags
           /\ nextTag' = t
           /\ rec' = [rec EXCEPT ![t] = Made(l, evalCounter, Previous(l), TRUE)]
           /\ listTag' = [listTag EXCEPT ![l] = t]
           /\ content' = [content EXCEPT ![l] = @ \cup {t}]
           /\ usedAt' = [usedAt EXCEPT ![t] = evalCounter]
     /\ UNCHANGED <<tracked, pushed, settled, signalled, cancelled, sig, ring,
                    evalCounter, evaluating, presenting, call, depth, exec, serialAt,
                    fenceAt, lost>>

\* The fence could not be made: the use gets a deadline, created + Expiry, and no fence.
UsePointFails(l) ==
  LET t == nextTag + 1 IN
  /\ evaluating = l /\ t \in Tags
  /\ nextTag' = t
  /\ rec' = [rec EXCEPT ![t] = Made(l, evalCounter, 0, FALSE)]
  /\ content' = [content EXCEPT ![l] = @ \cup {t}]
  /\ usedAt' = [usedAt EXCEPT ![t] = evalCounter]
  /\ UNCHANGED <<tracked, pushed, settled, signalled, cancelled, sig, listTag, ring,
                 evalCounter, evaluating, presenting, call, depth, exec, serialAt,
                 fenceAt, lost>>

EvaluateEnd ==
  /\ evaluating # NoList
  /\ evaluating' = NoList
  /\ UNCHANGED <<coreVars, hostVars, evalCounter, presenting, depth, fenceAt, lost>>

\* One of the two Housekeeping calls of a present.  While an evaluate holds the core's
\* mutex the call returns at once.
Housekeeping(first) ==
  /\ presenting = ~first
  /\ first => \A q \in Queues : Reported(q) => PresentOverlaps /\ ~call[q].seen
  /\ presenting' = first
  /\ call' = IF first THEN [q \in Queues |-> [call[q] EXCEPT !.seen = Reported(q)]] ELSE call
  /\ IF evaluating = NoList
     THEN Drain("Settled")
     ELSE UNCHANGED <<ring, settled, signalled, depth, sig, fenceAt, cancelled>>
  /\ UNCHANGED <<tracked, pushed, nextTag, rec, listTag, evalCounter, evaluating,
                 content, usedAt, exec, serialAt, lost>>

-----------------------------------------------------------------------------
(* Submissions.                                                            *)

\* The ReShade event, then the native call that follows it.
ReportBefore(q, l) ==
  /\ q \notin Hooked /\ MaySubmit(q, l)
  /\ Push(q, l)
  /\ call' = [call EXCEPT ![q] = Calling(l, IF q \in tracked THEN pushed[q] + 1 ELSE 0, NotYet)]
  /\ UNCHANGED <<tracked, settled, signalled, nextTag, cancelled, sig, listTag, evalCounter,
                 evaluating, presenting, content, usedAt, depth, exec, serialAt, fenceAt, lost>>

NativeAfterReport(q) ==
  /\ Reported(q)
  /\ Native(q, call[q].list)
  /\ serialAt' = IF call[q].serial = 0 THEN serialAt
                 ELSE [serialAt EXCEPT ![q][call[q].serial] = depth[q] + 1]
  /\ call' = [call EXCEPT ![q] = NoCall]
  /\ UNCHANGED <<coreVars, usedAt, evalCounter, evaluating, presenting, fenceAt, lost>>

\* The hook: the native call, then the report once it returned.
NativeHooked(q, l) ==
  /\ q \in Hooked /\ MaySubmit(q, l)
  /\ Native(q, l)
  /\ call' = [call EXCEPT ![q] = Calling(l, 0, depth[q] + 1)]
  /\ UNCHANGED <<coreVars, usedAt, serialAt, evalCounter, evaluating, presenting, fenceAt, lost>>

ReportAfter(q) ==
  /\ call[q].list # NoList /\ call[q].left # NotYet
  /\ Push(q, call[q].list)
  /\ serialAt' = IF q \in tracked THEN [serialAt EXCEPT ![q][pushed[q] + 1] = call[q].left] ELSE serialAt
  /\ call' = [call EXCEPT ![q] = NoCall]
  /\ UNCHANGED <<tracked, settled, signalled, nextTag, cancelled, sig, listTag, evalCounter,
                 evaluating, presenting, content, usedAt, depth, exec, fenceAt, lost>>

\* A submission no queue event sees (the host's own Present ring).
SubmitUnseen(q, l) ==
  /\ MaySubmit(q, l) /\ content[l] # {}
  /\ Native(q, l)
  /\ UNCHANGED <<coreVars, usedAt, call, serialAt, evalCounter, evaluating, presenting, fenceAt, lost>>

\* What else is enqueued: lists that carry no use, the signals of retirement gates.
OtherWork(Q) ==
  /\ Q # {} /\ \A q \in Q : depth[q] < OtherOps
  /\ depth' = [q \in Queues |-> IF q \in Q THEN depth[q] + 1 ELSE depth[q]]
  /\ UNCHANGED <<coreVars, hostVars, evalCounter, evaluating, presenting, fenceAt, lost>>

\* The host resets a list it never submitted.
Discard(l) ==
  /\ content[l] # {} /\ l # evaluating /\ \A q \in Queues : call[q].list # l
  /\ content' = [content EXCEPT ![l] = {}]
  /\ UNCHANGED <<coreVars, usedAt, call, exec, serialAt, evalCounter, evaluating, presenting, depth,
                 fenceAt, lost>>

\* The GPU finishes the oldest operation of the queue.
Closer(left) == IF left > 0 THEN left - 1 ELSE left

GpuStep(q) ==
  /\ ~lost /\ depth[q] > 0
  /\ depth' = [depth EXCEPT ![q] = @ - 1]
  /\ sig' = [t \in Tags |-> IF rec[t].queue = q THEN Closer(sig[t]) ELSE sig[t]]
  /\ exec' = [t \in Tags |-> IF exec[t].queue = q THEN [exec[t] EXCEPT !.left = Closer(@)] ELSE exec[t]]
  /\ call' = [call EXCEPT ![q].left = Closer(@)]
  /\ serialAt' = [serialAt EXCEPT ![q] = [v \in Serials |-> Closer(@[v])]]
  /\ fenceAt' = [fenceAt EXCEPT ![q] = [v \in Serials |-> Closer(@[v])]]
  /\ UNCHANGED <<tracked, pushed, settled, signalled, nextTag, rec, cancelled, listTag, ring,
                 content, usedAt, evalCounter, evaluating, presenting, lost>>

DeviceRemoved ==
  /\ Removable /\ ~lost /\ lost' = TRUE
  /\ UNCHANGED <<coreVars, hostVars, evalCounter, evaluating, presenting, depth, fenceAt>>

\* What needs no mutex of the core, and a present, which does not wait for it.
HostOrGpu ==
  \/ \E q \in Queues : Track(q) \/ Untrack(q) \/ NativeAfterReport(q) \/ ReportAfter(q) \/ GpuStep(q)
  \/ \E q \in Queues, l \in Lists : ReportBefore(q, l) \/ NativeHooked(q, l) \/ SubmitUnseen(q, l)
  \/ \E l \in Lists : Discard(l)
  \/ \E Q \in SUBSET Queues : OtherWork(Q)
  \/ \E first \in BOOLEAN : Housekeeping(first)

Next ==
  \/ HostOrGpu
  \/ \E l \in Lists : EvaluateBegin(l) \/ UsePoint(l) \/ UsePointFails(l)
  \/ EvaluateEnd
  \/ DeviceRemoved

Spec == Init /\ [][Next]_vars

\* The host finishes the calls it started and keeps presenting; the GPU keeps working.
Fairness ==
  /\ \A q \in Queues : WF_vars(NativeAfterReport(q)) /\ WF_vars(ReportAfter(q)) /\ WF_vars(GpuStep(q))
  /\ WF_vars(EvaluateEnd)
  /\ \A first \in BOOLEAN : WF_vars(Housekeeping(first))

FairSpec == Spec /\ Fairness

-----------------------------------------------------------------------------
\* Types of everything but the ring, whose shape RingSound states.
TypeOK ==
  /\ tracked \subseteq Queues
  /\ pushed \in [Queues -> Nat] /\ settled \in [Queues -> Nat] /\ signalled \in [Queues -> Nat]
  /\ nextTag \in 0 .. MaxRecordings
  /\ rec \in [Tags -> Recording]
  /\ \A t \in Tags : rec[t].prev < t   \* so the walk of Push ends
  /\ cancelled \subseteq Tags
  /\ sig \in [Tags -> Steps]
  /\ listTag \in [Lists -> 0 .. MaxRecordings]
  /\ evalCounter \in Nat
  /\ evaluating \in Lists \cup {NoList}
  /\ presenting \in BOOLEAN
  /\ content \in [Lists -> SUBSET Tags]
  /\ usedAt \in [Tags -> Nat]
  /\ call \in [Queues -> Submitting]
  /\ depth \in [Queues -> Nat]
  /\ exec \in [Tags -> Executing]
  /\ serialAt \in [Queues -> [Serials -> Steps]]
  /\ fenceAt \in [Queues -> [Serials -> Steps]]
  /\ lost \in BOOLEAN

\* A use's fence completes only when the GPU is through with the use and no list can bring
\* it back: what the descriptor pools and the graveyard take the fence for.
ReleaseSafe == \A t \in 1 .. nextTag : Completed(t) => ~InFlight(t)

\* The serial fence reaches a value only behind every submission counted up to it, the
\* terminal signal of Untrack included (gates hold the fence past the entry).
SerialBehindWork ==
  \A q \in Queues : \A v \in Serials : fenceAt[q][v] # NotYet =>
    \A s \in Serials : s <= v /\ s <= pushed[q] =>
      serialAt[q][s] = 0 \/ serialAt[q][s] \in 1 .. fenceAt[q][v] - 1

\* A reported submission claims every recording in the list, the ones of earlier evaluates
\* with it: the chain of previousTag has no hole.
ClaimsWholeList ==
  \A q \in Queues : Reported(q) /\ call[q].serial > 0 =>
    \A t \in content[call[q].list] : rec[t].fence =>
      rec[t].queue = q /\ rec[t].serial = call[q].serial

\* The ring names only queues the core still owns a reference to, newest serials last.
RingSound ==
  /\ Len(ring) <= RingSize
  /\ \A i \in 1 .. Len(ring) :
       /\ ring[i].queue \in tracked
       /\ ring[i].serial <= pushed[ring[i].queue]
       /\ \A j \in 1 .. i - 1 : ring[j].queue = ring[i].queue => ring[j].serial < ring[i].serial

\* A recording nobody claims is cancelled in time: at most Expiry evaluates of uses are
\* held beside the current one, so a pool sized for that window never runs dry.
AbandonedWindow ==
  ~lost => \A t \in Tags : Unclaimed(t) => evalCounter - rec[t].created <= Expiry

\* Whatever was claimed is released, without a further evaluate: presents alone do it.
ClaimedCompletes ==
  \A t \in Tags : (rec[t].serial > 0) ~> (Completed(t) \/ lost)
=============================================================================

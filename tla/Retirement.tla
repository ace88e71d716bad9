------------------------------ MODULE Retirement ------------------------------
(***************************************************************************)
(* core/gpu/graveyard.{h,cpp}, the gates of gpu/queues.cpp and the callers *)
(* that retire things (core_impl.cpp, core_feature.cpp, frame/             *)
(* feature_state.cpp, frame/lifecycle.cpp): what the core or a host no     *)
(* longer wants is buried with a gate, a set of fences, and freed by the   *)
(* first drain of the graveyard that finds the whole gate passed.          *)
(*                                                                         *)
(* The module composes the graveyard with Submission: every step is a step *)
(* of Submission together with what it means for the graves, and the core's*)
(* mutex orders the steps that touch them, while submissions, the GPU and  *)
(* queue events go on in between.                                          *)
(***************************************************************************)
EXTENDS Submission

CONSTANTS
  Objects,     \* what may be retired: hosts' resources, models, GPU objects of a feature
  Owner,       \* [object -> the feature whose model host its grave names, or NoFeature]
  NoFeature,
  FenceFails   \* may a use be recorded without a fence (UsePointFails)?

ASSUME ObjectsAssumption == FenceFails \in BOOLEAN

Features == {Owner[o] : o \in Objects} \ {NoFeature}

VARIABLES
  obj,       \* [object -> "live", "deferred", "gating", "buried" or "freed"]
  \* The gate of an object: fences of recordings, serials of the queues' serial fences,
  \* fences of its own that SignalGate signals, and the fence the host passed.
  fences,    \* [object -> tags]
  serials,   \* [object -> [queue -> serial, 0 when the gate has none]]
  own,       \* [object -> [queue -> steps to that signal, NotYet when the gate has none]]
  extra,     \* [object -> "none", "waiting" or "passed"]
  dueEval,   \* [object -> Grave::dueEval]
  kept,      \* the recordings in recordings_: only a Drain lets go of them
  holder,    \* what the holder of the core's mutex does next: "nothing", "drain" or "gate"
  pendingReleases, announced,   \* features released, features whose FEATURE_RELEASED was sent
  uses       \* [object -> the uses recorded while it was live] (history)

graves == <<obj, fences, serials, own, extra, dueEval>>
rvars == <<vars, graves, kept, holder, pendingReleases, announced, uses>>

In(state) == {o \in Objects : obj[o] = state}

-----------------------------------------------------------------------------
(* Gates.                                                                  *)

GateEmpty(o) ==
  /\ fences[o] = {} /\ extra[o] = "none"
  /\ \A q \in Queues : serials[o][q] = 0 /\ own[o][q] = NotYet

SerialPassed(q, s) == s = 0 \/ \E v \in Serials : v >= s /\ fenceAt[q][v] = 0

GatePassed(o) ==
  /\ ~lost /\ extra[o] # "waiting"
  /\ \A t \in fences[o] : Completed(t)
  /\ \A q \in Queues : own[o][q] \in {NotYet, 0} /\ SerialPassed(q, serials[o][q])

\* SignalGateAll for the graves in S: a fence of their own on every registered queue.
SignalGateAll(S) ==
  /\ IF S = {} \/ tracked = {} \/ lost THEN UNCHANGED vars ELSE OtherWork(tracked)
  /\ own' = [o \in Objects |-> [q \in Queues |->
       IF o \in S /\ q \in tracked THEN depth[q] + 1 ELSE own[o][q]]]

\* PendingGateAll for the graves in S: every recording kept, every serial pushed.
PendingGateWith(S, recordings, ahead) ==
  /\ fences' = [o \in Objects |-> IF o \in S THEN recordings ELSE fences[o]]
  /\ serials' = [o \in Objects |-> [q \in Queues |->
       IF o \in S /\ q \in tracked THEN pushed[q] + ahead ELSE serials[o][q]]]

PendingGateSerials(S) == PendingGateWith(S, {}, 0)     \* mutants of PendingGateAll
PendingGateNext(S) == PendingGateWith(S, kept, 1)

PendingGateAll(S) == PendingGateWith(S, kept, 0)

-----------------------------------------------------------------------------
(* Retiring: the gate is taken in two steps, SignalGateAll and then        *)
(* PendingGateAll; the core's mutex is held, the queues go on.             *)

Gate(S) ==
  /\ holder = "nothing" /\ holder' = "gate"
  /\ obj' = [o \in Objects |-> IF o \in S THEN "gating" ELSE obj[o]]
  /\ SignalGateAll(S)
  /\ UNCHANGED <<fences, serials, dueEval, kept, announced, uses>>

\* RetireResource, with or without a fence of the host's.
RetireResource(o, e) ==
  /\ obj[o] = "live" /\ Owner[o] = NoFeature
  /\ evaluating = NoList
  /\ Gate({o})
  /\ extra' = [extra EXCEPT ![o] = e]
  /\ UNCHANGED pendingReleases

\* RetireResource from inside a callback: put aside until the core next emits an event.
RetireInCallback(o, e) ==
  /\ obj[o] = "live" /\ Owner[o] = NoFeature
  /\ evaluating # NoList /\ holder = "nothing"
  /\ obj' = [obj EXCEPT ![o] = "deferred"]
  /\ extra' = [extra EXCEPT ![o] = e]
  /\ UNCHANGED <<vars, fences, serials, own, dueEval, kept, holder, pendingReleases, announced, uses>>

\* An event of the core (settings, direct host, feature created): Emit flushes.
EmitOther ==
  /\ evaluating = NoList /\ In("deferred") # {}
  /\ Gate(In("deferred"))
  /\ UNCHANGED <<extra, pendingReleases>>

\* A model or a set of GPU objects is replaced within an evaluate (RecreateReal, RetireGpu).
Rebuild(o) ==
  /\ obj[o] = "live" /\ Owner[o] \in Features \ pendingReleases
  /\ evaluating # NoList
  /\ Gate({o})
  /\ UNCHANGED <<extra, pendingReleases>>

\* Feature::Release: everything of the feature is buried under one gate.
ReleaseFeature(f) ==
  /\ f \notin pendingReleases \cup announced
  /\ evaluating = NoList
  /\ Gate({o \in In("live") : Owner[o] = f})
  /\ pendingReleases' = pendingReleases \cup {f}
  /\ UNCHANGED extra

\* The second half of the gate, and Graveyard::Add.
Bury ==
  /\ holder = "gate" /\ holder' = "nothing"
  /\ obj' = [o \in Objects |-> IF obj[o] = "gating" THEN "buried" ELSE obj[o]]
  /\ PendingGateAll(In("gating"))
  /\ dueEval' = [o \in Objects |-> IF obj[o] = "gating" THEN evalCounter + Expiry ELSE dueEval[o]]
  /\ UNCHANGED <<vars, own, extra, kept, pendingReleases, announced, uses>>

\* The host's own work with the resource is over.
HostSignals(o) ==
  /\ extra[o] = "waiting"
  /\ extra' = [extra EXCEPT ![o] = "passed"]
  /\ UNCHANGED <<vars, obj, fences, serials, own, dueEval, kept, holder, pendingReleases, announced, uses>>

-----------------------------------------------------------------------------
(* The graveyard's drain, inside an evaluate and inside a present.         *)

\* Graveyard::References: a grave of the feature's host that this drain does not free.
References(f, passed) == \E o \in In("buried") \ passed : Owner[o] = f

AnnouncedAtOnce(passed) == pendingReleases   \* a mutant of Announced

Announced(passed) == {f \in pendingReleases : ~References(f, passed)}

GateSkipsRecordings(o) ==   \* a mutant of Passed's test
  ~GateEmpty(o) /\ \A q \in Queues : own[o][q] \in {NotYet, 0}

Frees(o) == ~GateEmpty(o) /\ GatePassed(o)

\* Graveyard::Drain(false), DrainReleased, and the flush of the events it emits.  The
\* flushed graves are gated and added in this step: no fence of theirs can pass before it.
DrainGraveyard ==
  LET passed == {o \in In("buried") : Frees(o)}
      again == {o \in In("buried") : GateEmpty(o) /\ dueEval[o] <= evalCounter}
      flushed == IF Announced(passed) = {} THEN {} ELSE In("deferred")
  IN /\ holder = "drain" /\ holder' = "nothing"
     /\ obj' = [o \in Objects |-> IF o \in passed THEN "freed"
                                  ELSE IF o \in flushed THEN "buried" ELSE obj[o]]
     /\ SignalGateAll(again \cup flushed)
     /\ PendingGateAll(flushed)
     /\ dueEval' = [o \in Objects |-> IF o \in flushed THEN evalCounter + Expiry ELSE dueEval[o]]
     /\ pendingReleases' = pendingReleases \ Announced(passed)
     /\ announced' = announced \cup Announced(passed)
     /\ UNCHANGED <<extra, kept, uses>>

-----------------------------------------------------------------------------
(* Submission's steps with what they mean here.                            *)

RecordedUse(l) == IF ThisEvaluate(l) THEN listTag[l] ELSE nextTag + 1

\* Whatever is recorded may use everything that is live.
Uses(t) == uses' = [o \in Objects |-> IF obj[o] = "live" THEN uses[o] \cup {t} ELSE uses[o]]

\* A Drain erases the recordings it or Untrack signalled, and those it cancels.
Erase == kept' = {t \in kept : ~Signalled(t)'}

REvaluateBegin(l) ==
  /\ holder = "nothing" /\ holder' = "drain"
  /\ EvaluateBegin(l) /\ Erase
  /\ UNCHANGED <<graves, pendingReleases, announced, uses>>

RHousekeeping(first) ==
  /\ evaluating = NoList => holder = "nothing"
  /\ Housekeeping(first)
  /\ IF evaluating = NoList THEN holder' = "drain" /\ Erase ELSE UNCHANGED <<holder, kept>>
  /\ UNCHANGED <<graves, pendingReleases, announced, uses>>

RUsePoint(l) ==
  /\ holder = "nothing"
  /\ UsePoint(l)
  /\ kept' = kept \cup ((nextTag + 1) .. nextTag')
  /\ Uses(RecordedUse(l))
  /\ UNCHANGED <<graves, holder, pendingReleases, announced>>

RUsePointFails(l) ==
  /\ FenceFails /\ holder = "nothing"
  /\ UsePointFails(l)
  /\ Uses(nextTag + 1)
  /\ UNCHANGED <<graves, kept, holder, pendingReleases, announced>>

REvaluateEnd ==
  /\ holder = "nothing" /\ EvaluateEnd
  /\ UNCHANGED <<graves, kept, holder, pendingReleases, announced, uses>>

\* A grave's own signals advance with their queue.
RGpuStep(q) ==
  /\ GpuStep(q)
  /\ own' = [o \in Objects |-> [own[o] EXCEPT ![q] = Closer(@)]]
  /\ UNCHANGED <<obj, fences, serials, extra, dueEval, kept, holder, pendingReleases, announced, uses>>

\* The entry goes, its serial fence stays with the gates that hold it; from here on the
\* module keeps the place of that fence's signal instead of the serial.  The host has
\* waited for a queue it destroys.
Behind(a, b) == IF a > b THEN a ELSE b

SerialSignal(q, s) ==
  LET reached == {fenceAt[q][v] : v \in {w \in Serials : w >= s}} \ {NotYet}
  IN IF reached = {} THEN depth[q] + 1 ELSE CHOOSE n \in reached : \A k \in reached : n <= k

RUntrack(q) ==
  /\ \A t \in Tags : Running(t) => exec[t].queue # q
  /\ Untrack(q)
  /\ own' = [o \in Objects |-> [own[o] EXCEPT ![q] =
       IF serials[o][q] = 0 THEN @ ELSE Behind(@, SerialSignal(q, serials[o][q]))]]
  /\ serials' = [o \in Objects |-> [serials[o] EXCEPT ![q] = 0]]
  /\ UNCHANGED <<obj, fences, extra, dueEval, kept, holder, pendingReleases, announced, uses>>

\* Steps of the host and of queue events that no grave notices.
Unnoticed ==
  /\ \/ \E q \in Queues : Track(q) \/ NativeAfterReport(q) \/ ReportAfter(q)
     \/ \E q \in Queues, l \in Lists : ReportBefore(q, l) \/ NativeHooked(q, l) \/ SubmitUnseen(q, l)
     \/ \E l \in Lists : Discard(l)
     \/ DeviceRemoved
  /\ UNCHANGED <<graves, kept, holder, pendingReleases, announced, uses>>

RInit ==
  /\ Init
  /\ obj = [o \in Objects |-> "live"]
  /\ fences = [o \in Objects |-> {}]
  /\ serials = [o \in Objects |-> [q \in Queues |-> 0]]
  /\ own = [o \in Objects |-> [q \in Queues |-> NotYet]]
  /\ extra = [o \in Objects |-> "none"]
  /\ dueEval = [o \in Objects |-> 0]
  /\ kept = {} /\ holder = "nothing"
  /\ pendingReleases = {} /\ announced = {}
  /\ uses = [o \in Objects |-> {}]

RNext ==
  \/ \E l \in Lists : REvaluateBegin(l) \/ RUsePoint(l) \/ RUsePointFails(l)
  \/ REvaluateEnd
  \/ \E first \in BOOLEAN : RHousekeeping(first)
  \/ \E q \in Queues : RGpuStep(q) \/ RUntrack(q)
  \/ Unnoticed
  \/ \E o \in Objects, e \in {"none", "waiting"} : RetireResource(o, e) \/ RetireInCallback(o, e)
  \/ \E o \in Objects : Rebuild(o) \/ HostSignals(o)
  \/ \E f \in Features : ReleaseFeature(f)
  \/ EmitOther \/ Bury \/ DrainGraveyard

RSpec == RInit /\ [][RNext]_rvars

\* As for Submission, where presents are never kept away for good by native calls in
\* progress; and whoever holds the core's mutex goes on.
RFairness ==
  /\ \A q \in Queues : WF_rvars(Unnoticed /\ (NativeAfterReport(q) \/ ReportAfter(q)))
  /\ \A q \in Queues : WF_rvars(RGpuStep(q))
  /\ WF_rvars(REvaluateEnd)
  /\ \A first \in BOOLEAN : SF_rvars(RHousekeeping(first))
  /\ WF_rvars(Bury) /\ WF_rvars(DrainGraveyard)

RFairSpec == RSpec /\ RFairness

-----------------------------------------------------------------------------
GraveTypeOK ==
  /\ obj \in [Objects -> {"live", "deferred", "gating", "buried", "freed"}]
  /\ fences \in [Objects -> SUBSET Tags]
  /\ serials \in [Objects -> [Queues -> Nat]]
  /\ own \in [Objects -> [Queues -> Steps]]
  /\ extra \in [Objects -> {"none", "waiting", "passed"}]
  /\ dueEval \in [Objects -> Nat]
  /\ kept \subseteq Tags
  /\ holder \in {"nothing", "drain", "gate"}
  /\ pendingReleases \subseteq Features /\ announced \subseteq Features
  /\ uses \in [Objects -> SUBSET Tags]

\* Nothing is freed while a list that uses it can still run or is running, or while the
\* host's own work with it goes on.
FreedSafe ==
  \A o \in In("freed") : extra[o] # "waiting" /\ \A t \in uses[o] : ~InFlight(t)

\* FEATURE_RELEASED comes after everything of the feature was freed: the model host may go.
AnnouncedLast == \A f \in announced : \A o \in Objects : Owner[o] = f => obj[o] = "freed"

\* A grave whose recordings were all claimed or completed is freed by presents alone.
GateOpens ==
  \A o \in Objects :
    (/\ obj[o] = "buried" /\ ~GateEmpty(o) /\ extra[o] # "waiting"
     /\ \A t \in fences[o] : rec[t].serial > 0 \/ Completed(t))
    ~> (obj[o] = "freed" \/ lost)
=============================================================================

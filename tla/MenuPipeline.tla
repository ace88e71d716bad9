----------------------------- MODULE MenuPipeline -----------------------------
(***************************************************************************)
(* hosts/reshade/menu_*.cpp, Direct3D 12: the model on a menu's frames,    *)
(* while the game makes no evaluates of its own.                           *)
(*                                                                         *)
(* Three queues. A present captures its frame on the present queue (f1), a *)
(* private queue waits for f1 and runs a pass of the game's own model      *)
(* (f2), the present queue waits for f2 and writes the pass back (f3). The *)
(* game's lists may be on a third queue. No gate of the core's names the   *)
(* private queue, so before the core may free the model a pass uses, at an *)
(* evaluate of the watched feature or at its release, the pass is proven   *)
(* complete on the CPU; a pass too slow for that is held, and evaluates    *)
(* are withheld until it is over.                                          *)
(*                                                                         *)
(* A present and the sections of an evaluate and of a release that hold    *)
(* the pipeline's lock are one step each, a present with a pass two: the   *)
(* game's submit thread, which takes only the host queue's lock, comes     *)
(* between. A pass is known by its number; its f1, f2 and f3 carry it.     *)
(***************************************************************************)
EXTENDS Naturals, Sequences, FiniteSets

CONSTANTS
  EntryPresents,   \* kEntryPresents
  Ring,            \* kRing
  MaxPasses, MaxLists, MaxModels,   \* bounds: passes; the game's lists; models of the game's feature
  MaxTroubles, \* bound: clicks on the checkbox, swap chains destroyed, faults ("flow" apart)
  Faults,      \* what may fail: "stop", "f2", "recovery", "show", "removed", "flow"
  Surprises    \* "reenter": the next menu is entered, and its passes submitted, while a pass is held;
               \* "overlap": the f2 of a pass fails while the pass before still runs;
               \* "late": the game's submit lasts from before one present into the next;
               \* "straddle": the checkbox is cleared, and a present follows it, inside an evaluate

ASSUME MenuAssumption ==
  /\ EntryPresents \in Nat /\ Ring \in Nat \ {0}
  /\ MaxPasses \in Nat /\ MaxLists \in Nat /\ MaxModels \in Nat \ {0} /\ MaxTroubles \in Nat
  /\ Faults \subseteq {"stop", "f2", "recovery", "show", "removed", "flow"}
  /\ Surprises \subseteq {"reenter", "overlap", "late", "straddle"}

VARIABLES
  separate,    \* does the game's model run on a queue of its own?
  checkbox, troubles,
  machine,     \* the menu's state: [enabled, stopped, active, quiet, since, evaluated, owed]
  watch,       \* the watched feature: [remembered, snapshot (a model), order, waiting, blocked (createBlocked)]
  gpu,         \* the pipeline's objects: "none", "built", "draining"
  begun,       \* a present holds the lock: its step is done, its pass is not
  held, last,  \* MenuOutstandingPass: [pass, unfenced, expired]; the last pass whose f2 was signalled
  seen,        \* MenuHostQueue: [list (recorded), observed, fresh (observed since the last present)]
  evaluate,    \* the game's thread in HookEvaluate: [at, proof, last, took, tagged, leased, ran, failed]
  release,     \* a thread in HookRelease: [at, proof]
  list,        \* the game's list on its way to the queue: [at, model, tagged]
  presentQ, gameQ, privateQ,    \* what the GPU has not come to the end of
  f1, entry, f2,                \* the fences: the last capture, entry signal and pass that are over
  gate,        \* the entry signal the private queue waits for next
  passes, lists,                \* how many there were
  made, model, alive,           \* models made so far; the feature's (0: none); those not freed
  feature,     \* does the core have the game's feature?
  flow,        \* the core's vectors are the menu's optical flow
  removed,     \* the device is
  dirty        \* ghost: the models with a menu's frames in their history

pipeline == <<machine, watch, gpu, begun, held, last, flow>>
queues3 == <<presentQ, gameQ, privateQ, f1, entry, f2>>
core3 == <<made, model, alive, feature, dirty>>
user == <<separate, checkbox, troubles>>
mvars == <<user, pipeline, seen, evaluate, release, list, queues3, gate, passes, lists, core3, removed>>

NoProof == [pass |-> 0, unfenced |-> FALSE, wait |-> FALSE, outstanding |-> FALSE]
NotHeld == [pass |-> 0, unfenced |-> FALSE, expired |-> FALSE]
NoEvaluate == [at |-> "out", proof |-> NoProof, last |-> 0, took |-> FALSE, tagged |-> FALSE, leased |-> FALSE,
               ran |-> FALSE, failed |-> FALSE]
NoList == [at |-> "none", model |-> 0, tagged |-> FALSE]
NeverSeen == [list |-> FALSE, observed |-> FALSE, fresh |-> FALSE]

Fails(what) == {b \in BOOLEAN : b => what \in Faults /\ troubles = 0}

\* MenuFencePassed: a removed device proves nothing.
Complete(pass) == pass <= f2 /\ ~removed

Pending == held.pass # 0 \/ held.unfenced

-----------------------------------------------------------------------------
(* MenuOutstandingPass.                                                    *)

\* ProofFor: the pass the core's call must follow.
ProofFor(forceWait) ==
  IF held.unfenced THEN [NoProof EXCEPT !.unfenced = TRUE]
  ELSE IF held.pass # 0
       THEN [pass |-> held.pass, unfenced |-> FALSE, wait |-> forceWait \/ ~held.expired, outstanding |-> TRUE]
  ELSE IF last # 0 /\ ~Complete(last) THEN [NoProof EXCEPT !.pass = last, !.wait = TRUE]
  ELSE NoProof
Needed(proof) == proof.unfenced \/ proof.pass # 0

\* Settle of a proof that holds, and of a wait that was too long (or of a device that is gone).
Lifted(proof) == IF proof.outstanding /\ proof.pass = held.pass THEN NotHeld ELSE held
Expired(pass) == IF held.unfenced THEN [held EXCEPT !.expired = FALSE]
                 ELSE [pass |-> pass, unfenced |-> FALSE, expired |-> TRUE]

-----------------------------------------------------------------------------
(* The run.                                                                *)

\* EndRun: the core is asked for the game's vectors again; it may refuse.
EndRun(refused) ==
  /\ refused => flow
  /\ flow' = refused

StoppedMachine == [machine EXCEPT !.stopped = TRUE, !.active = FALSE]

\* Stop and Quarantine; a session ends once.
EndSession(refused) ==
  /\ machine' = StoppedMachine
  /\ IF machine.active THEN EndRun(refused) ELSE ~refused /\ UNCHANGED flow

\* MenuHostQueue::WaitingLocked: the latest list has not been seen, or only since this present began.
WaitsForAny == seen.list /\ ~seen.observed   \* mutant: an observation of this present will do
HostQueueWaits == seen.list /\ (~seen.observed \/ seen.fresh)

-----------------------------------------------------------------------------
(* A present.                                                              *)

Trouble == troubles < MaxTroubles /\ lists <= MaxLists /\ troubles' = troubles + 1
InFlight == privateQ # <<>>   \* bound: without a pass in flight a trouble leaves nothing behind

Toggle ==
  /\ Trouble /\ (InFlight \/ gpu = "none") /\ checkbox = machine.enabled   \* the presents draw the checkbox, and follow it
  /\ checkbox' = ~checkbox
  /\ UNCHANGED <<separate, pipeline, seen, evaluate, release, list, queues3, gate, passes, lists, core3, removed>>

\* FollowCheckbox, MenuHostQueue::NotePresent, ForgetCompletedLast, and the step of the state machine.
\* `blocker`: one that has nothing to do with the queues; `time`: 150 ms without an evaluate.
PresentBegins(blocker, time, refused) ==
  LET on == checkbox
      snapshot == IF machine.enabled /\ ~on THEN 0 ELSE watch.snapshot
      idle == ~on /\ gpu = "none"
      waits == watch.waiting /\ seen.list /\ ~seen.observed
      blocked == blocker \/ waits
      quiet == IF machine.since THEN 0 ELSE IF machine.quiet < EntryPresents THEN machine.quiet + 1 ELSE machine.quiet
      allowed == on /\ ~machine.stopped /\ watch.remembered /\ snapshot # 0 /\ ~blocked
      left == machine.active /\ ~allowed
      enter == ~machine.active /\ allowed /\ machine.evaluated /\ quiet >= EntryPresents /\ time
      active == (machine.active /\ allowed) \/ enter
  IN /\ ~begun /\ gpu # "draining"
     /\ list.at # "executing" \/ "late" \in Surprises
     /\ (blocker => machine.active) /\ (time => enter)
     /\ machine.enabled /\ ~on => ~evaluate.tagged \/ "straddle" \in Surprises
     /\ IF idle
        THEN /\ machine' = [machine EXCEPT !.enabled = on]
             /\ watch' = [watch EXCEPT !.snapshot = snapshot]
             /\ ~refused
             /\ UNCHANGED <<gpu, begun, last, seen, flow>>
        ELSE /\ machine' = [machine EXCEPT !.enabled = on, !.quiet = quiet, !.since = FALSE, !.active = active]
             /\ watch' = [watch EXCEPT !.snapshot = snapshot, !.waiting = waits,
                                       !.order = IF left THEN FALSE ELSE @ \/ enter]
             /\ IF left THEN EndRun(refused) ELSE ~refused /\ UNCHANGED flow
             /\ last' = IF last # 0 /\ Complete(last) THEN 0 ELSE last
             /\ seen' = [seen EXCEPT !.fresh = FALSE]
             /\ gpu' = IF allowed THEN "built" ELSE gpu
             /\ begun' = active
     /\ UNCHANGED <<user, held, evaluate, release, list, queues3, gate, passes, lists, core3, removed>>

PassEnds == begun /\ begun' = FALSE /\ UNCHANGED <<separate, checkbox, evaluate, release, list, lists, f1, entry, f2, removed>>
NoPass == UNCHANGED <<held, last, presentQ, privateQ, passes, core3>>

\* LeaseSkips: an evaluate of the game's is under way.
NoLease == FALSE   \* mutant
Leased == evaluate.leased

LeaseSkips ==
  /\ PassEnds /\ NoPass /\ UNCHANGED troubles
  /\ Leased
  /\ UNCHANGED <<machine, watch, gpu, flow, seen, gameQ, gate>>

\* OrderRunEntry: the game's last list has not been seen; the run ends.
EntryWaits(refused) ==
  /\ PassEnds /\ NoPass /\ UNCHANGED troubles
  /\ ~Leased /\ watch.order /\ HostQueueWaits
  /\ machine' = [machine EXCEPT !.active = FALSE]
  /\ watch' = [watch EXCEPT !.waiting = TRUE, !.order = FALSE]
  /\ EndRun(refused)
  /\ UNCHANGED <<gpu, seen, gameQ, gate>>

\* A failed signal or wait of f1, or of the entry fence: no pass, and none any more.
PassStops(refused) ==
  /\ PassEnds /\ NoPass /\ Trouble
  /\ ~Leased /\ (watch.order => ~HostQueueWaits) /\ "stop" \in Faults
  /\ EndSession(refused)
  /\ watch' = [watch EXCEPT !.order = FALSE]
  /\ UNCHANGED <<gpu, seen, gameQ, gate>>

\* A signal or a wait the queue has already adds nothing.
Once(q, e) == IF \E i \in DOMAIN q : q[i] = e THEN q ELSE Append(q, e)

\* The run's first pass waits for the game's queue: its signal there is numbered by the game's lists.
EntrySignal == [op |-> "entry", value |-> lists]
Enters ==
  /\ ~Leased /\ (watch.order => ~HostQueueWaits)
  /\ IF watch.order /\ separate /\ seen.list
     THEN /\ gameQ' = Once(gameQ, EntrySignal)
          /\ gate' = lists
     ELSE UNCHANGED <<gameQ, gate>>

Unshown == Cardinality({i \in DOMAIN presentQ : presentQ[i].op = "show"})
RingFree == Unshown < Ring /\ Len(privateQ) < Ring

\* No core call while an earlier pass may run: ShowLastPass.
CoreFree == Complete(passes)

\* The ring is full, the last pass is shown again, or the pass refuses (the model is not the
\* snapshot's, the core is busy, refuses the switch to its optical flow, ...).
PassRefused ==
  /\ PassEnds /\ NoPass /\ UNCHANGED troubles
  /\ Enters
  /\ watch' = [watch EXCEPT !.order = FALSE]
  /\ UNCHANGED <<machine, gpu, flow, seen>>

\* The core had to create a model and was not let: the old one is retired, the game's next evaluate makes it.
PassCreates(cadence) ==
  /\ PassEnds /\ UNCHANGED troubles
  /\ Enters /\ RingFree /\ CoreFree /\ ~watch.blocked /\ model # 0
  /\ model' = 0 /\ alive' = alive \ {model}
  /\ watch' = [watch EXCEPT !.order = FALSE, !.blocked = TRUE]
  /\ flow' = (flow \/ cadence)
  /\ UNCHANGED <<machine, gpu, held, last, seen, presentQ, privateQ, passes, made, feature, dirty>>

\* SubmitPass. core: through the core's evaluate (cadence: with its optical flow), or the model itself.
\* fault: "f2", its signal fails; "recovery", that of the fence after it too; "show", the present queue's wait for it.
PassSubmitted(core, cadence, fault, refused) ==
  LET pass == passes + 1
      fenced == fault \notin {"f2", "recovery"}
      stops == fault # "none"
  IN /\ PassEnds
     /\ passes < MaxPasses   \* bound
     /\ fault \in Faults \cup {"none"} /\ IF stops THEN Trouble ELSE UNCHANGED troubles
     /\ Pending => "reenter" \in Surprises
     /\ fault \in {"f2", "recovery"} => last = 0 \/ Complete(last) \/ "overlap" \in Surprises
     /\ Enters /\ RingFree /\ ~watch.blocked
     /\ IF core THEN CoreFree /\ model # 0 ELSE model # 0 /\ model = watch.snapshot
     /\ cadence => core
     /\ passes' = pass
     /\ privateQ' = Append(privateQ, [pass |-> pass, model |-> model, entry |-> gate'])
     /\ presentQ' = presentQ \o <<[op |-> "capture", value |-> pass]>>
                             \o (IF stops THEN <<>> ELSE <<[op |-> "show", value |-> pass]>>)
     /\ dirty' = dirty \cup {model}
     /\ machine' = [machine EXCEPT !.owed = TRUE, !.stopped = @ \/ stops, !.active = ~stops]
     /\ held' = IF fault = "f2" THEN [pass |-> pass, unfenced |-> FALSE, expired |-> FALSE]
                ELSE IF fault = "recovery" THEN [pass |-> 0, unfenced |-> TRUE, expired |-> held.expired]
                ELSE held
     /\ last' = IF fenced THEN pass ELSE last
     /\ watch' = [watch EXCEPT !.order = FALSE]
     /\ (refused => stops /\ (flow \/ cadence))
     /\ flow' = IF stops THEN refused ELSE flow \/ cadence
     /\ UNCHANGED <<gpu, seen, made, model, alive, feature>>

-----------------------------------------------------------------------------
(* The swap chain is destroyed: MenuPipelineDrain.                         *)

DrainBegins(refused) ==
  /\ gpu = "built" /\ ~begun /\ Trouble /\ InFlight
  /\ gpu' = "draining"
  /\ machine' = [machine EXCEPT !.active = FALSE]
  /\ watch' = IF machine.active THEN [watch EXCEPT !.order = FALSE] ELSE watch
  /\ IF machine.active THEN EndRun(refused) ELSE ~refused /\ UNCHANGED flow
  /\ UNCHANGED <<separate, checkbox, begun, held, last, seen, evaluate, release, list, queues3, gate, passes,
                 lists, core3, removed>>

\* Every fence passed, or not within 500 ms: the objects are kept, menu mode is off.
DrainEnds ==
  /\ gpu = "draining" /\ ~begun
  /\ gpu' = "none"
  /\ machine' = IF privateQ = <<>> /\ Unshown = 0 /\ ~removed THEN machine ELSE StoppedMachine
  /\ UNCHANGED <<user, watch, begun, held, last, flow, seen, evaluate, release, list, queues3, gate, passes, lists,
                 core3, removed>>

-----------------------------------------------------------------------------
(* The game evaluates: HookEvaluate with MenuHostEvaluate around it.       *)

Quiet3 == UNCHANGED <<user, gpu, begun, release, passes, privateQ, presentQ, f1, entry, f2, gate, removed>>
Withheld(e) == [e EXCEPT !.at = "leave", !.proof = NoProof, !.last = 0]

\* The constructor's section under the lock. An evaluate during the release is withheld at once.
EvaluateBegins(refused) ==
  LET watched == watch.remembered
      lastPass == IF watched /\ machine.owed THEN last ELSE 0
      proof == IF watched THEN ProofFor(FALSE) ELSE NoProof
      heldSlow == proof.outstanding /\ ~proof.wait
  IN /\ evaluate.at = "out" /\ feature /\ release.at = "out" /\ ~begun
     /\ list = NoList   \* the game has submitted the list of its evaluate before
     /\ lists < MaxLists \/ (watched /\ (Pending \/ (machine.owed /\ lists = MaxLists /\ troubles = 0)))   \* bound
     /\ (refused => flow)
     /\ flow' = refused
     /\ machine' = IF watched THEN [machine EXCEPT !.since = TRUE, !.evaluated = TRUE, !.active = FALSE, !.owed = FALSE]
                   ELSE machine
     /\ watch' = IF watched THEN [watch EXCEPT !.waiting = FALSE, !.blocked = FALSE, !.order = FALSE] ELSE watch
     /\ evaluate' = [NoEvaluate EXCEPT
          !.at = IF refused THEN "leave" ELSE IF heldSlow THEN "held" ELSE IF lastPass # 0 THEN "order"
                 ELSE IF Needed(proof) THEN "prove" ELSE "call",
          !.proof = proof, !.last = lastPass, !.took = watched /\ machine.owed, !.tagged = checkbox, !.leased = watched]
     /\ UNCHANGED <<held, last, seen, list, gameQ, lists, core3>>
     /\ Quiet3

\* Quarantine, for a device that is gone.
Quarantines ==
  /\ removed
  /\ held' = Expired(IF evaluate.at = "order" THEN evaluate.last ELSE evaluate.proof.pass)
  /\ \E refused \in Fails("flow") : EndSession(refused)
  /\ evaluate' = Withheld(evaluate)
  /\ UNCHANGED gameQ

TooSlow(pass) == held' = Expired(pass) /\ evaluate' = Withheld(evaluate) /\ UNCHANGED <<machine, flow, gameQ>>

AfterOrder == IF ~(evaluate.proof.outstanding /\ ~evaluate.proof.wait) /\ Needed(evaluate.proof) THEN "prove" ELSE "call"

\* A held pass that has been too slow once is looked at, not waited for.
EvaluateHeld ==
  /\ evaluate.at = "held"
  /\ \/ Quarantines
     \/ /\ Complete(evaluate.proof.pass)
        /\ held' = Lifted(evaluate.proof)
        /\ evaluate' = [evaluate EXCEPT !.at = IF evaluate.last # 0 THEN "order" ELSE "call"]
        /\ UNCHANGED <<machine, flow, gameQ>>
     \/ /\ ~removed /\ ~Complete(evaluate.proof.pass)
        /\ evaluate' = Withheld(evaluate)
        /\ UNCHANGED <<held, machine, flow, gameQ>>
  /\ UNCHANGED <<watch, last, seen, list, lists, core3>> /\ Quiet3

\* OrderExitNow: the queue the list will be on waits for the last pass, or the CPU does.
EvaluateOrders ==
  /\ evaluate.at = "order"
  /\ \/ Quarantines
     \/ /\ Complete(evaluate.last) \/ seen.observed
        /\ gameQ' = IF Complete(evaluate.last) \/ ~separate THEN gameQ
                    ELSE Once(gameQ, [op |-> "wait", value |-> evaluate.last])
        /\ evaluate' = [evaluate EXCEPT !.at = AfterOrder]
        /\ UNCHANGED <<held, machine, flow>>
     \/ ~removed /\ ~Complete(evaluate.last) /\ TooSlow(evaluate.last)
  /\ UNCHANGED <<watch, last, seen, list, lists, core3>> /\ Quiet3

\* Proven: at most 100 ms.
ProvesNothing == UNCHANGED held /\ evaluate' = [evaluate EXCEPT !.at = "call"]   \* mutant of ProofHolds
ProofHolds ==
  /\ Complete(evaluate.proof.pass) /\ ~evaluate.proof.unfenced
  /\ held' = Lifted(evaluate.proof)
  /\ evaluate' = [evaluate EXCEPT !.at = "call"]

EvaluateProves ==
  /\ evaluate.at = "prove"
  /\ \/ ~evaluate.proof.unfenced /\ Quarantines
     \/ ProofHolds /\ UNCHANGED <<machine, flow, gameQ>>
     \/ evaluate.proof.unfenced /\ evaluate' = Withheld(evaluate) /\ UNCHANGED <<held, machine, flow, gameQ>>
     \/ ~evaluate.proof.unfenced /\ ~removed /\ ~Complete(evaluate.proof.pass) /\ TooSlow(evaluate.proof.pass)
  /\ UNCHANGED <<watch, last, seen, list, lists, core3>> /\ Quiet3

\* The core's evaluate. It may make the model anew (the old one is freed), run it or not, and fail.
EvaluateCalls(renews, runs, fails) ==
  LET now == IF renews THEN made + 1 ELSE model
  IN /\ evaluate.at = "call" /\ feature
     /\ (renews => made < MaxModels) /\ (runs => now # 0) /\ (fails => runs)
     /\ made' = IF renews THEN made + 1 ELSE made
     /\ model' = now
     /\ alive' = IF renews THEN (alive \ {model}) \cup {now} ELSE alive
     /\ list' = [at |-> "recorded", model |-> IF runs THEN now ELSE 0, tagged |-> FALSE]
     /\ lists' = lists + 1
     /\ dirty' = (IF runs /\ ~fails THEN dirty \ {now} ELSE dirty) \cap alive'
     /\ evaluate' = [evaluate EXCEPT !.at = "note", !.proof = NoProof, !.last = 0, !.ran = runs /\ ~fails, !.failed = fails]
     /\ UNCHANGED <<feature, machine, watch, held, last, flow, seen, gameQ>> /\ Quiet3

\* The feature was released meanwhile.
EvaluateGone ==
  /\ evaluate.at = "call" /\ ~feature
  /\ evaluate' = Withheld(evaluate)
  /\ UNCHANGED <<machine, watch, held, last, flow, seen, list, gameQ, lists, core3>> /\ Quiet3

ResetLost(took) == machine   \* mutant of Restored
Restored(took) == IF took THEN [machine EXCEPT !.owed = TRUE] ELSE machine

\* Evaluated, and the destructor's section. A release since the evaluate began binds nothing.
EvaluateNoted(published) ==
  LET watched == evaluate.tagged /\ feature /\ release.at = "out" /\ (watch.remembered \/ evaluate.ran)
      stale == evaluate.failed \/ model # watch.snapshot
  IN /\ evaluate.at = "note" /\ ~begun
     /\ published => watched /\ evaluate.ran
     /\ watch' = [watch EXCEPT !.remembered = @ \/ watched,
                               !.snapshot = IF published THEN model
                                            ELSE IF stale \/ (watched /\ evaluate.ran) THEN 0 ELSE @]
     /\ seen' = IF watched THEN [list |-> TRUE, observed |-> FALSE, fresh |-> FALSE] ELSE seen
     /\ list' = [list EXCEPT !.tagged = watched]
     /\ machine' = Restored(evaluate.took /\ ~evaluate.ran)
     /\ evaluate' = NoEvaluate
     /\ UNCHANGED <<held, last, flow, gameQ, lists, core3>> /\ Quiet3

\* The destructor of an evaluate that was withheld.
EvaluateLeaves ==
  /\ evaluate.at = "leave" /\ ~begun
  /\ machine' = Restored(evaluate.took)
  /\ evaluate' = NoEvaluate
  /\ UNCHANGED <<watch, held, last, flow, seen, list, gameQ, lists, core3>> /\ Quiet3

-----------------------------------------------------------------------------
(* The game releases the feature: HookRelease; and makes another.          *)

Rest3 == UNCHANGED <<user, gpu, begun, evaluate, passes, lists, queues3, gate, removed>>

ReleaseBegins(refused) ==
  /\ release.at = "out" /\ feature /\ ~begun
  /\ IF watch.remembered
     THEN /\ release' = [at |-> "prove", proof |-> ProofFor(TRUE)]
          /\ held' = NotHeld /\ last' = 0
          /\ IF machine.active THEN EndRun(refused) ELSE ~refused /\ UNCHANGED flow
          /\ machine' = [machine EXCEPT !.active = FALSE, !.evaluated = FALSE, !.since = FALSE, !.quiet = 0]
          /\ watch' = [watch EXCEPT !.remembered = FALSE, !.snapshot = 0, !.waiting = FALSE, !.order = FALSE]
          /\ seen' = NeverSeen /\ list' = [list EXCEPT !.tagged = FALSE]
     ELSE /\ release' = [at |-> "core", proof |-> NoProof]
          /\ ~refused
          /\ UNCHANGED <<held, last, flow, machine, watch, seen, list>>
  /\ UNCHANGED core3 /\ Rest3

\* ReleaseProven: at most 500 ms; the feature's model is freed, or kept for ever.
ReleaseProven(keeps) ==
  keeps <=> release.proof.unfenced \/ (release.proof.pass # 0 /\ ~Complete(release.proof.pass))

ReleaseProves(keeps) ==
  /\ release.at = "prove" /\ ~begun
  /\ ReleaseProven(keeps)
  /\ release' = [at |-> IF keeps THEN "keep" ELSE "core", proof |-> NoProof]
  /\ IF release.proof.unfenced \/ (keeps /\ removed)
     THEN \E refused \in Fails("flow") : EndSession(refused) ELSE UNCHANGED <<machine, flow>>
  /\ UNCHANGED <<held, last, watch, seen, list, core3>> /\ Rest3

ReleaseEnds ==
  /\ release.at \in {"core", "keep"}
  /\ feature' = FALSE /\ model' = 0
  /\ alive' = IF release.at = "core" THEN alive \ {model} ELSE alive
  /\ release' = [at |-> "out", proof |-> NoProof]
  /\ UNCHANGED <<machine, watch, held, last, flow, seen, list, made, dirty>> /\ Rest3

CreateFeature ==
  /\ ~feature /\ made < MaxModels /\ release.at = "out" /\ evaluate.at = "out"
  /\ feature' = TRUE /\ made' = made + 1 /\ model' = made + 1 /\ alive' = alive \cup {made + 1}
  /\ UNCHANGED <<machine, watch, held, last, flow, seen, list, release, dirty>> /\ Rest3

-----------------------------------------------------------------------------
(* The game's submit thread and the GPU.                                   *)

\* MenuHostQueue::ListExecuting: the queue's event, just before the native call.
ListExecuting ==
  /\ list.at = "recorded" /\ evaluate.at = "out"
  /\ list' = [list EXCEPT !.at = "executing"]
  /\ seen' = IF list.tagged /\ (checkbox \/ gpu # "none") THEN [seen EXCEPT !.observed = TRUE, !.fresh = TRUE] ELSE seen
  /\ UNCHANGED <<user, pipeline, evaluate, release, queues3, gate, passes, lists, core3, removed>>

NativeSubmit ==
  LET entryOf == [op |-> "list", value |-> list.model]
  IN /\ list.at = "executing"
     /\ list' = NoList
     /\ IF separate THEN gameQ' = Append(gameQ, entryOf) /\ UNCHANGED presentQ
        ELSE presentQ' = Append(presentQ, entryOf) /\ UNCHANGED gameQ
     /\ UNCHANGED <<user, pipeline, seen, evaluate, release, privateQ, f1, entry, f2, gate, passes, lists, core3, removed>>

GpuOnly == UNCHANGED <<user, pipeline, seen, evaluate, release, list, gate, passes, lists, core3, removed>>

PresentQueueRuns ==
  /\ presentQ # <<>> /\ ~removed
  /\ LET e == Head(presentQ)
     IN /\ (e.op = "show" => f2 >= e.value)
        /\ f1' = IF e.op = "capture" THEN e.value ELSE f1
  /\ presentQ' = Tail(presentQ)
  /\ UNCHANGED <<gameQ, privateQ, entry, f2>> /\ GpuOnly

GameQueueRuns ==
  /\ gameQ # <<>> /\ ~removed
  /\ LET e == Head(gameQ)
     IN /\ (e.op = "wait" => f2 >= e.value)
        /\ entry' = IF e.op = "entry" THEN e.value ELSE entry
  /\ gameQ' = Tail(gameQ)
  /\ UNCHANGED <<presentQ, privateQ, f1, f2>> /\ GpuOnly

PassReady == privateQ # <<>> /\ Head(privateQ).pass <= f1 /\ Head(privateQ).entry <= entry

PassRuns ==
  /\ PassReady /\ ~removed
  /\ f2' = Head(privateQ).pass
  /\ privateQ' = Tail(privateQ)
  /\ UNCHANGED <<presentQ, gameQ, f1, entry>> /\ GpuOnly

DeviceRemoved3 ==
  /\ "removed" \in Faults /\ ~removed /\ Trouble /\ InFlight
  /\ removed' = TRUE
  /\ UNCHANGED <<separate, checkbox, pipeline, seen, evaluate, release, list, queues3, gate, passes, lists, core3>>

-----------------------------------------------------------------------------
\* The game plays: its feature is watched, the list of its last evaluate has been seen and submitted.
MInit ==
  /\ separate \in BOOLEAN /\ checkbox = TRUE /\ troubles = 0
  /\ machine = [enabled |-> TRUE, stopped |-> FALSE, active |-> FALSE, quiet |-> 0, since |-> TRUE,
                evaluated |-> TRUE, owed |-> FALSE]
  /\ watch = [remembered |-> TRUE, snapshot |-> 1, order |-> FALSE, waiting |-> FALSE, blocked |-> FALSE]
  /\ gpu = "none" /\ begun = FALSE
  /\ held = NotHeld /\ last = 0 /\ seen = [list |-> TRUE, observed |-> TRUE, fresh |-> TRUE]
  /\ evaluate = NoEvaluate /\ release = [at |-> "out", proof |-> NoProof] /\ list = NoList
  /\ presentQ = <<>> /\ gameQ = <<>> /\ privateQ = <<>>
  /\ f1 = 0 /\ entry = 0 /\ f2 = 0 /\ gate = 0 /\ passes = 0 /\ lists = 0
  /\ made = 1 /\ model = 1 /\ alive = {1} /\ feature = TRUE
  /\ flow = FALSE /\ removed = FALSE /\ dirty = {}

Evaluating ==
  \/ \E refused \in Fails("flow") : EvaluateBegins(refused)
  \/ EvaluateHeld \/ EvaluateOrders \/ EvaluateProves
  \/ \E renews, runs, fails \in BOOLEAN : EvaluateCalls(renews, runs, fails)
  \/ EvaluateGone
  \/ \E published \in BOOLEAN : EvaluateNoted(published)
  \/ EvaluateLeaves

Passing ==
  \/ LeaseSkips \/ PassRefused
  \/ \E refused \in Fails("flow") : EntryWaits(refused) \/ PassStops(refused)
  \/ \E cadence \in BOOLEAN : PassCreates(cadence)
  \/ \E core, cadence \in BOOLEAN, fault \in {"none", "f2", "recovery", "show"}, refused \in Fails("flow") :
       PassSubmitted(core, cadence, fault, refused)

Running == PresentQueueRuns \/ GameQueueRuns \/ PassRuns

MNext ==
  \/ Toggle
  \/ \E blocker, time \in BOOLEAN, refused \in Fails("flow") : PresentBegins(blocker, time, refused)
  \/ Passing
  \/ \E refused \in Fails("flow") : DrainBegins(refused) \/ ReleaseBegins(refused)
  \/ DrainEnds
  \/ Evaluating
  \/ \E keeps \in BOOLEAN : ReleaseProves(keeps)
  \/ ReleaseEnds \/ CreateFeature
  \/ ListExecuting \/ NativeSubmit
  \/ Running
  \/ DeviceRemoved3

MSpec == MInit /\ [][MNext]_mvars

-----------------------------------------------------------------------------
(* What must hold.                                                         *)

\* No model is freed under a pass that uses it: not by the game's evaluate that makes it anew, not by
\* a menu frame whose core wants another, not by the feature's release.
ModelKept == \A i \in DOMAIN privateQ : privateQ[i].model \in alive

ListAt(q) == IF q # <<>> /\ Head(q).op = "list" THEN {Head(q).value} ELSE {}

\* The GPU never has a pass and a list of the game's to run on the same model.
NoOverlap == PassReady => Head(privateQ).model \notin ListAt(presentQ) \cup ListAt(gameQ)

\* The model's history of a menu never meets the game's next frame: the first successful call after
\* a pass resets it, whatever evaluates were withheld, failed or carried before.
HistoryReset == [][\A m \in (dirty \ dirty') \cap alive' : evaluate.took]_mvars

\* The core never evaluates the game's frame along a menu's optical flow.
GameVectors == evaluate.at = "call" => ~flow

\* "the model runs only once the pass is proven complete on the CPU (ruling A)".
ProvenBeforeCall == evaluate.at = "call" /\ evaluate.leased => \A i \in DOMAIN privateQ : privateQ[i].model # model
=============================================================================

------------------------- MODULE FrameHistoryProofs -------------------------
(***************************************************************************)
(* Proofs about FrameHistory, for every bound, whatever the frames, the    *)
(* settings, the failures and the answers do.                              *)
(*                                                                         *)
(* The invariant says, of each machine, that its chain holds exactly the   *)
(* frames since its residual that are not missed, and of a background pass *)
(* in flight that the pending chain holds those since the kick.  That is   *)
(* broken again and again: a frame runs no model, a model is created,      *)
(* another fails, the layout goes.  Each of these leaves a mark the next   *)
(* route reads before it trusts a chain, and the invariant claims nothing  *)
(* while one is there:                                                     *)
(*   Stale     the next frame starts with a reset, or has no model;        *)
(*   Unbuilt   the background mode has its machine but not its job, whose  *)
(*             making invalidates the machine;                             *)
(*   Doomed    the frame to come drops the pass in flight before its route *)
(*             is chosen.                                                  *)
(* FInv, for the vectors, is inductive when no setter drops a machine with *)
(* a pass in flight and no frame with a reset is missed under one; FClear, *)
(* for the resets and over the missed frames too, needs the latter only.   *)
(***************************************************************************)
EXTENDS FrameHistory, TLAPS

-----------------------------------------------------------------------------
(* The inductive invariant.                                                *)

\* The frames whose evaluate is over.
Past == IF phase = "between" THEN frames ELSE frames \ {thisEvaluate}

\* Those of them whose vectors the machine has had, and all of this feature's that are not missed.
Had == Past \ missed
Held == frames \ missed

\* Of the frames F, those after f.
SinceIn(F, f) == {g \in F : f < g}

Machine == [role : {"synchronous", "background", "hidden"}, residual : Nat, acc : SUBSET Nat,
            chainFrame : Nat, pending : SUBSET Nat, mirror : BOOLEAN, pendingFrame : Nat]

\* A machine over the frames F; a chain begins at its residual.
SoundOn(m, F) ==
  /\ m \in Machine
  /\ m.acc \subseteq F /\ m.pending \subseteq F /\ m.residual \in F \cup {0}
  /\ m.acc # {} => m.residual # 0
  /\ m.residual # 0 => m.chainFrame = m.residual

\* The chain of a residual holds every frame since.
FollowsOn(m, F) == m.residual # 0 => m.acc = SinceIn(F, m.residual)

\* No frame since its residual had a reset (R: the frames with one).
ClearOn(m, F, R) == m.residual # 0 => SinceIn(F, m.residual) \cap R = {}

\* The pending chain holds every frame since the one it is kept for.
PendingExact(m, F) == m.pendingFrame \in F /\ m.pending = SinceIn(F, m.pendingFrame)

\* The pending chain is kept for a pass that is in flight, or for the next one.
PairedOn(m, j) ==
  /\ m.residual # 0 => m.residual <= m.pendingFrame
  /\ m.pending # {} => ~j.discard /\ (j.inflight \/ m.residual # 0)

\* A kept pending chain is whole, and one that will be adopted is kept whole.
PendingOn(m, j, F) ==
  /\ m.pending # {} =>
       /\ ~m.mirror /\ j.kicked # 0 /\ ~j.discard /\ (j.inflight \/ m.residual # 0)
       /\ PendingExact(m, F)
  /\ m.residual # 0 /\ ~m.mirror /\ j.kicked # 0 /\ ~j.discard => PendingExact(m, F)

\* The pass in flight will be adopted with a whole chain.
InflightOn(m, j, F) == j.inflight /\ ~j.discard => ~m.mirror /\ PendingExact(m, F)

\* The evaluate in progress comes after the frames F.
Before(F) == evalCounter \in Nat \ {0} /\ \A f \in F : f \in Nat /\ 0 < f /\ f < evalCounter
Now(F) == F \cup {evalCounter}

\* The marks a broken chain leaves (see above).
Stale == forcedReset \/ real.pending \/ extra.pending \/ real.handle = 0
Unbuilt == spread = NoSpread /\ settings.mode = 3 /\ ~async.built
Doomed == settings.passes # passesRequested \/ (settings.spread /\ PassesReady = 2)

\* Frames are numbered in the order of their evaluates; the one before this one is the last frame.
FramesKnown ==
  /\ evalCounter \in Nat /\ thisEvaluate \in Nat /\ previousEvaluate \in Nat
  /\ previousEvaluate <= thisEvaluate /\ thisEvaluate <= evalCounter
  /\ frames \subseteq 1 .. thisEvaluate /\ resets \subseteq frames /\ missed \subseteq frames
  /\ \A f \in frames : f < thisEvaluate => f <= previousEvaluate

\* How far the evaluate has come, and what is settled by then.
Phased ==
  /\ phase \in {"between", "layout", "passes", "route"}
  /\ hostReset \in BOOLEAN /\ forcedReset \in BOOLEAN
  /\ phase = "between" => ~hostReset
  /\ phase # "between" =>
       /\ evalCounter = thisEvaluate /\ thisEvaluate \in frames /\ previousEvaluate < thisEvaluate
       /\ thisEvaluate \notin missed
       /\ thisEvaluate \in resets => hostReset
       /\ ~real.pending /\ ~extra.pending
  /\ phase \in {"passes", "route"} => real.handle # 0
  /\ phase = "route" => settings.passes = passesRequested

\* A model has one handle, and the two models never share it.
RealModel == [handle : Handles \cup {0}, pending : BOOLEAN]
ExtraModel == [handle : Handles \cup {0}, pending : BOOLEAN, reset : BOOLEAN]
Job == [kicked : Nat, inflight : BOOLEAN, discard : BOOLEAN, built : BOOLEAN]

ModelsKnown ==
  /\ real \in RealModel /\ extra \in ExtraModel
  /\ real.handle = extra.handle => real.handle = 0
  /\ histories \in [Stages -> [handle : Handles \cup {0}, frame : Nat]]
  /\ settings \in [mode : {0, 1, 3}, passes : {1, 2}, spread : BOOLEAN]
  /\ passesRequested \in {1, 2}
  /\ relayout \in BOOLEAN

\* The machines that exist; none keeps a residual while the mode is off.
MachinesKnown ==
  /\ temporal = NoMachine \/ SoundOn(temporal, Had)
  /\ spread = NoSpread \/ (spread \in [position : Nat, hidden : Machine] /\ SoundOn(spread.hidden, Had))
  /\ settings.mode = 0 => temporal = NoMachine \/ temporal.residual = 0

\* The job exists in the background mode only, and its pass belongs to the machine.
JobKnown ==
  /\ async \in Job
  /\ async.discard => async.inflight
  /\ async.built => settings.mode = 3 /\ spread = NoSpread
  /\ async.inflight =>
       /\ async.kicked \in Had /\ async.built
       /\ temporal # NoMachine /\ temporal.role = "background" /\ temporal.pendingFrame = async.kicked
  /\ async.built /\ temporal # NoMachine => PairedOn(temporal, async)

\* The chains are whole, unless a mark says otherwise.
MainFollows == ~Stale /\ ~Unbuilt /\ temporal # NoMachine => FollowsOn(temporal, Had)
HiddenFollows == ~Stale /\ spread # NoSpread => FollowsOn(spread.hidden, Had)
PendingFollows ==
  ~Stale /\ spread = NoSpread /\ async.built /\ temporal # NoMachine => PendingOn(temporal, async, Had)
InflightFollows == ~Stale /\ ~Doomed /\ async.inflight => InflightOn(temporal, async, Had)

\* What the last frame gave to its runs, and what it showed.
Recorded ==
  /\ \A r \in runs : r.keeps => r.chain = Since(r.from) \ missed
  /\ shown.residual # 0 => shown.chain = Since(shown.residual) \ missed

FShape == FramesKnown /\ Phased /\ ModelsKnown /\ MachinesKnown /\ JobKnown
Chained == MainFollows /\ HiddenFollows /\ PendingFollows /\ InflightFollows
FInv == FShape /\ Chained /\ Recorded

\* No reset is behind a residual, nor behind a pass in flight, unless a mark says otherwise.
MainClear == ~Stale /\ ~Unbuilt /\ temporal # NoMachine => ClearOn(temporal, Past, resets)
HiddenClear == ~Stale /\ spread # NoSpread => ClearOn(spread.hidden, Past, resets)
JobClear == ~Stale /\ async.inflight /\ ~async.discard => SinceIn(Past, async.kicked) \cap resets = {}

RecordedClear ==
  /\ \A r \in runs : r.keeps => resets \cap Since(r.from) = {}
  /\ shown.residual # 0 => resets \cap Since(shown.residual) = {}

Cleared == MainClear /\ HiddenClear /\ JobClear
FClear == FShape /\ Cleared /\ RecordedClear

-----------------------------------------------------------------------------
(* The operations of a machine.                                            *)

LEMMA SomeMachine ==
  ASSUME NEW m \in Machine
  PROVE  m # NoMachine
<1>1. m.role # NoMachine.role
  BY DEF Machine, NoMachine
<1>2. QED
  BY <1>1

LEMMA InvalidateFields ==
  ASSUME NEW m \in Machine
  PROVE  /\ Invalidate(m) \in Machine
         /\ Invalidate(m).residual = 0 /\ Invalidate(m).acc = {} /\ Invalidate(m).pending = {}
         /\ Invalidate(m).mirror = FALSE /\ Invalidate(m).role = m.role
         /\ Invalidate(m).pendingFrame = m.pendingFrame
<1>1. Invalidate(m) = [m EXCEPT !.residual = 0, !.acc = {}, !.pending = {}, !.mirror = FALSE]
  BY SomeMachine DEF Invalidate
<1>2. DOMAIN m = {"role", "residual", "acc", "chainFrame", "pending", "mirror", "pendingFrame"}
  BY DEF Machine
<1>3. /\ Invalidate(m).residual = 0 /\ Invalidate(m).acc = {} /\ Invalidate(m).pending = {}
      /\ Invalidate(m).mirror = FALSE /\ Invalidate(m).role = m.role
      /\ Invalidate(m).pendingFrame = m.pendingFrame
  BY <1>1, <1>2
<1>4. Invalidate(m) \in Machine
  <2>1. [m EXCEPT !.residual = 0, !.acc = {}] \in Machine
    BY DEF Machine
  <2>2. \A n \in Machine : [n EXCEPT !.pending = {}, !.mirror = FALSE] \in Machine
    BY DEF Machine
  <2>3. QED
    BY <1>1, <2>1, <2>2
<1>5. QED
  BY <1>3, <1>4

LEMMA InvalidateSound ==
  ASSUME NEW m, NEW F, NEW G, NEW j, SoundOn(m, F)
  PROVE  /\ SoundOn(Invalidate(m), G) /\ FollowsOn(Invalidate(m), G)
         /\ PendingOn(Invalidate(m), j, G) /\ PairedOn(Invalidate(m), j)
         /\ Invalidate(m).residual = 0 /\ Invalidate(m).role = m.role
         /\ Invalidate(m).pendingFrame = m.pendingFrame
BY InvalidateFields DEF SoundOn, FollowsOn, PendingOn, PairedOn

LEMMA SoundGrows ==
  ASSUME NEW m, NEW F, NEW G, SoundOn(m, F), F \subseteq G
  PROVE  SoundOn(m, G)
BY DEF SoundOn

LEMMA SinceNow ==
  ASSUME NEW F, Before(F)
  PROVE  /\ \A f \in F : SinceIn(Now(F), f) = SinceIn(F, f) \cup {evalCounter}
         /\ SinceIn(Now(F), evalCounter) = {}
BY DEF SinceIn, Now, Before

LEMMA NewMachineSound ==
  ASSUME NEW role \in {"synchronous", "background", "hidden"}, NEW F, NEW j
  PROVE  /\ SoundOn(NewMachine(role), F) /\ FollowsOn(NewMachine(role), F)
         /\ PendingOn(NewMachine(role), j, F)
         /\ NewMachine(role).residual = 0 /\ NewMachine(role).role = role
BY DEF NewMachine, SoundOn, FollowsOn, PendingOn, Machine

\* A carried frame, or a full one that uses the chain, adds its own vectors to it.
LEMMA AccumulateFields ==
  ASSUME NEW m \in Machine, evalCounter \in Nat
  PROVE  /\ RecordAccumulate(m) \in Machine
         /\ RecordAccumulate(m).acc = m.acc \cup {evalCounter}
         /\ RecordAccumulate(m).residual = m.residual /\ RecordAccumulate(m).chainFrame = m.chainFrame
         /\ RecordAccumulate(m).pending = m.pending /\ RecordAccumulate(m).mirror = m.mirror
         /\ RecordAccumulate(m).pendingFrame = m.pendingFrame /\ RecordAccumulate(m).role = m.role
BY DEF RecordAccumulate, Machine

LEMMA AccumulateSound ==
  ASSUME NEW m, NEW F, Before(F), SoundOn(m, F), m.residual # 0
  PROVE  SoundOn(RecordAccumulate(m), Now(F))
BY AccumulateFields DEF SoundOn, Before, Now

LEMMA AccumulateFollows ==
  ASSUME NEW m, NEW F, Before(F), SoundOn(m, F), FollowsOn(m, F)
  PROVE  FollowsOn(RecordAccumulate(m), Now(F))
<1>1. RecordAccumulate(m).residual = m.residual /\ RecordAccumulate(m).acc = m.acc \cup {evalCounter}
  BY AccumulateFields DEF SoundOn, Before
<1>2. CASE m.residual = 0
  BY <1>1, <1>2 DEF FollowsOn
<1>3. CASE m.residual # 0
  <2>1. m.residual \in F
    BY <1>3 DEF SoundOn
  <2>2. SinceIn(Now(F), m.residual) = SinceIn(F, m.residual) \cup {evalCounter}
    BY <2>1, SinceNow
  <2>3. QED
    BY <1>1, <1>3, <2>2 DEF FollowsOn
<1>4. QED
  BY <1>2, <1>3

\* The residual of this evaluate starts a chain.
LEMMA ResidualSound ==
  ASSUME NEW m, NEW F, Before(F), SoundOn(m, Now(F))
  PROVE  /\ SoundOn(RecordResidual(m, evalCounter), Now(F))
         /\ FollowsOn(RecordResidual(m, evalCounter), Now(F))
         /\ RecordResidual(m, evalCounter).role = m.role
<1>1. /\ RecordResidual(m, evalCounter) \in Machine
      /\ RecordResidual(m, evalCounter).residual = evalCounter
      /\ RecordResidual(m, evalCounter).chainFrame = evalCounter
      /\ RecordResidual(m, evalCounter).acc = {}
      /\ RecordResidual(m, evalCounter).pending = m.pending
      /\ RecordResidual(m, evalCounter).role = m.role
  BY DEF RecordResidual, Machine, SoundOn, Before
<1>2. SinceIn(Now(F), evalCounter) = {}
  BY SinceNow
<1>3. QED
  BY <1>1, <1>2 DEF SoundOn, FollowsOn, Now

LEMMA ResetPendingFields ==
  ASSUME NEW m \in Machine, evalCounter \in Nat
  PROVE  /\ ResetPending(m) \in Machine
         /\ ResetPending(m).acc = m.acc /\ ResetPending(m).residual = m.residual
         /\ ResetPending(m).chainFrame = m.chainFrame /\ ResetPending(m).role = m.role
         /\ ResetPending(m).pending = {} /\ ResetPending(m).mirror = FALSE
         /\ ResetPending(m).pendingFrame = evalCounter
BY DEF ResetPending, Machine

\* The pending chain starts over at this evaluate.
LEMMA ResetPendingSound ==
  ASSUME NEW m, NEW F, NEW j, Before(F), SoundOn(m, Now(F))
  PROVE  /\ SoundOn(ResetPending(m), Now(F))
         /\ FollowsOn(m, Now(F)) => FollowsOn(ResetPending(m), Now(F))
         /\ PendingOn(ResetPending(m), j, Now(F))
         /\ InflightOn(ResetPending(m), j, Now(F))
         /\ PairedOn(ResetPending(m), j)
<1>1. m \in Machine /\ evalCounter \in Nat
  BY DEF SoundOn, Before
<1>2. PendingExact(ResetPending(m), Now(F))
  BY <1>1, ResetPendingFields, SinceNow DEF PendingExact, Now
<1>3. PairedOn(ResetPending(m), j)
  <2>1. m.residual # 0 => m.residual <= evalCounter
    BY DEF SoundOn, Before, Now
  <2>2. QED
    BY <1>1, <2>1, ResetPendingFields DEF PairedOn
<1>4. QED
  BY <1>1, <1>2, <1>3, ResetPendingFields DEF SoundOn, FollowsOn, PendingOn, InflightOn

\* A machine that carries its residual on, when it has one.
CarriedOn(m) == IF HasResidual(m) THEN RecordAccumulate(m) ELSE m

LEMMA CarriedSound ==
  ASSUME NEW m, NEW F, Before(F), SoundOn(m, F), FollowsOn(m, F)
  PROVE  /\ SoundOn(CarriedOn(m), Now(F)) /\ FollowsOn(CarriedOn(m), Now(F))
         /\ CarriedOn(m).role = m.role
<1>1. CASE m.residual = 0
  <2>1. CarriedOn(m) = m
    BY <1>1 DEF CarriedOn, HasResidual
  <2>2. SoundOn(m, Now(F))
    BY SoundGrows DEF Now
  <2>3. QED
    BY <1>1, <2>1, <2>2 DEF FollowsOn
<1>2. CASE m.residual # 0
  <2>1. CarriedOn(m) = RecordAccumulate(m)
    BY <1>2 DEF CarriedOn, HasResidual
  <2>2. m \in Machine /\ evalCounter \in Nat
    BY DEF SoundOn, Before
  <2>3. QED
    BY <1>2, <2>1, <2>2, AccumulateFields, AccumulateSound, AccumulateFollows
<1>3. QED
  BY <1>1, <1>2

-----------------------------------------------------------------------------
(* The background pass: its chains up to the kick.                         *)

\* What holds between a machine and its job, of the frames F.
PipeOn(m, j, F) ==
  /\ SoundOn(m, F)
  /\ j \in Job
  /\ j.discard => j.inflight
  /\ j.inflight => j.kicked \in F /\ m.pendingFrame = j.kicked
  /\ PairedOn(m, j)

PipeFollows(m, j, F) == FollowsOn(m, F) /\ PendingOn(m, j, F) /\ InflightOn(m, j, F)

PendsOn(m, j) ==
  j.kicked # 0 /\ ~j.discard /\ (j.inflight \/ HasResidual(m)) /\ ~m.mirror

LEMMA AccumulatePendingFields ==
  ASSUME NEW m \in Machine, evalCounter \in Nat
  PROVE  /\ RecordAccumulatePending(m) \in Machine
         /\ RecordAccumulatePending(m).pending = m.pending \cup {evalCounter}
         /\ RecordAccumulatePending(m).acc = m.acc
         /\ RecordAccumulatePending(m).residual = m.residual
         /\ RecordAccumulatePending(m).chainFrame = m.chainFrame
         /\ RecordAccumulatePending(m).mirror = m.mirror
         /\ RecordAccumulatePending(m).pendingFrame = m.pendingFrame
         /\ RecordAccumulatePending(m).role = m.role
BY DEF RecordAccumulatePending, Machine

LEMMA AccumulatedFields ==
  ASSUME NEW m \in Machine, NEW j, evalCounter \in Nat
  PROVE  LET a == Accumulated(m, j)
         IN /\ a \in Machine /\ a.residual = m.residual /\ a.chainFrame = m.chainFrame
            /\ a.mirror = m.mirror /\ a.pendingFrame = m.pendingFrame /\ a.role = m.role
            /\ a.acc = (IF HasResidual(m) THEN m.acc \cup {evalCounter} ELSE m.acc)
            /\ a.pending = (IF PendsOn(m, j) THEN m.pending \cup {evalCounter} ELSE m.pending)
<1> DEFINE c == CarriedOn(m)
<1>1. /\ c \in Machine /\ c.residual = m.residual /\ c.chainFrame = m.chainFrame
      /\ c.mirror = m.mirror /\ c.pendingFrame = m.pendingFrame /\ c.role = m.role
      /\ c.acc = (IF HasResidual(m) THEN m.acc \cup {evalCounter} ELSE m.acc)
      /\ c.pending = m.pending
  BY AccumulateFields DEF CarriedOn
<1>2. Accumulated(m, j) = IF PendsOn(m, j) THEN RecordAccumulatePending(c) ELSE c
  BY DEF Accumulated, PendsOn, CarriedOn
<1> HIDE DEF c
<1>3. QED
  BY <1>1, <1>2, AccumulatePendingFields

LEMMA AccumulatedSound ==
  ASSUME NEW m, NEW j, NEW F, Before(F), PipeOn(m, j, F)
  PROVE  PipeOn(Accumulated(m, j), j, Now(F))
<1>1. m \in Machine /\ evalCounter \in Nat
  BY DEF PipeOn, SoundOn, Before
<1> DEFINE a == Accumulated(m, j)
<1>2. /\ a \in Machine /\ a.residual = m.residual /\ a.chainFrame = m.chainFrame
      /\ a.pendingFrame = m.pendingFrame
      /\ a.acc = (IF HasResidual(m) THEN m.acc \cup {evalCounter} ELSE m.acc)
      /\ a.pending = (IF PendsOn(m, j) THEN m.pending \cup {evalCounter} ELSE m.pending)
  BY <1>1, AccumulatedFields
<1> HIDE DEF a
<1>3. SoundOn(a, Now(F))
  BY <1>2 DEF PipeOn, SoundOn, Now, HasResidual
<1>4. PairedOn(a, j)
  BY <1>2 DEF PipeOn, PairedOn, PendsOn, HasResidual
<1>5. QED
  BY <1>2, <1>3, <1>4 DEF PipeOn, Now, a

\* The frame in progress joins the chains it must join.
LEMMA AccumulatedFollows ==
  ASSUME NEW m, NEW j, NEW F, Before(F), PipeOn(m, j, F), PipeFollows(m, j, F)
  PROVE  PipeFollows(Accumulated(m, j), j, Now(F))
<1>1. m \in Machine /\ evalCounter \in Nat
  BY DEF PipeOn, SoundOn, Before
<1> DEFINE a == Accumulated(m, j)
<1>2. /\ a \in Machine /\ a.residual = m.residual
      /\ a.mirror = m.mirror /\ a.pendingFrame = m.pendingFrame
      /\ a.acc = (IF HasResidual(m) THEN m.acc \cup {evalCounter} ELSE m.acc)
      /\ a.pending = (IF PendsOn(m, j) THEN m.pending \cup {evalCounter} ELSE m.pending)
  BY <1>1, AccumulatedFields
<1> HIDE DEF a
<1>3. FollowsOn(a, Now(F))
  <2>1. CASE m.residual = 0
    BY <1>2, <2>1 DEF FollowsOn
  <2>2. CASE m.residual # 0
    <3>1. m.residual \in F
      BY <2>2 DEF PipeOn, SoundOn
    <3>2. SinceIn(Now(F), m.residual) = SinceIn(F, m.residual) \cup {evalCounter}
      BY <3>1, SinceNow
    <3>3. a.residual = m.residual /\ a.acc = m.acc \cup {evalCounter}
      BY <1>2, <2>2 DEF HasResidual
    <3>4. m.acc = SinceIn(F, m.residual)
      BY <2>2 DEF PipeFollows, FollowsOn
    <3>5. QED
      BY <2>2, <3>2, <3>3, <3>4 DEF FollowsOn
  <2>3. QED
    BY <2>1, <2>2
<1>4. ASSUME PendingExact(m, F), PendsOn(m, j)
      PROVE  PendingExact(a, Now(F))
  <2>1. m.pendingFrame \in F /\ m.pending = SinceIn(F, m.pendingFrame)
    BY <1>4 DEF PendingExact
  <2>2. SinceIn(Now(F), m.pendingFrame) = SinceIn(F, m.pendingFrame) \cup {evalCounter}
    BY <2>1, SinceNow
  <2>3. a.pendingFrame = m.pendingFrame /\ a.pending = m.pending \cup {evalCounter}
    BY <1>2, <1>4
  <2>4. QED
    BY <2>1, <2>2, <2>3 DEF PendingExact, Now
<1>5. PendingOn(a, j, Now(F))
  <2>1. ASSUME a.pending # {}
        PROVE  PendsOn(m, j) /\ PendingExact(m, F)
    <3>1. PendsOn(m, j) \/ m.pending # {}
      BY <1>2, <2>1
    <3>2. CASE m.pending # {}
      BY <3>2 DEF PipeFollows, PendingOn, PendsOn, HasResidual
    <3>3. CASE PendsOn(m, j) /\ ~j.inflight
      BY <3>3 DEF PipeFollows, PendingOn, PendsOn, HasResidual
    <3>4. CASE PendsOn(m, j) /\ j.inflight
      BY <3>4 DEF PipeFollows, InflightOn, PendsOn
    <3>5. QED
      BY <3>1, <3>2, <3>3, <3>4
  <2>2. ASSUME a.residual # 0, ~a.mirror, j.kicked # 0, ~j.discard
        PROVE  PendsOn(m, j) /\ PendingExact(m, F)
    BY <1>2, <2>2 DEF PendsOn, HasResidual, PipeFollows, PendingOn
  <2>3. QED
    BY <1>2, <1>4, <2>1, <2>2 DEF PendingOn, PendsOn, HasResidual
<1>6. InflightOn(a, j, Now(F))
  <2>1. SUFFICES ASSUME j.inflight, ~j.discard
                 PROVE  ~a.mirror /\ PendingExact(a, Now(F))
    BY DEF InflightOn
  <2>2. ~m.mirror /\ PendingExact(m, F)
    BY <2>1 DEF PipeFollows, InflightOn
  <2>3. j.kicked # 0
    BY <2>1 DEF PipeOn, Before
  <2>4. PendsOn(m, j)
    BY <2>1, <2>2, <2>3 DEF PendsOn
  <2>5. QED
    BY <1>2, <1>4, <2>2, <2>4
<1>7. QED
  BY <1>3, <1>5, <1>6 DEF PipeFollows, a

LEMMA AdoptedFields ==
  ASSUME NEW m \in Machine, NEW j, ~j.discard, j.kicked \in Nat, evalCounter \in Nat
  PROVE  LET a == Adopted(m, j)
         IN /\ a \in Machine /\ a.residual = j.kicked /\ a.chainFrame = m.pendingFrame
            /\ a.mirror = (m.pending # {}) /\ a.pendingFrame = m.pendingFrame /\ a.role = m.role
            /\ a.acc = m.pending /\ a.pending = {}
<1> DEFINE n == RecordResidual(m, j.kicked)
<1>1. /\ n \in Machine /\ n.residual = j.kicked /\ n.pending = m.pending
      /\ n.pendingFrame = m.pendingFrame /\ n.role = m.role
  BY DEF RecordResidual, Machine
<1>2. Adopted(m, j) = PromotePending(n)
  BY DEF Adopted
<1> HIDE DEF n
<1>3. /\ PromotePending(n) \in Machine
      /\ PromotePending(n).residual = n.residual /\ PromotePending(n).chainFrame = n.pendingFrame
      /\ PromotePending(n).mirror = (n.pending # {}) /\ PromotePending(n).pendingFrame = n.pendingFrame
      /\ PromotePending(n).role = n.role
      /\ PromotePending(n).acc = n.pending /\ PromotePending(n).pending = {}
  BY <1>1 DEF PromotePending, Machine
<1>4. QED
  BY <1>1, <1>2, <1>3

AfterAdoption(j) == [j EXCEPT !.inflight = FALSE, !.discard = FALSE]

LEMMA AfterAdoptionFields ==
  ASSUME NEW j \in Job
  PROVE  /\ AfterAdoption(j) \in Job
         /\ AfterAdoption(j).kicked = j.kicked /\ AfterAdoption(j).built = j.built
         /\ ~AfterAdoption(j).inflight /\ ~AfterAdoption(j).discard
BY DEF AfterAdoption, Job

\* The answer of the pass brings the chain that was kept for it.
LEMMA AdoptedSound ==
  ASSUME NEW m, NEW j, NEW F, Before(F), PipeOn(m, j, Now(F)), j.inflight
  PROVE  /\ PipeOn(Adopted(m, j), AfterAdoption(j), Now(F))
         /\ Adopted(m, j).role = m.role
<1>1. /\ m \in Machine /\ evalCounter \in Nat /\ j.kicked \in Nat /\ m.pendingFrame = j.kicked
      /\ j \in Job
      /\ j.kicked \in Now(F) /\ j.kicked # 0
  BY DEF PipeOn, SoundOn, Before, Now
<1>2. CASE j.discard
  <2>1. Adopted(m, j) = ResetPending(m)
    BY <1>2 DEF Adopted
  <2>2. SoundOn(m, Now(F))
    BY DEF PipeOn
  <2>3. SoundOn(ResetPending(m), Now(F)) /\ ResetPending(m).role = m.role
        /\ PairedOn(ResetPending(m), AfterAdoption(j))
    BY <1>1, <2>2, ResetPendingSound, ResetPendingFields
  <2>4. QED
    BY <1>1, <2>1, <2>3, AfterAdoptionFields DEF PipeOn
<1>3. CASE ~j.discard
  <2>1. SoundOn(Adopted(m, j), Now(F))
    BY <1>1, <1>3, AdoptedFields DEF SoundOn, PipeOn
  <2>2. PairedOn(Adopted(m, j), AfterAdoption(j))
    BY <1>1, <1>3, AdoptedFields DEF PairedOn
  <2>3. QED
    BY <1>1, <1>3, <2>1, <2>2, AdoptedFields, AfterAdoptionFields DEF PipeOn
<1>4. QED
  BY <1>2, <1>3

LEMMA AdoptedFollows ==
  ASSUME NEW m, NEW j, NEW F, Before(F), PipeOn(m, j, Now(F)), PipeFollows(m, j, Now(F)), j.inflight
  PROVE  PipeFollows(Adopted(m, j), AfterAdoption(j), Now(F))
<1>1. /\ m \in Machine /\ evalCounter \in Nat /\ j.kicked \in Nat /\ m.pendingFrame = j.kicked
      /\ j \in Job
  BY DEF PipeOn, SoundOn, Before, Now
<1>2. CASE j.discard
  <2>1. Adopted(m, j) = ResetPending(m)
    BY <1>2 DEF Adopted
  <2>2. SoundOn(m, Now(F)) /\ FollowsOn(m, Now(F))
    BY DEF PipeOn, PipeFollows
  <2>3. QED
    BY <2>1, <2>2, ResetPendingSound DEF PipeFollows
<1>3. CASE ~j.discard
  <2> DEFINE a == Adopted(m, j)
             k == AfterAdoption(j)
  <2>1. /\ a.residual = j.kicked /\ a.mirror = (m.pending # {}) /\ a.pendingFrame = m.pendingFrame
        /\ a.acc = m.pending /\ a.pending = {}
    BY <1>1, <1>3, AdoptedFields
  <2>2. ~k.inflight
    BY <1>1, AfterAdoptionFields
  <2> HIDE DEF a, k
  <2>3. PendingExact(m, Now(F))
    BY <1>3 DEF PipeFollows, InflightOn
  <2>4. FollowsOn(a, Now(F))
    BY <1>1, <2>1, <2>3 DEF FollowsOn, PendingExact
  <2>5. PendingOn(a, k, Now(F))
    <3>1. ~a.mirror => PendingExact(a, Now(F))
      BY <2>1, <2>3 DEF PendingExact
    <3>2. QED
      BY <2>1, <3>1 DEF PendingOn
  <2>6. InflightOn(a, k, Now(F))
    BY <2>2 DEF InflightOn
  <2>7. QED
    BY <2>4, <2>5, <2>6 DEF PipeFollows, a, k
<1>4. QED
  BY <1>2, <1>3

-----------------------------------------------------------------------------
(* The evaluate in progress, and what its model runs are given.            *)

InProgress ==
  /\ Before(Past) /\ frames = Now(Past) /\ evalCounter = thisEvaluate
  /\ Before(Had) /\ Held = Now(Had) /\ evalCounter \notin missed
  /\ previousEvaluate \in Nat /\ previousEvaluate < evalCounter
  /\ \A f \in Past : f <= previousEvaluate
  /\ evalCounter \in resets => hostReset
  /\ resets \subseteq frames

LEMMA Progress ==
  ASSUME FramesKnown, Phased, phase # "between"
  PROVE  InProgress
<1>1. /\ evalCounter = thisEvaluate /\ evalCounter \in frames /\ previousEvaluate < evalCounter
      /\ evalCounter \in resets => hostReset
      /\ evalCounter \notin missed
  BY DEF Phased
<1>2. Past = frames \ {evalCounter} /\ Had = Past \ missed
  BY <1>1 DEF Past, Had
<1>3. evalCounter \in Nat /\ previousEvaluate \in Nat /\ frames \subseteq 1 .. evalCounter
  BY <1>1 DEF FramesKnown
<1>4. \A f \in Past : f \in Nat /\ 0 < f /\ f < evalCounter
  BY <1>2, <1>3
<1>5. \A f \in Past : f <= previousEvaluate
  BY <1>1, <1>2, <1>4 DEF FramesKnown
<1>6. frames = Now(Past) /\ Held = Now(Had)
  BY <1>1, <1>2 DEF Now, Held
<1>7. Before(Past) /\ Before(Had)
  BY <1>1, <1>2, <1>3, <1>4 DEF Before
<1>8. QED
  BY <1>1, <1>3, <1>5, <1>6, <1>7 DEF InProgress, FramesKnown

\* Vectors that are what their recorder says: the host's, or a whole chain.
VectorsGood(v) ==
  /\ v.named # 0 => v.chain = Since(v.named) \ missed
  /\ v.named = 0 => v.chain = {evalCounter}

VectorsClear(v) == v.named # 0 => resets \cap Since(v.named) = {}

LEMMA HostGood == VectorsGood(Host) /\ VectorsClear(Host)
BY DEF VectorsGood, VectorsClear, Host

LEMMA ChainGood ==
  ASSUME NEW m, SoundOn(m, Held), FollowsOn(m, Held), AccValid(m)
  PROVE  VectorsGood(ChainOf(m))
<1>1. m.residual # 0 /\ m.chainFrame = m.residual
  BY DEF SoundOn, AccValid
<1>2. SinceIn(Held, m.residual) = Since(m.residual) \ missed
  BY DEF SinceIn, Since, Held
<1>3. QED
  BY <1>1, <1>2 DEF VectorsGood, ChainOf, FollowsOn

LEMMA ChainClear ==
  ASSUME NEW m, SoundOn(m, frames), ClearOn(m, frames, resets), AccValid(m)
  PROVE  VectorsClear(ChainOf(m))
<1>1. m.residual # 0 /\ m.chainFrame = m.residual
  BY DEF SoundOn, AccValid
<1>2. QED
  BY <1>1 DEF VectorsClear, ChainOf, ClearOn, Since, SinceIn

LEMMA RunFields ==
  ASSUME NEW m, NEW which, NEW v, NEW good, NEW r \in EvaluateModelPasses(m, which, v, good)
  PROVE  \E i \in which :
           /\ r.pass = i /\ r.handle = (IF i = 0 THEN m.real.handle ELSE m.extra.handle)
           /\ r.from = histories[i].frame /\ r.chain = v.chain
           /\ r.keeps => ~hostReset /\ Continues(i, r.handle, v)
<1>1. PICK i \in which : r = RunFeature(m, i, v, Cardinality({j \in which : j < i}) < good)
  BY DEF EvaluateModelPasses
<1>2. QED
  BY <1>1 DEF RunFeature

\* A run that keeps its history is given the vectors since it.
LEMMA RunRecorded ==
  ASSUME InProgress, NEW m, NEW which, NEW v, VectorsGood(v), NEW good,
         NEW r \in EvaluateModelPasses(m, which, v, good), r.keeps
  PROVE  r.chain = Since(r.from) \ missed
<1>1. PICK i \in which : /\ r.from = histories[i].frame /\ r.chain = v.chain
                         /\ ~hostReset /\ Continues(i, r.handle, v)
  BY RunFields
<1>2. r.from = Anchor(v.named)
  BY <1>1 DEF Continues
<1>3. CASE v.named # 0
  BY <1>1, <1>2, <1>3 DEF VectorsGood, Anchor
<1>4. CASE v.named = 0
  <2>1. r.from = previousEvaluate /\ r.chain = {evalCounter}
    BY <1>1, <1>2, <1>4 DEF Anchor, VectorsGood
  <2>2. Since(previousEvaluate) = {evalCounter} /\ evalCounter \notin missed
    BY DEF InProgress, Before, Now, Since
  <2>3. QED
    BY <2>1, <2>2
<1>5. QED
  BY <1>3, <1>4

\* Nor is there a reset since the history it keeps.
LEMMA RunClear ==
  ASSUME InProgress, NEW m, NEW which, NEW v, VectorsClear(v), NEW good,
         NEW r \in EvaluateModelPasses(m, which, v, good), r.keeps
  PROVE  resets \cap Since(r.from) = {}
<1>1. PICK i \in which : /\ r.from = histories[i].frame
                         /\ ~hostReset /\ Continues(i, r.handle, v)
  BY RunFields
<1>2. r.from = Anchor(v.named)
  BY <1>1 DEF Continues
<1>3. CASE v.named # 0
  BY <1>2, <1>3 DEF VectorsClear, Anchor
<1>4. CASE v.named = 0
  <2>1. r.from = previousEvaluate
    BY <1>2, <1>4 DEF Anchor
  <2>2. Since(previousEvaluate) = {evalCounter}
    BY DEF InProgress, Before, Now, Since
  <2>3. evalCounter \notin resets
    BY <1>1 DEF InProgress
  <2>4. QED
    BY <2>1, <2>2, <2>3
<1>5. QED
  BY <1>3, <1>4

LEMMA ShownClear ==
  ASSUME NEW m, ClearOn(m, frames, resets), Shown(m).residual # 0
  PROVE  resets \cap Since(Shown(m).residual) = {}
BY DEF Shown, HasResidual, NoPicture, ClearOn, Since, SinceIn

LEMMA ShownGood ==
  ASSUME NEW m, FollowsOn(m, Held), Shown(m).residual # 0
  PROVE  Shown(m).chain = Since(Shown(m).residual) \ missed
<1>1. SinceIn(Held, m.residual) = Since(m.residual) \ missed
  BY DEF SinceIn, Since, Held
<1>2. QED
  BY <1>1 DEF Shown, HasResidual, NoPicture, FollowsOn

-----------------------------------------------------------------------------
(* The models of a frame.                                                  *)

LEMMA FreshHandle ==
  ASSUME NEW h
  PROVE  Fresh(h) \in Handles /\ Fresh(h) \notin {real.handle, extra.handle, h}
<1>1. \A a, b, c : \E x \in Handles : x \notin {a, b, c}
  <2>1. 1 \in Handles /\ 2 \in Handles /\ 3 \in Handles /\ 4 \in Handles
    BY DEF Handles
  <2>2. QED
    BY <2>1
<1>2. \E x \in Handles : x \notin {real.handle, extra.handle, h}
  BY <1>1
<1>3. QED
  BY <1>2 DEF Fresh

ModelRecord(m) ==
  /\ m.real \in RealModel /\ m.extra \in ExtraModel
  /\ m.real.handle = m.extra.handle => m.real.handle = 0
  /\ m.forced \in BOOLEAN

LEMMA NoExtraShape == NoExtra \in ExtraModel /\ NoExtra.handle = 0 /\ ~NoExtra.pending
BY DEF NoExtra, ExtraModel

LEMMA ConfiguredShape ==
  ASSUME ModelsKnown, Phased, NEW c
  PROVE  ModelRecord(Configured(c)) /\ (c = "next" => Configured(c).forced)
<1>1. CASE c \in {"same", "fails"}
  BY <1>1 DEF Configured, ModelRecord, ModelsKnown, Phased
<1>2. CASE c \notin {"same", "fails"}
  <2> DEFINE a == Fresh(0)
             b == Fresh(Fresh(0))
  <2>1. a \in Handles /\ b \in Handles /\ a # b
    BY FreshHandle
  <2>2. 0 \notin Handles
    BY DEF Handles
  <2>3. Configured(c) = [real |-> [handle |-> a, pending |-> c = "next"],
                         extra |-> IF extra.handle = 0 THEN NoExtra
                                   ELSE [handle |-> b, pending |-> c = "next", reset |-> TRUE],
                         forced |-> TRUE]
    BY <1>2 DEF Configured
  <2> HIDE DEF a, b
  <2>4. [handle |-> a, pending |-> c = "next"] \in RealModel
    BY <2>1 DEF RealModel
  <2>5. [handle |-> b, pending |-> c = "next", reset |-> TRUE] \in ExtraModel
    BY <2>1 DEF ExtraModel
  <2>6. QED
    BY <2>1, <2>2, <2>3, <2>4, <2>5, NoExtraShape DEF ModelRecord
<1>3. QED
  BY <1>1, <1>2

LEMMA CurrentShape ==
  ASSUME ModelsKnown, Phased
  PROVE  ModelRecord(Current)
BY DEF Current, ModelRecord, ModelsKnown, Phased

RunsShape(rs) == \A r \in rs : r.pass \in Stages /\ r.handle \in Handles \cup {0}

LEMMA RunsKnown ==
  ASSUME NEW m, ModelRecord(m), NEW which \in SUBSET Stages, NEW v, NEW good
  PROVE  RunsShape(EvaluateModelPasses(m, which, v, good))
<1>1. m.real.handle \in Handles \cup {0} /\ m.extra.handle \in Handles \cup {0}
  BY DEF ModelRecord, RealModel, ExtraModel
<1>2. QED
  BY <1>1, RunFields DEF RunsShape

LEMMA RangesKnown ==
  ASSUME NEW which \in Ranges
  PROVE  which \subseteq Stages
BY DEF Ranges, InFrame, PassesReady, Stages

\* How every route ends.
RouteLeaves == UNCHANGED <<frameIds, config, passesRequested, frames, resets>> /\ missed' \subseteq frames

LEMMA FrameEnds ==
  ASSUME FShape, phase = "route", NEW m, ModelRecord(m), NEW rs, RunsShape(rs), NEW fallback \in BOOLEAN,
         EndFrame(m, rs, fallback), RouteLeaves
  PROVE  FramesKnown' /\ Phased' /\ ModelsKnown'
<1> USE DEF FShape
<1>1. FramesKnown'
  BY DEF FramesKnown, RouteLeaves, frameIds
<1>2. forcedReset' \in BOOLEAN
  BY DEF EndFrame, ModelRecord
<1>3. Phased'
  BY <1>2 DEF Phased, EndFrame
<1>4. histories' \in [Stages -> [handle : Handles \cup {0}, frame : Nat]]
  <2>1. evalCounter \in Nat /\ histories \in [Stages -> [handle : Handles \cup {0}, frame : Nat]]
    BY DEF FramesKnown, ModelsKnown
  <2>2. ASSUME NEW i \in Stages, \E r \in rs : r.pass = i /\ r.ok
        PROVE  (CHOOSE r \in rs : r.pass = i).handle \in Handles \cup {0}
    BY <2>2 DEF RunsShape
  <2>3. QED
    BY <2>1, <2>2 DEF EndFrame, AfterRuns
<1>5. /\ real' \in RealModel /\ extra' \in ExtraModel
      /\ real'.handle = extra'.handle => real'.handle = 0
  <2>1. real' = m.real /\ extra' = [m.extra EXCEPT !.reset = @ /\ ~(\E r \in rs : r.pass = 1 /\ r.ok)]
    BY DEF EndFrame, AfterRuns
  <2>2. m.extra \in ExtraModel /\ m.real \in RealModel
    BY DEF ModelRecord
  <2>3. extra' \in ExtraModel /\ extra'.handle = m.extra.handle
    BY <2>1, <2>2 DEF ExtraModel
  <2>4. QED
    BY <2>1, <2>2, <2>3 DEF ModelRecord
<1>6. ModelsKnown'
  BY <1>4, <1>5 DEF ModelsKnown, RouteLeaves, config
<1>7. QED
  BY <1>1, <1>3, <1>6

\* Afterwards the evaluate in progress is one of the past.
LEMMA PastEnds ==
  ASSUME FShape, phase = "route", NEW m, NEW rs, NEW fallback, EndFrame(m, rs, fallback), RouteKeeps
  PROVE  /\ Past' = Now(Past) /\ frames = Now(Past) /\ Had' = Now(Had) /\ Held = Now(Had)
         /\ resets' = resets /\ settings' = settings
<1>1. InProgress
  BY Progress DEF FShape
<1>2. Past' = frames /\ resets' = resets /\ settings' = settings /\ missed' = missed
  BY DEF Past, EndFrame, RouteKeeps, config
<1>3. Had' = Held
  BY <1>2 DEF Had, Held
<1>4. QED
  BY <1>1, <1>2, <1>3 DEF InProgress

LEMMA RecordedEnds ==
  ASSUME InProgress, NEW m, NEW rs, NEW fallback, EndFrame(m, rs, fallback), RouteKeeps,
         \A r \in rs : r.keeps => r.chain = Since(r.from) \ missed,
         shown' = NoPicture \/ \E p : shown' = Shown(p) /\ FollowsOn(p, Held)
  PROVE  Recorded'
<1>1. runs' = rs /\ frames' = frames /\ resets' = resets /\ missed' = missed
  BY DEF EndFrame, AfterRuns, RouteKeeps
<1>2. \A f : Since(f)' = Since(f)
  BY <1>1 DEF Since
<1>3. shown'.residual # 0 => shown'.chain = Since(shown'.residual) \ missed
  BY ShownGood DEF NoPicture
<1>4. QED
  BY <1>1, <1>3 DEF Recorded, Since

LEMMA RecordedClearEnds ==
  ASSUME NEW m, NEW rs, NEW fallback, EndFrame(m, rs, fallback), RouteKeeps,
         \A r \in rs : r.keeps => resets \cap Since(r.from) = {},
         shown' = NoPicture \/ \E p : shown' = Shown(p) /\ ClearOn(p, frames, resets)
  PROVE  RecordedClear'
<1>1. runs' = rs /\ frames' = frames /\ resets' = resets
  BY DEF EndFrame, AfterRuns, RouteKeeps
<1>2. shown'.residual # 0 => resets \cap Since(shown'.residual) = {}
  BY ShownClear DEF NoPicture
<1>3. QED
  BY <1>1, <1>2 DEF RecordedClear, Since

-----------------------------------------------------------------------------
(* Between the evaluates, and an evaluate up to its route.                 *)

Empty(m) == m.residual = 0 /\ m.pending = {}

LEMMA EmptyFollows ==
  ASSUME NEW m, Empty(m), NEW j, NEW F
  PROVE  FollowsOn(m, F) /\ PendingOn(m, j, F)
BY DEF Empty, FollowsOn, PendingOn

LEMMA EmptyChained ==
  ASSUME temporal' = NoMachine \/ Empty(temporal')
  PROVE  MainFollows' /\ PendingFollows'
<1>1. temporal' # NoMachine => FollowsOn(temporal', Had') /\ PendingOn(temporal', async', Had')
  BY EmptyFollows
<1>2. QED
  BY <1>1 DEF MainFollows, PendingFollows

LEMMA InvalidatedMain ==
  ASSUME MachinesKnown, NEW F, NEW j
  PROVE  /\ Invalidate(temporal) = NoMachine <=> temporal = NoMachine
         /\ temporal # NoMachine =>
              /\ SoundOn(Invalidate(temporal), F) /\ Empty(Invalidate(temporal))
              /\ PairedOn(Invalidate(temporal), j)
              /\ Invalidate(temporal).role = temporal.role
              /\ Invalidate(temporal).pendingFrame = temporal.pendingFrame
<1>1. CASE temporal = NoMachine
  BY <1>1 DEF Invalidate
<1>2. CASE temporal # NoMachine
  <2>1. SoundOn(temporal, Had) /\ temporal \in Machine
    BY <1>2 DEF MachinesKnown, SoundOn
  <2>2. QED
    BY <1>2, <2>1, InvalidateSound, InvalidateFields, SomeMachine DEF Empty
<1>3. QED
  BY <1>1, <1>2

LEMMA InvalidatedChained ==
  ASSUME MachinesKnown, temporal' = Invalidate(temporal)
  PROVE  MainFollows' /\ PendingFollows'
BY InvalidatedMain, EmptyChained

LEMMA NoJobKnown == NoJob3 \in Job /\ ~NoJob3.inflight /\ ~NoJob3.discard /\ ~NoJob3.built
BY DEF NoJob3, Job

LEMMA ApplyTemporalShape ==
  ASSUME FShape, NEW s \in [mode : Modes, passes : Passes, spread : Spreads], ApplyTemporal(s)
  PROVE  FShape'
<1> USE DEF FShape
<1>1. FramesKnown' /\ Phased'
  BY DEF Changing, FramesKnown, Phased, ApplyTemporal, frameIds, models
<1>2. s \in [mode : {0, 1, 3}, passes : {1, 2}, spread : BOOLEAN]
  BY FramesAssumption
<1>3. ModelsKnown'
  BY <1>2 DEF ModelsKnown, ApplyTemporal, models
<1>4. Had' = Had
  BY DEF Changing, Had, Past, ApplyTemporal
<1>5. temporal' = Invalidate(temporal)
  BY DEF ApplyTemporal
<1>6. MachinesKnown'
  BY <1>4, <1>5, InvalidatedMain DEF MachinesKnown, ApplyTemporal, Empty
<1>7. JobKnown'
  <2>1. CASE s.mode = 3
    BY <2>1, <1>4, <1>5, InvalidatedMain DEF JobKnown, ApplyTemporal
  <2>2. CASE s.mode # 3
    BY <2>2, NoJobKnown DEF JobKnown, ApplyTemporal
  <2>3. QED
    BY <2>1, <2>2
<1>8. QED
  BY <1>1, <1>3, <1>6, <1>7

LEMMA ApplyTemporalChained ==
  ASSUME DropsMidPass = FALSE, FInv, NEW s \in [mode : Modes, passes : Passes, spread : Spreads], ApplyTemporal(s)
  PROVE  Chained' /\ Recorded'
<1> USE DEF FInv, FShape
<1>1. MainFollows' /\ PendingFollows'
  BY InvalidatedChained DEF ApplyTemporal
<1>2. HiddenFollows'
  BY DEF HiddenFollows, ApplyTemporal
<1>3. InflightFollows'
  <2>1. CASE ~async.inflight \/ s.mode # 3
    BY <2>1, NoJobKnown DEF InflightFollows, ApplyTemporal
  <2>2. CASE async.inflight /\ s.mode = 3
    <3>1. Doomed'
      BY <2>2 DEF ApplyTemporal, Doomed, PassesReady, models
    <3>2. QED
      BY <3>1 DEF InflightFollows
  <2>3. QED
    BY <2>1, <2>2
<1>4. Recorded'
  BY DEF Recorded, ApplyTemporal, Since
<1>5. QED
  BY <1>1, <1>2, <1>3, <1>4 DEF Chained

LEMMA MotionSourceShape ==
  ASSUME FShape, SetTemporalMotionSource
  PROVE  FShape'
<1> USE DEF FShape
<1>1. FramesKnown' /\ Phased' /\ ModelsKnown'
  BY DEF FramesKnown, Phased, ModelsKnown, SetTemporalMotionSource, frameIds, models
<1>2. Had' = Had /\ temporal' = Invalidate(temporal)
  BY DEF Changing, Had, Past, SetTemporalMotionSource
<1>3. MachinesKnown'
  BY <1>2, InvalidatedMain DEF MachinesKnown, SetTemporalMotionSource, Empty
<1>4. JobKnown'
  BY <1>2, InvalidatedMain DEF JobKnown, SetTemporalMotionSource
<1>5. QED
  BY <1>1, <1>3, <1>4

LEMMA MotionSourceChained ==
  ASSUME DropsMidPass = FALSE, FInv, SetTemporalMotionSource
  PROVE  Chained' /\ Recorded'
<1> USE DEF FInv, FShape
<1>1. MainFollows' /\ PendingFollows'
  BY InvalidatedChained DEF SetTemporalMotionSource
<1>2. HiddenFollows'
  BY DEF Changing, HiddenFollows, SetTemporalMotionSource, Had, Past, Stale, models, Chained
<1>3. InflightFollows'
  BY DEF InflightFollows, SetTemporalMotionSource
<1>4. Recorded'
  BY DEF Recorded, SetTemporalMotionSource, Since
<1>5. QED
  BY <1>1, <1>2, <1>3, <1>4 DEF Chained

LEMMA DiagnosticsShape ==
  ASSUME FShape, SetTemporalDiagnostics
  PROVE  FShape'
<1> USE DEF FShape
<1>1. FramesKnown' /\ Phased' /\ ModelsKnown'
  BY DEF FramesKnown, Phased, ModelsKnown, SetTemporalDiagnostics, frameIds, models
<1>2. Had' = Had /\ temporal' = Invalidate(temporal)
  BY DEF Changing, Had, Past, SetTemporalDiagnostics
<1>3. MachinesKnown'
  BY <1>2, InvalidatedMain DEF MachinesKnown, SetTemporalDiagnostics, Empty
<1>4. JobKnown'
  BY NoJobKnown DEF JobKnown, SetTemporalDiagnostics
<1>5. QED
  BY <1>1, <1>3, <1>4

LEMMA DiagnosticsChained ==
  ASSUME FInv, SetTemporalDiagnostics
  PROVE  Chained' /\ Recorded'
<1> USE DEF FInv, FShape
<1>1. MainFollows' /\ PendingFollows'
  BY InvalidatedChained DEF SetTemporalDiagnostics
<1>2. HiddenFollows' /\ InflightFollows'
  BY NoJobKnown DEF HiddenFollows, InflightFollows, SetTemporalDiagnostics
<1>3. Recorded'
  BY DEF Recorded, SetTemporalDiagnostics, Since
<1>4. QED
  BY <1>1, <1>2, <1>3 DEF Chained

LEMMA ChangeLayoutKeeps ==
  ASSUME FShape, ChangeLayout
  PROVE  FShape' /\ (Chained /\ Recorded => Chained' /\ Recorded')
<1> USE DEF FShape
<1>1. FramesKnown' /\ Phased' /\ ModelsKnown'
  BY DEF FramesKnown, Phased, ModelsKnown, ChangeLayout, frameIds, models
<1>2. Had' = Had
  BY DEF Changing, Had, Past, ChangeLayout
<1>3. MachinesKnown' /\ JobKnown'
  BY <1>2 DEF MachinesKnown, JobKnown, ChangeLayout
<1>4. Chained /\ Recorded => Chained' /\ Recorded'
  BY <1>2 DEF Chained, Recorded, MainFollows, HiddenFollows, PendingFollows, InflightFollows, Stale, Unbuilt,
              Doomed, PassesReady, Since, models, ChangeLayout
<1>5. QED
  BY <1>1, <1>3, <1>4

LEMMA OtherEvaluateKeeps ==
  ASSUME FShape, OtherEvaluate
  PROVE  FShape' /\ (Chained /\ Recorded => Chained' /\ Recorded')
<1> USE DEF FShape
<1>1. FramesKnown'
  BY DEF FramesKnown, OtherEvaluate
<1>2. Phased' /\ ModelsKnown'
  BY DEF Changing, Phased, ModelsKnown, OtherEvaluate, models
<1>3. Had' = Had
  BY DEF Had, Past, OtherEvaluate
<1>4. MachinesKnown' /\ JobKnown'
  BY <1>3 DEF MachinesKnown, JobKnown, OtherEvaluate
<1>5. Chained /\ Recorded => Chained' /\ Recorded'
  BY <1>3 DEF Chained, Recorded, MainFollows, HiddenFollows, PendingFollows, InflightFollows, Stale, Unbuilt,
              Doomed, PassesReady, Since, models, OtherEvaluate
<1>6. QED
  BY <1>1, <1>2, <1>4, <1>5

\* The evaluate that starts: the frames before it are those of the past, whatever becomes of it.
LEMMA EvaluateFrameFacts ==
  ASSUME FShape, NEW reset \in BOOLEAN, NEW ready \in BOOLEAN, EvaluateFrame(reset, ready)
  PROVE  /\ FramesKnown' /\ Phased' /\ ModelsKnown'
         /\ Past = frames /\ evalCounter + 1 \notin frames
         /\ phase' # "between" => Past' = Past /\ Had' = Had
         /\ Had \subseteq Had'
         /\ phase' = "between" => Stale'
         /\ ~Stale' => ~Stale
<1> USE DEF FShape
<1> DEFINE e == evalCounter + 1
<1>1. /\ evalCounter \in Nat /\ e \in Nat /\ frames \subseteq 1 .. thisEvaluate /\ thisEvaluate \in Nat
      /\ thisEvaluate <= evalCounter /\ e \notin frames
  BY DEF FramesKnown
<1>2. /\ phase = "between" /\ evalCounter' = e /\ thisEvaluate' = e /\ previousEvaluate' = thisEvaluate
      /\ frames' = frames \cup {e} /\ resets' = (IF reset THEN resets \cup {e} ELSE resets)
  BY DEF EvaluateFrame, CountEvaluate
<1>3. FramesKnown'
  <2>1. resets' \subseteq frames'
    BY <1>2 DEF FramesKnown
  <2>2. frames' \subseteq 1 .. e
    BY <1>1, <1>2
  <2>3. \A f \in frames' : f < e => f <= thisEvaluate
    BY <1>1, <1>2
  <2>4. missed' \subseteq frames'
    BY <1>2 DEF FramesKnown, EvaluateFrame
  <2>5. QED
    BY <1>1, <1>2, <2>1, <2>2, <2>3, <2>4 DEF FramesKnown
<1>4. /\ Past = frames /\ (phase' = "between" => Past' = frames \cup {e}) /\ (phase' # "between" => Past' = frames)
      /\ Had \subseteq Had' /\ (phase' # "between" => Had' = Had)
      /\ missed' = missed /\ e \notin missed
  <2>1. missed' = missed
    BY DEF EvaluateFrame
  <2>2. Past = frames /\ (phase' = "between" => Past' = frames \cup {e}) /\ (phase' # "between" => Past' = frames)
    BY <1>1, <1>2 DEF Past
  <2>3. QED
    BY <1>1, <2>1, <2>2 DEF Had, FramesKnown
<1>5. /\ real' = [real EXCEPT !.pending = @ /\ ~ready]
      /\ extra' = [extra EXCEPT !.pending = @ /\ ~ready, !.reset = @ \/ (extra.pending /\ ready)]
      /\ forcedReset' = (forcedReset \/ ready)
  BY DEF EvaluateFrame, PassesPending
<1>6. /\ real' \in RealModel /\ extra' \in ExtraModel
      /\ real'.handle = real.handle /\ extra'.handle = extra.handle
      /\ real'.pending = (real.pending /\ ~ready) /\ extra'.pending = (extra.pending /\ ~ready)
  BY <1>5 DEF ModelsKnown, RealModel, ExtraModel
<1>7. ModelsKnown'
  BY <1>6 DEF ModelsKnown, EvaluateFrame, config
<1>8. /\ phase' = (IF (real.pending \/ extra.pending) /\ ~ready THEN "between"
                  ELSE IF relayout THEN "layout" ELSE Onward(real.handle, passesRequested))
      /\ hostReset' = (reset /\ phase' # "between")
      /\ settings' = settings /\ passesRequested' = passesRequested
  BY DEF EvaluateFrame, config
<1>9. Phased'
  <2>1. phase' \in {"between", "layout", "passes", "route"} /\ forcedReset' \in BOOLEAN /\ hostReset' \in BOOLEAN
    BY <1>5, <1>8 DEF Onward, Phased
  <2>2. phase' # "between" =>
          /\ evalCounter' = thisEvaluate' /\ thisEvaluate' \in frames' /\ previousEvaluate' < thisEvaluate'
          /\ thisEvaluate' \notin missed'
          /\ thisEvaluate' \in resets' => hostReset'
          /\ ~real'.pending /\ ~extra'.pending
    <3>1. e \notin resets /\ thisEvaluate < e
      BY <1>1 DEF FramesKnown
    <3>2. QED
      BY <1>2, <1>4, <1>6, <1>8, <3>1
  <2>3. phase' \in {"passes", "route"} => real'.handle # 0
    BY <1>6, <1>8 DEF Onward
  <2>4. phase' = "route" => settings'.passes = passesRequested'
    BY <1>8 DEF Onward
  <2>5. QED
    BY <1>8, <2>1, <2>2, <2>3, <2>4 DEF Phased
<1>10. phase' = "between" => Stale'
  <2>1. CASE (real.pending \/ extra.pending) /\ ~ready
    BY <1>6, <2>1 DEF Stale
  <2>2. CASE ~((real.pending \/ extra.pending) /\ ~ready) /\ phase' = "between"
    <3>1. real.handle = 0
      BY <1>8, <2>2 DEF Onward
    <3>2. QED
      BY <1>6, <3>1 DEF Stale
  <2>3. QED
    BY <2>1, <2>2
<1>11. ~Stale' => ~Stale
  BY <1>5, <1>6 DEF Stale
<1>12. QED
  BY <1>1, <1>3, <1>4, <1>7, <1>9, <1>10, <1>11

LEMMA EvaluateFrameShape ==
  ASSUME FShape, NEW reset \in BOOLEAN, NEW ready \in BOOLEAN, EvaluateFrame(reset, ready)
  PROVE  FShape'
<1>1. FramesKnown' /\ Phased' /\ ModelsKnown' /\ Had \subseteq Had'
  BY EvaluateFrameFacts
<1>2. UNCHANGED <<settings, temporal, spread, async>>
  BY DEF EvaluateFrame, config
<1>3. MachinesKnown'
  BY <1>1, <1>2, SoundGrows DEF MachinesKnown, FShape
<1>4. JobKnown'
  BY <1>1, <1>2 DEF JobKnown, FShape
<1>5. QED
  BY <1>1, <1>3, <1>4 DEF FShape

LEMMA EvaluateFrameChained ==
  ASSUME FInv, NEW reset \in BOOLEAN, NEW ready \in BOOLEAN, EvaluateFrame(reset, ready)
  PROVE  Chained' /\ Recorded'
<1>1. FShape /\ Chained
  BY DEF FInv
<1>2. /\ (phase' # "between" => Had' = Had) /\ (phase' = "between" => Stale') /\ (~Stale' => ~Stale)
  BY <1>1, EvaluateFrameFacts
<1>3. UNCHANGED <<settings, temporal, spread, async, passesRequested>> /\ extra'.handle = extra.handle
  BY <1>1 DEF EvaluateFrame, config, PassesPending, FShape, ModelsKnown, ExtraModel
<1>4. MainFollows'
  BY <1>1, <1>2, <1>3 DEF MainFollows, Unbuilt, Chained
<1>5. HiddenFollows'
  BY <1>1, <1>2, <1>3 DEF HiddenFollows, Chained
<1>6. PendingFollows'
  BY <1>1, <1>2, <1>3 DEF PendingFollows, PendingOn, Chained
<1>7. InflightFollows'
  BY <1>1, <1>2, <1>3 DEF InflightFollows, InflightOn, Doomed, PassesReady, Chained
<1>8. Recorded'
  BY DEF Recorded, EvaluateFrame, NoPicture
<1>9. QED
  BY <1>4, <1>5, <1>6, <1>7, <1>8 DEF Chained

LEMMA RecordedStays ==
  ASSUME Recorded, UNCHANGED <<frames, resets, missed, runs, shown>>
  PROVE  Recorded'
BY DEF Recorded, Since

LEMMA ApplyLayoutShape ==
  ASSUME FShape, NEW made \in {"same", "now", "next", "none"}, ApplyLayout(made)
  PROVE  FShape'
<1> USE DEF FShape
<1>1. FramesKnown'
  BY DEF FramesKnown, ApplyLayout, frameIds
<1>2. /\ real' \in RealModel /\ extra' \in ExtraModel /\ passesRequested' \in {1, 2} /\ forcedReset' \in BOOLEAN
      /\ real'.handle = extra'.handle => real'.handle = 0
      /\ made # "next" => ~real'.pending
      /\ ~extra'.pending
  <2>1. CASE made = "same"
    BY <2>1 DEF ApplyLayout, models, ModelsKnown, Phased
  <2>2. CASE made # "same"
    <3>1. Fresh(0) \in Handles
      BY FreshHandle
    <3>2. real' = [handle |-> IF made = "none" THEN 0 ELSE Fresh(0), pending |-> made = "next"] /\ extra' = NoExtra
          /\ passesRequested' = 1 /\ forcedReset' = (forcedReset \/ made # "none")
      BY <2>2 DEF ApplyLayout
    <3>3. QED
      BY <3>1, <3>2, NoExtraShape DEF RealModel, Phased
  <2>3. QED
    BY <2>1, <2>2
<1>3. phase' = (IF made = "next" THEN "between" ELSE Onward(real'.handle, passesRequested')) /\ settings' = settings
      /\ hostReset' = (hostReset /\ phase' # "between")
  BY DEF ApplyLayout
<1>4. Phased'
  <2>1. phase' \in {"between", "layout", "passes", "route"} /\ hostReset' \in BOOLEAN
    BY <1>3 DEF Onward, Phased
  <2>2. phase' # "between" =>
          /\ evalCounter' = thisEvaluate' /\ thisEvaluate' \in frames' /\ previousEvaluate' < thisEvaluate'
          /\ thisEvaluate' \notin missed'
          /\ thisEvaluate' \in resets' => hostReset'
          /\ ~real'.pending /\ ~extra'.pending
    BY <1>2, <1>3 DEF ApplyLayout, Phased, frameIds
  <2>3. phase' \in {"passes", "route"} => real'.handle # 0
    BY <1>3 DEF Onward
  <2>4. phase' = "route" => settings'.passes = passesRequested'
    BY <1>3 DEF Onward
  <2>5. QED
    BY <1>2, <1>3, <2>1, <2>2, <2>3, <2>4 DEF Phased
<1>5. ModelsKnown'
  BY <1>2 DEF ModelsKnown, ApplyLayout
<1>6. MachinesKnown' /\ JobKnown'
  BY NoJobKnown DEF MachinesKnown, JobKnown, ApplyLayout
<1>7. QED
  BY <1>1, <1>4, <1>5, <1>6

LEMMA ApplyLayoutChained ==
  ASSUME FInv, NEW made, ApplyLayout(made)
  PROVE  Chained' /\ Recorded'
<1>1. MainFollows' /\ PendingFollows'
  BY EmptyChained DEF ApplyLayout
<1>2. HiddenFollows' /\ InflightFollows'
  BY NoJobKnown DEF HiddenFollows, InflightFollows, ApplyLayout
<1>3. Recorded'
  BY RecordedStays DEF ApplyLayout, FInv
<1>4. QED
  BY <1>1, <1>2, <1>3 DEF Chained

LEMMA EnsuredMachine ==
  ASSUME NEW m, NEW F, m = NoMachine \/ SoundOn(m, F)
  PROVE  /\ SoundOn(Ensured(m), F)
         /\ Ensured(m).role = (IF settings.mode = 3 THEN "background" ELSE "synchronous")
         /\ Ensured(m) = m \/ Empty(Ensured(m))
         /\ m # NoMachine /\ m.role = Ensured(m).role => Ensured(m) = m
<1> DEFINE role == IF settings.mode = 3 THEN "background" ELSE "synchronous"
<1>1. role \in {"synchronous", "background", "hidden"}
  OBVIOUS
<1>2. Ensured(m) = IF m.role = role THEN m ELSE NewMachine(role)
  BY DEF Ensured
<1>3. NoMachine.role # role
  BY DEF NoMachine
<1> HIDE DEF role
<1>4. SoundOn(NewMachine(role), F) /\ NewMachine(role).role = role /\ Empty(NewMachine(role))
  <2>1. NewMachine(role).pending = {}
    BY DEF NewMachine
  <2>2. QED
    BY <1>1, <2>1, NewMachineSound DEF Empty
<1>5. QED
  BY <1>2, <1>3, <1>4 DEF role

LEMMA PreparePassesShape ==
  ASSUME FShape, NEW made \in {"same", "now", "next", "none"}, PrepareModelPasses(made)
  PROVE  FShape'
<1> USE DEF FShape
<1>1. FramesKnown'
  BY DEF FramesKnown, PrepareModelPasses, frameIds
<1>2. real' = real /\ extra' \in ExtraModel /\ (real'.handle = extra'.handle => real'.handle = 0)
      /\ passesRequested' = settings.passes /\ settings' = settings
      /\ (made = "same" => extra' = NoExtra)
  <2>1. Fresh(0) \in Handles /\ Fresh(0) # real.handle
    BY FreshHandle
  <2>2. CASE made \in {"same", "none"}
    BY <2>2, NoExtraShape DEF PrepareModelPasses, config
  <2>3. CASE made \notin {"same", "none"}
    <3>1. extra' = [handle |-> Fresh(0), pending |-> made = "next", reset |-> TRUE]
      BY <2>3 DEF PrepareModelPasses
    <3>2. QED
      BY <2>1, <2>3, <3>1 DEF PrepareModelPasses, config, ExtraModel
  <2>4. QED
    BY <2>2, <2>3
<1>3. Phased'
  <2>1. phase' = (IF made = "same" THEN "route" ELSE "between") /\ hostReset' = (hostReset /\ phase' # "between")
        /\ forcedReset' = forcedReset
    BY DEF PrepareModelPasses
  <2>2. phase = "passes" /\ real.handle # 0 /\ ~real.pending
    BY DEF PrepareModelPasses, Phased
  <2>3. phase' # "between" => ~extra'.pending
    BY <1>2, <2>1, NoExtraShape
  <2>4. QED
    BY <1>2, <2>1, <2>2, <2>3 DEF Phased, PrepareModelPasses, frameIds
<1>4. ModelsKnown'
  BY <1>2 DEF ModelsKnown, PrepareModelPasses, config
<1>5. temporal' = Invalidate(temporal) \/ temporal' = Ensured(Invalidate(temporal))
  BY DEF PrepareModelPasses
<1>6. temporal' = NoMachine \/ (SoundOn(temporal', Had') /\ temporal'.residual = 0)
  <2>1. Invalidate(temporal) = NoMachine \/ (SoundOn(Invalidate(temporal), Had') /\ Empty(Invalidate(temporal)))
    BY InvalidatedMain
  <2>2. SoundOn(Ensured(Invalidate(temporal)), Had') /\ (Ensured(Invalidate(temporal)) = Invalidate(temporal)
          \/ Empty(Ensured(Invalidate(temporal))))
    BY <2>1, EnsuredMachine
  <2>3. QED
    BY <1>5, <2>1, <2>2 DEF Empty
<1>7. MachinesKnown' /\ JobKnown'
  BY <1>6, NoJobKnown DEF MachinesKnown, JobKnown, PrepareModelPasses
<1>8. QED
  BY <1>1, <1>3, <1>4, <1>7

LEMMA PreparePassesChained ==
  ASSUME FInv, NEW made, PrepareModelPasses(made)
  PROVE  Chained' /\ Recorded'
<1>1. temporal' = NoMachine \/ Empty(temporal')
  <2>1. Invalidate(temporal) = NoMachine \/ (SoundOn(Invalidate(temporal), Had) /\ Empty(Invalidate(temporal)))
    BY InvalidatedMain DEF FInv, FShape
  <2>2. Ensured(Invalidate(temporal)) = Invalidate(temporal) \/ Empty(Ensured(Invalidate(temporal)))
    BY <2>1, EnsuredMachine
  <2>3. QED
    BY <2>1, <2>2 DEF PrepareModelPasses
<1>2. MainFollows' /\ PendingFollows'
  BY <1>1, EmptyChained
<1>3. HiddenFollows' /\ InflightFollows'
  BY NoJobKnown DEF HiddenFollows, InflightFollows, PrepareModelPasses
<1>4. Recorded'
  BY RecordedStays DEF PrepareModelPasses, FInv
<1>5. QED
  BY <1>2, <1>3, <1>4 DEF Chained

LEMMA FInitInv == FInit => FInv
<1> SUFFICES ASSUME FInit PROVE FInv
  OBVIOUS
<1>1. FramesKnown /\ Phased
  <2>1. phase = "between" /\ hostReset = FALSE /\ forcedReset = FALSE
    BY DEF FInit
  <2>2. evalCounter = 0 /\ thisEvaluate = 0 /\ previousEvaluate = 0 /\ frames = {} /\ resets = {} /\ missed = {}
    BY DEF FInit
  <2>3. Phased
    BY <2>1 DEF Phased
  <2>4. FramesKnown
    BY <2>2 DEF FramesKnown
  <2>5. QED
    BY <2>3, <2>4
<1>2. ModelsKnown
  <2>1. 1 \in Handles
    BY DEF Handles
  <2>2. settings \in [mode : {0, 1, 3}, passes : {1, 2}, spread : BOOLEAN]
    BY FramesAssumption DEF FInit
  <2>3. histories \in [Stages -> [handle : Handles \cup {0}, frame : Nat]]
    BY DEF NoHistory, FInit
  <2>4. QED
    BY <2>1, <2>2, <2>3, NoExtraShape DEF ModelsKnown, RealModel, FInit
<1>3. MachinesKnown /\ JobKnown
  BY NoJobKnown DEF MachinesKnown, JobKnown, FInit
<1>4. Chained /\ Recorded
  BY NoJobKnown DEF Chained, MainFollows, HiddenFollows, PendingFollows, InflightFollows, Recorded,
                    NoPicture, FInit
<1>5. QED
  BY <1>1, <1>2, <1>3, <1>4 DEF FInv, FShape

-----------------------------------------------------------------------------
(* The routes.                                                             *)

LEMMA EnteringMachine ==
  ASSUME MachinesKnown
  PROVE  /\ Entering = NoMachine \/ SoundOn(Entering, Had)
         /\ spread # NoSpread /\ Entering # NoMachine => Empty(Entering)
         /\ settings.mode = 0 /\ Entering # NoMachine => Entering.residual = 0
         /\ Entering = NoMachine <=> temporal = NoMachine
         /\ Entering # NoMachine =>
              Entering.role = temporal.role /\ Entering.pendingFrame = temporal.pendingFrame
<1>1. CASE spread = NoSpread
  BY <1>1 DEF Entering, MachinesKnown
<1>2. CASE spread # NoSpread
  BY <1>2, InvalidatedMain DEF Entering, Empty
<1>3. QED
  BY <1>1, <1>2

LEMMA EnsuredEntering ==
  ASSUME MachinesKnown
  PROVE  /\ SoundOn(Ensured(Entering), Had)
         /\ Ensured(Entering).role = (IF settings.mode = 3 THEN "background" ELSE "synchronous")
         /\ (spread = NoSpread /\ temporal # NoMachine /\ Ensured(Entering) = temporal) \/ Empty(Ensured(Entering))
<1>1. Entering = NoMachine \/ SoundOn(Entering, Had)
  BY EnteringMachine
<1>2. /\ SoundOn(Ensured(Entering), Had)
      /\ Ensured(Entering).role = (IF settings.mode = 3 THEN "background" ELSE "synchronous")
      /\ Ensured(Entering) = Entering \/ Empty(Ensured(Entering))
  BY <1>1, EnsuredMachine
<1>3. Ensured(Entering) # NoMachine
  BY <1>2, SomeMachine DEF SoundOn
<1>4. QED
  BY <1>2, <1>3, EnteringMachine DEF Entering

\* A frame without a reset has no doubt to settle.
LEMMA RouteTrusts ==
  ASSUME FShape, phase = "route", ~Reset
  PROVE  ~Stale /\ evalCounter \notin resets
<1>1. InProgress
  BY Progress DEF FShape
<1>2. QED
  BY <1>1 DEF FShape, Phased, Stale, Reset, InProgress

LEMMA EnsuredFollows ==
  ASSUME FInv, phase = "route", ~Reset, ~Unbuilt
  PROVE  FollowsOn(Ensured(Entering), Had)
<1>1. ~Stale
  BY RouteTrusts DEF FInv
<1>2. CASE Empty(Ensured(Entering))
  BY <1>2, EmptyFollows
<1>3. CASE temporal # NoMachine /\ Ensured(Entering) = temporal
  BY <1>1, <1>3 DEF FInv, Chained, MainFollows
<1>4. QED
  BY <1>2, <1>3, EnsuredEntering DEF FInv, FShape

LEMMA PlannedMachine ==
  ASSUME MachinesKnown
  PROVE  SoundOn(Planned, Had) /\ Planned.role = Ensured(Entering).role
BY EnsuredEntering, InvalidateSound DEF Planned

LEMMA PlannedFollows ==
  ASSUME FInv, phase = "route", settings.mode # 3
  PROVE  FollowsOn(Planned, Had)
<1>1. SoundOn(Ensured(Entering), Had)
  BY EnsuredEntering DEF FInv, FShape
<1>2. CASE Reset
  BY <1>1, <1>2, InvalidateSound DEF Planned
<1>3. CASE ~Reset
  <2>1. FollowsOn(Ensured(Entering), Had)
    BY <1>3, EnsuredFollows DEF Unbuilt
  <2>2. QED
    BY <1>3, <2>1, RouteTrusts DEF Planned, FInv
<1>4. QED
  BY <1>2, <1>3

\* A route ends with these features and runs.
Ends(m, rs, fallback) ==
  /\ ModelRecord(m) /\ RunsShape(rs) /\ fallback \in BOOLEAN /\ EndFrame(m, rs, fallback)
  /\ RouteKeeps

RunsGood(rs) == \A r \in rs : r.keeps => r.chain = Since(r.from) \ missed
RunsClear(rs) == \A r \in rs : r.keeps => resets \cap Since(r.from) = {}

LEMMA RouteShape ==
  ASSUME FShape, phase = "route", NEW m, NEW rs, NEW fallback, Ends(m, rs, fallback),
         MachinesKnown', JobKnown'
  PROVE  FShape'
<1>1. RouteLeaves
  BY DEF Ends, RouteKeeps, RouteLeaves, FShape, FramesKnown
<1>2. QED
  BY <1>1, FrameEnds DEF Ends, FShape

\* With the background mode off there is no job, and none is left.
LEMMA NoJobLeft ==
  ASSUME FShape, settings.mode # 3, UNCHANGED <<async, settings>>
  PROVE  JobKnown' /\ ~async.built /\ ~async.inflight
BY DEF FShape, JobKnown

LEMMA NoSpreadLeft ==
  ASSUME ~async'.built /\ ~async'.inflight, spread' = NoSpread
  PROVE  HiddenFollows' /\ PendingFollows' /\ InflightFollows'
BY DEF HiddenFollows, PendingFollows, InflightFollows

LEMMA PlainEnds ==
  ASSUME FShape, NEW c \in Codecs, NEW which \in Ranges, NEW good \in Goods, NEW resolved \in BOOLEAN,
         RunPlainModelPath(c, which, good, resolved)
  PROVE  \E rs, fallback : Ends(Configured(c), rs, fallback) /\ RunsGood(rs) /\ RunsClear(rs)
<1>1. phase = "route" /\ RouteKeeps
  BY DEF RunPlainModelPath, Routed
<1>2. ModelRecord(Configured(c)) /\ InProgress
  BY <1>1, ConfiguredShape, Progress DEF FShape
<1>3. CASE c \in {"next", "fails"}
  <2>1. EndFrame(Configured(c), {}, TRUE)
    BY <1>3 DEF RunPlainModelPath
  <2>2. RunsShape({}) /\ RunsGood({}) /\ RunsClear({})
    BY DEF RunsShape, RunsGood, RunsClear
  <2>3. QED
    BY <1>1, <1>2, <2>1, <2>2 DEF Ends
<1>4. CASE c \notin {"next", "fails"}
  <2> DEFINE rs == EvaluateModelPasses(Configured(c), which, Host, good)
  <2>1. EndFrame(Configured(c), rs, ~resolved)
    BY <1>4 DEF RunPlainModelPath
  <2>2. RunsShape(rs) /\ RunsGood(rs) /\ RunsClear(rs)
    BY <1>2, RangesKnown, RunsKnown, HostGood, RunRecorded, RunClear DEF RunsGood, RunsClear
  <2> HIDE DEF rs
  <2>3. QED
    BY <1>1, <1>2, <2>1, <2>2 DEF Ends
<1>5. QED
  BY <1>3, <1>4

LEMMA PlainShape ==
  ASSUME FShape, NEW c \in Codecs, NEW which \in Ranges, NEW good \in Goods, NEW resolved \in BOOLEAN,
         RunPlainModelPath(c, which, good, resolved)
  PROVE  FShape'
<1>1. phase = "route" /\ spread' = NoSpread /\ async' = NoJob3 /\ settings.mode \in {0, 3}
      /\ temporal' = (IF settings.mode = 3 THEN Ensured(Entering) ELSE Entering)
  BY DEF RunPlainModelPath, Routed
<1>2. PICK rs, fallback : Ends(Configured(c), rs, fallback)
  BY PlainEnds
<1>3. Had \subseteq Had' /\ settings' = settings
  BY <1>1, <1>2, PastEnds DEF Ends, Now
<1>4. temporal' = NoMachine \/ SoundOn(temporal', Had)
  BY <1>1, EnsuredEntering, EnteringMachine DEF FShape
<1>5. settings.mode = 0 => temporal' = NoMachine \/ temporal'.residual = 0
  BY <1>1, EnteringMachine DEF FShape
<1>6. MachinesKnown'
  BY <1>1, <1>3, <1>4, <1>5, SoundGrows DEF MachinesKnown
<1>7. JobKnown'
  BY <1>1, NoJobKnown DEF JobKnown
<1>8. QED
  BY <1>1, <1>2, <1>6, <1>7, RouteShape

LEMMA PlainChained ==
  ASSUME FInv, NEW c \in Codecs, NEW which \in Ranges, NEW good \in Goods, NEW resolved \in BOOLEAN,
         RunPlainModelPath(c, which, good, resolved)
  PROVE  Chained' /\ Recorded'
<1>1. FShape
  BY DEF FInv
<1>2. phase = "route" /\ spread' = NoSpread /\ async' = NoJob3 /\ settings.mode \in {0, 3} /\ shown' = NoPicture
      /\ temporal' = (IF settings.mode = 3 THEN Ensured(Entering) ELSE Entering)
  BY DEF RunPlainModelPath, Routed
<1>3. PICK rs, fallback : Ends(Configured(c), rs, fallback) /\ RunsGood(rs)
  BY <1>1, PlainEnds
<1>4. settings' = settings /\ InProgress
  BY <1>1, <1>2, <1>3, PastEnds, Progress DEF Ends, FShape
<1>5. MainFollows'
  <2>1. CASE settings.mode = 3
    BY <1>2, <1>4, <2>1, NoJobKnown DEF MainFollows, Unbuilt
  <2>2. CASE settings.mode = 0
    BY <1>1, <1>2, <2>2, EnteringMachine DEF MainFollows, FollowsOn, FShape
  <2>3. QED
    BY <1>2, <2>1, <2>2
<1>6. HiddenFollows' /\ PendingFollows' /\ InflightFollows'
  BY <1>2, NoJobKnown, NoSpreadLeft
<1>7. Recorded'
  BY <1>2, <1>3, <1>4, RecordedEnds DEF Ends, RunsGood
<1>8. QED
  BY <1>5, <1>6, <1>7 DEF Chained

\* The machine a frame of the synchronous route leaves behind.
LEMMA SynchronousShape ==
  ASSUME FShape, phase = "route", settings.mode = 1, NEW m, NEW rs, NEW fallback, Ends(m, rs, fallback),
         SoundOn(temporal', Now(Had)), spread' = NoSpread, async' = async
  PROVE  FShape'
<1>1. Had' = Now(Had) /\ settings' = settings
  BY PastEnds DEF Ends
<1>2. MachinesKnown'
  BY <1>1 DEF MachinesKnown
<1>3. JobKnown'
  BY <1>1, NoJobLeft
<1>4. QED
  BY <1>2, <1>3, RouteShape

LEMMA SynchronousChained ==
  ASSUME FInv, phase = "route", settings.mode = 1, NEW m, NEW rs, NEW fallback, Ends(m, rs, fallback),
         forcedReset' \/ FollowsOn(temporal', Now(Had)),
         spread' = NoSpread, async' = async
  PROVE  Chained'
<1>1. Had' = Now(Had) /\ settings' = settings /\ resets' = resets
  BY PastEnds DEF Ends, FInv
<1>2. ~async'.built /\ ~async'.inflight
  BY <1>1, NoJobLeft DEF FInv
<1>3. MainFollows'
  BY <1>1 DEF MainFollows, Stale
<1>4. QED
  BY <1>2, <1>3, NoSpreadLeft DEF Chained

Carryings == {"shown", "unpacked", "exhausted"}

LEMMA CarriedShape ==
  ASSUME FShape, NEW end \in Carryings, CarriedFrame(end)
  PROVE  FShape' /\ phase = "route" /\ settings.mode = 1 /\ Ends(Current, {}, end # "shown")
<1>1. /\ phase = "route" /\ settings.mode = 1 /\ HasResidual(Planned) /\ spread' = NoSpread /\ async' = async
      /\ temporal' \in {RecordAccumulate(Planned), Invalidate(RecordAccumulate(Planned))}
      /\ EndFrame(Current, {}, end # "shown") /\ RouteKeeps
  BY DEF CarriedFrame, Routed
<1>2. InProgress /\ ModelRecord(Current) /\ RunsShape({})
  BY <1>1, Progress, CurrentShape DEF FShape, RunsShape
<1>3. SoundOn(RecordAccumulate(Planned), Now(Had))
  BY <1>1, <1>2, PlannedMachine, AccumulateSound DEF FShape, InProgress, HasResidual
<1>4. SoundOn(temporal', Now(Had))
  BY <1>1, <1>3, InvalidateSound
<1>5. Ends(Current, {}, end # "shown")
  BY <1>1, <1>2 DEF Ends
<1>6. QED
  BY <1>1, <1>4, <1>5, SynchronousShape

LEMMA CarriedChained ==
  ASSUME FInv, NEW end \in Carryings, CarriedFrame(end)
  PROVE  Chained' /\ Recorded'
<1>1. FShape
  BY DEF FInv
<1>2. phase = "route" /\ settings.mode = 1 /\ Ends(Current, {}, end # "shown") /\ InProgress
  BY <1>1, CarriedShape, Progress DEF FShape
<1> DEFINE n == RecordAccumulate(Planned)
<1>3. /\ HasResidual(Planned) /\ spread' = NoSpread /\ async' = async
      /\ temporal' \in {n, Invalidate(n)} /\ shown' \in {NoPicture, Shown(n)}
  BY DEF CarriedFrame
<1>4. SoundOn(n, Now(Had)) /\ FollowsOn(n, Now(Had))
  <2>1. SoundOn(Planned, Had) /\ FollowsOn(Planned, Had)
    BY <1>1, <1>2, <1>3, PlannedMachine, PlannedFollows DEF FShape, HasResidual
  <2>2. QED
    BY <1>2, <1>3, <2>1, AccumulateSound, AccumulateFollows DEF InProgress, HasResidual
<1> HIDE DEF n
<1>5. FollowsOn(temporal', Now(Had))
  BY <1>3, <1>4, InvalidateSound
<1>6. Chained'
  BY <1>2, <1>3, <1>5, SynchronousChained
<1>7. Recorded'
  <2>1. FollowsOn(n, Held)
    BY <1>2, <1>4 DEF InProgress
  <2>2. shown' = NoPicture \/ \E p : shown' = Shown(p) /\ FollowsOn(p, Held)
    BY <1>3, <2>1
  <2>3. QED
    BY <1>2, <2>2, RecordedEnds DEF Ends
<1>8. QED
  BY <1>6, <1>7

LEMMA VectorsAreGood ==
  ASSUME NEW m, SoundOn(m, Held), FollowsOn(m, Held)
  PROVE  VectorsGood(Vectors(m))
BY HostGood, ChainGood DEF Vectors

FullMachine == IF AccValid(Planned) THEN RecordAccumulate(Planned) ELSE Planned

LEMMA FullFrameMachine ==
  ASSUME FShape, NEW c, NEW which, NEW good, NEW outcome, NEW exhausted,
         FullFrame(c, which, good, outcome, exhausted)
  PROVE  /\ phase = "route" /\ settings.mode = 1 /\ spread' = NoSpread /\ async' = async /\ shown' = NoPicture
         /\ RouteKeeps /\ InProgress
         /\ FullMachine = CarriedOn(Planned)
         /\ SoundOn(FullMachine, Now(Had)) /\ SoundOn(Planned, Now(Had))
<1>1. /\ phase = "route" /\ settings.mode = 1 /\ (HasResidual(Planned) => AccValid(Planned))
      /\ spread' = NoSpread /\ async' = async /\ shown' = NoPicture /\ RouteKeeps
  BY DEF FullFrame, Routed
<1>2. InProgress /\ SoundOn(Planned, Had)
  BY <1>1, Progress, PlannedMachine DEF FShape
<1>3. HasResidual(Planned) <=> AccValid(Planned)
  BY <1>1, <1>2 DEF SoundOn, HasResidual, AccValid
<1>4. FullMachine = CarriedOn(Planned)
  BY <1>3 DEF FullMachine, CarriedOn
<1>5. SoundOn(Planned, Now(Had))
  BY <1>2, SoundGrows DEF Now
<1>6. SoundOn(CarriedOn(Planned), Now(Had))
  BY <1>2, <1>5, AccumulateSound DEF CarriedOn, HasResidual, InProgress
<1>7. QED
  BY <1>1, <1>2, <1>4, <1>5, <1>6

LEMMA FullFrameEnds ==
  ASSUME FShape, NEW c \in Codecs, NEW which \in Ranges, NEW good \in Goods, NEW outcome \in Outcomes,
         NEW exhausted \in BOOLEAN, FullFrame(c, which, good, outcome, exhausted)
  PROVE  \E rs, fallback :
           /\ Ends(Configured(c), rs, fallback)
           /\ VectorsGood(Vectors(FullMachine)) => RunsGood(rs)
           /\ VectorsClear(Vectors(FullMachine)) => RunsClear(rs)
           /\ c = "next" => forcedReset'
<1>1. phase = "route" /\ RouteKeeps /\ InProgress
  BY FullFrameMachine
<1>2. ModelRecord(Configured(c)) /\ (c = "next" => Configured(c).forced)
  BY ConfiguredShape DEF FShape
<1>3. CASE c = "next"
  <2>1. EndFrame(Configured(c), {}, TRUE)
    BY <1>3 DEF FullFrame
  <2>2. RunsShape({}) /\ RunsGood({}) /\ RunsClear({})
    BY DEF RunsShape, RunsGood, RunsClear
  <2>3. c = "next" => forcedReset'
    BY <1>2, <2>1 DEF EndFrame
  <2>4. QED
    BY <1>1, <1>2, <2>1, <2>2, <2>3 DEF Ends
<1>4. CASE c # "next"
  <2> DEFINE rs == EvaluateModelPasses(Configured(c), which, Vectors(FullMachine), good)
  <2>1. EndFrame(Configured(c), rs, exhausted \/ outcome = "none")
    BY <1>4 DEF FullFrame, FullMachine
  <2>2. RunsShape(rs) /\ (VectorsGood(Vectors(FullMachine)) => RunsGood(rs))
        /\ (VectorsClear(Vectors(FullMachine)) => RunsClear(rs))
    BY <1>1, <1>2, RangesKnown, RunsKnown, RunRecorded, RunClear DEF RunsGood, RunsClear
  <2> HIDE DEF rs
  <2>3. QED
    BY <1>1, <1>2, <1>4, <2>1, <2>2 DEF Ends
<1>5. QED
  BY <1>3, <1>4

\* What is left of it.
LEMMA FullFrameLeaves ==
  ASSUME NEW c, NEW which, NEW good, NEW outcome, NEW exhausted, FullFrame(c, which, good, outcome, exhausted)
  PROVE  \/ c = "next" /\ temporal' = Planned
         \/ temporal' \in {FullMachine, RecordResidual(FullMachine, evalCounter), Invalidate(FullMachine)}
         \/ temporal' = Invalidate(RecordResidual(FullMachine, evalCounter))
         \/ temporal' = Invalidate(Invalidate(FullMachine))
<1>1. CASE c = "next"
  BY <1>1 DEF FullFrame
<1>2. CASE c # "next"
  <2> DEFINE rs == EvaluateModelPasses(Configured(c), which, Vectors(FullMachine), good)
             after == AfterModel(FullMachine, rs, outcome)
  <2>1. temporal' = IF exhausted THEN Invalidate(after) ELSE after
    BY <1>2 DEF FullFrame, FullMachine
  <2>2. after \in {FullMachine, RecordResidual(FullMachine, evalCounter), Invalidate(FullMachine)}
    BY DEF AfterModel
  <2> HIDE DEF after
  <2>3. QED
    BY <2>1, <2>2
<1>3. QED
  BY <1>1, <1>2

LEMMA FullFrameShape ==
  ASSUME FShape, NEW c \in Codecs, NEW which \in Ranges, NEW good \in Goods, NEW outcome \in Outcomes,
         NEW exhausted \in BOOLEAN, FullFrame(c, which, good, outcome, exhausted)
  PROVE  FShape'
<1>1. /\ phase = "route" /\ settings.mode = 1 /\ spread' = NoSpread /\ async' = async /\ InProgress
      /\ SoundOn(FullMachine, Now(Had)) /\ SoundOn(Planned, Now(Had))
  BY FullFrameMachine
<1>2. SoundOn(RecordResidual(FullMachine, evalCounter), Now(Had))
  BY <1>1, ResidualSound DEF InProgress
<1>3. \A m : SoundOn(m, Now(Had)) => SoundOn(Invalidate(m), Now(Had))
  BY InvalidateSound
<1>4. SoundOn(temporal', Now(Had))
  BY <1>1, <1>2, <1>3, FullFrameLeaves
<1>5. QED
  BY <1>1, <1>4, FullFrameEnds, SynchronousShape

LEMMA FullFrameChained ==
  ASSUME FInv,
         NEW c \in Codecs, NEW which \in Ranges, NEW good \in Goods, NEW outcome \in Outcomes,
         NEW exhausted \in BOOLEAN, FullFrame(c, which, good, outcome, exhausted)
  PROVE  Chained' /\ Recorded'
<1>1. FShape
  BY DEF FInv
<1>2. /\ phase = "route" /\ settings.mode = 1 /\ spread' = NoSpread /\ async' = async /\ InProgress
      /\ SoundOn(FullMachine, Now(Had)) /\ FullMachine = CarriedOn(Planned) /\ shown' = NoPicture
  BY <1>1, FullFrameMachine
<1>3. FollowsOn(FullMachine, Now(Had))
  <2>1. SoundOn(Planned, Had) /\ FollowsOn(Planned, Had)
    BY <1>1, <1>2, PlannedMachine, PlannedFollows DEF FShape
  <2>2. QED
    BY <1>2, <2>1, CarriedSound DEF InProgress
<1>4. VectorsGood(Vectors(FullMachine))
  BY <1>2, <1>3, VectorsAreGood DEF InProgress
<1>5. PICK rs, fallback :
        /\ Ends(Configured(c), rs, fallback) /\ RunsGood(rs)
        /\ c = "next" => forcedReset'
  BY <1>1, <1>4, FullFrameEnds
<1>6. forcedReset' \/ FollowsOn(temporal', Now(Had))
  <2>1. SoundOn(RecordResidual(FullMachine, evalCounter), Now(Had))
        /\ FollowsOn(RecordResidual(FullMachine, evalCounter), Now(Had))
    BY <1>2, ResidualSound DEF InProgress
  <2>2. \A m : SoundOn(m, Now(Had)) => SoundOn(Invalidate(m), Now(Had)) /\ FollowsOn(Invalidate(m), Now(Had))
    BY InvalidateSound
  <2>3. QED
    BY <1>2, <1>3, <1>5, <2>1, <2>2, FullFrameLeaves
<1>7. Chained'
  BY <1>2, <1>5, <1>6, SynchronousChained
<1>8. Recorded'
  BY <1>2, <1>5, RecordedEnds DEF Ends, RunsGood
<1>9. QED
  BY <1>7, <1>8

\* The passes spread over frames: two machines, one for each model.
SpreadNew == spread = NoSpread
BegunOn(m) == IF SpreadNew \/ Reset THEN Invalidate(m) ELSE m
MainBegun == BegunOn(Ensured(temporal))
HiddenBegun == BegunOn(IF SpreadNew THEN NewMachine("hidden") ELSE spread.hidden)
SpreadPosition == IF SpreadNew \/ Reset \/ spread.position >= SpreadEvery THEN 0 ELSE spread.position
SpreadChains == Vectors(IF SpreadPosition = 1 THEN CarriedOn(MainBegun) ELSE CarriedOn(HiddenBegun))

LEMMA SpreadMachines ==
  ASSUME FShape, phase = "route"
  PROVE  /\ SoundOn(MainBegun, Had) /\ SoundOn(HiddenBegun, Had) /\ SpreadPosition \in Nat
         /\ SpreadNew \/ Reset => FollowsOn(MainBegun, Had) /\ FollowsOn(HiddenBegun, Had)
                                /\ MainBegun.residual = 0 /\ HiddenBegun.residual = 0
<1>1. MachinesKnown
  BY DEF FShape
<1>2. SoundOn(Ensured(temporal), Had)
  BY <1>1, EnsuredMachine DEF MachinesKnown
<1>3. SoundOn(IF SpreadNew THEN NewMachine("hidden") ELSE spread.hidden, Had)
  BY <1>1, NewMachineSound DEF MachinesKnown, SpreadNew
<1>4. SpreadPosition \in Nat
  BY <1>1 DEF SpreadPosition, MachinesKnown, SpreadNew
<1>5. QED
  BY <1>2, <1>3, <1>4, InvalidateSound DEF MainBegun, HiddenBegun, BegunOn

LEMMA SpreadFollows ==
  ASSUME FInv, phase = "route"
  PROVE  FollowsOn(MainBegun, Had) /\ FollowsOn(HiddenBegun, Had)
<1>1. FShape
  BY DEF FInv
<1>2. CASE SpreadNew \/ Reset
  BY <1>1, <1>2, SpreadMachines
<1>3. CASE ~SpreadNew /\ ~Reset
  <2>1. ~Stale /\ evalCounter \notin resets
    BY <1>1, <1>3, RouteTrusts
  <2>2. FollowsOn(spread.hidden, Had) /\ (temporal # NoMachine => FollowsOn(temporal, Had))
    BY <1>3, <2>1 DEF FInv, Chained, HiddenFollows, MainFollows, Unbuilt, SpreadNew
  <2>3. FollowsOn(Ensured(temporal), Had)
    <3>1. SoundOn(Ensured(temporal), Had) /\ (Ensured(temporal) = temporal \/ Empty(Ensured(temporal)))
      BY <1>1, EnsuredMachine DEF FShape, MachinesKnown
    <3>2. Ensured(temporal) # NoMachine
      BY <3>1, SomeMachine DEF SoundOn
    <3>3. QED
      BY <2>2, <3>1, <3>2, EmptyFollows
  <2>4. QED
    BY <1>3, <2>1, <2>2, <2>3 DEF MainBegun, HiddenBegun, BegunOn
<1>4. QED
  BY <1>2, <1>3

LEMMA SpreadUnfolds ==
  ASSUME NEW c, NEW good, NEW outcome, NEW exhausted, SpreadEvaluate(c, good, outcome, exhausted)
  PROVE  LET main == CarriedOn(MainBegun)
             hidden == CarriedOn(HiddenBegun)
         IN /\ phase = "route" /\ SpreadRequested /\ RouteKeeps /\ async' = NoJob3
            /\ \E p \in {0, SpreadPosition + 1},
                  m \in {main, Invalidate(main), RecordResidual(main, evalCounter)},
                  h \in {hidden, Invalidate(hidden), RecordResidual(hidden, evalCounter)} :
                 spread' = [position |-> p, hidden |-> h] /\ temporal' = m
            /\ shown' \in {NoPicture, Shown(main)}
            /\ \E rs : /\ \/ rs = {}
                          \/ /\ SpreadPosition \in Stages
                             /\ rs = EvaluateModelPasses(Configured(c), {SpreadPosition}, SpreadChains, good)
                       /\ EndFrame(Configured(c), rs, exhausted \/ c = "next")
<1> DEFINE main == CarriedOn(MainBegun)
           hidden == CarriedOn(HiddenBegun)
<1>1. phase = "route" /\ SpreadRequested /\ RouteKeeps /\ async' = NoJob3
  BY DEF SpreadEvaluate
<1>2. \E p \in {0, SpreadPosition + 1},
         m \in {main, Invalidate(main), RecordResidual(main, evalCounter)},
         h \in {hidden, Invalidate(hidden), RecordResidual(hidden, evalCounter)} :
        spread' = [position |-> p, hidden |-> h] /\ temporal' = m
  BY DEF SpreadEvaluate, SpreadPosition, MainBegun, HiddenBegun, BegunOn, SpreadNew, CarriedOn
<1>3. shown' \in {NoPicture, Shown(main)}
  BY DEF SpreadEvaluate, MainBegun, BegunOn, SpreadNew, CarriedOn
<1>4. \E rs : /\ \/ rs = {}
                 \/ /\ SpreadPosition \in Stages
                    /\ rs = EvaluateModelPasses(Configured(c), {SpreadPosition}, SpreadChains, good)
              /\ EndFrame(Configured(c), rs, exhausted \/ c = "next")
  BY DEF SpreadEvaluate, SpreadPosition, SpreadChains, MainBegun, HiddenBegun, BegunOn, SpreadNew, CarriedOn
<1>5. QED
  BY <1>1, <1>2, <1>3, <1>4

LEMMA SpreadEnds ==
  ASSUME FShape, NEW c \in Codecs, NEW good \in Goods, NEW outcome \in Outcomes, NEW exhausted \in BOOLEAN,
         SpreadEvaluate(c, good, outcome, exhausted)
  PROVE  \E rs, fallback :
           /\ Ends(Configured(c), rs, fallback)
           /\ VectorsGood(SpreadChains) => RunsGood(rs)
           /\ VectorsClear(SpreadChains) => RunsClear(rs)
<1>1. phase = "route" /\ RouteKeeps
  BY SpreadUnfolds
<1>2. InProgress /\ ModelRecord(Configured(c))
  BY <1>1, Progress, ConfiguredShape DEF FShape
<1>3. PICK rs :
        /\ \/ rs = {}
           \/ /\ SpreadPosition \in Stages
              /\ rs = EvaluateModelPasses(Configured(c), {SpreadPosition}, SpreadChains, good)
        /\ EndFrame(Configured(c), rs, exhausted \/ c = "next")
  BY SpreadUnfolds
<1>4. RunsShape(rs) /\ (VectorsGood(SpreadChains) => RunsGood(rs)) /\ (VectorsClear(SpreadChains) => RunsClear(rs))
  <2>1. CASE rs = {}
    BY <2>1 DEF RunsShape, RunsGood, RunsClear
  <2>2. CASE rs # {}
    <3>1. {SpreadPosition} \in SUBSET Stages
          /\ rs = EvaluateModelPasses(Configured(c), {SpreadPosition}, SpreadChains, good)
      BY <1>3, <2>2
    <3>2. QED
      BY <1>2, <3>1, RunsKnown, RunRecorded, RunClear DEF RunsGood, RunsClear
  <2>3. QED
    BY <2>1, <2>2
<1>5. QED
  BY <1>1, <1>2, <1>3, <1>4 DEF Ends

LEMMA SpreadShape ==
  ASSUME FShape, NEW c \in Codecs, NEW good \in Goods, NEW outcome \in Outcomes, NEW exhausted \in BOOLEAN,
         SpreadEvaluate(c, good, outcome, exhausted)
  PROVE  FShape'
<1> DEFINE main == CarriedOn(MainBegun)
           hidden == CarriedOn(HiddenBegun)
<1>1. /\ phase = "route" /\ settings.mode # 0 /\ async' = NoJob3
      /\ \E p \in {0, SpreadPosition + 1},
            m \in {main, Invalidate(main), RecordResidual(main, evalCounter)},
            h \in {hidden, Invalidate(hidden), RecordResidual(hidden, evalCounter)} :
           spread' = [position |-> p, hidden |-> h] /\ temporal' = m
  BY SpreadUnfolds DEF SpreadRequested
<1>2. InProgress /\ SoundOn(MainBegun, Had) /\ SoundOn(HiddenBegun, Had) /\ SpreadPosition \in Nat
  BY <1>1, Progress, SpreadMachines DEF FShape
<1>3. PICK rs, fallback : Ends(Configured(c), rs, fallback)
  BY SpreadEnds
<1>4. Had' = Now(Had) /\ settings' = settings
  BY <1>1, <1>3, PastEnds DEF Ends
<1>5. SoundOn(main, Now(Had)) /\ SoundOn(hidden, Now(Had))
  <2>1. ASSUME NEW m, SoundOn(m, Had) PROVE SoundOn(CarriedOn(m), Now(Had))
    <3>1. FollowsOn(Invalidate(m), Had)
      BY <2>1, InvalidateSound
    <3>2. QED
      BY <1>2, <2>1, AccumulateSound, SoundGrows DEF CarriedOn, HasResidual, InProgress, Now
  <2>2. QED
    BY <1>2, <2>1
<1> HIDE DEF main, hidden
<1>6. ASSUME NEW m, SoundOn(m, Now(Had)), NEW n \in {m, Invalidate(m), RecordResidual(m, evalCounter)}
      PROVE  SoundOn(n, Now(Had))
  BY <1>2, <1>6, InvalidateSound, ResidualSound DEF InProgress
<1>7. SoundOn(temporal', Now(Had)) /\ SoundOn(spread'.hidden, Now(Had)) /\ spread'.hidden \in Machine
      /\ spread' \in [position : Nat, hidden : Machine]
  BY <1>1, <1>2, <1>5, <1>6 DEF SoundOn
<1>8. MachinesKnown'
  BY <1>1, <1>4, <1>7 DEF MachinesKnown
<1>9. JobKnown'
  BY <1>1, NoJobKnown DEF JobKnown
<1>10. QED
  BY <1>1, <1>3, <1>8, <1>9, RouteShape

LEMMA SpreadChained ==
  ASSUME FInv, NEW c \in Codecs, NEW good \in Goods, NEW outcome \in Outcomes, NEW exhausted \in BOOLEAN,
         SpreadEvaluate(c, good, outcome, exhausted)
  PROVE  Chained' /\ Recorded'
<1> DEFINE main == CarriedOn(MainBegun)
           hidden == CarriedOn(HiddenBegun)
<1>1. FShape
  BY DEF FInv
<1>2. /\ phase = "route" /\ async' = NoJob3 /\ shown' \in {NoPicture, Shown(main)}
      /\ \E p \in {0, SpreadPosition + 1},
            m \in {main, Invalidate(main), RecordResidual(main, evalCounter)},
            h \in {hidden, Invalidate(hidden), RecordResidual(hidden, evalCounter)} :
           spread' = [position |-> p, hidden |-> h] /\ temporal' = m
  BY SpreadUnfolds
<1>3. InProgress /\ SoundOn(MainBegun, Had) /\ SoundOn(HiddenBegun, Had)
  BY <1>1, <1>2, Progress, SpreadMachines DEF FShape
<1>4. /\ SoundOn(main, Now(Had)) /\ FollowsOn(main, Now(Had))
      /\ SoundOn(hidden, Now(Had)) /\ FollowsOn(hidden, Now(Had))
  BY <1>2, <1>3, SpreadFollows, CarriedSound DEF InProgress
<1>5. VectorsGood(SpreadChains)
  BY <1>3, <1>4, VectorsAreGood DEF SpreadChains, InProgress
<1>6. PICK rs, fallback : Ends(Configured(c), rs, fallback) /\ RunsGood(rs)
  BY <1>1, <1>5, SpreadEnds
<1>7. Had' = Now(Had) /\ resets' = resets
  BY <1>1, <1>2, <1>3, <1>6, PastEnds DEF Ends, InProgress
<1> HIDE DEF main, hidden
<1>8. ASSUME NEW m, SoundOn(m, Now(Had)), FollowsOn(m, Now(Had)),
             NEW n \in {m, Invalidate(m), RecordResidual(m, evalCounter)}
      PROVE  FollowsOn(n, Now(Had))
  BY <1>3, <1>8, InvalidateSound, ResidualSound DEF InProgress
<1>9. FollowsOn(temporal', Now(Had)) /\ FollowsOn(spread'.hidden, Now(Had))
  BY <1>2, <1>4, <1>8
<1>10. MainFollows' /\ HiddenFollows'
  BY <1>7, <1>9 DEF MainFollows, HiddenFollows
<1>11. PendingFollows' /\ InflightFollows'
  BY <1>2, NoJobKnown DEF PendingFollows, InflightFollows
<1>12. Recorded'
  <2>1. shown' = NoPicture \/ \E p : shown' = Shown(p) /\ FollowsOn(p, Held)
    BY <1>2, <1>3, <1>4 DEF InProgress
  <2>2. QED
    BY <1>3, <1>6, <2>1, RecordedEnds DEF Ends, RunsGood
<1>13. QED
  BY <1>10, <1>11, <1>12 DEF Chained

\* A frame of the background route: the machine and the job once doubted, accumulated and adopted.
Job0 == IF ~async.built THEN [NoJob3 EXCEPT !.built = TRUE] ELSE Doubted(async)
Machine0 == IF ~async.built \/ Reset THEN Invalidate(Ensured(Entering)) ELSE Ensured(Entering)
Machine1 == Accumulated(Machine0, Job0)
Machine2(ready) == IF ready THEN Adopted(Machine1, Job0) ELSE Machine1
Job2(ready) == IF ready THEN AfterAdoption(Job0) ELSE Job0
KickedJob(j, d) == [j EXCEPT !.kicked = evalCounter, !.inflight = TRUE, !.discard = d]

LEMMA InflightMachine ==
  ASSUME FShape, settings.mode = 3, async.inflight
  PROVE  Ensured(Entering) = temporal /\ async.built /\ async.kicked \in Had /\ temporal.pendingFrame = async.kicked
<1>1. /\ async.kicked \in Had /\ async.built /\ spread = NoSpread /\ temporal # NoMachine
      /\ temporal.role = "background" /\ temporal.pendingFrame = async.kicked
      /\ SoundOn(temporal, Had)
  BY DEF FShape, JobKnown, MachinesKnown
<1>2. Entering = temporal
  BY <1>1 DEF Entering
<1>3. QED
  BY <1>1, <1>2, EnsuredMachine

LEMMA DoubtedJob ==
  ASSUME FShape
  PROVE  /\ Doubted(async) \in Job /\ Doubted(async).kicked = async.kicked
         /\ Doubted(async).inflight = async.inflight /\ Doubted(async).built = async.built
         /\ Doubted(async).discard = (async.discard \/ (Reset /\ async.inflight))
<1>1. async \in Job /\ Reset \in BOOLEAN
  BY DEF FShape, JobKnown, Reset, Phased
<1>2. QED
  BY <1>1 DEF Doubted, Job

LEMMA NewJobKnown ==
  /\ [NoJob3 EXCEPT !.built = TRUE] \in Job
  /\ ~[NoJob3 EXCEPT !.built = TRUE].inflight /\ ~[NoJob3 EXCEPT !.built = TRUE].discard
  /\ [NoJob3 EXCEPT !.built = TRUE].built
BY DEF NoJob3, Job

LEMMA PipeStarts ==
  ASSUME FShape, phase = "route", settings.mode = 3
  PROVE  PipeOn(Machine0, Job0, Had) /\ Machine0.role = "background" /\ Job0.built
<1>1. SoundOn(Ensured(Entering), Had) /\ Ensured(Entering).role = "background"
  BY EnsuredEntering DEF FShape
<1>2. /\ SoundOn(Machine0, Had) /\ Machine0.role = "background"
      /\ Machine0.pendingFrame = Ensured(Entering).pendingFrame
  BY <1>1, InvalidateSound DEF Machine0
<1>3. CASE ~async.built
  <2>1. PairedOn(Machine0, Job0)
    BY <1>1, <1>3, InvalidateSound DEF Machine0
  <2>2. QED
    BY <1>2, <1>3, <2>1, NewJobKnown DEF Job0, PipeOn
<1>4. CASE async.built
  <2>1. Job0 = Doubted(async)
    BY <1>4 DEF Job0
  <2>2. async.inflight => async.kicked \in Had /\ Machine0.pendingFrame = async.kicked
    BY <1>2, InflightMachine
  <2>3. async.discard => async.inflight
    BY DEF FShape, JobKnown
  <2>4. PairedOn(Machine0, Job0)
    <3>1. CASE Reset
      BY <1>1, <3>1, InvalidateSound DEF Machine0
    <3>2. CASE ~Reset
      <4>1. Machine0 = Ensured(Entering) /\ Job0.discard = async.discard /\ Job0.inflight = async.inflight
        BY <1>4, <2>1, <3>2, DoubtedJob DEF Machine0, FShape, JobKnown, Job
      <4>2. CASE Empty(Machine0)
        BY <4>2 DEF Empty, PairedOn
      <4>3. CASE temporal # NoMachine /\ Machine0 = temporal
        BY <1>4, <4>1, <4>3 DEF FShape, JobKnown, PairedOn
      <4>4. QED
        BY <4>1, <4>2, <4>3, EnsuredEntering DEF FShape
    <3>3. QED
      BY <3>1, <3>2
  <2>5. QED
    BY <1>2, <1>4, <2>1, <2>2, <2>3, <2>4, DoubtedJob DEF PipeOn
<1>5. QED
  BY <1>3, <1>4

LEMMA PipeStartsFollowing ==
  ASSUME FInv, Routed(3)
  PROVE  PipeFollows(Machine0, Job0, Had)
<1>1. FShape /\ phase = "route" /\ settings.mode = 3 /\ ~SpreadRequested
  BY DEF FInv, Routed
<1>2. SoundOn(Ensured(Entering), Had)
  BY <1>1, EnsuredEntering DEF FShape
<1>3. CASE ~async.built \/ Reset
  <2>1. Machine0 = Invalidate(Ensured(Entering))
    BY <1>3 DEF Machine0
  <2>2. ~(Job0.inflight /\ ~Job0.discard)
    BY <1>1, <1>3, DoubtedJob, NewJobKnown DEF Job0
  <2>3. QED
    BY <1>2, <2>1, <2>2, InvalidateSound DEF PipeFollows, InflightOn
<1>4. CASE async.built /\ ~Reset
  <2>1. ~Stale /\ evalCounter \notin resets
    BY <1>1, <1>4, RouteTrusts
  <2>2. ~Doomed /\ ~Unbuilt
    BY <1>1, <1>4 DEF Doomed, Unbuilt, SpreadRequested, FShape, Phased
  <2>3. Machine0 = Ensured(Entering)
    BY <1>4 DEF Machine0
  <2>4. /\ Job0 \in Job /\ Job0.kicked = async.kicked /\ Job0.inflight = async.inflight
        /\ Job0.discard = async.discard
    BY <1>1, <1>4, DoubtedJob DEF Job0, FShape, JobKnown, Job
  <2>5. FollowsOn(Machine0, Had)
    BY <1>1, <1>4, <2>2, <2>3, EnsuredFollows
  <2>6. PendingOn(Machine0, Job0, Had)
    <3>1. CASE Empty(Machine0)
      BY <3>1, EmptyFollows
    <3>2. CASE spread = NoSpread /\ temporal # NoMachine /\ Machine0 = temporal
      <4>1. PendingOn(temporal, async, Had)
        BY <1>4, <2>1, <3>2 DEF FInv, Chained, PendingFollows
      <4>2. QED
        BY <2>4, <3>2, <4>1 DEF PendingOn
    <3>3. QED
      BY <1>1, <2>3, <3>1, <3>2, EnsuredEntering DEF FShape
  <2>7. InflightOn(Machine0, Job0, Had)
    <3>1. SUFFICES ASSUME async.inflight PROVE InflightOn(Machine0, Job0, Had)
      BY <2>4 DEF InflightOn
    <3>2. Machine0 = temporal
      BY <1>1, <2>3, <3>1, InflightMachine
    <3>3. InflightOn(temporal, async, Had)
      BY <2>1, <2>2, <3>1 DEF FInv, Chained, InflightFollows
    <3>4. QED
      BY <2>4, <3>2, <3>3 DEF InflightOn
  <2>8. QED
    BY <2>1, <2>5, <2>6, <2>7 DEF PipeFollows
<1>5. QED
  BY <1>3, <1>4

LEMMA PipeAdvances ==
  ASSUME FShape, phase = "route", settings.mode = 3, NEW ready \in BOOLEAN, ready => Job0.inflight
  PROVE  /\ PipeOn(Machine2(ready), Job2(ready), Now(Had)) /\ Machine2(ready).role = "background"
         /\ Job2(ready).built
<1>1. Before(Had)
  BY Progress DEF FShape, InProgress
<1>2. PipeOn(Machine0, Job0, Had) /\ Machine0.role = "background" /\ Job0.built
  BY PipeStarts
<1>3. PipeOn(Machine1, Job0, Now(Had)) /\ Machine1.role = "background"
  <2>1. Machine0 \in Machine /\ evalCounter \in Nat
    BY <1>1, <1>2 DEF PipeOn, SoundOn, Before
  <2>2. QED
    BY <1>1, <1>2, <2>1, AccumulatedSound, AccumulatedFields DEF Machine1
<1>4. CASE ready
  <2>1. Job0 \in Job
    BY <1>2 DEF PipeOn
  <2>2. QED
    BY <1>1, <1>2, <1>3, <1>4, <2>1, AdoptedSound, AfterAdoptionFields DEF Machine2, Job2
<1>5. CASE ~ready
  BY <1>2, <1>3, <1>5 DEF Machine2, Job2
<1>6. QED
  BY <1>4, <1>5

LEMMA PipeAdvancesFollowing ==
  ASSUME FInv, Routed(3), NEW ready \in BOOLEAN, ready => Job0.inflight
  PROVE  PipeFollows(Machine2(ready), Job2(ready), Now(Had))
<1>1. FShape /\ phase = "route" /\ settings.mode = 3
  BY DEF FInv, Routed
<1>2. Before(Had)
  BY <1>1, Progress DEF FShape, InProgress
<1>3. PipeOn(Machine0, Job0, Had)
  BY <1>1, PipeStarts
<1>4. PipeOn(Machine1, Job0, Now(Had)) /\ PipeFollows(Machine1, Job0, Now(Had))
  BY <1>2, <1>3, PipeStartsFollowing, AccumulatedSound, AccumulatedFollows DEF Machine1
<1>5. QED
  BY <1>2, <1>4, AdoptedFollows DEF Machine2, Job2

\* The vectors of a kick reach back to the frame of the history they continue.
LEMMA KickGood ==
  ASSUME NEW m, NEW j, Before(Had), Held = Now(Had), PipeOn(m, j, Held), PipeFollows(m, j, Held)
  PROVE  VectorsGood(KickVectors(m))
<1>1. SoundOn(m, Held) /\ FollowsOn(m, Held)
  BY DEF PipeOn, PipeFollows
<1>2. CASE m.mirror /\ AccValid(m)
  BY <1>1, <1>2, ChainGood DEF KickVectors
<1>3. CASE ~(m.mirror /\ AccValid(m)) /\ m.pending # {}
  <2>1. PendingExact(m, Held)
    BY <1>3 DEF PipeFollows, PendingOn
  <2>2. KickVectors(m) = [chain |-> m.pending, named |-> m.pendingFrame]
    BY <1>3 DEF KickVectors
  <2>3. m.pendingFrame # 0
    BY <2>1 DEF PendingExact, Before, Now
  <2>4. SinceIn(Held, m.pendingFrame) = Since(m.pendingFrame) \ missed
    BY DEF SinceIn, Since, Held
  <2>5. QED
    BY <2>1, <2>2, <2>3, <2>4 DEF PendingExact, VectorsGood
<1>4. CASE ~(m.mirror /\ AccValid(m)) /\ m.pending = {}
  BY <1>4, HostGood DEF KickVectors
<1>5. QED
  BY <1>2, <1>3, <1>4

LEMMA KickedSound ==
  ASSUME NEW m, NEW j, NEW d \in BOOLEAN, NEW F, Before(F), PipeOn(m, j, Now(F)), j.built
  PROVE  /\ PipeOn(ResetPending(m), KickedJob(j, d), Now(F)) /\ ResetPending(m).role = m.role
         /\ KickedJob(j, d).built
         /\ PipeFollows(m, j, Now(F)) => PipeFollows(ResetPending(m), KickedJob(j, d), Now(F))
<1>1. m \in Machine /\ evalCounter \in Nat /\ j \in Job /\ SoundOn(m, Now(F)) /\ evalCounter \in Now(F)
  BY DEF PipeOn, SoundOn, Before, Now
<1>2. /\ KickedJob(j, d) \in Job /\ KickedJob(j, d).kicked = evalCounter /\ KickedJob(j, d).inflight = TRUE
      /\ KickedJob(j, d).discard = d /\ KickedJob(j, d).built = j.built
  BY <1>1 DEF KickedJob, Job
<1>3. ResetPending(m).pendingFrame = evalCounter /\ ResetPending(m).role = m.role
  BY <1>1, ResetPendingFields
<1>4. SoundOn(ResetPending(m), Now(F)) /\ PairedOn(ResetPending(m), KickedJob(j, d))
  BY <1>1, ResetPendingSound
<1>5. PipeOn(ResetPending(m), KickedJob(j, d), Now(F))
  BY <1>1, <1>2, <1>3, <1>4 DEF PipeOn
<1>6. PipeFollows(m, j, Now(F)) => PipeFollows(ResetPending(m), KickedJob(j, d), Now(F))
  BY <1>1, ResetPendingSound DEF PipeFollows
<1>7. QED
  BY <1>2, <1>3, <1>5, <1>6

\* A frame that kicks, and the job and the machine it leaves.
KickRuns(kick, which, good, m) ==
  IF kick \in {"same", "replaced"} THEN EvaluateModelPasses(Configured(kick), which, KickVectors(m), good) ELSE {}
Kicks(kick, rs, outcome) == kick = "next" \/ (rs # {} /\ AllOk(rs) /\ outcome # "none")
Machine3(m, kicked) == IF kicked THEN ResetPending(m) ELSE m
Job3(j, kicked, d) == IF kicked THEN KickedJob(j, d) ELSE j

LEMMA BackgroundUnfolds ==
  ASSUME NEW ready, NEW kick, NEW which, NEW good, NEW outcome, NEW exhausted,
         Background(ready, kick, which, good, outcome, exhausted)
  PROVE  LET m2 == Machine2(ready)
             j2 == Job2(ready)
             rs == KickRuns(kick, which, good, m2)
             kicked == Kicks(kick, rs, outcome)
             m3 == Machine3(m2, kicked)
             j3 == Job3(j2, kicked, kick = "next" \/ outcome = "declined")
             fallback == kick \in {"list", "next"}
         IN /\ Routed(3) /\ RouteKeeps /\ spread' = NoSpread
            /\ ready => Job0.inflight
            /\ exhausted /\ j3.inflight => DropsMidPass
            /\ temporal' = (IF exhausted THEN Invalidate(m3) ELSE m3) /\ async' = j3
            /\ shown' = (IF fallback \/ exhausted THEN NoPicture ELSE Shown(m3))
            /\ EndFrame(IF kick \in {"no", "list"} THEN Current ELSE Configured(kick), rs, fallback \/ exhausted)
BY DEF Background, Machine2, Machine1, Machine0, Job2, Job0, KickRuns, Kicks, Machine3, Job3, KickedJob, AfterAdoption

LEMMA BackgroundEnds ==
  ASSUME FShape, NEW ready \in BOOLEAN, NEW kick \in Codecs \cup {"no", "list"}, NEW which \in Ranges,
         NEW good \in Goods, NEW outcome \in Outcomes, NEW exhausted \in BOOLEAN,
         Background(ready, kick, which, good, outcome, exhausted)
  PROVE  \E m, rs, fallback :
           /\ Ends(m, rs, fallback)
           /\ VectorsGood(KickVectors(Machine2(ready))) => RunsGood(rs)
           /\ VectorsClear(KickVectors(Machine2(ready))) => RunsClear(rs)
<1> DEFINE m2 == Machine2(ready)
           rs == KickRuns(kick, which, good, m2)
           m == IF kick \in {"no", "list"} THEN Current ELSE Configured(kick)
<1>1. phase = "route" /\ RouteKeeps /\ EndFrame(m, rs, kick \in {"list", "next"} \/ exhausted)
  BY BackgroundUnfolds DEF Routed
<1>2. InProgress /\ ModelRecord(Configured(kick)) /\ ModelRecord(m)
  BY <1>1, Progress, ConfiguredShape, CurrentShape DEF FShape
<1>3. RunsShape(rs) /\ (VectorsGood(KickVectors(m2)) => RunsGood(rs)) /\ (VectorsClear(KickVectors(m2)) => RunsClear(rs))
  <2>1. CASE kick \in {"same", "replaced"}
    <3>1. rs = EvaluateModelPasses(Configured(kick), which, KickVectors(m2), good)
      BY <2>1 DEF KickRuns
    <3>2. RunsShape(rs)
      BY <1>2, <3>1, RangesKnown, RunsKnown
    <3>3. VectorsGood(KickVectors(m2)) => RunsGood(rs)
      BY <1>2, <3>1, RunRecorded DEF RunsGood
    <3>4. VectorsClear(KickVectors(m2)) => RunsClear(rs)
      BY <1>2, <3>1, RunClear DEF RunsClear
    <3>5. QED
      BY <3>2, <3>3, <3>4
  <2>2. CASE kick \notin {"same", "replaced"}
    BY <2>2 DEF KickRuns, RunsShape, RunsGood, RunsClear
  <2>3. QED
    BY <2>1, <2>2
<1> HIDE DEF m2, rs, m
<1>4. Ends(m, rs, kick \in {"list", "next"} \/ exhausted)
  BY <1>1, <1>2, <1>3 DEF Ends
<1>5. QED
  BY <1>3, <1>4 DEF m2

\* What the frame leaves is a machine and a job that belong together.
LEMMA BackgroundLeaves ==
  ASSUME FShape, NEW ready \in BOOLEAN, NEW kick \in Codecs \cup {"no", "list"}, NEW which \in Ranges,
         NEW good \in Goods, NEW outcome \in Outcomes, NEW exhausted \in BOOLEAN,
         Background(ready, kick, which, good, outcome, exhausted)
  PROVE  \E m3 : /\ PipeOn(m3, async', Now(Had)) /\ m3.role = "background" /\ async'.built
                 /\ FInv => PipeFollows(m3, async', Now(Had))
                 /\ temporal' = (IF exhausted THEN Invalidate(m3) ELSE m3)
                 /\ shown' \in {NoPicture, Shown(m3)}
                 /\ exhausted /\ async'.inflight => DropsMidPass
<1> DEFINE m2 == Machine2(ready)
           j2 == Job2(ready)
           kicked == Kicks(kick, KickRuns(kick, which, good, m2), outcome)
           d == kick = "next" \/ outcome = "declined"
           m3 == Machine3(m2, kicked)
           j3 == Job3(j2, kicked, d)
<1>1. /\ Routed(3) /\ (ready => Job0.inflight) /\ (exhausted /\ j3.inflight => DropsMidPass)
      /\ temporal' = (IF exhausted THEN Invalidate(m3) ELSE m3) /\ async' = j3
      /\ shown' \in {NoPicture, Shown(m3)}
  BY BackgroundUnfolds
<1>2. phase = "route" /\ settings.mode = 3 /\ d \in BOOLEAN
  BY <1>1 DEF Routed
<1>3. Before(Had)
  BY <1>2, Progress DEF FShape, InProgress
<1>4. PipeOn(m2, j2, Now(Had)) /\ m2.role = "background" /\ j2.built
  BY <1>1, <1>2, PipeAdvances
<1>5. FInv => PipeFollows(m2, j2, Now(Had))
  BY <1>1, PipeAdvancesFollowing
<1> HIDE DEF m2, j2, kicked, d
<1>6. PipeOn(m3, j3, Now(Had)) /\ m3.role = "background" /\ j3.built
      /\ (FInv => PipeFollows(m3, j3, Now(Had)))
  <2>1. CASE kicked
    <3>1. m3 = ResetPending(m2) /\ j3 = KickedJob(j2, d)
      BY <2>1 DEF Machine3, Job3
    <3>2. QED
      BY <1>2, <1>3, <1>4, <1>5, <3>1, KickedSound
  <2>2. CASE ~kicked
    BY <1>4, <1>5, <2>2 DEF Machine3, Job3
  <2>3. QED
    BY <2>1, <2>2
<1> HIDE DEF m3, j3
<1>7. QED
  BY <1>1, <1>6

LEMMA BackgroundShape ==
  ASSUME FShape, NEW ready \in BOOLEAN, NEW kick \in Codecs \cup {"no", "list"}, NEW which \in Ranges,
         NEW good \in Goods, NEW outcome \in Outcomes, NEW exhausted \in BOOLEAN,
         Background(ready, kick, which, good, outcome, exhausted)
  PROVE  FShape'
<1>1. phase = "route" /\ settings.mode = 3 /\ spread' = NoSpread
  BY BackgroundUnfolds DEF Routed
<1>2. PICK m, rs, fallback : Ends(m, rs, fallback)
  BY BackgroundEnds
<1>3. PICK m3 : /\ PipeOn(m3, async', Now(Had)) /\ m3.role = "background" /\ async'.built
                /\ temporal' = (IF exhausted THEN Invalidate(m3) ELSE m3)
  BY BackgroundLeaves
<1>4. Had' = Now(Had) /\ settings' = settings
  BY <1>1, <1>2, PastEnds DEF Ends
<1>5. /\ SoundOn(temporal', Now(Had)) /\ temporal'.role = "background"
      /\ temporal'.pendingFrame = m3.pendingFrame /\ PairedOn(temporal', async')
  BY <1>3, InvalidateSound DEF PipeOn
<1>6. temporal' # NoMachine
  BY <1>5, SomeMachine DEF SoundOn
<1>7. MachinesKnown'
  BY <1>1, <1>4, <1>5 DEF MachinesKnown
<1>8. JobKnown'
  BY <1>1, <1>3, <1>4, <1>5, <1>6 DEF JobKnown, PipeOn
<1>9. QED
  BY <1>1, <1>2, <1>7, <1>8, RouteShape

LEMMA BackgroundChained ==
  ASSUME DropsMidPass = FALSE, FInv,
         NEW ready \in BOOLEAN, NEW kick \in Codecs \cup {"no", "list"}, NEW which \in Ranges,
         NEW good \in Goods, NEW outcome \in Outcomes, NEW exhausted \in BOOLEAN,
         Background(ready, kick, which, good, outcome, exhausted)
  PROVE  Chained' /\ Recorded'
<1>1. FShape
  BY DEF FInv
<1>2. Routed(3) /\ phase = "route" /\ settings.mode = 3 /\ spread' = NoSpread /\ (ready => Job0.inflight)
  BY BackgroundUnfolds DEF Routed
<1>3. InProgress
  BY <1>1, <1>2, Progress DEF FShape
<1>4. VectorsGood(KickVectors(Machine2(ready)))
  <2>1. PipeOn(Machine2(ready), Job2(ready), Now(Had)) /\ PipeFollows(Machine2(ready), Job2(ready), Now(Had))
    BY <1>1, <1>2, PipeAdvances, PipeAdvancesFollowing
  <2>2. QED
    BY <1>3, <2>1, KickGood DEF InProgress
<1>5. PICK m, rs, fallback : Ends(m, rs, fallback) /\ RunsGood(rs)
  BY <1>1, <1>4, BackgroundEnds
<1>6. PICK m3 :
        /\ PipeOn(m3, async', Now(Had)) /\ PipeFollows(m3, async', Now(Had))
        /\ temporal' = (IF exhausted THEN Invalidate(m3) ELSE m3)
        /\ shown' \in {NoPicture, Shown(m3)}
        /\ exhausted /\ async'.inflight => DropsMidPass
  BY <1>1, BackgroundLeaves
<1>7. Had' = Now(Had) /\ resets' = resets
  BY <1>1, <1>2, <1>3, <1>5, PastEnds DEF Ends, InProgress
<1>8. PipeFollows(temporal', async', Now(Had))
  <2>1. CASE exhausted
    <3>1. SoundOn(m3, Now(Had)) /\ temporal' = Invalidate(m3) /\ ~async'.inflight
      BY <1>6, <2>1 DEF PipeOn
    <3>2. QED
      BY <3>1, InvalidateSound DEF PipeFollows, InflightOn
  <2>2. CASE ~exhausted
    BY <1>6, <2>2
  <2>3. QED
    BY <2>1, <2>2
<1>9. MainFollows' /\ PendingFollows' /\ InflightFollows'
  BY <1>7, <1>8 DEF MainFollows, PendingFollows, InflightFollows, PipeFollows
<1>10. HiddenFollows'
  BY <1>2 DEF HiddenFollows
<1>11. Recorded'
  <2>1. shown' = NoPicture \/ \E p : shown' = Shown(p) /\ FollowsOn(p, Held)
    BY <1>3, <1>6 DEF InProgress, PipeFollows
  <2>2. QED
    BY <1>3, <1>5, <2>1, RecordedEnds DEF Ends, RunsGood
<1>12. QED
  BY <1>9, <1>10, <1>11 DEF Chained

-----------------------------------------------------------------------------
(* A missed frame: the chains stay those of the frames before it.          *)

LEMMA MissedLeaves ==
  ASSUME FShape, NEW c \in {"same", "replaced"}, MissedFrame(c)
  PROVE  /\ phase = "route" /\ settings.mode \in {1, 3} /\ ~SpreadRequested /\ InProgress
         /\ temporal' = Planned /\ spread' = NoSpread /\ shown' = NoPicture /\ runs' = {}
         /\ settings' = settings /\ resets' = resets /\ async' = async
         /\ Past' = Now(Past) /\ Had' = Had
         /\ FramesKnown' /\ Phased' /\ ModelsKnown'
         /\ Reset /\ settings.mode = 3 /\ async.inflight => LosesReset
<1>1. /\ phase = "route" /\ settings.mode \in {1, 3} /\ ~SpreadRequested
      /\ temporal' = Planned /\ spread' = NoSpread /\ shown' = NoPicture
      /\ missed' = missed \cup {evalCounter} /\ EndFrame(Configured(c), {}, TRUE)
      /\ UNCHANGED <<frameIds, config, passesRequested, frames, resets, async>>
      /\ Reset /\ settings.mode = 3 /\ async.inflight => LosesReset
  BY DEF MissedFrame, Routed
<1>2. InProgress
  BY <1>1, Progress DEF FShape
<1>3. RouteLeaves
  <2>1. evalCounter \in frames /\ missed \subseteq frames
    BY <1>2 DEF InProgress, Now, FShape, FramesKnown
  <2>2. QED
    BY <1>1, <2>1 DEF RouteLeaves
<1>4. FramesKnown' /\ Phased' /\ ModelsKnown'
  <2>1. ModelRecord(Configured(c)) /\ RunsShape({})
    BY ConfiguredShape DEF FShape, RunsShape
  <2>2. QED
    BY <1>1, <1>3, <2>1, FrameEnds
<1>5. Past' = Now(Past) /\ runs' = {} /\ settings' = settings
  <2>1. phase' = "between" /\ frames' = frames /\ runs' = {} /\ settings' = settings
    BY <1>1 DEF EndFrame, AfterRuns, config
  <2>2. QED
    BY <1>2, <2>1 DEF Past, InProgress
<1>6. Had' = Had
  <2>1. evalCounter \notin Past
    BY <1>2 DEF InProgress, Before
  <2>2. QED
    BY <1>1, <1>5, <2>1 DEF Had, Now
<1>7. QED
  BY <1>1, <1>2, <1>4, <1>5, <1>6

LEMMA MissedShape ==
  ASSUME FShape, NEW c \in {"same", "replaced"}, MissedFrame(c)
  PROVE  FShape'
<1>1. /\ phase = "route" /\ settings.mode \in {1, 3} /\ temporal' = Planned /\ spread' = NoSpread
      /\ settings' = settings /\ async' = async /\ Had' = Had /\ FramesKnown' /\ Phased' /\ ModelsKnown'
  BY MissedLeaves
<1>2. SoundOn(Planned, Had) /\ Planned.role = Ensured(Entering).role
  BY PlannedMachine DEF FShape
<1>3. MachinesKnown'
  BY <1>1, <1>2 DEF MachinesKnown
<1>4. CASE settings.mode = 1
  BY <1>1, <1>3, <1>4, NoJobLeft DEF FShape
<1>5. CASE settings.mode = 3
  <2>1. SoundOn(Ensured(Entering), Had) /\ Planned.role = "background" /\ Planned # NoMachine
    BY <1>2, <1>5, EnsuredEntering, SomeMachine DEF FShape, SoundOn
  <2>2. Planned.pendingFrame = Ensured(Entering).pendingFrame
    BY <2>1, InvalidateSound DEF Planned
  <2>3. async.inflight => async.kicked \in Had /\ async.built /\ Planned.pendingFrame = async.kicked
    BY <1>5, <2>2, InflightMachine
  <2>4. ASSUME async.built PROVE PairedOn(Planned, async)
    <3>1. CASE Reset
      BY <2>1, <3>1, InvalidateSound DEF Planned
    <3>2. CASE ~Reset /\ Empty(Ensured(Entering))
      BY <3>2 DEF Planned, Empty, PairedOn
    <3>3. CASE ~Reset /\ temporal # NoMachine /\ Ensured(Entering) = temporal
      BY <2>4, <3>3 DEF Planned, FShape, JobKnown
    <3>4. QED
      BY <3>1, <3>2, <3>3, EnsuredEntering DEF FShape
  <2>5. JobKnown'
    BY <1>1, <2>1, <2>3, <2>4 DEF FShape, JobKnown
  <2>6. QED
    BY <1>1, <1>3, <2>5 DEF FShape
<1>6. QED
  BY <1>1, <1>4, <1>5

\* Without a reset, what the job and the machine had between them they still have.
LEMMA PlannedPipe ==
  ASSUME FShape, phase = "route", settings.mode = 3, async.built, ~Reset
  PROVE  /\ Planned = Machine0 /\ Job0.kicked = async.kicked
         /\ Job0.inflight = async.inflight /\ Job0.discard = async.discard
<1>1. Job0 = Doubted(async) /\ Planned = Machine0
  BY DEF Job0, Planned, Machine0
<1>2. async.discard \in BOOLEAN
  BY DEF FShape, JobKnown, Job
<1>3. QED
  BY <1>1, <1>2, DoubtedJob

LEMMA MissedChained ==
  ASSUME LosesReset = FALSE, FInv, NEW c \in {"same", "replaced"}, MissedFrame(c)
  PROVE  Chained' /\ Recorded'
<1>1. FShape
  BY DEF FInv
<1>2. /\ phase = "route" /\ settings.mode \in {1, 3} /\ ~SpreadRequested
      /\ temporal' = Planned /\ spread' = NoSpread /\ shown' = NoPicture /\ runs' = {}
      /\ settings' = settings /\ async' = async /\ Had' = Had
      /\ ~(Reset /\ settings.mode = 3 /\ async.inflight)
  BY <1>1, MissedLeaves
<1>3. HiddenFollows' /\ Recorded'
  BY <1>2 DEF HiddenFollows, Recorded, NoPicture
<1>4. SoundOn(Ensured(Entering), Had)
  BY <1>1, EnsuredEntering DEF FShape
<1>5. CASE settings.mode = 1
  <2>1. ~async'.built /\ ~async'.inflight
    BY <1>1, <1>2, <1>5, NoJobLeft
  <2>2. FollowsOn(Planned, Had)
    BY <1>2, <1>5, PlannedFollows
  <2>3. QED
    BY <1>2, <1>3, <2>1, <2>2, NoSpreadLeft DEF Chained, MainFollows
<1>6. CASE settings.mode = 3 /\ ~async.built
  <2>1. ~async.inflight
    BY <1>1, <1>6 DEF FShape, JobKnown
  <2>2. MainFollows'
    BY <1>2, <1>6 DEF MainFollows, Unbuilt
  <2>3. QED
    BY <1>2, <1>3, <1>6, <2>1, <2>2, NoSpreadLeft DEF Chained
<1>7. CASE settings.mode = 3 /\ async.built /\ Reset
  <2>1. FollowsOn(Planned, Had) /\ PendingOn(Planned, async, Had)
    BY <1>4, <1>7, InvalidateSound DEF Planned
  <2>2. MainFollows' /\ PendingFollows' /\ InflightFollows'
    BY <1>2, <1>7, <2>1 DEF MainFollows, PendingFollows, InflightFollows
  <2>3. QED
    BY <1>3, <2>2 DEF Chained
<1>8. CASE settings.mode = 3 /\ async.built /\ ~Reset
  <2>1. PipeFollows(Machine0, Job0, Had)
    BY <1>2, <1>8, PipeStartsFollowing DEF Routed
  <2>2. FollowsOn(Planned, Had) /\ PendingOn(Planned, async, Had) /\ InflightOn(Planned, async, Had)
    BY <1>1, <1>2, <1>8, <2>1, PlannedPipe DEF PipeFollows, PendingOn, InflightOn
  <2>3. MainFollows' /\ PendingFollows' /\ InflightFollows'
    BY <1>2, <2>2 DEF MainFollows, PendingFollows, InflightFollows
  <2>4. QED
    BY <1>3, <2>3 DEF Chained
<1>9. QED
  BY <1>2, <1>5, <1>6, <1>7, <1>8

-----------------------------------------------------------------------------
(* No reset is passed over, whoever drops a machine and whatever fails.    *)

\* A machine over the frames that are not missed is one over all of them.
LEMMA SoundOfPast ==
  ASSUME NEW m
  PROVE  /\ SoundOn(m, Had) => SoundOn(m, Past)
         /\ SoundOn(m, Now(Had)) => SoundOn(m, Now(Past))
         /\ \A j : PipeOn(m, j, Had) => PipeOn(m, j, Past)
         /\ \A j : PipeOn(m, j, Now(Had)) => PipeOn(m, j, Now(Past))
<1>1. Had \subseteq Past /\ Now(Had) \subseteq Now(Past)
  BY DEF Had, Now
<1>2. (SoundOn(m, Had) => SoundOn(m, Past)) /\ (SoundOn(m, Now(Had)) => SoundOn(m, Now(Past)))
  BY <1>1, SoundGrows
<1>3. QED
  BY <1>1, <1>2 DEF PipeOn

LEMMA MainCleared ==
  ASSUME temporal' = NoMachine \/ temporal'.residual = 0
  PROVE  MainClear'
BY DEF MainClear, ClearOn

LEMMA RecordedClearStays ==
  ASSUME RecordedClear, UNCHANGED <<frames, resets, missed, runs, shown>>
  PROVE  RecordedClear'
BY DEF RecordedClear, Since

LEMMA InvalidatedClear ==
  ASSUME MachinesKnown, temporal' = Invalidate(temporal)
  PROVE  MainClear'
BY InvalidatedMain, MainCleared DEF Empty

LEMMA ApplyTemporalClear ==
  ASSUME FClear, NEW s, ApplyTemporal(s)
  PROVE  Cleared' /\ RecordedClear'
<1>1. MainClear'
  BY InvalidatedClear DEF ApplyTemporal, FClear, FShape
<1>2. HiddenClear'
  BY DEF HiddenClear, ApplyTemporal
<1>3. JobClear'
  BY NoJobKnown DEF Changing, JobClear, ApplyTemporal, FClear, Cleared, Stale, Past, models
<1>4. RecordedClear'
  BY RecordedClearStays DEF ApplyTemporal, FClear
<1>5. QED
  BY <1>1, <1>2, <1>3, <1>4 DEF Cleared

LEMMA MotionSourceClear ==
  ASSUME FClear, SetTemporalMotionSource
  PROVE  Cleared' /\ RecordedClear'
<1>1. MainClear'
  BY InvalidatedClear DEF SetTemporalMotionSource, FClear, FShape
<1>2. HiddenClear' /\ JobClear'
  BY DEF Changing, HiddenClear, JobClear, SetTemporalMotionSource, FClear, Cleared, Stale, Past, models
<1>3. RecordedClear'
  BY RecordedClearStays DEF SetTemporalMotionSource, FClear
<1>4. QED
  BY <1>1, <1>2, <1>3 DEF Cleared

LEMMA DiagnosticsClear ==
  ASSUME FClear, SetTemporalDiagnostics
  PROVE  Cleared' /\ RecordedClear'
<1>1. MainClear'
  BY InvalidatedClear DEF SetTemporalDiagnostics, FClear, FShape
<1>2. HiddenClear' /\ JobClear'
  BY NoJobKnown DEF HiddenClear, JobClear, SetTemporalDiagnostics
<1>3. RecordedClear'
  BY RecordedClearStays DEF SetTemporalDiagnostics, FClear
<1>4. QED
  BY <1>1, <1>2, <1>3 DEF Cleared

LEMMA CountsClear ==
  ASSUME FClear, ChangeLayout \/ OtherEvaluate
  PROVE  Cleared' /\ RecordedClear'
<1>1. /\ UNCHANGED <<phase, thisEvaluate, settings, forcedReset, temporal, spread, async, frames, resets>>
      /\ UNCHANGED <<missed, real, extra, runs, shown>>
  BY DEF ChangeLayout, OtherEvaluate, frameIds, models
<1>2. Stale' = Stale /\ Unbuilt' = Unbuilt /\ Past' = Past
  BY <1>1 DEF Stale, Unbuilt, Past
<1>3. Cleared'
  BY <1>1, <1>2 DEF Cleared, MainClear, HiddenClear, JobClear, FClear
<1>4. QED
  BY <1>1, <1>3, RecordedClearStays DEF FClear

LEMMA EvaluateFrameClear ==
  ASSUME FClear, NEW reset \in BOOLEAN, NEW ready \in BOOLEAN, EvaluateFrame(reset, ready)
  PROVE  Cleared' /\ RecordedClear'
<1>1. FShape /\ Cleared
  BY DEF FClear
<1>2. /\ Past = frames /\ evalCounter + 1 \notin Past
      /\ (phase' # "between" => Past' = Past) /\ (phase' = "between" => Stale') /\ (~Stale' => ~Stale)
  BY <1>1, EvaluateFrameFacts
<1>3. UNCHANGED <<settings, temporal, spread, async>>
  BY DEF EvaluateFrame, config
<1>4. resets' \subseteq resets \cup {evalCounter + 1}
  BY DEF EvaluateFrame
<1>5. \A f : SinceIn(Past, f) \cap resets = {} => SinceIn(Past, f) \cap resets' = {}
  BY <1>2, <1>4 DEF SinceIn
<1>6. MainClear'
  BY <1>1, <1>2, <1>3, <1>5 DEF MainClear, ClearOn, Unbuilt, Cleared
<1>7. HiddenClear'
  BY <1>1, <1>2, <1>3, <1>5 DEF HiddenClear, ClearOn, Cleared
<1>8. JobClear'
  BY <1>1, <1>2, <1>3, <1>5 DEF JobClear, Cleared
<1>9. RecordedClear'
  BY DEF RecordedClear, EvaluateFrame, NoPicture
<1>10. QED
  BY <1>6, <1>7, <1>8, <1>9 DEF Cleared

LEMMA ApplyLayoutClear ==
  ASSUME FClear, NEW made, ApplyLayout(made)
  PROVE  Cleared' /\ RecordedClear'
<1>1. MainClear'
  BY MainCleared DEF ApplyLayout
<1>2. HiddenClear' /\ JobClear'
  BY NoJobKnown DEF HiddenClear, JobClear, ApplyLayout
<1>3. RecordedClear'
  BY RecordedClearStays DEF ApplyLayout, FClear
<1>4. QED
  BY <1>1, <1>2, <1>3 DEF Cleared

LEMMA PreparePassesClear ==
  ASSUME FClear, NEW made, PrepareModelPasses(made)
  PROVE  Cleared' /\ RecordedClear'
<1>1. temporal' = NoMachine \/ temporal'.residual = 0
  <2>1. Invalidate(temporal) = NoMachine \/ (SoundOn(Invalidate(temporal), Had) /\ Empty(Invalidate(temporal)))
    BY InvalidatedMain DEF FClear, FShape
  <2>2. Ensured(Invalidate(temporal)) = Invalidate(temporal) \/ Empty(Ensured(Invalidate(temporal)))
    BY <2>1, EnsuredMachine
  <2>3. QED
    BY <2>1, <2>2 DEF PrepareModelPasses, Empty
<1>2. MainClear'
  BY <1>1, MainCleared
<1>3. HiddenClear' /\ JobClear'
  BY NoJobKnown DEF HiddenClear, JobClear, PrepareModelPasses
<1>4. RecordedClear'
  BY RecordedClearStays DEF PrepareModelPasses, FClear
<1>5. QED
  BY <1>2, <1>3, <1>4 DEF Cleared

\* A machine whose residual is its old one, this frame's or none, at the end of a frame.
LEMMA ClearNow ==
  ASSUME NEW m, NEW n, NEW F, NEW R, Before(F), SoundOn(m, F), ClearOn(m, F, R),
         m.residual # 0 => evalCounter \notin R,
         n.residual \in {0, evalCounter, m.residual}
  PROVE  ClearOn(n, Now(F), R)
<1>1. CASE n.residual = 0
  BY <1>1 DEF ClearOn
<1>2. CASE n.residual = evalCounter
  BY <1>2, SinceNow DEF ClearOn
<1>3. CASE n.residual = m.residual /\ m.residual # 0
  <2>1. m.residual \in F
    BY <1>3 DEF SoundOn
  <2>2. QED
    BY <1>3, <2>1, SinceNow DEF ClearOn
<1>4. QED
  BY <1>1, <1>2, <1>3

LEMMA VectorsAreClear ==
  ASSUME NEW m, SoundOn(m, frames), ClearOn(m, frames, resets)
  PROVE  VectorsClear(Vectors(m))
BY HostGood, ChainClear DEF Vectors

LEMMA EnsuredClear ==
  ASSUME FClear, phase = "route", ~Reset, ~Unbuilt
  PROVE  ClearOn(Ensured(Entering), Past, resets)
<1>1. ~Stale
  BY RouteTrusts DEF FClear
<1>2. CASE Empty(Ensured(Entering))
  BY <1>2 DEF Empty, ClearOn
<1>3. CASE temporal # NoMachine /\ Ensured(Entering) = temporal
  BY <1>1, <1>3 DEF FClear, Cleared, MainClear
<1>4. QED
  BY <1>2, <1>3, EnsuredEntering DEF FClear, FShape

LEMMA PlannedClear ==
  ASSUME FClear, phase = "route", settings.mode # 3
  PROVE  ClearOn(Planned, Past, resets) /\ (Planned.residual # 0 => evalCounter \notin resets)
<1>1. SoundOn(Ensured(Entering), Past)
  BY EnsuredEntering, SoundOfPast DEF FClear, FShape
<1>2. CASE Reset
  <2>1. Planned.residual = 0
    BY <1>1, <1>2, InvalidateSound DEF Planned
  <2>2. QED
    BY <2>1 DEF ClearOn
<1>3. CASE ~Reset
  <2>1. ClearOn(Ensured(Entering), Past, resets)
    BY <1>3, EnsuredClear DEF Unbuilt
  <2>2. QED
    BY <1>3, <2>1, RouteTrusts DEF Planned, FClear
<1>4. QED
  BY <1>2, <1>3

LEMMA PlainClear ==
  ASSUME FClear, NEW c \in Codecs, NEW which \in Ranges, NEW good \in Goods, NEW resolved \in BOOLEAN,
         RunPlainModelPath(c, which, good, resolved)
  PROVE  Cleared' /\ RecordedClear'
<1>1. FShape
  BY DEF FClear
<1>2. phase = "route" /\ spread' = NoSpread /\ async' = NoJob3 /\ settings.mode \in {0, 3} /\ shown' = NoPicture
      /\ temporal' = (IF settings.mode = 3 THEN Ensured(Entering) ELSE Entering)
  BY DEF RunPlainModelPath, Routed
<1>3. PICK rs, fallback : Ends(Configured(c), rs, fallback) /\ RunsClear(rs)
  BY <1>1, PlainEnds
<1>4. settings' = settings
  BY <1>1, <1>2, <1>3, PastEnds DEF Ends
<1>5. MainClear'
  <2>1. CASE settings.mode = 3
    BY <1>2, <1>4, <2>1, NoJobKnown DEF MainClear, Unbuilt
  <2>2. CASE settings.mode = 0
    BY <1>1, <1>2, <2>2, EnteringMachine, MainCleared DEF FShape
  <2>3. QED
    BY <1>2, <2>1, <2>2
<1>6. HiddenClear' /\ JobClear'
  BY <1>2, NoJobKnown DEF HiddenClear, JobClear
<1>7. RecordedClear'
  BY <1>2, <1>3, RecordedClearEnds DEF Ends, RunsClear
<1>8. QED
  BY <1>5, <1>6, <1>7 DEF Cleared

LEMMA SynchronousClear ==
  ASSUME FClear, phase = "route", settings.mode = 1, NEW m, NEW rs, NEW fallback, Ends(m, rs, fallback),
         temporal'.residual \in {0, evalCounter, Planned.residual}, spread' = NoSpread, async' = async
  PROVE  Cleared'
<1>1. FShape
  BY DEF FClear
<1>2. Past' = Now(Past) /\ settings' = settings /\ resets' = resets /\ InProgress
  BY <1>1, PastEnds, Progress DEF Ends, FShape
<1>3. ClearOn(temporal', Now(Past), resets)
  BY <1>1, <1>2, PlannedMachine, SoundOfPast, PlannedClear, ClearNow DEF FShape, InProgress
<1>4. MainClear'
  BY <1>2, <1>3 DEF MainClear
<1>5. HiddenClear' /\ JobClear'
  BY <1>1, <1>2, NoJobLeft DEF HiddenClear, JobClear
<1>6. QED
  BY <1>4, <1>5 DEF Cleared

LEMMA CarriedFrameClear ==
  ASSUME FClear, NEW end \in Carryings, CarriedFrame(end)
  PROVE  Cleared' /\ RecordedClear'
<1>1. FShape
  BY DEF FClear
<1>2. phase = "route" /\ settings.mode = 1 /\ Ends(Current, {}, end # "shown") /\ InProgress
  BY <1>1, CarriedShape, Progress DEF FShape
<1> DEFINE n == RecordAccumulate(Planned)
<1>3. /\ HasResidual(Planned) /\ spread' = NoSpread /\ async' = async
      /\ temporal' \in {n, Invalidate(n)} /\ shown' \in {NoPicture, Shown(n)}
  BY DEF CarriedFrame
<1>4. SoundOn(Planned, Past) /\ Planned \in Machine /\ evalCounter \in Nat
  <2>1. SoundOn(Planned, Past)
    BY <1>1, PlannedMachine, SoundOfPast DEF FShape
  <2>2. QED
    BY <1>2, <2>1 DEF SoundOn, InProgress, Before
<1>5. SoundOn(n, Now(Past)) /\ n.residual = Planned.residual
  BY <1>2, <1>3, <1>4, AccumulateSound, AccumulateFields DEF InProgress, HasResidual
<1> HIDE DEF n
<1>6. temporal'.residual \in {0, evalCounter, Planned.residual}
  BY <1>3, <1>5, InvalidateSound
<1>7. Cleared'
  BY <1>2, <1>3, <1>6, SynchronousClear
<1>8. RecordedClear'
  <2>1. ClearOn(n, frames, resets)
    BY <1>2, <1>4, <1>5, PlannedClear, ClearNow DEF InProgress
  <2>2. shown' = NoPicture \/ \E p : shown' = Shown(p) /\ ClearOn(p, frames, resets)
    BY <1>3, <2>1
  <2>3. QED
    BY <1>2, <2>2, RecordedClearEnds DEF Ends
<1>9. QED
  BY <1>7, <1>8

LEMMA FullFrameClear ==
  ASSUME FClear, NEW c \in Codecs, NEW which \in Ranges, NEW good \in Goods, NEW outcome \in Outcomes,
         NEW exhausted \in BOOLEAN, FullFrame(c, which, good, outcome, exhausted)
  PROVE  Cleared' /\ RecordedClear'
<1>1. FShape
  BY DEF FClear
<1>2. /\ phase = "route" /\ settings.mode = 1 /\ spread' = NoSpread /\ async' = async /\ InProgress
      /\ SoundOn(FullMachine, Now(Past)) /\ shown' = NoPicture
  BY <1>1, FullFrameMachine, SoundOfPast
<1>3. SoundOn(Planned, Past) /\ Planned \in Machine /\ evalCounter \in Nat
  <2>1. SoundOn(Planned, Past)
    BY <1>1, PlannedMachine, SoundOfPast DEF FShape
  <2>2. QED
    BY <1>2, <2>1 DEF SoundOn, InProgress, Before
<1>4. FullMachine.residual = Planned.residual
  BY <1>3, AccumulateFields DEF FullMachine
<1>5. VectorsClear(Vectors(FullMachine))
  <2>1. ClearOn(FullMachine, frames, resets)
    BY <1>2, <1>3, <1>4, PlannedClear, ClearNow DEF InProgress
  <2>2. QED
    BY <1>2, <2>1, VectorsAreClear DEF InProgress
<1>6. PICK rs, fallback : Ends(Configured(c), rs, fallback) /\ RunsClear(rs)
  BY <1>1, <1>5, FullFrameEnds
<1>7. temporal'.residual \in {0, evalCounter, Planned.residual}
  <2>1. SoundOn(RecordResidual(FullMachine, evalCounter), Now(Past))
    BY <1>2, ResidualSound DEF InProgress
  <2>2. RecordResidual(FullMachine, evalCounter).residual = evalCounter
    BY <1>2 DEF RecordResidual, SoundOn, Machine
  <2>3. \A m : SoundOn(m, Now(Past)) => SoundOn(Invalidate(m), Now(Past)) /\ Invalidate(m).residual = 0
    BY InvalidateSound
  <2>4. QED
    BY <1>2, <1>4, <2>1, <2>2, <2>3, FullFrameLeaves
<1>8. Cleared'
  BY <1>2, <1>6, <1>7, SynchronousClear
<1>9. RecordedClear'
  BY <1>2, <1>6, RecordedClearEnds DEF Ends, RunsClear
<1>10. QED
  BY <1>8, <1>9

LEMMA SpreadBegunClear ==
  ASSUME FClear, phase = "route"
  PROVE  /\ ClearOn(MainBegun, Past, resets) /\ ClearOn(HiddenBegun, Past, resets)
         /\ MainBegun.residual # 0 => evalCounter \notin resets
         /\ HiddenBegun.residual # 0 => evalCounter \notin resets
<1>1. FShape
  BY DEF FClear
<1>2. CASE SpreadNew \/ Reset
  BY <1>1, <1>2, SpreadMachines DEF ClearOn
<1>3. CASE ~SpreadNew /\ ~Reset
  <2>1. ~Stale /\ evalCounter \notin resets
    BY <1>1, <1>3, RouteTrusts
  <2>2. ClearOn(spread.hidden, Past, resets) /\ (temporal # NoMachine => ClearOn(temporal, Past, resets))
    BY <1>3, <2>1 DEF FClear, Cleared, HiddenClear, MainClear, Unbuilt, SpreadNew
  <2>3. ClearOn(Ensured(temporal), Past, resets)
    <3>1. SoundOn(Ensured(temporal), Had) /\ (Ensured(temporal) = temporal \/ Empty(Ensured(temporal)))
      BY <1>1, EnsuredMachine DEF FShape, MachinesKnown
    <3>2. Ensured(temporal) # NoMachine
      BY <3>1, SomeMachine DEF SoundOn
    <3>3. QED
      BY <2>2, <3>1, <3>2 DEF Empty, ClearOn
  <2>4. QED
    BY <1>3, <2>1, <2>2, <2>3 DEF MainBegun, HiddenBegun, BegunOn
<1>4. QED
  BY <1>2, <1>3

LEMMA SpreadClear ==
  ASSUME FClear, NEW c \in Codecs, NEW good \in Goods, NEW outcome \in Outcomes, NEW exhausted \in BOOLEAN,
         SpreadEvaluate(c, good, outcome, exhausted)
  PROVE  Cleared' /\ RecordedClear'
<1> DEFINE main == CarriedOn(MainBegun)
           hidden == CarriedOn(HiddenBegun)
<1>1. FShape
  BY DEF FClear
<1>2. /\ phase = "route" /\ async' = NoJob3 /\ shown' \in {NoPicture, Shown(main)}
      /\ \E p \in {0, SpreadPosition + 1},
            m \in {main, Invalidate(main), RecordResidual(main, evalCounter)},
            h \in {hidden, Invalidate(hidden), RecordResidual(hidden, evalCounter)} :
           spread' = [position |-> p, hidden |-> h] /\ temporal' = m
  BY SpreadUnfolds
<1>3. InProgress /\ SoundOn(MainBegun, Past) /\ SoundOn(HiddenBegun, Past)
  BY <1>1, <1>2, Progress, SpreadMachines, SoundOfPast DEF FShape
<1>4. ASSUME NEW m, SoundOn(m, Past)
      PROVE  SoundOn(CarriedOn(m), Now(Past)) /\ CarriedOn(m).residual = m.residual
  <2>1. SoundOn(CarriedOn(m), Now(Past))
    BY <1>3, <1>4, AccumulateSound, SoundGrows DEF CarriedOn, HasResidual, InProgress, Now
  <2>2. m \in Machine /\ evalCounter \in Nat
    BY <1>3, <1>4 DEF SoundOn, InProgress, Before
  <2>3. QED
    BY <2>1, <2>2, AccumulateFields DEF CarriedOn
<1>5. /\ SoundOn(main, Now(Past)) /\ main.residual = MainBegun.residual
      /\ SoundOn(hidden, Now(Past)) /\ hidden.residual = HiddenBegun.residual
  BY <1>3, <1>4
<1>6. ASSUME NEW b, SoundOn(b, Past), ClearOn(b, Past, resets), b.residual # 0 => evalCounter \notin resets,
             NEW m, SoundOn(m, Now(Past)), m.residual = b.residual,
             NEW n \in {m, Invalidate(m), RecordResidual(m, evalCounter)}
      PROVE  ClearOn(n, Now(Past), resets)
  <2>1. n.residual \in {0, evalCounter, b.residual}
    <3>1. Invalidate(m).residual = 0
      BY <1>6, InvalidateSound
    <3>2. RecordResidual(m, evalCounter).residual = evalCounter
      BY <1>6 DEF RecordResidual, SoundOn, Machine
    <3>3. QED
      BY <1>6, <3>1, <3>2
  <2>2. QED
    BY <1>3, <1>6, <2>1, ClearNow DEF InProgress
<1>7. /\ ClearOn(MainBegun, Past, resets) /\ ClearOn(HiddenBegun, Past, resets)
      /\ MainBegun.residual # 0 => evalCounter \notin resets
      /\ HiddenBegun.residual # 0 => evalCounter \notin resets
  BY <1>2, SpreadBegunClear
<1>8. ClearOn(main, Now(Past), resets) /\ ClearOn(hidden, Now(Past), resets)
  BY <1>3, <1>5, <1>6, <1>7
<1>9. VectorsClear(SpreadChains)
  BY <1>3, <1>5, <1>8, VectorsAreClear DEF SpreadChains, InProgress
<1>10. PICK rs, fallback : Ends(Configured(c), rs, fallback) /\ RunsClear(rs)
  BY <1>1, <1>9, SpreadEnds
<1>11. Past' = Now(Past) /\ resets' = resets
  BY <1>1, <1>2, <1>3, <1>10, PastEnds DEF Ends, InProgress
<1> HIDE DEF main, hidden
<1>12. ClearOn(temporal', Now(Past), resets) /\ ClearOn(spread'.hidden, Now(Past), resets)
  BY <1>2, <1>3, <1>5, <1>6, <1>7
<1>13. MainClear' /\ HiddenClear' /\ JobClear'
  BY <1>2, <1>11, <1>12, NoJobKnown DEF MainClear, HiddenClear, JobClear
<1>14. RecordedClear'
  <2>1. shown' = NoPicture \/ \E p : shown' = Shown(p) /\ ClearOn(p, frames, resets)
    BY <1>2, <1>3, <1>8 DEF InProgress
  <2>2. QED
    BY <1>10, <2>1, RecordedClearEnds DEF Ends, RunsClear
<1>15. QED
  BY <1>13, <1>14 DEF Cleared

\* The background route: of a machine and its job.
PipeClear(m, j, F, R) ==
  /\ ClearOn(m, F, R)
  /\ j.inflight /\ ~j.discard => SinceIn(F, j.kicked) \cap R = {}

LEMMA PipeStartsClear ==
  ASSUME FClear, Routed(3)
  PROVE  /\ PipeClear(Machine0, Job0, Past, resets)
         /\ Machine0.residual # 0 \/ (Job0.inflight /\ ~Job0.discard) => evalCounter \notin resets
<1>1. FShape /\ phase = "route" /\ settings.mode = 3
  BY DEF FClear, Routed
<1>2. SoundOn(Ensured(Entering), Past)
  BY <1>1, EnsuredEntering, SoundOfPast DEF FShape
<1>3. CASE ~async.built \/ Reset
  <2>1. Machine0.residual = 0
    BY <1>2, <1>3, InvalidateSound DEF Machine0
  <2>2. ~(Job0.inflight /\ ~Job0.discard)
    BY <1>1, <1>3, DoubtedJob, NewJobKnown DEF Job0
  <2>3. QED
    BY <2>1, <2>2 DEF PipeClear, ClearOn
<1>4. CASE async.built /\ ~Reset
  <2>1. ~Stale /\ evalCounter \notin resets
    BY <1>1, <1>4, RouteTrusts
  <2>2. Machine0 = Ensured(Entering)
    BY <1>4 DEF Machine0
  <2>3. /\ Job0.kicked = async.kicked /\ Job0.inflight = async.inflight /\ Job0.discard = async.discard
    BY <1>1, <1>4, DoubtedJob DEF Job0, FShape, JobKnown, Job
  <2>4. ClearOn(Machine0, Past, resets)
    BY <1>1, <1>4, <2>2, EnsuredClear DEF Unbuilt
  <2>5. QED
    BY <2>1, <2>3, <2>4 DEF PipeClear, FClear, Cleared, JobClear
<1>5. QED
  BY <1>3, <1>4

LEMMA PipeAdvancesClear ==
  ASSUME FClear, Routed(3), NEW ready \in BOOLEAN, ready => Job0.inflight
  PROVE  PipeClear(Machine2(ready), Job2(ready), Now(Past), resets)
<1>1. FShape /\ phase = "route" /\ settings.mode = 3
  BY DEF FClear, Routed
<1>2. Before(Past)
  BY <1>1, Progress DEF FShape, InProgress
<1>3. PipeOn(Machine0, Job0, Past)
  BY <1>1, PipeStarts, SoundOfPast
<1>4. Machine0 \in Machine /\ SoundOn(Machine0, Past) /\ Job0 \in Job /\ evalCounter \in Nat
  BY <1>2, <1>3 DEF PipeOn, SoundOn, Before
<1>5. PipeOn(Machine1, Job0, Now(Past)) /\ Machine1.residual = Machine0.residual /\ Machine1 \in Machine
  BY <1>2, <1>3, <1>4, AccumulatedSound, AccumulatedFields DEF Machine1
<1>6. PipeClear(Machine1, Job0, Now(Past), resets)
  <2>1. ClearOn(Machine1, Now(Past), resets)
    BY <1>2, <1>4, <1>5, PipeStartsClear, ClearNow DEF PipeClear
  <2>2. ASSUME Job0.inflight, ~Job0.discard
        PROVE  SinceIn(Now(Past), Job0.kicked) \cap resets = {}
    <3>1. Job0.kicked \in Past
      BY <1>3, <2>2 DEF PipeOn
    <3>2. SinceIn(Past, Job0.kicked) \cap resets = {} /\ evalCounter \notin resets
      BY <2>2, PipeStartsClear DEF PipeClear
    <3>3. QED
      BY <1>2, <3>1, <3>2, SinceNow
  <2>3. QED
    BY <2>1, <2>2 DEF PipeClear
<1>7. CASE ready
  <2>1. ~Job2(ready).inflight /\ Machine2(ready) = Adopted(Machine1, Job0)
    BY <1>4, <1>7, AfterAdoptionFields DEF Job2, Machine2
  <2>2. CASE Job0.discard
    <3>1. Machine2(ready).residual = Machine1.residual
      BY <1>4, <1>5, <2>1, <2>2, ResetPendingFields DEF Adopted
    <3>2. QED
      BY <1>6, <2>1, <3>1 DEF PipeClear, ClearOn
  <2>3. CASE ~Job0.discard
    <3>1. Machine2(ready).residual = Job0.kicked
      BY <1>4, <1>5, <2>1, <2>3, AdoptedFields DEF Job
    <3>2. SinceIn(Now(Past), Job0.kicked) \cap resets = {}
      BY <1>6, <1>7, <2>3 DEF PipeClear
    <3>3. QED
      BY <2>1, <3>1, <3>2 DEF PipeClear, ClearOn
  <2>4. QED
    BY <2>2, <2>3
<1>8. CASE ~ready
  BY <1>6, <1>8 DEF Machine2, Job2
<1>9. QED
  BY <1>7, <1>8

\* The pending chain begins at the pass in flight, or at a frame not before the residual's.
LEMMA KickClear ==
  ASSUME NEW m, NEW j, Before(Past), frames = Now(Past), PipeOn(m, j, frames), PipeClear(m, j, frames, resets)
  PROVE  VectorsClear(KickVectors(m))
<1>1. SoundOn(m, frames) /\ ClearOn(m, frames, resets)
  BY DEF PipeOn, PipeClear
<1>2. CASE m.mirror /\ AccValid(m)
  BY <1>1, <1>2, ChainClear DEF KickVectors
<1>3. CASE ~(m.mirror /\ AccValid(m)) /\ m.pending # {}
  <2>1. ~j.discard /\ (j.inflight \/ m.residual # 0) /\ (m.residual # 0 => m.residual <= m.pendingFrame)
    BY <1>3 DEF PipeOn, PairedOn
  <2>2. KickVectors(m) = [chain |-> m.pending, named |-> m.pendingFrame]
    BY <1>3 DEF KickVectors
  <2>3. SinceIn(frames, m.pendingFrame) \cap resets = {}
    <3>1. CASE j.inflight
      <4>1. m.pendingFrame = j.kicked
        BY <3>1 DEF PipeOn
      <4>2. QED
        BY <2>1, <3>1, <4>1 DEF PipeClear
    <3>2. CASE m.residual # 0
      <4>1. m.residual \in Nat /\ m.pendingFrame \in Nat
        BY <1>1 DEF SoundOn, Machine
      <4>2. \A f \in frames : f \in Nat
        BY DEF Before, Now
      <4>3. SinceIn(frames, m.pendingFrame) \subseteq SinceIn(frames, m.residual)
        BY <2>1, <3>2, <4>1, <4>2 DEF SinceIn
      <4>4. QED
        BY <1>1, <3>2, <4>3 DEF ClearOn
    <3>3. QED
      BY <2>1, <3>1, <3>2
  <2>4. QED
    BY <2>2, <2>3 DEF VectorsClear, Since, SinceIn
<1>4. CASE ~(m.mirror /\ AccValid(m)) /\ m.pending = {}
  BY <1>4, HostGood DEF KickVectors
<1>5. QED
  BY <1>2, <1>3, <1>4

LEMMA KickedClear ==
  ASSUME NEW m, NEW j, NEW d \in BOOLEAN, NEW F, NEW R, Before(F), PipeOn(m, j, Now(F)), PipeClear(m, j, Now(F), R)
  PROVE  PipeClear(ResetPending(m), KickedJob(j, d), Now(F), R)
<1>1. m \in Machine /\ evalCounter \in Nat /\ j \in Job
  BY DEF PipeOn, SoundOn, Before
<1>2. KickedJob(j, d).kicked = evalCounter
  BY <1>1 DEF KickedJob, Job
<1>3. ResetPending(m).residual = m.residual
  BY <1>1, ResetPendingFields
<1>4. QED
  BY <1>2, <1>3, SinceNow DEF PipeClear, ClearOn

LEMMA BackgroundLeavesClear ==
  ASSUME FClear, NEW ready \in BOOLEAN, NEW kick \in Codecs \cup {"no", "list"}, NEW which \in Ranges,
         NEW good \in Goods, NEW outcome \in Outcomes, NEW exhausted \in BOOLEAN,
         Background(ready, kick, which, good, outcome, exhausted)
  PROVE  \E m3 : /\ SoundOn(m3, Now(Past)) /\ PipeClear(m3, async', Now(Past), resets)
                 /\ temporal' = (IF exhausted THEN Invalidate(m3) ELSE m3)
                 /\ shown' \in {NoPicture, Shown(m3)}
<1> DEFINE m2 == Machine2(ready)
           j2 == Job2(ready)
           kicked == Kicks(kick, KickRuns(kick, which, good, m2), outcome)
           d == kick = "next" \/ outcome = "declined"
           m3 == Machine3(m2, kicked)
           j3 == Job3(j2, kicked, d)
<1>1. /\ Routed(3) /\ (ready => Job0.inflight)
      /\ temporal' = (IF exhausted THEN Invalidate(m3) ELSE m3) /\ async' = j3
      /\ shown' \in {NoPicture, Shown(m3)}
  BY BackgroundUnfolds
<1>2. phase = "route" /\ settings.mode = 3 /\ d \in BOOLEAN /\ FShape
  BY <1>1 DEF Routed, FClear
<1>3. Before(Past)
  BY <1>2, Progress DEF FShape, InProgress
<1>4. PipeOn(m2, j2, Now(Past)) /\ j2.built
  BY <1>1, <1>2, PipeAdvances, SoundOfPast
<1>5. PipeClear(m2, j2, Now(Past), resets)
  BY <1>1, PipeAdvancesClear
<1> HIDE DEF m2, j2, kicked, d
<1>6. SoundOn(m3, Now(Past)) /\ PipeClear(m3, j3, Now(Past), resets)
  <2>1. CASE kicked
    <3>1. m3 = ResetPending(m2) /\ j3 = KickedJob(j2, d)
      BY <2>1 DEF Machine3, Job3
    <3>2. SoundOn(m3, Now(Past))
      BY <1>2, <1>3, <1>4, <3>1, KickedSound DEF PipeOn
    <3>3. QED
      BY <1>2, <1>3, <1>4, <1>5, <3>1, <3>2, KickedClear
  <2>2. CASE ~kicked
    BY <1>4, <1>5, <2>2 DEF Machine3, Job3, PipeOn
  <2>3. QED
    BY <2>1, <2>2
<1> HIDE DEF m3, j3
<1>7. QED
  BY <1>1, <1>6

LEMMA BackgroundClear ==
  ASSUME FClear, NEW ready \in BOOLEAN, NEW kick \in Codecs \cup {"no", "list"}, NEW which \in Ranges,
         NEW good \in Goods, NEW outcome \in Outcomes, NEW exhausted \in BOOLEAN,
         Background(ready, kick, which, good, outcome, exhausted)
  PROVE  Cleared' /\ RecordedClear'
<1>1. FShape
  BY DEF FClear
<1>2. Routed(3) /\ phase = "route" /\ settings.mode = 3 /\ spread' = NoSpread /\ (ready => Job0.inflight)
  BY BackgroundUnfolds DEF Routed
<1>3. InProgress
  BY <1>1, <1>2, Progress DEF FShape
<1>4. VectorsClear(KickVectors(Machine2(ready)))
  <2>1. PipeOn(Machine2(ready), Job2(ready), Now(Past)) /\ PipeClear(Machine2(ready), Job2(ready), Now(Past), resets)
    BY <1>1, <1>2, PipeAdvances, PipeAdvancesClear, SoundOfPast
  <2>2. QED
    BY <1>3, <2>1, KickClear DEF InProgress
<1>5. PICK m, rs, fallback : Ends(m, rs, fallback) /\ RunsClear(rs)
  BY <1>1, <1>4, BackgroundEnds
<1>6. PICK m3 :
        /\ SoundOn(m3, Now(Past)) /\ PipeClear(m3, async', Now(Past), resets)
        /\ temporal' = (IF exhausted THEN Invalidate(m3) ELSE m3)
        /\ shown' \in {NoPicture, Shown(m3)}
  BY BackgroundLeavesClear
<1>7. Past' = Now(Past) /\ resets' = resets
  BY <1>1, <1>2, <1>3, <1>5, PastEnds DEF Ends, InProgress
<1>8. ClearOn(temporal', Now(Past), resets)
  BY <1>6, InvalidateSound DEF PipeClear, ClearOn
<1>9. MainClear' /\ HiddenClear' /\ JobClear'
  BY <1>2, <1>6, <1>7, <1>8 DEF MainClear, HiddenClear, JobClear, PipeClear
<1>10. RecordedClear'
  <2>1. shown' = NoPicture \/ \E p : shown' = Shown(p) /\ ClearOn(p, frames, resets)
    BY <1>3, <1>6 DEF InProgress, PipeClear
  <2>2. QED
    BY <1>5, <2>1, RecordedClearEnds DEF Ends, RunsClear
<1>11. QED
  BY <1>9, <1>10 DEF Cleared

LEMMA MissedClear ==
  ASSUME LosesReset = FALSE, FClear, NEW c \in {"same", "replaced"}, MissedFrame(c)
  PROVE  Cleared' /\ RecordedClear'
<1>1. FShape
  BY DEF FClear
<1>2. /\ phase = "route" /\ settings.mode \in {1, 3} /\ ~SpreadRequested /\ InProgress
      /\ temporal' = Planned /\ spread' = NoSpread /\ shown' = NoPicture /\ runs' = {}
      /\ settings' = settings /\ resets' = resets /\ async' = async /\ Past' = Now(Past)
      /\ ~(Reset /\ settings.mode = 3 /\ async.inflight)
  BY <1>1, MissedLeaves
<1>3. HiddenClear' /\ RecordedClear'
  BY <1>2 DEF HiddenClear, RecordedClear, NoPicture
<1>4. SoundOn(Planned, Past) /\ SoundOn(Ensured(Entering), Past) /\ Before(Past)
  BY <1>1, <1>2, PlannedMachine, EnsuredEntering, SoundOfPast DEF FShape, InProgress
<1>5. CASE settings.mode = 1
  <2>1. ClearOn(Planned, Now(Past), resets)
    BY <1>2, <1>4, <1>5, PlannedClear, ClearNow
  <2>2. MainClear'
    BY <1>2, <2>1 DEF MainClear
  <2>3. JobClear'
    BY <1>1, <1>2, <1>5, NoJobLeft DEF JobClear
  <2>4. QED
    BY <1>3, <2>2, <2>3 DEF Cleared
<1>6. CASE settings.mode = 3 /\ ~async.built
  BY <1>1, <1>2, <1>3, <1>6 DEF MainClear, JobClear, Unbuilt, Cleared, FShape, JobKnown
<1>7. CASE settings.mode = 3 /\ async.built /\ Reset
  <2>1. Planned.residual = 0
    BY <1>4, <1>7, InvalidateSound DEF Planned
  <2>2. QED
    BY <1>2, <1>3, <1>7, <2>1, MainCleared DEF JobClear, Cleared
<1>8. CASE settings.mode = 3 /\ async.built /\ ~Reset
  <2>1. ~Stale /\ evalCounter \notin resets
    BY <1>1, <1>2, <1>8, RouteTrusts
  <2>2. ClearOn(Planned, Past, resets)
    BY <1>2, <1>8, EnsuredClear DEF Unbuilt, Planned
  <2>3. MainClear'
    BY <1>2, <1>4, <2>1, <2>2, ClearNow DEF MainClear
  <2>4. JobClear'
    <3>1. SUFFICES ASSUME async.inflight, ~async.discard
                   PROVE  SinceIn(Now(Past), async.kicked) \cap resets = {}
      BY <1>2 DEF JobClear
    <3>2. async.kicked \in Past /\ SinceIn(Past, async.kicked) \cap resets = {}
      BY <2>1, <3>1 DEF FClear, Cleared, JobClear, FShape, JobKnown, Had
    <3>3. QED
      BY <1>4, <2>1, <3>2, SinceNow
  <2>5. QED
    BY <1>3, <2>3, <2>4 DEF Cleared
<1>9. QED
  BY <1>2, <1>5, <1>6, <1>7, <1>8

-----------------------------------------------------------------------------
(* The theorems.                                                           *)

LEMMA FShapeStep == FShape /\ [FNext]_fvars => FShape'
<1> SUFFICES ASSUME FShape, [FNext]_fvars PROVE FShape'
  OBVIOUS
<1>1. ASSUME NEW s \in [mode : Modes, passes : Passes, spread : Spreads], ApplyTemporal(s) PROVE FShape'
  BY <1>1, ApplyTemporalShape
<1>2. CASE SetTemporalMotionSource
  BY <1>2, MotionSourceShape
<1>3. CASE SetTemporalDiagnostics
  BY <1>3, DiagnosticsShape
<1>4. CASE ChangeLayout
  BY <1>4, ChangeLayoutKeeps
<1>5. CASE OtherEvaluate
  BY <1>5, OtherEvaluateKeeps
<1>6. ASSUME NEW reset \in BOOLEAN, NEW ready \in BOOLEAN, EvaluateFrame(reset, ready) PROVE FShape'
  BY <1>6, EvaluateFrameShape
<1>7. ASSUME NEW made \in {"same", "now", "next", "none"}, ApplyLayout(made) PROVE FShape'
  BY <1>7, ApplyLayoutShape
<1>8. ASSUME NEW made \in {"same", "now", "next", "none"}, PrepareModelPasses(made) PROVE FShape'
  BY <1>8, PreparePassesShape
<1>9. CASE Routes
  <2>1. ASSUME NEW c \in Codecs, NEW which \in Ranges, NEW good \in Goods, NEW resolved \in BOOLEAN,
               RunPlainModelPath(c, which, good, resolved)
        PROVE  FShape'
    BY <2>1, PlainShape
  <2>2. ASSUME NEW end \in Carryings, CarriedFrame(end) PROVE FShape'
    BY <2>2, CarriedShape
  <2>3. ASSUME NEW c \in Codecs, NEW which \in Ranges, NEW good \in Goods, NEW outcome \in Outcomes,
               NEW exhausted \in BOOLEAN, FullFrame(c, which, good, outcome, exhausted)
        PROVE  FShape'
    BY <2>3, FullFrameShape
  <2>4. ASSUME NEW c \in Codecs, NEW good \in Goods, NEW outcome \in Outcomes, NEW exhausted \in BOOLEAN,
               SpreadEvaluate(c, good, outcome, exhausted)
        PROVE  FShape'
    BY <2>4, SpreadShape
  <2>5. ASSUME NEW ready \in BOOLEAN, NEW kick \in Codecs \cup {"no", "list"}, NEW which \in Ranges,
               NEW good \in Goods, NEW outcome \in Outcomes, NEW exhausted \in BOOLEAN,
               Background(ready, kick, which, good, outcome, exhausted)
        PROVE  FShape'
    BY <2>5, BackgroundShape
  <2>6. ASSUME NEW c \in {"same", "replaced"}, MissedFrame(c) PROVE FShape'
    BY <2>6, MissedShape
  <2>7. QED
    BY <1>9, <2>1, <2>2, <2>3, <2>4, <2>5, <2>6 DEF Routes, Carryings
<1>10. CASE UNCHANGED fvars
  BY <1>10 DEF fvars, frameIds, config, models, FShape, FramesKnown, Phased, ModelsKnown, MachinesKnown, JobKnown, Had, Past
<1>11. QED
  BY <1>1, <1>2, <1>3, <1>4, <1>5, <1>6, <1>7, <1>8, <1>9, <1>10 DEF FNext

\* Once no pass loses its chain in flight and no reset is missed under one.
LEMMA ChainedStep ==
  ASSUME DropsMidPass = FALSE, LosesReset = FALSE, FInv, [FNext]_fvars
  PROVE  Chained' /\ Recorded'
<1>1. ASSUME NEW s \in [mode : Modes, passes : Passes, spread : Spreads], ApplyTemporal(s) PROVE Chained' /\ Recorded'
  BY <1>1, ApplyTemporalChained
<1>2. CASE SetTemporalMotionSource
  BY <1>2, MotionSourceChained
<1>3. CASE SetTemporalDiagnostics
  BY <1>3, DiagnosticsChained
<1>4. CASE ChangeLayout
  BY <1>4, ChangeLayoutKeeps DEF FInv
<1>5. CASE OtherEvaluate
  BY <1>5, OtherEvaluateKeeps DEF FInv
<1>6. ASSUME NEW reset \in BOOLEAN, NEW ready \in BOOLEAN, EvaluateFrame(reset, ready) PROVE Chained' /\ Recorded'
  BY <1>6, EvaluateFrameChained
<1>7. ASSUME NEW made \in {"same", "now", "next", "none"}, ApplyLayout(made) PROVE Chained' /\ Recorded'
  BY <1>7, ApplyLayoutChained
<1>8. ASSUME NEW made \in {"same", "now", "next", "none"}, PrepareModelPasses(made) PROVE Chained' /\ Recorded'
  BY <1>8, PreparePassesChained
<1>9. CASE Routes
  <2> DEFINE Kept == Chained' /\ Recorded'
  <2>1. ASSUME NEW c \in Codecs, NEW which \in Ranges, NEW good \in Goods, NEW resolved \in BOOLEAN,
               RunPlainModelPath(c, which, good, resolved)
        PROVE  Kept
    BY <2>1, PlainChained
  <2>2. ASSUME NEW end \in Carryings, CarriedFrame(end) PROVE Kept
    BY <2>2, CarriedChained
  <2>3. ASSUME NEW c \in Codecs, NEW which \in Ranges, NEW good \in Goods, NEW outcome \in Outcomes,
               NEW exhausted \in BOOLEAN, FullFrame(c, which, good, outcome, exhausted)
        PROVE  Kept
    BY <2>3, FullFrameChained
  <2>4. ASSUME NEW c \in Codecs, NEW good \in Goods, NEW outcome \in Outcomes, NEW exhausted \in BOOLEAN,
               SpreadEvaluate(c, good, outcome, exhausted)
        PROVE  Kept
    BY <2>4, SpreadChained
  <2>5. ASSUME NEW ready \in BOOLEAN, NEW kick \in Codecs \cup {"no", "list"}, NEW which \in Ranges,
               NEW good \in Goods, NEW outcome \in Outcomes, NEW exhausted \in BOOLEAN,
               Background(ready, kick, which, good, outcome, exhausted)
        PROVE  Kept
    BY <2>5, BackgroundChained
  <2>6. ASSUME NEW c \in {"same", "replaced"}, MissedFrame(c) PROVE Kept
    BY <2>6, MissedChained
  <2> HIDE DEF Kept
  <2>7. Kept
    BY <1>9, <2>1, <2>2, <2>3, <2>4, <2>5, <2>6 DEF Routes, Carryings
  <2>8. QED
    BY <2>7 DEF Kept
<1>10. CASE UNCHANGED fvars
  BY <1>10 DEF fvars, frameIds, config, models, FInv, Chained, Recorded, MainFollows, HiddenFollows, PendingFollows,
               InflightFollows, Stale, Unbuilt, Doomed, PassesReady, Had, Past, Since
<1>11. QED
  BY <1>1, <1>2, <1>3, <1>4, <1>5, <1>6, <1>7, <1>8, <1>9, <1>10 DEF FNext

LEMMA FShapeTypes == FShape => FTypeOK
<1> SUFFICES ASSUME FShape PROVE FTypeOK
  OBVIOUS
<1>1. phase \in {"between", "layout", "passes", "route"} /\ (async.discard => async.inflight)
  BY DEF FShape, Phased, JobKnown
<1>2. /\ thisEvaluate \in 0..evalCounter /\ previousEvaluate \in 0..thisEvaluate
      /\ frames \subseteq 1..evalCounter /\ resets \subseteq frames /\ missed \subseteq frames
  BY DEF FShape, FramesKnown
<1>3. /\ real.handle \in Handles \cup {0} /\ extra.handle \in (Handles \cup {0})
      /\ real.handle = extra.handle => real.handle = 0
  BY DEF FShape, ModelsKnown, RealModel, ExtraModel
<1>4. ASSUME NEW m \in Machines \ {NoMachine}
      PROVE  /\ m.role \in {"synchronous", "background", "hidden"}
             /\ m.acc \cup m.pending \subseteq frames /\ m.residual \in frames \cup {0}
             /\ AccValid(m) => m.chainFrame \in frames
  <2>1. SoundOn(m, Had)
    BY <1>4 DEF Machines, FShape, MachinesKnown
  <2>2. SoundOn(m, frames)
    BY <2>1, SoundGrows DEF Had, Past
  <2>3. m \in Machine
    BY <2>2 DEF SoundOn
  <2>4. m.role \in {"synchronous", "background", "hidden"}
    BY <2>3 DEF Machine
  <2>5. QED
    BY <2>2, <2>4 DEF SoundOn, AccValid
<1>5. QED
  BY <1>1, <1>2, <1>3, <1>4 DEF FTypeOK

\* The shape of a feature's state, whatever fails and whoever invalidates what: a chain is made of
\* past frames, and begins at the frame of its residual.
THEOREM FeatureTyped == FSpec => []FTypeOK
<1>1. FInit => FShape
  BY FInitInv DEF FInv
<1>2. QED
  BY <1>1, FShapeStep, FShapeTypes, PTL DEF FSpec

LEMMA ClearedStep ==
  ASSUME LosesReset = FALSE, FClear, [FNext]_fvars
  PROVE  Cleared' /\ RecordedClear'
<1>1. ASSUME NEW s \in [mode : Modes, passes : Passes, spread : Spreads], ApplyTemporal(s) PROVE Cleared' /\ RecordedClear'
  BY <1>1, ApplyTemporalClear
<1>2. CASE SetTemporalMotionSource
  BY <1>2, MotionSourceClear
<1>3. CASE SetTemporalDiagnostics
  BY <1>3, DiagnosticsClear
<1>4. CASE ChangeLayout \/ OtherEvaluate
  BY <1>4, CountsClear
<1>5. ASSUME NEW reset \in BOOLEAN, NEW ready \in BOOLEAN, EvaluateFrame(reset, ready) PROVE Cleared' /\ RecordedClear'
  BY <1>5, EvaluateFrameClear
<1>6. ASSUME NEW made \in {"same", "now", "next", "none"}, ApplyLayout(made) PROVE Cleared' /\ RecordedClear'
  BY <1>6, ApplyLayoutClear
<1>7. ASSUME NEW made \in {"same", "now", "next", "none"}, PrepareModelPasses(made) PROVE Cleared' /\ RecordedClear'
  BY <1>7, PreparePassesClear
<1>8. CASE Routes
  BY <1>8, PlainClear, MissedClear, CarriedFrameClear, FullFrameClear, SpreadClear, BackgroundClear DEF Routes, Carryings
<1>9. CASE UNCHANGED fvars
  BY <1>9 DEF fvars, frameIds, config, models, FClear, Cleared, RecordedClear, MainClear, HiddenClear, JobClear,
              Stale, Unbuilt, Past, Since
<1>10. QED
  BY <1>1, <1>2, <1>3, <1>4, <1>5, <1>6, <1>7, <1>8, <1>9 DEF FNext

LEMMA FInitClear == FInit => FClear
<1>1. FInit => Cleared
  BY NoJobKnown DEF FInit, Cleared, MainClear, HiddenClear, JobClear
<1>2. FInit => RecordedClear
  BY DEF FInit, RecordedClear, NoPicture
<1>3. QED
  BY <1>1, <1>2, FInitInv DEF FClear, FInv

LEMMA ClearHolds ==
  ASSUME LosesReset = FALSE
  PROVE  FSpec => []FClear
<1>1. FClear /\ [FNext]_fvars => FClear'
  BY FShapeStep, ClearedStep DEF FClear
<1>2. QED
  BY <1>1, FInitClear, PTL DEF FSpec

LEMMA ChainsHold ==
  ASSUME DropsMidPass = FALSE, LosesReset = FALSE
  PROVE  FSpec => []FInv
<1>1. FInv /\ [FNext]_fvars => FInv'
  BY FShapeStep, ChainedStep DEF FInv
<1>2. QED
  BY <1>1, FInitInv, PTL DEF FSpec

\* A model that keeps its history is given the vectors of every frame since that history but the missed
\* ones, and of no other (RunFeature, the chains of the machines, the adoption of a background pass).
THEOREM HistoryFollowed ==
  ASSUME DropsMidPass = FALSE, LosesReset = FALSE
  PROVE  FSpec => []HistoryReachesBack
<1>1. FInv => HistoryReachesBack
  BY DEF FInv, Recorded, HistoryReachesBack
<1>2. QED
  BY <1>1, ChainsHold, PTL

\* A carried frame moves its residual along every frame since it but the missed ones, however chains were
\* dropped, begun again and handed over meanwhile (InterpolateBody, AsyncBody).
THEOREM CarriedAlong ==
  ASSUME DropsMidPass = FALSE, LosesReset = FALSE
  PROVE  FSpec => []CarriedFollows
<1>1. FInv => CarriedFollows
  BY DEF FInv, Recorded, CarriedFollows
<1>2. QED
  BY <1>1, ChainsHold, PTL

\* No pass keeps a history from before a reset of the host's, whatever came between: frames without a
\* model, failures, carried and missed frames, new models, chains dropped with a pass in flight.
THEOREM ResetReaches ==
  ASSUME LosesReset = FALSE
  PROVE  FSpec => []ResetHonoured
<1>1. FClear => ResetHonoured
  BY DEF FClear, RecordedClear, ResetHonoured
<1>2. QED
  BY <1>1, ClearHolds, PTL

\* No carried frame shows the answer to a frame from before a reset: the machine is invalidated, and a
\* pass in flight is doubted (PlanTemporal, SpreadEvaluate, AsyncBody).
THEOREM NoGhostShown ==
  ASSUME LosesReset = FALSE
  PROVE  FSpec => []NoGhosts
<1>1. FClear => NoGhosts
  BY DEF FClear, RecordedClear, NoGhosts
<1>2. QED
  BY <1>1, ClearHolds, PTL
=============================================================================

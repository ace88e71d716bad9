---------------------------- MODULE FrameHistory ----------------------------
(***************************************************************************)
(* core/core_feature.cpp, core/frame/dispatch*.cpp, model_passes.cpp,      *)
(* spread_*.cpp and core/temporal/{controller,machine,async_scheduler}:    *)
(* what one feature does with a frame, and the histories it keeps.         *)
(*                                                                         *)
(* A model keeps a picture of its own and finds it again through the       *)
(* motion vectors it is given: the host's, which reach back one evaluate   *)
(* of the feature, or a chain of them that a temporal machine adds up from *)
(* the frame of its residual.  The residual is what carried frames show.   *)
(* A chain is the set of evaluates whose vectors it is made of; the ghost  *)
(* variables keep what every model run and every carried picture used.     *)
(*                                                                         *)
(* One thread evaluates, under the core's mutex; an evaluate is the few    *)
(* phases below.  Which frame runs the model (the cadence), when a pass    *)
(* finishes and what fails is left open.                                   *)
(***************************************************************************)
EXTENDS Naturals, FiniteSets

CONSTANTS
  MaxEvals,      \* bound: evaluates of the core
  MaxChanges,    \* bound: changes of the settings, and evaluates of another feature
  MaxResets,     \* bound: the host's resets
  MaxMissed,     \* bound: frames that end before the machine has had their vectors
  Modes,         \* the temporal modes used, of 0 (off), 1 (synchronous), 3 (background)
  Passes,        \* the numbers of model passes used, of 1, 2
  Spreads,       \* may the passes be spread over frames: a set of Booleans
  DropsMidPass,  \* may the machine be invalidated alone while a background pass is in flight?
  LosesReset     \* may a frame with a reset be missed while a background pass is in flight?

ASSUME FramesAssumption ==
  /\ MaxEvals \in Nat \ {0} /\ MaxChanges \in Nat /\ MaxResets \in Nat /\ MaxMissed \in Nat
  /\ Modes \subseteq {0, 1, 3} /\ Modes # {} /\ Passes \subseteq {1, 2} /\ 1 \in Passes
  /\ Spreads \subseteq BOOLEAN /\ FALSE \in Spreads
  /\ DropsMidPass \in BOOLEAN /\ LosesReset \in BOOLEAN

VARIABLES
  phase,       \* "between" evaluates, or where this one is
  evalCounter, thisEvaluate, previousEvaluate,
  hostReset,   \* the frame's; FALSE between them
  settings,    \* [mode, passes, spread]
  changes,
  relayout,    \* a configuration no evaluate has applied yet
  real,        \* [handle, pending]; handle 0: no model
  extra,       \* the second pass's feature: [handle, pending, reset]
  passesRequested, forcedReset,
  histories,   \* [pass -> [handle, frame]]
  temporal,    \* the machine, or NoMachine
  spread,      \* [position, hidden], or NoSpread
  async,         \* the background job [kicked, inflight, discard], or NoJob3
  frames, resets,   \* ghost: this feature's evaluates; those with a host reset
  missed,      \* ghost: those that ended before the machine had their vectors
  runs,        \* ghost: the model runs this evaluate recorded
  shown        \* ghost: the carried picture of this evaluate

config == <<settings, changes, relayout>>
models == <<real, extra, passesRequested>>
frameIds == <<evalCounter, thisEvaluate, previousEvaluate>>
fvars == <<phase, frameIds, hostReset, config, models, forcedReset, histories,
           temporal, spread, async, frames, resets, missed, runs, shown>>

Stages == {0, 1}
NoMachine == [role |-> "none"]
NewMachine(role) == [role |-> role, residual |-> 0, acc |-> {}, chainFrame |-> 0,
                     pending |-> {}, mirror |-> FALSE, pendingFrame |-> 0]
NoSpread == [position |-> 0, hidden |-> NoMachine]
NoJob3 == [kicked |-> 0, inflight |-> FALSE, discard |-> FALSE, built |-> FALSE]
NoHistory == [handle |-> 0, frame |-> 0]
NoPicture == [residual |-> 0, chain |-> {}]

PassesReady == IF extra.handle = 0 THEN 1 ELSE 2
InFrame == 0..(PassesReady - 1)
NoExtra == [handle |-> 0, pending |-> FALSE, reset |-> TRUE]

\* A new feature's handle is none of those alive; one destroyed long ago may come back.
Handles == 1..4
Fresh(h) == CHOOSE x \in Handles : x \notin {real.handle, extra.handle, h}

-----------------------------------------------------------------------------
(* The temporal machine.                                                   *)

Invalidate(m) ==
  IF m = NoMachine THEN m ELSE [m EXCEPT !.residual = 0, !.acc = {}, !.pending = {}, !.mirror = FALSE]

RecordAccumulate(m) == [m EXCEPT !.acc = @ \cup {evalCounter}]
RecordAccumulatePending(m) == [m EXCEPT !.pending = @ \cup {evalCounter}]

\* The residual of frame f; f is this evaluate's, or the adopted pass's.
RecordResidual(m, f) == [m EXCEPT !.residual = f, !.chainFrame = evalCounter, !.acc = {}]

PromotesOnlyTheName(m) == [m EXCEPT !.pending = {}, !.mirror = TRUE, !.chainFrame = m.pendingFrame]   \* mutant
PromotePending(m) ==
  [m EXCEPT !.acc = m.pending, !.pending = {}, !.mirror = m.pending # {}, !.chainFrame = m.pendingFrame]

ResetPending(m) == [m EXCEPT !.pending = {}, !.mirror = FALSE, !.pendingFrame = evalCounter]

AccValid(m) == m.acc # {}
HasResidual(m) == m.residual # 0

\* EnsureTemporal: a machine of the role this mode needs.
Ensured(m) ==
  LET role == IF settings.mode = 3 THEN "background" ELSE "synchronous"
  IN IF m.role = role THEN m ELSE NewMachine(role)

-----------------------------------------------------------------------------
(* The model.  `chain` is what the vectors are made of, `named` the frame  *)
(* their recorder says they reach back to (0: the host's own).             *)

Host == [chain |-> {evalCounter}, named |-> 0]
ChainOf(m) == [chain |-> m.acc, named |-> m.chainFrame]
Vectors(m) == IF AccValid(m) THEN ChainOf(m) ELSE Host

Anchor(named) == IF named # 0 THEN named ELSE previousEvaluate

ContinuesAnyFrame(i, handle, vectors) ==   \* mutant
  histories[i].frame # 0 /\ histories[i].handle = handle
Continues(i, handle, vectors) ==
  /\ histories[i].frame # 0
  /\ histories[i].handle = handle
  /\ histories[i].frame = Anchor(vectors.named)

\* m: the features [real, extra] and the forced reset they run with.
RunFeature(m, i, vectors, ok) ==
  LET handle == IF i = 0 THEN m.real.handle ELSE m.extra.handle
  IN [pass |-> i, handle |-> handle, ok |-> ok, from |-> histories[i].frame, chain |-> vectors.chain,
      keeps |-> ~hostReset /\ ~m.forced /\ (i = 1 => ~m.extra.reset) /\ Continues(i, handle, vectors)]

\* The passes `which` in order, up to the first that fails; `good` of them succeed.
EvaluateModelPasses(m, which, vectors, good) ==
  LET Before(i) == Cardinality({j \in which : j < i})
  IN {RunFeature(m, i, vectors, Before(i) < good) : i \in {x \in which : Before(x) <= good}}

AllOk(rs) == \A r \in rs : r.ok

\* What the runs leave behind.
AfterRuns(m, rs) ==
  /\ runs' = rs
  /\ histories' = [i \in Stages |-> IF \E r \in rs : r.pass = i /\ r.ok
                                   THEN [handle |-> (CHOOSE r \in rs : r.pass = i).handle, frame |-> evalCounter]
                                   ELSE histories[i]]
  /\ real' = m.real
  /\ extra' = [m.extra EXCEPT !.reset = @ /\ ~(\E r \in rs : r.pass = 1 /\ r.ok)]

\* EvaluateFrameGuarded, after the frame: has the model taken the forced reset?
EndFrame(m, rs, fallback) ==
  /\ AfterRuns(m, rs)
  /\ forcedReset' = (m.forced /\ (rs = {} \/ ~AllOk(rs) \/ fallback))
  /\ phase' = "between" /\ hostReset' = FALSE

\* BeginCodecFrame and ConfigureModelGrid: the host's codec may want the models at another size.
Codecs == {"same", "replaced", "next", "fails"}
Configured(c) ==
  IF c \in {"same", "fails"} THEN [real |-> real, extra |-> extra, forced |-> forcedReset]
  ELSE [real |-> [handle |-> Fresh(0), pending |-> c = "next"],
        extra |-> IF extra.handle = 0 THEN NoExtra
                  ELSE [handle |-> Fresh(Fresh(0)), pending |-> c = "next", reset |-> TRUE],
        forced |-> TRUE]

-----------------------------------------------------------------------------
(* Between the evaluates: the settings.                                    *)

\* A change is of interest only if an evaluate may follow it.
Changing == phase = "between" /\ changes < MaxChanges /\ evalCounter < MaxEvals

\* ApplyTemporal.  A job in mode 3 goes on; who changes the passes or starts to
\* spread them buries it at the next evaluate.
ApplyTemporal(s) ==
  /\ Changing /\ s # settings
  /\ async.inflight /\ s.mode = 3 =>
       DropsMidPass \/ s.passes # passesRequested \/ (s.spread /\ PassesReady = 2)
  /\ settings' = s /\ changes' = changes + 1
  /\ spread' = NoSpread
  /\ temporal' = Invalidate(temporal)
  /\ async' = IF s.mode # 3 THEN NoJob3 ELSE async
  /\ UNCHANGED <<phase, frameIds, hostReset, relayout, models, forcedReset, histories, frames, resets, missed, runs, shown>>

\* SetTemporalMotionSource.
SetTemporalMotionSource ==
  /\ Changing
  /\ async.inflight => DropsMidPass
  /\ changes' = changes + 1
  /\ temporal' = Invalidate(temporal)
  /\ UNCHANGED <<phase, frameIds, hostReset, settings, relayout, models, forcedReset, histories, spread, async,
                 frames, resets, missed, runs, shown>>

\* SetTemporalDiagnostics; a frame of another colour domain does the same.
SetTemporalDiagnostics ==
  /\ Changing
  /\ changes' = changes + 1
  /\ spread' = NoSpread /\ temporal' = Invalidate(temporal) /\ async' = NoJob3
  /\ UNCHANGED <<phase, frameIds, hostReset, settings, relayout, models, forcedReset, histories, frames, resets, missed, runs, shown>>

\* SetSettings (the layout) or RequestModelRebuild: applied by the next evaluate.
ChangeLayout ==
  /\ Changing /\ ~relayout
  /\ changes' = changes + 1 /\ relayout' = TRUE
  /\ UNCHANGED <<phase, frameIds, hostReset, settings, models, forcedReset, histories, temporal, spread, async,
                 frames, resets, missed, runs, shown>>

\* Another feature evaluates.
OtherEvaluate ==
  /\ Changing
  /\ changes' = changes + 1 /\ evalCounter' = evalCounter + 1
  /\ UNCHANGED <<phase, thisEvaluate, previousEvaluate, hostReset, settings, relayout, models, forcedReset,
                 histories, temporal, spread, async, frames, resets, missed, runs, shown>>

-----------------------------------------------------------------------------
(* An evaluate, up to its route.                                           *)

\* Where a frame goes on once the layout is applied.
Onward(handle, passes) ==
  IF handle = 0 THEN "between"   \* no model
  ELSE IF passes # settings.passes THEN "passes" ELSE "route"

\* Feature::Evaluate counts the evaluate.
CountEvaluate ==
  /\ evalCounter' = evalCounter + 1
  /\ previousEvaluate' = thisEvaluate /\ thisEvaluate' = evalCounter + 1

\* PassesPending: a feature still being created takes no frame; a finished one starts with a reset.
PassesPending(ready) ==
  /\ real' = [real EXCEPT !.pending = @ /\ ~ready]
  /\ extra' = [extra EXCEPT !.pending = @ /\ ~ready, !.reset = @ \/ (extra.pending /\ ready)]
  /\ forcedReset' = (forcedReset \/ ready)

EvaluateFrame(reset, ready) ==
  LET creating == real.pending \/ extra.pending
  IN /\ phase = "between" /\ evalCounter < MaxEvals
     /\ reset => Cardinality(resets) < MaxResets
     /\ ready => creating
     /\ CountEvaluate
     /\ frames' = frames \cup {evalCounter + 1}
     /\ resets' = IF reset THEN resets \cup {evalCounter + 1} ELSE resets
     /\ runs' = {} /\ shown' = NoPicture
     /\ PassesPending(ready)
     /\ phase' = IF creating /\ ~ready THEN "between"
                 ELSE IF relayout THEN "layout" ELSE Onward(real.handle, passesRequested)
     /\ hostReset' = (reset /\ phase' # "between")
     /\ UNCHANGED <<config, passesRequested, histories, temporal, spread, async, missed>>

\* ApplyLayout: the GPU objects go, and the models with them if their extent changes.
ApplyLayout(made) ==
  /\ phase = "layout"
  /\ relayout' = FALSE
  /\ temporal' = NoMachine /\ spread' = NoSpread /\ async' = NoJob3
  /\ real.handle = 0 => made # "same"
  /\ IF made = "same"
     THEN UNCHANGED <<models, forcedReset>>
     ELSE /\ real' = [handle |-> IF made = "none" THEN 0 ELSE Fresh(0), pending |-> made = "next"]
          /\ extra' = NoExtra /\ passesRequested' = 1
          /\ forcedReset' = (forcedReset \/ made # "none")
  /\ phase' = IF made = "next" THEN "between" ELSE Onward(real'.handle, passesRequested')
  /\ hostReset' = (hostReset /\ phase' # "between")
  /\ UNCHANGED <<frameIds, settings, changes, histories, frames, resets, missed, runs, shown>>

\* PrepareModelPasses; a frame that creates the second model runs none.
\* made: "same", its carry resources cannot be had; "none", it could not be created.
PrepareModelPasses(made) ==
  /\ phase = "passes"
  /\ settings.passes = 1 => made = "same"
  /\ async' = NoJob3 /\ spread' = NoSpread
  /\ passesRequested' = settings.passes
  /\ IF made = "same"
     THEN temporal' = Invalidate(temporal) /\ extra' = NoExtra /\ phase' = "route"
     ELSE /\ temporal' = Ensured(Invalidate(temporal)) /\ phase' = "between"
          /\ extra' = IF made = "none" THEN NoExtra
                      ELSE [handle |-> Fresh(0), pending |-> made = "next", reset |-> TRUE]
  /\ hostReset' = (hostReset /\ phase' # "between")
  /\ UNCHANGED <<frameIds, config, real, forcedReset, histories, frames, resets, missed, runs, shown>>

-----------------------------------------------------------------------------
(* The routes of a frame that has a model.                                 *)

Current == [real |-> real, extra |-> extra, forced |-> forcedReset]
Reset == hostReset \/ forcedReset
Outcomes == {"residual", "none", "declined"}   \* of a successful model: none = its answer is not resolved
Goods == 0..2
Ranges == {InFrame, {0}}                       \* {0}: the second pass's staging texture cannot be had

\* How the model can end: `good` of the passes `which` succeed; an outcome needs all of them.
Ending(c, which, good, outcome) ==
  /\ good <= Cardinality(which)
  /\ (c \notin {"same", "replaced"} => good = 0)
  /\ (outcome # "none" => good = Cardinality(which))

SpreadRequested == settings.spread /\ settings.mode # 0 /\ PassesReady = 2
Entering == IF spread = NoSpread THEN temporal ELSE Invalidate(temporal)   \* the spread schedule is left
PlannedOn == Ensured(Entering)   \* mutant
Planned == IF Reset THEN Invalidate(Ensured(Entering)) ELSE Ensured(Entering)
Shown(m) == IF HasResidual(m) THEN [residual |-> m.residual, chain |-> m.acc] ELSE NoPicture

Routed(mode) == phase = "route" /\ ~SpreadRequested /\ settings.mode = mode

RouteKeeps == UNCHANGED <<frameIds, config, passesRequested, frames, resets, missed>>

\* A frame that ends with its plan made and nothing else done: the residual stands and the machine
\* never has the frame's vectors.  A full frame's codec fails, the snapshot of a carried frame of an
\* in-place host does, or the warped route, in either mode, finds no pack set for the frame.
MissedFrame(c) ==
  /\ Routed(1) \/ Routed(3)
  /\ Cardinality(missed) < MaxMissed
  /\ c = "replaced" => settings.mode = 1 /\ (HasResidual(Planned) => AccValid(Planned))
  /\ Reset /\ settings.mode = 3 /\ async.inflight => LosesReset
  /\ missed' = missed \cup {evalCounter}
  /\ temporal' = Planned /\ spread' = NoSpread /\ shown' = NoPicture
  /\ EndFrame(Configured(c), {}, TRUE)
  /\ UNCHANGED <<frameIds, config, passesRequested, frames, resets, async>>

\* RunPlainModelPath: the temporal mode is off, or the background job cannot be built.
RunPlainModelPath(c, which, good, resolved) ==
  /\ Routed(0) \/ Routed(3)
  /\ Ending(c, which, good, IF resolved THEN "residual" ELSE "none")
  /\ temporal' = IF settings.mode = 3 THEN Ensured(Entering) ELSE Entering
  /\ spread' = NoSpread /\ async' = NoJob3 /\ shown' = NoPicture
  /\ IF c \in {"next", "fails"} THEN EndFrame(Configured(c), {}, TRUE)
     ELSE EndFrame(Configured(c), EvaluateModelPasses(Configured(c), which, Host, good), ~resolved)
  /\ RouteKeeps

\* NativeTemporalBody and InterpolateBody, a carried frame.  "exhausted": its descriptors ran out;
\* "unpacked": it has its link of the chain, but no base to show it on.
CarriedFrame(end) ==
  /\ Routed(1) /\ HasResidual(Planned)
  /\ LET m == RecordAccumulate(Planned)
     IN /\ temporal' = IF end = "exhausted" THEN Invalidate(m) ELSE m
        /\ shown' = IF end = "shown" THEN Shown(m) ELSE NoPicture
  /\ spread' = NoSpread
  /\ EndFrame(Current, {}, end # "shown")
  /\ RouteKeeps /\ UNCHANGED async

\* What the model's answer leaves in the machine: its residual, nothing, or no history at all.
AfterModel(m, rs, outcome) ==
  IF ~AllOk(rs) \/ outcome = "none" THEN m
  ELSE IF outcome = "residual" THEN RecordResidual(m, evalCounter) ELSE Invalidate(m)

\* NativeTemporalBody, a full frame; when one is due is left open, but not right after another:
\* the cadence is of 2 frames or more.
FullFrame(c, which, good, outcome, exhausted) ==
  LET m == IF AccValid(Planned) THEN RecordAccumulate(Planned) ELSE Planned
      rs == EvaluateModelPasses(Configured(c), which, Vectors(m), good)
      after == AfterModel(m, rs, outcome)
  IN /\ Routed(1) /\ c # "fails" /\ Ending(c, which, good, outcome)
     /\ HasResidual(Planned) => AccValid(Planned)
     /\ IF c = "next"
        THEN temporal' = Planned /\ EndFrame(Configured(c), {}, TRUE)
        ELSE /\ temporal' = IF exhausted THEN Invalidate(after) ELSE after
             /\ EndFrame(Configured(c), rs, exhausted \/ outcome = "none")
     /\ spread' = NoSpread /\ shown' = NoPicture
     /\ RouteKeeps /\ UNCHANGED async

SpreadEvery == 3   \* bound: frames of a spread cycle, with one that runs no stage

\* SpreadEvaluate: one stage of the passes, or none.
SpreadEvaluate(c, good, outcome, exhausted) ==
  LET new == spread = NoSpread
      Begun(m) == IF new \/ Reset THEN Invalidate(m) ELSE m
      Carried(m) == IF HasResidual(m) THEN RecordAccumulate(m) ELSE m
      main == Carried(Begun(Ensured(temporal)))
      hidden == Carried(Begun(IF new THEN NewMachine("hidden") ELSE spread.hidden))
      position == IF new \/ Reset \/ spread.position >= SpreadEvery THEN 0 ELSE spread.position
      last == position = 1
      End(p, m, h) == /\ spread' = [position |-> p, hidden |-> h] /\ temporal' = m
      rs == EvaluateModelPasses(Configured(c), {position}, Vectors(IF last THEN main ELSE hidden), good)
      ran == position \in Stages /\ c \in {"same", "replaced"}
      done == ran /\ AllOk(rs) /\ outcome # "none"
      published == done /\ outcome = "residual"
  IN /\ phase = "route" /\ SpreadRequested /\ Ending(c, {0}, good, outcome)
     /\ position \notin Stages => c = "same" /\ good = 0
     /\ async' = NoJob3
     /\ \/ /\ exhausted \/ (done /\ outcome = "declined")
           /\ End(0, Invalidate(main), Invalidate(hidden)) /\ shown' = NoPicture
        \/ /\ ~exhausted /\ published
           /\ End(position + 1, IF last THEN RecordResidual(main, evalCounter) ELSE main,
                  IF last THEN hidden ELSE RecordResidual(hidden, evalCounter))
           /\ shown' = IF last THEN NoPicture ELSE Shown(main)
        \/ /\ ~exhausted /\ position \notin Stages
           /\ End(position + 1, main, hidden) /\ shown' = Shown(main)
        \/ /\ ~exhausted /\ ~done /\ position \in Stages
           /\ End(0, main, hidden) /\ shown' = IF c = "next" THEN NoPicture ELSE Shown(main)
     /\ EndFrame(Configured(c), IF ran THEN rs ELSE {}, exhausted \/ c = "next")
     /\ RouteKeeps

\* AsyncBody up to its kick: the chains, then the pass that has finished.
Accumulated(m, j) ==
  LET main == IF HasResidual(m) THEN RecordAccumulate(m) ELSE m
  IN IF j.kicked # 0 /\ ~j.discard /\ (j.inflight \/ HasResidual(m)) /\ ~m.mirror
     THEN RecordAccumulatePending(main) ELSE main
Adopted(m, j) == IF j.discard THEN ResetPending(m) ELSE PromotePending(RecordResidual(m, j.kicked))

\* A reset while a pass is in flight: its answer is to be thrown away.
Undoubted(j) == j                                       \* mutant
DoubtedIdle(j) == [j EXCEPT !.discard = @ \/ Reset]      \* mutant
Doubted(j) == [j EXCEPT !.discard = @ \/ (Reset /\ j.inflight)]

\* The vectors of a kick: the main chain while the pending one mirrors it.
KickVectors(m) ==
  IF m.mirror /\ AccValid(m) THEN ChainOf(m)
  ELSE IF m.pending # {} THEN [chain |-> m.pending, named |-> m.pendingFrame] ELSE Host

\* AsyncTemporalEvaluate.  `ready`: the pass in flight has finished, or is waited for.
\* kick: "no", "list" (its list cannot be reset), or the codec's answer.
Background(ready, kick, which, good, outcome, exhausted) ==
  LET j0 == IF ~async.built THEN [NoJob3 EXCEPT !.built = TRUE]
            ELSE Doubted(async)
      m0 == IF ~async.built \/ Reset THEN Invalidate(Ensured(Entering)) ELSE Ensured(Entering)
      m1 == Accumulated(m0, j0)
      m2 == IF ready THEN Adopted(m1, j0) ELSE m1
      j2 == IF ready THEN [j0 EXCEPT !.inflight = FALSE, !.discard = FALSE] ELSE j0
      rs == IF kick \in {"same", "replaced"}
            THEN EvaluateModelPasses(Configured(kick), which, KickVectors(m2), good) ELSE {}
      kicked == kick = "next" \/ (rs # {} /\ AllOk(rs) /\ outcome # "none")
      m3 == IF kicked THEN ResetPending(m2) ELSE m2
      j3 == IF ~kicked THEN j2
            ELSE [j2 EXCEPT !.kicked = evalCounter, !.inflight = TRUE,
                            !.discard = kick = "next" \/ outcome = "declined"]
      fallback == kick \in {"list", "next"}
  IN /\ Routed(3) /\ Ending(kick, which, good, outcome)
     /\ ready => j0.inflight
     /\ kick # "no" => ~j2.inflight
     /\ exhausted => ~fallback /\ (j3.inflight => DropsMidPass)
     /\ temporal' = IF exhausted THEN Invalidate(m3) ELSE m3
     /\ async' = j3 /\ spread' = NoSpread
     /\ shown' = IF fallback \/ exhausted THEN NoPicture ELSE Shown(m3)
     /\ EndFrame(IF kick \in {"no", "list"} THEN Current ELSE Configured(kick), rs, fallback \/ exhausted)
     /\ RouteKeeps

-----------------------------------------------------------------------------
FInit ==
  /\ phase = "between"
  /\ evalCounter = 0 /\ thisEvaluate = 0 /\ previousEvaluate = 0
  /\ hostReset = FALSE
  /\ settings \in [mode : Modes, passes : {1}, spread : {FALSE}]
  /\ changes = 0 /\ relayout = FALSE
  /\ real = [handle |-> 1, pending |-> FALSE] /\ extra = NoExtra
  /\ passesRequested = 1 /\ forcedReset = FALSE
  /\ histories = [i \in Stages |-> NoHistory]
  /\ temporal = NoMachine /\ spread = NoSpread /\ async = NoJob3
  /\ frames = {} /\ resets = {} /\ missed = {} /\ runs = {} /\ shown = NoPicture

Routes ==
  /\ phase = "route"
  /\ \/ \E c \in Codecs, which \in Ranges, good \in Goods, resolved \in BOOLEAN :
          RunPlainModelPath(c, which, good, resolved)
     \/ \E c \in {"same", "replaced"} : MissedFrame(c)
     \/ \E end \in {"shown", "unpacked", "exhausted"} : CarriedFrame(end)
     \/ \E c \in Codecs, which \in Ranges, good \in Goods, outcome \in Outcomes, exhausted \in BOOLEAN :
          FullFrame(c, which, good, outcome, exhausted)
     \/ \E c \in Codecs, good \in Goods, outcome \in Outcomes, exhausted \in BOOLEAN :
          SpreadEvaluate(c, good, outcome, exhausted)
     \/ \E ready \in BOOLEAN, kick \in Codecs \cup {"no", "list"}, which \in Ranges, good \in Goods,
           outcome \in Outcomes, exhausted \in BOOLEAN : Background(ready, kick, which, good, outcome, exhausted)

FNext ==
  \/ \E s \in [mode : Modes, passes : Passes, spread : Spreads] : ApplyTemporal(s)
  \/ SetTemporalMotionSource
  \/ SetTemporalDiagnostics
  \/ ChangeLayout
  \/ OtherEvaluate
  \/ \E reset, ready \in BOOLEAN : EvaluateFrame(reset, ready)
  \/ \E made \in {"same", "now", "next", "none"} : ApplyLayout(made)
  \/ \E made \in {"same", "now", "next", "none"} : PrepareModelPasses(made)
  \/ Routes

FSpec == FInit /\ [][FNext]_fvars

-----------------------------------------------------------------------------
(* What must hold.                                                         *)

Machines == {temporal} \cup (IF spread = NoSpread THEN {} ELSE {spread.hidden})

\* The shape of the state: a machine's frames are past evaluates of this feature.
FTypeOK ==
  /\ phase \in {"between", "layout", "passes", "route"}
  /\ thisEvaluate \in 0..evalCounter /\ previousEvaluate \in 0..thisEvaluate
  /\ frames \subseteq 1..evalCounter /\ resets \subseteq frames /\ missed \subseteq frames
  /\ real.handle \in Handles \cup {0} /\ extra.handle \in (Handles \cup {0})
  /\ real.handle = extra.handle => real.handle = 0
  /\ \A m \in Machines \ {NoMachine} :
       /\ m.role \in {"synchronous", "background", "hidden"}
       /\ m.acc \cup m.pending \subseteq frames /\ m.residual \in frames \cup {0}
       /\ AccValid(m) => m.chainFrame \in frames
  /\ async.discard => async.inflight

Since(f) == {g \in frames : f < g}

\* A model that keeps its picture of frame `from` is given the vectors of every frame since that the
\* machine has had, and of no other: model_passes.cpp RunFeature, "It keeps its history only when that
\* history ends on the frame the supplied motion reaches back to".  A missed frame leaves a gap.
HistoryReachesBack == \A r \in runs : r.keeps => r.chain = Since(r.from) \ missed

\* A reset of the host's (a cut, a teleport) reaches every pass: none keeps a picture from before it,
\* however many frames ran no model, failed, were carried, or created models meanwhile.
ResetHonoured == \A r \in runs : r.keeps => resets \cap Since(r.from) = {}

\* What a carried frame shows is its residual moved along every frame since the residual's, but the
\* missed ones: no link is lost or added on any other way through a frame.
CarriedFollows == shown.residual # 0 => shown.chain = Since(shown.residual) \ missed

\* No carried frame shows the answer to a frame from before a reset.
NoGhosts == shown.residual # 0 => resets \cap Since(shown.residual) = {}
=============================================================================

------------------------- MODULE MenuPipelineProofs -------------------------
(***************************************************************************)
(* Proofs about MenuPipeline, for every bound, whatever the faults.        *)
(*                                                                         *)
(* The invariant grows in three layers.                                    *)
(*   Base   the numbers of passes and lists, what the watched feature and  *)
(*          the threads' places imply, the vectors, and the reset that a   *)
(*          menu's frames leave owed.  Nothing is assumed.                 *)
(*   Cover  while a pass uses the feature's model the pipeline knows a     *)
(*          pass that is not over before it (held, or the last one), and   *)
(*          an evaluate or a release carries it as its proof until the     *)
(*          call.  That takes a run that submits nothing while a pass is   *)
(*          held, and a failed f2 behind which nothing runs.               *)
(*   Order  no list of the game's can come to be of a model that a pass    *)
(*          on its way uses: what the pass waits for on each queue is      *)
(*          behind the lists of that model already there, and the run's    *)
(*          entry waits for one that has not been submitted.  That takes   *)
(*          the host queue's flags to say what they mean: Surprises = {}.  *)
(***************************************************************************)
EXTENDS MenuPipeline, TLAPS

-----------------------------------------------------------------------------
(* The types.                                                              *)

\* A pass on the private queue, what a call must follow, an entry of the other queues, MenuOutstandingPass.
Pass == [pass : Nat, model : Nat, entry : Nat]
Proof == [pass : Nat, unfenced : BOOLEAN, wait : BOOLEAN, outstanding : BOOLEAN]
Entry == [op : {"capture", "show", "list", "entry", "wait"}, value : Nat]
HeldPass == [pass : Nat, unfenced : BOOLEAN, expired : BOOLEAN]
Machine3 == [enabled : BOOLEAN, stopped : BOOLEAN, active : BOOLEAN, quiet : Nat, since : BOOLEAN,
             evaluated : BOOLEAN, owed : BOOLEAN]
Watch == [remembered : BOOLEAN, snapshot : Nat, order : BOOLEAN, waiting : BOOLEAN, blocked : BOOLEAN]
SeenList == [list : BOOLEAN, observed : BOOLEAN, fresh : BOOLEAN]
Call == [at : {"out", "held", "order", "prove", "call", "note", "leave"}, proof : Proof, last : Nat,
         took : BOOLEAN, tagged : BOOLEAN, leased : BOOLEAN, ran : BOOLEAN, failed : BOOLEAN]
ReleaseCall == [at : {"out", "prove", "core", "keep"}, proof : Proof]
GameList == [at : {"none", "recorded", "executing"}, model : Nat, tagged : BOOLEAN]

Menu == machine \in Machine3 /\ watch \in Watch /\ seen \in SeenList
Calls == held \in HeldPass /\ evaluate \in Call /\ release \in ReleaseCall /\ list \in GameList
Flags == /\ checkbox \in BOOLEAN /\ begun \in BOOLEAN /\ feature \in BOOLEAN /\ flow \in BOOLEAN
         /\ separate \in BOOLEAN /\ removed \in BOOLEAN
Counts == /\ last \in Nat /\ f1 \in Nat /\ entry \in Nat /\ f2 \in Nat /\ gate \in Nat /\ passes \in Nat
          /\ lists \in Nat /\ made \in Nat /\ model \in Nat
Queues3 == privateQ \in Seq(Pass) /\ presentQ \in Seq(Entry) /\ gameQ \in Seq(Entry)
MTypes == Menu /\ Calls /\ Flags /\ Counts /\ Queues3

-----------------------------------------------------------------------------
(* What each action does, field by field.                                  *)

LEMMA EndsSession ==
  ASSUME machine \in Machine3, flow \in BOOLEAN, NEW refused \in BOOLEAN, EndSession(refused)
  PROVE  /\ machine' \in Machine3 /\ ~machine'.active
         /\ machine'.enabled = machine.enabled /\ machine'.owed = machine.owed
         /\ flow' \in BOOLEAN /\ (flow' => flow)
  BY DEF EndSession, StoppedMachine, EndRun, Machine3

LEMMA RestoredFields ==
  ASSUME machine \in Machine3, NEW took \in BOOLEAN
  PROVE  /\ Restored(took) \in Machine3
         /\ Restored(took).active = machine.active /\ Restored(took).enabled = machine.enabled
         /\ Restored(took).owed = (machine.owed \/ took)
  BY DEF Restored, Machine3

LEMMA WithheldFields ==
  ASSUME evaluate \in Call
  PROVE  /\ Withheld(evaluate) \in Call /\ Withheld(evaluate).at = "leave" /\ Withheld(evaluate).proof = NoProof
         /\ Withheld(evaluate).last = 0 /\ Withheld(evaluate).took = evaluate.took
         /\ Withheld(evaluate).tagged = evaluate.tagged /\ Withheld(evaluate).leased = evaluate.leased
  BY DEF Withheld, Call, Proof, NoProof

LEMMA HeldFields ==
  ASSUME held \in HeldPass, NEW pass \in Nat, NEW proof \in Proof
  PROVE  /\ Lifted(proof) \in HeldPass /\ Lifted(proof).unfenced \in {FALSE, held.unfenced}
         /\ Lifted(proof) = held \/ (Lifted(proof) = NotHeld /\ proof.outstanding /\ proof.pass = held.pass)
         /\ Expired(pass) \in HeldPass /\ Expired(pass).unfenced = held.unfenced
         /\ Expired(pass).pass = IF held.unfenced THEN held.pass ELSE pass
  BY DEF Lifted, Expired, HeldPass, NotHeld, Proof

\* What a core's call has to follow.
LEMMA ProofForFields ==
  ASSUME held \in HeldPass, last \in Nat, NEW force \in BOOLEAN
  PROVE  /\ ProofFor(force) \in Proof
         /\ held.unfenced => ProofFor(force).unfenced /\ ProofFor(force).pass = 0 /\ ~ProofFor(force).outstanding
         /\ ~held.unfenced /\ held.pass # 0 =>
              /\ ~ProofFor(force).unfenced /\ ProofFor(force).pass = held.pass /\ ProofFor(force).outstanding
         /\ ~held.unfenced /\ held.pass = 0 =>
              /\ ~ProofFor(force).unfenced /\ ~ProofFor(force).outstanding
              /\ ProofFor(force).pass = IF last # 0 /\ ~Complete(last) THEN last ELSE 0
  BY DEF ProofFor, HeldPass, NoProof, Proof

LEMMA PresentEffect ==
  ASSUME MTypes, NEW blocker \in BOOLEAN, NEW time \in BOOLEAN, NEW refused \in BOOLEAN,
         PresentBegins(blocker, time, refused)
  PROVE  /\ machine' \in Machine3 /\ watch' \in Watch /\ seen' \in SeenList /\ begun' \in BOOLEAN /\ last' \in {0, last}
         /\ flow' \in BOOLEAN /\ (flow' => flow)
         /\ machine'.owed = machine.owed /\ machine'.enabled = checkbox
         /\ watch'.remembered = watch.remembered
         /\ watch'.snapshot = IF machine.enabled /\ ~checkbox THEN 0 ELSE watch.snapshot
         /\ seen'.list = seen.list /\ seen'.observed = seen.observed
         /\ begun' => machine'.active /\ checkbox /\ watch'.snapshot # 0 /\ watch.remembered /\ ~seen'.fresh
         /\ machine'.active => \/ machine.active /\ watch'.order = watch.order
                               \/ watch.remembered /\ watch'.order
         /\ list.at # "executing" \/ "late" \in Surprises
         /\ machine.enabled /\ ~checkbox => ~evaluate.tagged \/ "straddle" \in Surprises
         /\ last' # last => Complete(last)
         /\ UNCHANGED <<separate, checkbox, evaluate, release, list, lists, f1, entry, f2, removed>>
         /\ UNCHANGED <<held, presentQ, gameQ, gate, privateQ, passes, made, model, alive, feature, dirty>>
<1> USE DEF MTypes, Menu, Calls, Flags, Counts
<1>1. last' \in {0, last} /\ (last' # last => Complete(last))
  BY DEF PresentBegins
<1> DEFINE idle == ~checkbox /\ gpu = "none"
           quiet == IF machine.since THEN 0 ELSE IF machine.quiet < EntryPresents THEN machine.quiet + 1 ELSE machine.quiet
<1>2. machine' \in Machine3 /\ machine'.owed = machine.owed /\ machine'.enabled = checkbox
  <2>1. CASE idle
    BY <2>1 DEF PresentBegins, Machine3
  <2>2. CASE ~idle
    <3>1. PICK active \in BOOLEAN :
            machine' = [machine EXCEPT !.enabled = checkbox, !.quiet = quiet, !.since = FALSE, !.active = active]
      BY <2>2 DEF PresentBegins
    <3>2. quiet \in Nat
      BY DEF Machine3
    <3> HIDE DEF quiet
    <3>3. QED
      BY <3>1, <3>2 DEF Machine3
  <2>3. QED
    BY <2>1, <2>2
<1>3. /\ watch' \in Watch /\ watch'.remembered = watch.remembered
      /\ watch'.snapshot = IF machine.enabled /\ ~checkbox THEN 0 ELSE watch.snapshot
  <2>1. CASE idle
    BY <2>1 DEF PresentBegins, Watch
  <2>2. CASE ~idle
    <3>1. PICK waits \in BOOLEAN, order \in BOOLEAN :
            watch' = [watch EXCEPT !.snapshot = IF machine.enabled /\ ~checkbox THEN 0 ELSE watch.snapshot,
                                   !.waiting = waits, !.order = order]
      BY <2>2 DEF PresentBegins, Watch
    <3>2. QED
      BY <3>1 DEF Watch
  <2>3. QED
    BY <2>1, <2>2
<1>4. seen' \in SeenList /\ seen'.list = seen.list /\ seen'.observed = seen.observed
  BY DEF PresentBegins, SeenList
<1>5. begun' \in BOOLEAN /\ flow' \in BOOLEAN /\ (flow' => flow)
  BY DEF PresentBegins, EndRun, Machine3, Watch, SeenList
<1>6. begun' => machine'.active /\ checkbox /\ watch'.snapshot # 0 /\ watch.remembered /\ ~seen'.fresh
  BY DEF PresentBegins, Machine3, Watch, SeenList
<1>7. machine'.active => \/ machine.active /\ watch'.order = watch.order
                         \/ watch.remembered /\ watch'.order
  BY DEF PresentBegins, Machine3, Watch, SeenList
<1>8. /\ UNCHANGED <<separate, checkbox, evaluate, release, list, lists, f1, entry, f2, removed>>
      /\ UNCHANGED <<held, presentQ, gameQ, gate, privateQ, passes, made, model, alive, feature, dirty>>
  BY DEF PresentBegins, user, queues3, core3
<1>9. /\ list.at # "executing" \/ "late" \in Surprises
      /\ machine.enabled /\ ~checkbox => ~evaluate.tagged \/ "straddle" \in Surprises
  BY DEF PresentBegins
<1>10. QED
  BY <1>9, <1>1, <1>2, <1>3, <1>4, <1>5, <1>6, <1>7, <1>8

LEMMA SessionEffect ==
  ASSUME MTypes, NEW refused \in BOOLEAN,
         \/ EndSession(refused)
         \/ /\ machine' = [machine EXCEPT !.active = FALSE]
            /\ EndRun(refused)
         \/ /\ machine' = [machine EXCEPT !.active = FALSE]
            /\ IF machine.active THEN EndRun(refused) ELSE ~refused /\ UNCHANGED flow
  PROVE  /\ machine' \in Machine3 /\ ~machine'.active
         /\ machine'.enabled = machine.enabled /\ machine'.owed = machine.owed
         /\ flow' \in BOOLEAN /\ (flow' => flow)
<1>1. machine \in Machine3 /\ flow \in BOOLEAN
  BY DEF MTypes, Menu, Flags
<1>2. CASE EndSession(refused)
  BY <1>1, <1>2, EndsSession
<1>3. CASE machine' = [machine EXCEPT !.active = FALSE]
  <2>1. /\ machine' \in Machine3 /\ ~machine'.active
        /\ machine'.enabled = machine.enabled /\ machine'.owed = machine.owed
    BY <1>1, <1>3 DEF Machine3
  <2>2. flow' \in BOOLEAN /\ (flow' => flow)
    BY <1>1 DEF EndSession, EndRun
  <2>3. QED
    BY <2>1, <2>2
<1>4. QED
  BY <1>2, <1>3

LEMMA Appended ==
  ASSUME NEW S, NEW q \in Seq(S), NEW e \in S
  PROVE  /\ Append(q, e) \in Seq(S) /\ Len(Append(q, e)) = Len(q) + 1
         /\ Append(q, e)[Len(q) + 1] = e
         /\ \A i \in 1 .. Len(q) : Append(q, e)[i] = q[i]
         /\ \A i \in 1 .. Len(q) + 1 : i \in 1 .. Len(q) \/ i = Len(q) + 1
         /\ q \o <<e>> = Append(q, e) /\ q \o <<>> = q
  OBVIOUS

LEMMA Entries ==
  ASSUME NEW q \in Seq(Entry)
  PROVE  \A i \in 1 .. Len(q) : q[i].value \in Nat
<1>1. \A i \in 1 .. Len(q) : q[i] \in Entry
  OBVIOUS
<1>2. QED
  BY <1>1 DEF Entry

LEMMA Removed ==
  ASSUME NEW S, NEW q \in Seq(S), q # <<>>
  PROVE  /\ Tail(q) \in Seq(S) /\ Len(q) > 0 /\ Len(Tail(q)) = Len(q) - 1 /\ Head(q) = q[1] /\ Head(q) \in S
         /\ \A i \in 1 .. Len(q) - 1 : Tail(q)[i] = q[i + 1] /\ i + 1 \in 1 .. Len(q)
  OBVIOUS

LEMMA EntersEffect ==
  ASSUME MTypes, Enters
  PROVE  /\ ~evaluate.leased /\ (watch.order /\ seen.list => seen.observed /\ ~seen.fresh)
         /\ gate' = IF watch.order /\ separate /\ seen.list THEN lists ELSE gate
         /\ gameQ' = gameQ \/ (gameQ' = Append(gameQ, EntrySignal) /\ separate /\ seen.list)
         /\ gate' \in Nat /\ gameQ' \in Seq(Entry) /\ EntrySignal \in Entry
<1>1. EntrySignal \in Entry /\ gate \in Nat /\ lists \in Nat /\ gameQ \in Seq(Entry)
  BY DEF MTypes, Counts, Queues3, EntrySignal, Entry
<1>2. gameQ' \in {gameQ, Append(gameQ, EntrySignal)}
  BY DEF Enters, Once
<1>3. gameQ' \in Seq(Entry)
  BY ONLY <1>1, <1>2, Appended
<1>4. QED
  BY <1>1, <1>3 DEF Enters, Leased, HostQueueWaits, Once

LEMMA OrderDone ==
  ASSUME watch \in Watch, NEW blocked \in BOOLEAN
  PROVE  LET w == [watch EXCEPT !.order = FALSE, !.blocked = blocked]
         IN w \in Watch /\ ~w.order /\ w.remembered = watch.remembered /\ w.snapshot = watch.snapshot
  BY DEF Watch

LEMMA PassRefusedEffect ==
  ASSUME MTypes, PassRefused
  PROVE  /\ begun /\ begun' = FALSE /\ Enters
         /\ watch' \in Watch /\ ~watch'.order /\ watch'.remembered = watch.remembered /\ watch'.snapshot = watch.snapshot
         /\ UNCHANGED <<separate, checkbox, machine, flow, seen, evaluate, release, list, lists, f1, entry, f2, removed>>
         /\ UNCHANGED <<held, last, presentQ, privateQ, passes, made, model, alive, feature, dirty>>
  BY DEF PassRefused, PassEnds, NoPass, core3, MTypes, Menu, Watch

LEMMA LeaseSkipsEffect ==
  ASSUME MTypes, LeaseSkips
  PROVE  /\ begun /\ begun' = FALSE /\ evaluate.leased
         /\ UNCHANGED <<separate, checkbox, machine, watch, flow, seen, evaluate, release, list, lists, f1, entry, f2, removed>>
         /\ UNCHANGED <<held, last, presentQ, gameQ, gate, privateQ, passes, made, model, alive, feature, dirty>>
  BY DEF LeaseSkips, PassEnds, NoPass, Leased, core3

LEMMA PassEndsRunEffect ==
  ASSUME MTypes, NEW refused \in BOOLEAN, EntryWaits(refused) \/ PassStops(refused)
  PROVE  /\ begun /\ begun' = FALSE /\ ~evaluate.leased
         /\ machine' \in Machine3 /\ ~machine'.active
         /\ machine'.enabled = machine.enabled /\ machine'.owed = machine.owed
         /\ flow' \in BOOLEAN /\ (flow' => flow)
         /\ watch' \in Watch /\ ~watch'.order /\ watch'.remembered = watch.remembered /\ watch'.snapshot = watch.snapshot
         /\ UNCHANGED <<separate, checkbox, seen, evaluate, release, list, lists, f1, entry, f2, removed>>
         /\ UNCHANGED <<held, last, presentQ, gameQ, gate, privateQ, passes, made, model, alive, feature, dirty>>
<1>1. /\ machine' \in Machine3 /\ ~machine'.active
      /\ machine'.enabled = machine.enabled /\ machine'.owed = machine.owed
      /\ flow' \in BOOLEAN /\ (flow' => flow)
  BY SessionEffect DEF EntryWaits, PassStops
<1>2. watch' \in Watch /\ ~watch'.order /\ watch'.remembered = watch.remembered /\ watch'.snapshot = watch.snapshot
  BY DEF EntryWaits, PassStops, MTypes, Menu, Watch
<1>3. QED
  BY <1>1, <1>2 DEF EntryWaits, PassStops, PassEnds, NoPass, Leased, core3

LEMMA PassCreatesEffect ==
  ASSUME MTypes, NEW cadence \in BOOLEAN, PassCreates(cadence)
  PROVE  /\ begun /\ begun' = FALSE /\ Enters /\ CoreFree /\ model # 0
         /\ model' = 0 /\ alive' = alive \ {model} /\ flow' \in BOOLEAN
         /\ watch' \in Watch /\ ~watch'.order /\ watch'.remembered = watch.remembered /\ watch'.snapshot = watch.snapshot
         /\ UNCHANGED <<separate, checkbox, machine, seen, evaluate, release, list, lists, f1, entry, f2, removed>>
         /\ UNCHANGED <<held, last, presentQ, privateQ, passes, made, feature, dirty>>
  BY DEF PassCreates, PassEnds, MTypes, Menu, Flags, Watch

\* The pass and the frame it captures; a stop shows nothing.
Captures == Append(presentQ, [op |-> "capture", value |-> passes + 1])
Shows == Append(Captures, [op |-> "show", value |-> passes + 1])

LEMMA DrainEffect ==
  ASSUME MTypes, NEW refused \in BOOLEAN, DrainEnds \/ DrainBegins(refused)
  PROVE  /\ machine' \in Machine3 /\ (machine'.active => machine.active)
         /\ machine'.enabled = machine.enabled /\ machine'.owed = machine.owed
         /\ flow' \in BOOLEAN /\ (flow' => flow)
         /\ watch' \in Watch /\ watch'.remembered = watch.remembered /\ watch'.snapshot = watch.snapshot
         /\ machine'.active => watch'.order = watch.order
         /\ begun => machine'.active = machine.active
         /\ UNCHANGED <<separate, checkbox, begun, seen, evaluate, release, list, lists, f1, entry, f2, removed>>
         /\ UNCHANGED <<held, last, presentQ, gameQ, gate, privateQ, passes, made, model, alive, feature, dirty>>
<1> USE DEF MTypes, Menu, Flags
<1>1. CASE DrainEnds
  <2>1. ~begun /\ (machine' = machine \/ machine' = StoppedMachine)
    BY <1>1 DEF DrainEnds
  <2>2. QED
    BY <1>1, <2>1 DEF DrainEnds, StoppedMachine, Machine3, user, queues3, core3
<1>2. CASE DrainBegins(refused)
  <2>1. /\ machine' \in Machine3 /\ ~machine'.active
        /\ machine'.enabled = machine.enabled /\ machine'.owed = machine.owed
        /\ flow' \in BOOLEAN /\ (flow' => flow)
    BY <1>2, SessionEffect DEF DrainBegins
  <2>2. watch' \in Watch /\ watch'.remembered = watch.remembered /\ watch'.snapshot = watch.snapshot
    BY <1>2 DEF DrainBegins, Watch
  <2>3. QED
    BY <1>2, <2>1, <2>2 DEF DrainBegins, queues3, core3
<1>3. QED
  BY <1>1, <1>2

-----------------------------------------------------------------------------
(* The evaluate.                                                           *)

LEMMA EvaluateBeginsEffect ==
  ASSUME MTypes, NEW refused \in BOOLEAN, EvaluateBegins(refused)
  PROVE  /\ evaluate.at = "out" /\ feature /\ release.at = "out" /\ ~begun /\ list = NoList
         /\ flow' = refused
         /\ machine' \in Machine3 /\ machine'.enabled = machine.enabled
         /\ watch' \in Watch /\ watch'.remembered = watch.remembered /\ watch'.snapshot = watch.snapshot
         /\ evaluate' \in Call /\ evaluate'.tagged = checkbox /\ evaluate'.leased = watch.remembered
         /\ evaluate'.at \in {"leave", "held", "order", "prove", "call"}
         /\ evaluate'.at # "leave" => ~refused
         /\ watch.remembered => /\ ~machine'.active /\ evaluate'.took = machine.owed
                                /\ evaluate'.proof = ProofFor(FALSE) /\ evaluate'.last \in {0, last}
                                /\ evaluate'.at = "held" <=> evaluate'.at # "leave" /\ evaluate'.proof.outstanding
                                                               /\ ~evaluate'.proof.wait
                                /\ evaluate'.at = "call" => ~Needed(evaluate'.proof)
                                /\ evaluate'.at = "prove" => Needed(evaluate'.proof)
                                /\ evaluate'.at = "order" => evaluate'.last # 0
         /\ ~watch.remembered => /\ machine' = machine /\ watch' = watch /\ evaluate'.at \in {"call", "leave"}
                                 /\ evaluate'.proof = NoProof /\ evaluate'.last = 0 /\ ~evaluate'.took
         /\ UNCHANGED <<separate, checkbox, begun, seen, release, list, lists, f1, entry, f2, removed>>
         /\ UNCHANGED <<held, last, presentQ, gameQ, gate, privateQ, passes, made, model, alive, feature, dirty>>
<1>1. /\ machine \in Machine3 /\ watch \in Watch /\ held \in HeldPass /\ last \in Nat /\ checkbox \in BOOLEAN
      /\ NoProof \in Proof /\ ~NoProof.outstanding /\ ~Needed(NoProof)
  BY DEF MTypes, Menu, Calls, Flags, Counts, NoProof, Proof, Needed
<1> DEFINE watched == watch.remembered
           lastPass == IF watched /\ machine.owed THEN last ELSE 0
           proof == IF watched THEN ProofFor(FALSE) ELSE NoProof
           heldSlow == proof.outstanding /\ ~proof.wait
           at == IF refused THEN "leave" ELSE IF heldSlow THEN "held" ELSE IF lastPass # 0 THEN "order"
                 ELSE IF Needed(proof) THEN "prove" ELSE "call"
           took == watched /\ machine.owed
<1>2. evaluate' = [NoEvaluate EXCEPT !.at = at, !.proof = proof, !.last = lastPass, !.took = took, !.tagged = checkbox,
                                     !.leased = watched]
  BY DEF EvaluateBegins
<1>3. proof \in Proof /\ lastPass \in Nat /\ took \in BOOLEAN /\ watched \in BOOLEAN
      /\ at \in {"leave", "held", "order", "prove", "call"}
  <2>1. ProofFor(FALSE) \in Proof
    BY <1>1, ProofForFields
  <2>2. QED
    BY <1>1, <2>1 DEF Machine3, Watch
<1>4. /\ at # "leave" => ~refused
      /\ watch.remembered =>
           /\ took = machine.owed /\ proof = ProofFor(FALSE) /\ lastPass \in {0, last}
           /\ at = "held" <=> at # "leave" /\ proof.outstanding /\ ~proof.wait
           /\ at = "call" => ~Needed(proof)
           /\ at = "prove" => Needed(proof)
           /\ at = "order" => lastPass # 0
      /\ ~watch.remembered => at \in {"call", "leave"} /\ proof = NoProof /\ lastPass = 0 /\ ~took
  BY <1>1, <1>3 DEF Machine3
<1> HIDE DEF watched, lastPass, proof, heldSlow, at, took
<1>5. /\ evaluate' \in Call /\ evaluate'.tagged = checkbox /\ evaluate'.leased = watched
      /\ evaluate'.at = at /\ evaluate'.proof = proof /\ evaluate'.last = lastPass /\ evaluate'.took = took
  <2> DEFINE e == [NoEvaluate EXCEPT !.at = at, !.proof = proof, !.last = lastPass]
  <2>1. e \in Call /\ e.at = at /\ e.proof = proof /\ e.last = lastPass
    BY <1>1, <1>3 DEF NoEvaluate, Call
  <2>2. evaluate' = [e EXCEPT !.took = took, !.tagged = checkbox, !.leased = watched]
    BY <1>2
  <2> HIDE DEF e
  <2>3. QED
    BY <1>1, <1>3, <2>1, <2>2 DEF Call
<1>6. machine' \in Machine3 /\ machine'.enabled = machine.enabled
      /\ IF watch.remembered THEN ~machine'.active ELSE machine' = machine
  BY <1>1 DEF EvaluateBegins, Machine3
<1>7. watch' \in Watch /\ watch'.remembered = watch.remembered /\ watch'.snapshot = watch.snapshot
      /\ (~watch.remembered => watch' = watch)
  BY <1>1 DEF EvaluateBegins, Watch
<1>8. /\ evaluate.at = "out" /\ feature /\ release.at = "out" /\ ~begun /\ list = NoList /\ flow' = refused
      /\ UNCHANGED <<separate, checkbox, begun, seen, release, list, lists, f1, entry, f2, removed>>
      /\ UNCHANGED <<held, last, presentQ, gameQ, gate, privateQ, passes, made, model, alive, feature, dirty>>
  BY DEF EvaluateBegins, Quiet3, user, core3
<1>9. QED
  BY <1>3, <1>4, <1>5, <1>6, <1>7, <1>8 DEF watched

\* The steps of an evaluate under "held", "order" and "prove".
EvaluateSteps == EvaluateHeld \/ EvaluateOrders \/ EvaluateProves

LEMMA QuarantinesEffect ==
  ASSUME MTypes, Quarantines
  PROVE  /\ machine' \in Machine3 /\ ~machine'.active
         /\ machine'.enabled = machine.enabled /\ machine'.owed = machine.owed
         /\ flow' \in BOOLEAN /\ (flow' => flow)
<1>1. PICK refused \in BOOLEAN : EndSession(refused)
  BY DEF Quarantines, Fails
<1>2. QED
  BY <1>1, SessionEffect

LEMMA NextFields ==
  ASSUME evaluate \in Call, NEW at \in {"order", "prove", "call"}
  PROVE  LET e == [evaluate EXCEPT !.at = at]
         IN /\ e \in Call /\ e.at = at /\ e.proof = evaluate.proof /\ e.last = evaluate.last
            /\ e.took = evaluate.took /\ e.tagged = evaluate.tagged /\ e.leased = evaluate.leased
  BY DEF Call

LEMMA EvaluateStepsEffect ==
  ASSUME MTypes, EvaluateSteps
  PROVE  /\ evaluate.at \in {"held", "order", "prove"}
         /\ machine' \in Machine3 /\ (machine'.active => machine.active)
         /\ machine'.enabled = machine.enabled /\ machine'.owed = machine.owed
         /\ flow' \in BOOLEAN /\ (flow' => flow)
         /\ evaluate' \in Call
         /\ evaluate'.took = evaluate.took /\ evaluate'.tagged = evaluate.tagged /\ evaluate'.leased = evaluate.leased
         /\ \/ /\ evaluate'.at = "leave" /\ evaluate'.proof = NoProof /\ evaluate'.last = 0 /\ gameQ' = gameQ
               /\ \/ held' = held
                  \/ evaluate.at = "order" /\ held' = Expired(evaluate.last) /\ (~removed => ~Complete(evaluate.last))
                  \/ /\ evaluate.at # "order" /\ held' = Expired(evaluate.proof.pass)
                     /\ (~removed => ~Complete(evaluate.proof.pass)) /\ (evaluate.at = "prove" => ~evaluate.proof.unfenced)
            \/ /\ evaluate'.proof = evaluate.proof /\ evaluate'.last = evaluate.last /\ machine' = machine /\ flow' = flow
               /\ \/ /\ evaluate.at = "order" /\ held' = held
                     /\ evaluate'.at = AfterOrder
                     /\ \/ gameQ' = gameQ
                        \/ gameQ' = Append(gameQ, [op |-> "wait", value |-> evaluate.last]) /\ separate
                  \/ /\ evaluate.at \in {"held", "prove"} /\ gameQ' = gameQ /\ held' = Lifted(evaluate.proof)
                     /\ Complete(evaluate.proof.pass) /\ (evaluate.at = "prove" => ~evaluate.proof.unfenced)
                     /\ evaluate'.at \in {"order", "call"}
                     /\ evaluate'.at = "order" => evaluate.at = "held" /\ evaluate.last # 0
         /\ gameQ' \in Seq(Entry) /\ held' \in HeldPass
         /\ UNCHANGED <<separate, checkbox, watch, begun, seen, release, list, lists, f1, entry, f2, removed>>
         /\ UNCHANGED <<last, presentQ, gate, privateQ, passes, made, model, alive, feature, dirty>>
<1>1. evaluate \in Call /\ machine \in Machine3 /\ flow \in BOOLEAN
  BY DEF MTypes, Menu, Calls, Flags
<1>2. /\ evaluate.at \in {"held", "order", "prove"}
      /\ UNCHANGED <<separate, checkbox, watch, begun, seen, release, list, lists, f1, entry, f2, removed>>
      /\ UNCHANGED <<last, presentQ, gate, privateQ, passes, made, model, alive, feature, dirty>>
  BY DEF EvaluateSteps, EvaluateHeld, EvaluateOrders, EvaluateProves, Quiet3, user, core3
<1> DEFINE Leaves == evaluate' = Withheld(evaluate) /\ gameQ' = gameQ
           Slow == \/ held' = held
                   \/ evaluate.at = "order" /\ held' = Expired(evaluate.last) /\ (~removed => ~Complete(evaluate.last))
                   \/ /\ evaluate.at # "order" /\ held' = Expired(evaluate.proof.pass)
                      /\ (~removed => ~Complete(evaluate.proof.pass)) /\ (evaluate.at = "prove" => ~evaluate.proof.unfenced)
           Ordered == /\ evaluate.at = "order" /\ held' = held /\ evaluate' = [evaluate EXCEPT !.at = AfterOrder]
                      /\ \/ gameQ' = gameQ
                         \/ gameQ' = Append(gameQ, [op |-> "wait", value |-> evaluate.last]) /\ separate
           Lifts == /\ evaluate.at \in {"held", "prove"} /\ gameQ' = gameQ /\ held' = Lifted(evaluate.proof)
                    /\ Complete(evaluate.proof.pass) /\ (evaluate.at = "prove" => ~evaluate.proof.unfenced)
                    /\ \E at \in {"order", "call"} : /\ evaluate' = [evaluate EXCEPT !.at = at]
                                                     /\ at = "order" => evaluate.at = "held" /\ evaluate.last # 0
           Same == machine' = machine /\ flow' = flow
<1>3. \/ Leaves /\ Slow /\ (Quarantines \/ Same)
      \/ Ordered /\ Same
      \/ Lifts /\ Same
  <2>1. CASE EvaluateHeld
    BY <1>1, <2>1 DEF EvaluateHeld, Quarantines
  <2>2. CASE EvaluateOrders
    BY <1>1, <2>2 DEF EvaluateOrders, Quarantines, TooSlow, Once
  <2>3. CASE EvaluateProves
    BY <1>1, <2>3 DEF EvaluateProves, Quarantines, TooSlow, ProofHolds
  <2>4. QED
    BY <2>1, <2>2, <2>3 DEF EvaluateSteps
<1>4. /\ machine' \in Machine3 /\ (machine'.active => machine.active)
      /\ machine'.enabled = machine.enabled /\ machine'.owed = machine.owed
      /\ flow' \in BOOLEAN /\ (flow' => flow)
  <2>1. CASE Quarantines
    BY <2>1, QuarantinesEffect
  <2>2. CASE Same
    BY <1>1, <2>2
  <2>3. QED
    BY <1>3, <2>1, <2>2
<1>5. gameQ' \in Seq(Entry) /\ held' \in HeldPass
  <2>1. [op |-> "wait", value |-> evaluate.last] \in Entry /\ gameQ \in Seq(Entry)
    BY <1>1 DEF Call, Entry, MTypes, Queues3
  <2>2. gameQ' \in {gameQ, Append(gameQ, [op |-> "wait", value |-> evaluate.last])}
    BY <1>3
  <2>3. gameQ' \in Seq(Entry)
    BY ONLY <2>1, <2>2, Appended
  <2>4. held \in HeldPass /\ evaluate.last \in Nat /\ evaluate.proof.pass \in Nat /\ evaluate.proof \in Proof
    BY <1>1 DEF MTypes, Calls, Call, Proof
  <2>5. held' \in HeldPass
    BY <1>3, <2>4, HeldFields
  <2>6. QED
    BY <2>3, <2>5
<1>6. CASE Leaves /\ Slow
  BY <1>1, <1>2, <1>4, <1>5, <1>6, WithheldFields
<1>7. CASE Ordered /\ Same
  <2>1. AfterOrder \in {"prove", "call"}
    BY DEF AfterOrder
  <2>2. QED
    BY <1>1, <1>2, <1>4, <1>5, <1>7, <2>1, NextFields
<1>8. CASE Lifts /\ Same
  <2>1. PICK at \in {"order", "call"} : /\ evaluate' = [evaluate EXCEPT !.at = at]
                                        /\ at = "order" => evaluate.at = "held" /\ evaluate.last # 0
    BY <1>8
  <2>2. QED
    BY <1>1, <1>2, <1>4, <1>5, <1>8, <2>1, NextFields
<1>9. QED
  BY <1>3, <1>6, <1>7, <1>8

LEMMA EvaluateCallsEffect ==
  ASSUME MTypes, NEW renews \in BOOLEAN, NEW runs \in BOOLEAN, NEW fails \in BOOLEAN, EvaluateCalls(renews, runs, fails)
  PROVE  /\ evaluate.at = "call" /\ feature
         /\ made' = (IF renews THEN made + 1 ELSE made) /\ model' = (IF renews THEN made + 1 ELSE model)
         /\ alive' = IF renews THEN (alive \ {model}) \cup {made + 1} ELSE alive
         /\ list' \in GameList /\ list'.at = "recorded" /\ list'.model = (IF runs THEN model' ELSE 0)
         /\ dirty' = (IF runs /\ ~fails THEN dirty \ {model'} ELSE dirty) \cap alive'
         /\ evaluate' \in Call /\ evaluate'.at = "note" /\ evaluate'.proof = NoProof /\ evaluate'.last = 0
         /\ evaluate'.took = evaluate.took /\ evaluate'.tagged = evaluate.tagged /\ evaluate'.leased = evaluate.leased
         /\ evaluate'.ran = (runs /\ ~fails) /\ evaluate'.failed = fails
         /\ (runs => model' # 0) /\ (fails => runs) /\ lists' = lists + 1
         /\ UNCHANGED <<separate, checkbox, machine, flow, watch, begun, seen, release, f1, entry, f2, removed>>
         /\ UNCHANGED <<held, last, presentQ, gameQ, gate, privateQ, passes, feature>>
<1>1. list' \in GameList /\ list'.at = "recorded" /\ list'.model = (IF runs THEN model' ELSE 0)
  BY DEF EvaluateCalls, MTypes, Counts, GameList
<1>2. /\ evaluate' \in Call /\ evaluate'.at = "note" /\ evaluate'.proof = NoProof /\ evaluate'.last = 0
      /\ evaluate'.took = evaluate.took /\ evaluate'.tagged = evaluate.tagged /\ evaluate'.leased = evaluate.leased
      /\ evaluate'.ran = (runs /\ ~fails) /\ evaluate'.failed = fails
  <2>1. PICK ran \in BOOLEAN : /\ ran = (runs /\ ~fails)
                               /\ evaluate' = [evaluate EXCEPT !.at = "note", !.proof = NoProof, !.last = 0,
                                                               !.ran = ran, !.failed = fails]
    BY DEF EvaluateCalls
  <2>2. NoProof \in Proof
    BY DEF NoProof, Proof
  <2>3. QED
    BY <2>1, <2>2 DEF MTypes, Calls, Call
<1>3. QED
  BY <1>1, <1>2 DEF EvaluateCalls, Quiet3, user

LEMMA EvaluateGoneEffect ==
  ASSUME MTypes, EvaluateGone
  PROVE  /\ evaluate.at = "call" /\ ~feature
         /\ evaluate' \in Call /\ evaluate'.at = "leave" /\ evaluate'.proof = NoProof /\ evaluate'.last = 0
         /\ evaluate'.took = evaluate.took /\ evaluate'.tagged = evaluate.tagged /\ evaluate'.leased = evaluate.leased
         /\ UNCHANGED <<separate, checkbox, machine, flow, watch, begun, seen, release, list, lists, f1, entry, f2, removed>>
         /\ UNCHANGED <<held, last, presentQ, gameQ, gate, privateQ, passes, made, model, alive, feature, dirty>>
<1>1. evaluate \in Call
  BY DEF MTypes, Calls
<1>2. QED
  BY <1>1, WithheldFields DEF EvaluateGone, Quiet3, user, core3

\* The evaluate's list is noted: the host queue waits for it.
Noticed == evaluate.tagged /\ feature /\ release.at = "out" /\ (watch.remembered \/ evaluate.ran)

LEMMA EvaluateNotedEffect ==
  ASSUME MTypes, NEW published \in BOOLEAN, EvaluateNoted(published)
  PROVE  /\ evaluate.at = "note" /\ ~begun /\ (published => Noticed /\ evaluate.ran)
         /\ watch' \in Watch /\ watch'.remembered = (watch.remembered \/ Noticed) /\ watch'.order = watch.order
         /\ watch'.snapshot = IF published THEN model
                              ELSE IF evaluate.failed \/ model # watch.snapshot \/ (Noticed /\ evaluate.ran) THEN 0
                              ELSE watch.snapshot
         /\ seen' = (IF Noticed THEN [list |-> TRUE, observed |-> FALSE, fresh |-> FALSE] ELSE seen)
         /\ seen' \in SeenList /\ list' \in GameList /\ list'.at = list.at /\ list'.model = list.model
         /\ machine' \in Machine3 /\ machine'.active = machine.active /\ machine'.enabled = machine.enabled
         /\ machine'.owed = (machine.owed \/ (evaluate.took /\ ~evaluate.ran))
         /\ evaluate' = NoEvaluate /\ NoEvaluate \in Call
         /\ UNCHANGED <<separate, checkbox, flow, begun, release, lists, f1, entry, f2, removed>>
         /\ UNCHANGED <<held, last, presentQ, gameQ, gate, privateQ, passes, made, model, alive, feature, dirty>>
<1>1. NoEvaluate \in Call
  BY DEF NoEvaluate, NoProof, Call, Proof

<1>2. /\ watch' \in Watch /\ watch'.remembered = (watch.remembered \/ Noticed) /\ watch'.order = watch.order
      /\ watch'.snapshot = IF published THEN model
                           ELSE IF evaluate.failed \/ model # watch.snapshot \/ (Noticed /\ evaluate.ran) THEN 0
                           ELSE watch.snapshot
  <2> DEFINE snapshot == IF published THEN model
                         ELSE IF evaluate.failed \/ model # watch.snapshot \/ (Noticed /\ evaluate.ran) THEN 0
                         ELSE watch.snapshot
  <2>1. watch' = [watch EXCEPT !.remembered = @ \/ Noticed, !.snapshot = snapshot]
    BY DEF EvaluateNoted, Noticed
  <2>2. snapshot \in Nat
    BY DEF MTypes, Menu, Counts, Watch
  <2> HIDE DEF snapshot
  <2>3. PICK remembered \in BOOLEAN : /\ remembered = (watch.remembered \/ Noticed)
                                      /\ watch' = [watch EXCEPT !.remembered = remembered, !.snapshot = snapshot]
    BY <2>1 DEF MTypes, Menu, Watch
  <2>4. watch' \in Watch /\ watch'.remembered = (watch.remembered \/ Noticed) /\ watch'.order = watch.order
        /\ watch'.snapshot = snapshot
    BY <2>2, <2>3 DEF MTypes, Menu, Watch
  <2>5. QED
    BY <2>4 DEF snapshot
<1>3. /\ seen' = (IF Noticed THEN [list |-> TRUE, observed |-> FALSE, fresh |-> FALSE] ELSE seen)
      /\ seen' \in SeenList
  BY DEF EvaluateNoted, Noticed, MTypes, Menu, SeenList
<1>4. list' \in GameList /\ list'.at = list.at /\ list'.model = list.model
  <2>1. list' = [list EXCEPT !.tagged = Noticed]
    BY DEF EvaluateNoted, Noticed
  <2>2. Noticed \in BOOLEAN
    BY DEF Noticed
  <2>3. QED
    BY <2>1, <2>2 DEF MTypes, Calls, GameList
<1>5. /\ machine' \in Machine3 /\ machine'.active = machine.active /\ machine'.enabled = machine.enabled
      /\ machine'.owed = (machine.owed \/ (evaluate.took /\ ~evaluate.ran))
  <2>1. machine' = Restored(evaluate.took /\ ~evaluate.ran) /\ machine \in Machine3
    BY DEF EvaluateNoted, MTypes, Menu
  <2>2. (evaluate.took /\ ~evaluate.ran) \in BOOLEAN
    OBVIOUS
  <2>3. QED
    BY <2>1, <2>2, RestoredFields
<1>6. QED
  BY <1>1, <1>2, <1>3, <1>4, <1>5 DEF EvaluateNoted, Noticed, Quiet3, user, core3

LEMMA EvaluateLeavesEffect ==
  ASSUME MTypes, EvaluateLeaves
  PROVE  /\ evaluate.at = "leave" /\ ~begun
         /\ machine' \in Machine3 /\ machine'.active = machine.active /\ machine'.enabled = machine.enabled
         /\ machine'.owed = (machine.owed \/ evaluate.took)
         /\ evaluate' = NoEvaluate /\ NoEvaluate \in Call
         /\ UNCHANGED <<separate, checkbox, flow, watch, begun, seen, release, list, lists, f1, entry, f2, removed>>
         /\ UNCHANGED <<held, last, presentQ, gameQ, gate, privateQ, passes, made, model, alive, feature, dirty>>
<1>1. NoEvaluate \in Call
  BY DEF NoEvaluate, NoProof, Call, Proof

<1>2. machine' = Restored(evaluate.took) /\ machine \in Machine3 /\ evaluate.took \in BOOLEAN
  BY DEF EvaluateLeaves, MTypes, Menu, Calls, Call
<1>3. QED
  BY <1>1, <1>2, RestoredFields DEF EvaluateLeaves, Quiet3, user, core3

-----------------------------------------------------------------------------
(* The release, the lists and the queues.                                  *)

LEMMA ReleaseBeginsEffect ==
  ASSUME MTypes, NEW refused \in BOOLEAN, ReleaseBegins(refused)
  PROVE  /\ release.at = "out" /\ feature /\ ~begun
         /\ release' \in ReleaseCall
         /\ watch.remembered => /\ release'.at = "prove" /\ release'.proof = ProofFor(TRUE)
                                /\ held' = NotHeld /\ last' = 0 /\ ~machine'.active /\ ~watch'.remembered
                                /\ watch'.snapshot = 0
         /\ ~watch.remembered => /\ release'.at = "core" /\ held' = held /\ last' = last /\ machine' = machine
                                 /\ watch' = watch
         /\ held' \in HeldPass /\ machine' \in Machine3 /\ machine'.enabled = machine.enabled
         /\ machine'.owed = machine.owed /\ watch' \in Watch /\ flow' \in BOOLEAN /\ (flow' => flow)
         /\ seen' \in SeenList /\ list' \in GameList /\ list'.at = list.at /\ list'.model = list.model
         /\ UNCHANGED <<separate, checkbox, begun, evaluate, lists, f1, entry, f2, removed>>
         /\ UNCHANGED <<presentQ, gameQ, gate, privateQ, passes, made, model, alive, feature, dirty>>
<1>1. /\ NotHeld \in HeldPass /\ NoProof \in Proof /\ NeverSeen \in SeenList
      /\ held \in HeldPass /\ last \in Nat /\ machine \in Machine3 /\ watch \in Watch /\ list \in GameList
      /\ seen \in SeenList /\ flow \in BOOLEAN
  BY DEF NotHeld, HeldPass, NoProof, Proof, NeverSeen, SeenList, MTypes, Menu, Calls, Flags, Counts
<1>2. CASE watch.remembered
  <2>1. release' \in ReleaseCall /\ release'.at = "prove" /\ release'.proof = ProofFor(TRUE)
    <3>1. ProofFor(TRUE) \in Proof
      BY <1>1, ProofForFields
    <3>2. release' = [at |-> "prove", proof |-> ProofFor(TRUE)]
      BY <1>2 DEF ReleaseBegins
    <3>3. QED
      BY <3>1, <3>2 DEF ReleaseCall
  <2>2. machine' = [machine EXCEPT !.active = FALSE, !.evaluated = FALSE, !.since = FALSE, !.quiet = 0]
    BY <1>2 DEF ReleaseBegins
  <2>3. machine' \in Machine3 /\ ~machine'.active /\ machine'.enabled = machine.enabled /\ machine'.owed = machine.owed
    BY <1>1, <2>2 DEF Machine3
  <2>4. watch' = [watch EXCEPT !.remembered = FALSE, !.snapshot = 0, !.waiting = FALSE, !.order = FALSE]
    BY <1>2 DEF ReleaseBegins
  <2>5. watch' \in Watch /\ ~watch'.remembered /\ watch'.snapshot = 0
    BY <1>1, <2>4 DEF Watch
  <2>6. list' \in GameList /\ list'.at = list.at /\ list'.model = list.model
    BY <1>1, <1>2 DEF ReleaseBegins, GameList
  <2>7. flow' \in BOOLEAN /\ (flow' => flow)
    BY <1>1, <1>2 DEF ReleaseBegins, EndRun
  <2>8. QED
    BY <1>1, <1>2, <2>1, <2>3, <2>5, <2>6, <2>7 DEF ReleaseBegins, Rest3, user, queues3, core3
<1>3. CASE ~watch.remembered
  <2>1. release' \in ReleaseCall /\ release'.at = "core"
    BY <1>1, <1>3 DEF ReleaseBegins, ReleaseCall
  <2>2. QED
    BY <1>1, <1>3, <2>1 DEF ReleaseBegins, Rest3, user, queues3, core3
<1>4. QED
  BY <1>2, <1>3

LEMMA ReleaseProvesEffect ==
  ASSUME MTypes, NEW keeps \in BOOLEAN, ReleaseProves(keeps)
  PROVE  /\ release.at = "prove" /\ ~begun /\ ReleaseProven(keeps)
         /\ release' \in ReleaseCall /\ release'.at = IF keeps THEN "keep" ELSE "core"
         /\ machine' \in Machine3 /\ (machine'.active => machine.active)
         /\ machine'.enabled = machine.enabled /\ machine'.owed = machine.owed
         /\ flow' \in BOOLEAN /\ (flow' => flow)
         /\ UNCHANGED <<separate, checkbox, watch, begun, seen, evaluate, list, lists, f1, entry, f2, removed>>
         /\ UNCHANGED <<held, last, presentQ, gameQ, gate, privateQ, passes, made, model, alive, feature, dirty>>
<1>1. /\ machine' \in Machine3 /\ (machine'.active => machine.active)
      /\ machine'.enabled = machine.enabled /\ machine'.owed = machine.owed
      /\ flow' \in BOOLEAN /\ (flow' => flow)
  <2>1. CASE machine' = machine /\ flow' = flow
    BY <2>1 DEF MTypes, Menu, Flags
  <2>2. CASE \E refused \in Fails("flow") : EndSession(refused)
    <3>1. PICK refused \in BOOLEAN : EndSession(refused)
      BY <2>2 DEF Fails
    <3>2. QED
      BY <3>1, SessionEffect
  <2>3. QED
    BY <2>1, <2>2 DEF ReleaseProves
<1>2. release' \in ReleaseCall /\ release'.at = IF keeps THEN "keep" ELSE "core"
  BY DEF ReleaseProves, ReleaseCall, NoProof, Proof
<1>3. QED
  BY <1>1, <1>2 DEF ReleaseProves, Rest3, user, queues3, core3

LEMMA ReleaseEndsEffect ==
  ASSUME MTypes, ReleaseEnds
  PROVE  /\ release.at \in {"core", "keep"} /\ release' \in ReleaseCall /\ release'.at = "out"
         /\ feature' = FALSE /\ model' = 0 /\ alive' = IF release.at = "core" THEN alive \ {model} ELSE alive
         /\ UNCHANGED <<separate, checkbox, machine, flow, watch, begun, seen, evaluate, list, lists, f1, entry, f2, removed>>
         /\ UNCHANGED <<held, last, presentQ, gameQ, gate, privateQ, passes, made, dirty>>
  BY DEF ReleaseEnds, ReleaseCall, NoProof, Proof, Rest3, user, queues3

LEMMA CreateFeatureEffect ==
  ASSUME MTypes, CreateFeature
  PROVE  /\ ~feature /\ release.at = "out" /\ evaluate.at = "out"
         /\ feature' = TRUE /\ made' = made + 1 /\ model' = made + 1 /\ alive' = alive \cup {made + 1}
         /\ UNCHANGED <<separate, checkbox, machine, flow, watch, begun, seen, evaluate, release, list, lists>>
         /\ UNCHANGED <<held, last, presentQ, gameQ, gate, privateQ, passes, dirty, f1, entry, f2, removed>>
  BY DEF CreateFeature, Rest3, user, queues3

LEMMA ListExecutingEffect ==
  ASSUME MTypes, ListExecuting
  PROVE  /\ list.at = "recorded" /\ evaluate.at = "out"
         /\ list' \in GameList /\ list'.at = "executing" /\ list'.model = list.model
         /\ seen' \in SeenList /\ seen'.list = seen.list
         /\ seen' = seen \/ (seen'.observed /\ seen'.fresh)
         /\ UNCHANGED <<separate, checkbox, machine, flow, watch, begun, evaluate, release, lists, f1, entry, f2, removed>>
         /\ UNCHANGED <<held, last, presentQ, gameQ, gate, privateQ, passes, made, model, alive, feature, dirty>>
<1>1. list \in GameList /\ seen \in SeenList
  BY DEF MTypes, Menu, Calls
<1>2. list' \in GameList /\ list'.at = "executing" /\ list'.model = list.model
  BY <1>1 DEF ListExecuting, GameList
<1>3. seen' \in SeenList /\ seen'.list = seen.list /\ (seen' = seen \/ (seen'.observed /\ seen'.fresh))
  BY <1>1 DEF ListExecuting, SeenList
<1>4. QED
  BY <1>2, <1>3 DEF ListExecuting, user, pipeline, queues3, core3

\* The entry of the game's list on its queue.
Submitted == [op |-> "list", value |-> list.model]

LEMMA NativeSubmitEffect ==
  ASSUME MTypes, NativeSubmit
  PROVE  /\ list.at = "executing" /\ list' = NoList /\ NoList \in GameList /\ Submitted \in Entry
         /\ IF separate THEN gameQ' = Append(gameQ, Submitted) /\ presentQ' = presentQ
                        ELSE presentQ' = Append(presentQ, Submitted) /\ gameQ' = gameQ
         /\ presentQ' \in Seq(Entry) /\ gameQ' \in Seq(Entry)
         /\ UNCHANGED <<separate, checkbox, machine, flow, watch, begun, seen, evaluate, release, lists, f1, entry, f2, removed>>
         /\ UNCHANGED <<held, last, gate, privateQ, passes, made, model, alive, feature, dirty>>
<1>1. NoList \in GameList /\ Submitted \in Entry
  BY DEF NoList, GameList, Submitted, Entry, MTypes, Calls
<1>2. presentQ' \in {presentQ, Append(presentQ, Submitted)} /\ gameQ' \in {gameQ, Append(gameQ, Submitted)}
  BY DEF NativeSubmit, Submitted
<1>3. presentQ \in Seq(Entry) /\ gameQ \in Seq(Entry)
  BY DEF MTypes, Queues3
<1>4. presentQ' \in Seq(Entry) /\ gameQ' \in Seq(Entry)
  <2>1. \A q \in Seq(Entry) : Append(q, Submitted) \in Seq(Entry)
    BY ONLY <1>1, Appended
  <2>2. QED
    BY ONLY <1>2, <1>3, <2>1
<1>5. QED
  BY <1>1, <1>4 DEF NativeSubmit, Submitted, user, pipeline, core3

\* What a step of the GPU leaves alone.
Still == UNCHANGED <<separate, checkbox, machine, flow, watch, begun, seen, evaluate, release, list, lists, removed, held,
                     last, gate, passes, made, model, alive, feature, dirty>>

LEMMA PresentQueueEffect ==
  ASSUME MTypes, PresentQueueRuns
  PROVE  /\ presentQ # <<>> /\ presentQ' = Tail(presentQ)
         /\ f1' = IF presentQ[1].op = "capture" THEN presentQ[1].value ELSE f1
         /\ UNCHANGED <<gameQ, privateQ, entry, f2>> /\ Still
         /\ presentQ' \in Seq(Entry) /\ f1' \in Nat /\ Len(presentQ') = Len(presentQ) - 1 /\ 1 \in 1 .. Len(presentQ)
         /\ \A i \in 1 .. Len(presentQ') : presentQ'[i] = presentQ[i + 1] /\ i + 1 \in 1 .. Len(presentQ)
<1>1. presentQ \in Seq(Entry) /\ presentQ # <<>> /\ presentQ' = Tail(presentQ) /\ f1 \in Nat
  BY DEF PresentQueueRuns, MTypes, Counts, Queues3
<1>2. /\ presentQ' \in Seq(Entry) /\ Len(presentQ') = Len(presentQ) - 1 /\ 1 \in 1 .. Len(presentQ)
      /\ Head(presentQ) = presentQ[1] /\ presentQ[1] \in Entry
      /\ \A i \in 1 .. Len(presentQ') : presentQ'[i] = presentQ[i + 1] /\ i + 1 \in 1 .. Len(presentQ)
  BY ONLY <1>1, Removed
<1>3. f1' \in Nat
  BY <1>1, <1>2 DEF PresentQueueRuns, Entry
<1>4. QED
  BY <1>1, <1>2, <1>3 DEF PresentQueueRuns, GpuOnly, Still, user, pipeline, core3

LEMMA GameQueueEffect ==
  ASSUME MTypes, GameQueueRuns
  PROVE  /\ gameQ # <<>> /\ gameQ' = Tail(gameQ)
         /\ entry' = IF gameQ[1].op = "entry" THEN gameQ[1].value ELSE entry
         /\ UNCHANGED <<presentQ, privateQ, f1, f2>> /\ Still
         /\ gameQ' \in Seq(Entry) /\ entry' \in Nat /\ Len(gameQ') = Len(gameQ) - 1 /\ 1 \in 1 .. Len(gameQ)
         /\ \A i \in 1 .. Len(gameQ') : gameQ'[i] = gameQ[i + 1] /\ i + 1 \in 1 .. Len(gameQ)
<1>1. gameQ \in Seq(Entry) /\ gameQ # <<>> /\ gameQ' = Tail(gameQ) /\ entry \in Nat
  BY DEF GameQueueRuns, MTypes, Counts, Queues3
<1>2. /\ gameQ' \in Seq(Entry) /\ Len(gameQ') = Len(gameQ) - 1 /\ 1 \in 1 .. Len(gameQ)
      /\ Head(gameQ) = gameQ[1] /\ gameQ[1] \in Entry
      /\ \A i \in 1 .. Len(gameQ') : gameQ'[i] = gameQ[i + 1] /\ i + 1 \in 1 .. Len(gameQ)
  BY ONLY <1>1, Removed
<1>3. entry' \in Nat
  BY <1>1, <1>2 DEF GameQueueRuns, Entry
<1>4. QED
  BY <1>1, <1>2, <1>3 DEF GameQueueRuns, GpuOnly, Still, user, pipeline, core3

LEMMA PassRunsEffect ==
  ASSUME MTypes, PassRuns
  PROVE  /\ privateQ # <<>> /\ privateQ' = Tail(privateQ) /\ f2' = privateQ[1].pass
         /\ privateQ[1].pass <= f1 /\ privateQ[1].entry <= entry
         /\ UNCHANGED <<presentQ, gameQ, f1, entry>> /\ Still
         /\ privateQ' \in Seq(Pass) /\ f2' \in Nat /\ Len(privateQ') = Len(privateQ) - 1 /\ 1 \in 1 .. Len(privateQ)
         /\ \A i \in 1 .. Len(privateQ') : privateQ'[i] = privateQ[i + 1] /\ i + 1 \in 1 .. Len(privateQ)
<1>1. privateQ \in Seq(Pass) /\ privateQ # <<>> /\ privateQ' = Tail(privateQ) /\ f2 \in Nat
  BY DEF PassRuns, PassReady, MTypes, Counts, Queues3
<1>2. /\ privateQ' \in Seq(Pass) /\ Len(privateQ') = Len(privateQ) - 1 /\ 1 \in 1 .. Len(privateQ)
      /\ Head(privateQ) = privateQ[1] /\ privateQ[1] \in Pass
      /\ \A i \in 1 .. Len(privateQ') : privateQ'[i] = privateQ[i + 1] /\ i + 1 \in 1 .. Len(privateQ)
  BY ONLY <1>1, Removed
<1>3. f2' \in Nat
  BY <1>1, <1>2 DEF PassRuns, Pass
<1>4. QED
  BY <1>1, <1>2, <1>3 DEF PassRuns, PassReady, GpuOnly, Still, user, pipeline, core3

LEMMA ToggleEffect ==
  ASSUME MTypes, Toggle
  PROVE  /\ checkbox' = ~checkbox /\ checkbox = machine.enabled /\ removed' = removed
         /\ UNCHANGED <<presentQ, gameQ, privateQ, f1, entry, f2, separate, machine, flow, watch, begun, seen>>
         /\ UNCHANGED <<evaluate, release, list, lists, held, last, gate, passes, made, model, alive, feature, dirty>>
  BY DEF Toggle, pipeline, queues3, core3

LEMMA DeviceEffect ==
  ASSUME MTypes, DeviceRemoved3
  PROVE  /\ removed' = TRUE /\ checkbox' = checkbox
         /\ UNCHANGED <<presentQ, gameQ, privateQ, f1, entry, f2, separate, machine, flow, watch, begun, seen>>
         /\ UNCHANGED <<evaluate, release, list, lists, held, last, gate, passes, made, model, alive, feature, dirty>>
  BY DEF DeviceRemoved3, pipeline, queues3, core3
-----------------------------------------------------------------------------
(* The steps, without what the faults let through.                         *)

Presents == \E blocker, time, refused \in BOOLEAN : PresentBegins(blocker, time, refused)
RunEnds == \E refused \in BOOLEAN : EntryWaits(refused) \/ PassStops(refused)
Creates == \E cadence \in BOOLEAN : PassCreates(cadence)
Submits == \E core, cadence \in BOOLEAN, fault \in {"none", "f2", "recovery", "show"}, refused \in BOOLEAN :
             PassSubmitted(core, cadence, fault, refused)
Drains == \E refused \in BOOLEAN : DrainEnds \/ DrainBegins(refused)
Begins == \E refused \in BOOLEAN : EvaluateBegins(refused)
CoreCalls == \E renews, runs, fails \in BOOLEAN : EvaluateCalls(renews, runs, fails)
Notes == \E published \in BOOLEAN : EvaluateNoted(published)
Releases == \E refused \in BOOLEAN : ReleaseBegins(refused)
Proven == \E keeps \in BOOLEAN : ReleaseProves(keeps)
\* A submitted pass, whatever the core, the cadence and the fault.
LEMMA SubmitsEffect ==
  ASSUME MTypes, Submits
  PROVE  /\ begun /\ begun' = FALSE /\ Enters /\ model # 0
         /\ Pending => "reenter" \in Surprises
         /\ passes' = passes + 1
         /\ privateQ' = Append(privateQ, [pass |-> passes + 1, model |-> model, entry |-> gate'])
         /\ [pass |-> passes + 1, model |-> model, entry |-> gate'] \in Pass /\ privateQ' \in Seq(Pass)
         /\ presentQ' \in {Captures, Shows} /\ Captures \in Seq(Entry) /\ Shows \in Seq(Entry)
         /\ dirty' = dirty \cup {model}
         /\ machine' \in Machine3 /\ machine'.owed /\ machine'.enabled = machine.enabled
         /\ held' \in HeldPass
         /\ \/ held' = held /\ last' = passes + 1
            \/ /\ held'.pass = passes + 1 /\ ~held'.unfenced /\ last' = last
               /\ last = 0 \/ Complete(last) \/ "overlap" \in Surprises
            \/ /\ held'.pass = 0 /\ held'.unfenced /\ last' = last
               /\ last = 0 \/ Complete(last) \/ "overlap" \in Surprises
         /\ flow' \in BOOLEAN
         /\ watch' \in Watch /\ ~watch'.order /\ watch'.remembered = watch.remembered /\ watch'.snapshot = watch.snapshot
         /\ UNCHANGED <<separate, checkbox, seen, evaluate, release, list, lists, f1, entry, f2, removed>>
         /\ UNCHANGED <<made, model, alive, feature>>
<1> PICK core \in BOOLEAN, cadence \in BOOLEAN, fault \in {"none", "f2", "recovery", "show"}, refused \in BOOLEAN :
      PassSubmitted(core, cadence, fault, refused)
  BY DEF Submits
<1> USE DEF MTypes, Menu, Calls, Flags, Counts
<1>1. begun /\ begun' = FALSE /\ Enters /\ model # 0
  BY DEF PassSubmitted, PassEnds
<1>2. /\ Pending => "reenter" \in Surprises
      /\ fault \in {"f2", "recovery"} => last = 0 \/ Complete(last) \/ "overlap" \in Surprises
      /\ passes' = passes + 1
      /\ privateQ' = Append(privateQ, [pass |-> passes + 1, model |-> model, entry |-> gate'])
      /\ dirty' = dirty \cup {model}
  BY DEF PassSubmitted
<1>3. presentQ' \in {Captures, Shows} /\ Captures \in Seq(Entry) /\ Shows \in Seq(Entry)
  <2> DEFINE capture == [op |-> "capture", value |-> passes + 1]
             show == [op |-> "show", value |-> passes + 1]
  <2>1. passes + 1 \in Nat /\ presentQ \in Seq(Entry)
    BY DEF MTypes, Counts, Queues3
  <2>2. capture \in Entry /\ show \in Entry
    BY <2>1 DEF Entry
  <2>3. presentQ' = presentQ \o <<capture>> \o (IF fault # "none" THEN <<>> ELSE <<show>>)
    BY DEF PassSubmitted
  <2>4. Captures = Append(presentQ, capture) /\ Shows = Append(Captures, show)
    BY DEF Captures, Shows
  <2> HIDE DEF capture, show
  <2>5. presentQ \o <<capture>> = Captures
    BY ONLY <2>1, <2>2, <2>4, Appended
  <2>6. Captures \in Seq(Entry)
    BY ONLY <2>1, <2>2, <2>4, Appended
  <2>7. Captures \o <<>> = Captures /\ Captures \o <<show>> = Shows /\ Shows \in Seq(Entry)
    BY ONLY <2>2, <2>4, <2>6, Appended
  <2>8. QED
    BY <2>3, <2>5, <2>6, <2>7
<1>4. machine' \in Machine3 /\ machine'.owed /\ machine'.enabled = machine.enabled
  BY DEF PassSubmitted, Machine3
<1>5. /\ held' \in HeldPass
      /\ \/ held' = held /\ last' = passes + 1
         \/ held'.pass = passes + 1 /\ ~held'.unfenced /\ last' = last /\ fault = "f2"
         \/ held'.pass = 0 /\ held'.unfenced /\ last' = last /\ fault = "recovery"
  <2> USE DEF HeldPass
  <2>1. CASE fault = "f2"
    BY <2>1 DEF PassSubmitted
  <2>2. CASE fault = "recovery"
    BY <2>2 DEF PassSubmitted
  <2>3. CASE fault \notin {"f2", "recovery"}
    BY <2>3 DEF PassSubmitted
  <2>4. QED
    BY <2>1, <2>2, <2>3
<1>6. watch' \in Watch /\ ~watch'.order /\ watch'.remembered = watch.remembered /\ watch'.snapshot = watch.snapshot
  BY DEF PassSubmitted, Watch
<1>7. flow' \in BOOLEAN
  BY DEF PassSubmitted
<1>8. /\ UNCHANGED <<separate, checkbox, seen, evaluate, release, list, lists, f1, entry, f2, removed>>
      /\ UNCHANGED <<made, model, alive, feature>>
  BY DEF PassSubmitted, PassEnds
<1>9. [pass |-> passes + 1, model |-> model, entry |-> gate'] \in Pass /\ privateQ' \in Seq(Pass)
  <2>1. gate' \in Nat /\ passes + 1 \in Nat /\ model \in Nat /\ privateQ \in Seq(Pass)
    BY <1>1, EntersEffect DEF MTypes, Counts, Queues3
  <2>2. [pass |-> passes + 1, model |-> model, entry |-> gate'] \in Pass
    BY ONLY <2>1 DEF Pass
  <2>3. QED
    BY ONLY <1>2, <2>1, <2>2, Appended
<1>10. QED
  BY <1>9, <1>1, <1>2, <1>3, <1>4, <1>5, <1>6, <1>7, <1>8

Step ==
  \/ Toggle \/ DeviceRemoved3 \/ Presents \/ LeaseSkips \/ PassRefused \/ RunEnds
  \/ Creates \/ Submits \/ Drains \/ Begins \/ EvaluateSteps \/ CoreCalls
  \/ EvaluateGone \/ Notes \/ EvaluateLeaves \/ Releases \/ Proven \/ ReleaseEnds
  \/ CreateFeature \/ ListExecuting \/ NativeSubmit \/ PresentQueueRuns \/ GameQueueRuns \/ PassRuns

LEMMA Steps ==
  ASSUME MNext
  PROVE  Step
  BY DEF MNext, Passing, Evaluating, Running, Fails, Step, EvaluateSteps,
         Presents, RunEnds, Creates, Submits, Drains, Begins, CoreCalls, Notes, Releases, Proven

-----------------------------------------------------------------------------
(* The numbers of passes, lists and models; which thread is where.         *)

\* Where an evaluate is before the core's call.
Early == {"held", "order", "prove", "call"}

\* The private queue holds the passes after f2, in order; no number is one of the future's.
Numbered ==
  /\ \A i \in 1 .. Len(privateQ) : privateQ[i].pass = f2 + i /\ privateQ[i].model \in 1 .. made
  /\ f2 + Len(privateQ) = passes
  /\ f1 <= passes /\ entry <= lists
  /\ model <= made /\ list.model <= made /\ (feature \/ model = 0)
  /\ dirty \subseteq 1 .. made

\* Nor is one on the other queues, and only a separate queue of the game's has its lists.
Queued ==
  /\ \A i \in 1 .. Len(presentQ) : /\ presentQ[i].op = "capture" => presentQ[i].value <= passes
                                   /\ presentQ[i].op = "list" => presentQ[i].value <= made
  /\ \A i \in 1 .. Len(gameQ) : /\ gameQ[i].op = "list" => gameQ[i].value <= made /\ separate
                                /\ gameQ[i].op = "entry" => gameQ[i].value <= lists

\* A watched feature is the core's; a run, a lease and a list are where the locks let them be.
Watched ==
  /\ watch.remembered => feature /\ release.at = "out" /\ seen.list
  /\ ~watch.remembered => ~machine.active
  /\ begun /\ ~evaluate.leased => machine.active /\ watch.remembered /\ watch.snapshot # 0 /\ evaluate.at = "out"
  /\ evaluate.at # "out" /\ ~evaluate.leased =>
       ~watch.remembered /\ ~begun /\ evaluate.at \in {"call", "note", "leave"}
  /\ evaluate.at = "out" => ~evaluate.leased /\ ~evaluate.tagged
  /\ evaluate.leased /\ feature /\ release.at = "out" => watch.remembered
  /\ evaluate.took => evaluate.leased
  /\ evaluate.leased /\ machine.active => watch.order
  /\ evaluate.at \in Early \cup {"leave"} => list.at = "none"
  /\ evaluate.at = "note" => list.at = "recorded"

\* The constructor of an evaluate has asked for the game's vectors.
NoFlow == evaluate.at \in Early => ~flow

\* A menu's frames in the model's history: the reset is owed, or the evaluate has taken it.
Owed ==
  model \in dirty =>
    /\ evaluate.at = "out" /\ release.at = "out" => machine.owed /\ watch.remembered
    /\ evaluate.at \in Early \cup {"leave"} => evaluate.took
    /\ evaluate.at = "note" => evaluate.took /\ ~evaluate.ran

LEMMA MTypesKept ==
  ASSUME MTypes, Step
  PROVE  MTypes'
<1>1. CASE Toggle
  BY <1>1, ToggleEffect DEF MTypes, Menu, Calls, Flags, Counts, Queues3
<1>2. CASE DeviceRemoved3
  BY <1>2, DeviceEffect DEF MTypes, Menu, Calls, Flags, Counts, Queues3
<1>3. CASE Presents
  <2>1. Menu'
    BY <1>3, PresentEffect DEF Presents, MTypes, Menu
  <2>2. Calls'
    BY <1>3, PresentEffect DEF Presents, MTypes, Calls
  <2>3. Flags'
    BY <1>3, PresentEffect DEF Presents, MTypes, Flags
  <2>4. Counts'
    BY <1>3, PresentEffect DEF Presents, MTypes, Counts
  <2>5. Queues3'
    BY <1>3, PresentEffect DEF Presents, MTypes, Queues3
  <2>6. QED
    BY <2>1, <2>2, <2>3, <2>4, <2>5 DEF MTypes
<1>4. CASE LeaseSkips
  BY <1>4, LeaseSkipsEffect DEF MTypes, Menu, Calls, Flags, Counts, Queues3
<1>5. CASE PassRefused
  BY <1>5, PassRefusedEffect, EntersEffect DEF MTypes, Menu, Calls, Flags, Counts, Queues3
<1>6. CASE RunEnds
  BY <1>6, PassEndsRunEffect DEF RunEnds, MTypes, Menu, Calls, Flags, Counts, Queues3
<1>7. CASE Creates
  <2>1. Menu'
    BY <1>7, PassCreatesEffect, EntersEffect DEF Creates, MTypes, Menu
  <2>2. Calls'
    BY <1>7, PassCreatesEffect, EntersEffect DEF Creates, MTypes, Calls
  <2>3. Flags'
    BY <1>7, PassCreatesEffect, EntersEffect DEF Creates, MTypes, Flags
  <2>4. Counts'
    <3>1. UNCHANGED <<last, f1, entry, f2, passes, lists, made>> /\ model' = 0 /\ gate' \in Nat
      BY <1>7, PassCreatesEffect, EntersEffect DEF Creates
    <3>2. QED
      BY <3>1 DEF MTypes, Counts
  <2>5. Queues3'
    BY <1>7, PassCreatesEffect, EntersEffect DEF Creates, MTypes, Queues3
  <2>6. QED
    BY <2>1, <2>2, <2>3, <2>4, <2>5 DEF MTypes
<1>8. CASE Submits
  <2>1. Menu'
    BY <1>8, SubmitsEffect, EntersEffect DEF MTypes, Menu
  <2>2. Calls'
    BY <1>8, SubmitsEffect, EntersEffect DEF MTypes, Calls
  <2>3. Flags'
    <3>1. UNCHANGED <<checkbox, feature, separate, removed>> /\ begun' \in BOOLEAN /\ flow' \in BOOLEAN
      BY <1>8, SubmitsEffect, EntersEffect
    <3>2. QED
      BY <3>1 DEF MTypes, Flags
  <2>4. Counts'
    <3>1. /\ UNCHANGED <<f1, entry, f2, lists, made, model>> /\ gate' \in Nat
          /\ passes' = passes + 1 /\ last' \in {last, passes + 1}
      BY <1>8, SubmitsEffect, EntersEffect
    <3>2. QED
      BY <3>1 DEF MTypes, Counts
  <2>5. Queues3'
    BY <1>8, SubmitsEffect, EntersEffect DEF MTypes, Queues3
  <2>6. QED
    BY <2>1, <2>2, <2>3, <2>4, <2>5 DEF MTypes
<1>9. CASE Drains
  BY <1>9, DrainEffect DEF Drains, MTypes, Menu, Calls, Flags, Counts, Queues3
<1>10. CASE Begins
  BY <1>10, EvaluateBeginsEffect DEF Begins, MTypes, Menu, Calls, Flags, Counts, Queues3
<1>11. CASE EvaluateSteps
  BY <1>11, EvaluateStepsEffect DEF MTypes, Menu, Calls, Flags, Counts, Queues3
<1>12. CASE CoreCalls
  <2>1. Menu'
    BY <1>12, EvaluateCallsEffect DEF CoreCalls, MTypes, Menu
  <2>2. Calls'
    BY <1>12, EvaluateCallsEffect DEF CoreCalls, MTypes, Calls
  <2>3. Flags'
    BY <1>12, EvaluateCallsEffect DEF CoreCalls, MTypes, Flags
  <2>4. Counts'
    BY <1>12, EvaluateCallsEffect DEF CoreCalls, MTypes, Counts
  <2>5. Queues3'
    BY <1>12, EvaluateCallsEffect DEF CoreCalls, MTypes, Queues3
  <2>6. QED
    BY <2>1, <2>2, <2>3, <2>4, <2>5 DEF MTypes
<1>13. CASE EvaluateGone
  BY <1>13, EvaluateGoneEffect DEF MTypes, Menu, Calls, Flags, Counts, Queues3
<1>14. CASE Notes
  BY <1>14, EvaluateNotedEffect DEF Notes, MTypes, Menu, Calls, Flags, Counts, Queues3
<1>15. CASE EvaluateLeaves
  BY <1>15, EvaluateLeavesEffect DEF MTypes, Menu, Calls, Flags, Counts, Queues3
<1>16. CASE Releases
  <2>1. Menu'
    BY <1>16, ReleaseBeginsEffect DEF Releases, MTypes, Menu
  <2>2. Calls'
    BY <1>16, ReleaseBeginsEffect DEF Releases, MTypes, Calls
  <2>3. Flags'
    BY <1>16, ReleaseBeginsEffect DEF Releases, MTypes, Flags
  <2>4. Counts'
    <3>1. UNCHANGED <<gate, f1, entry, f2, passes, lists, made, model>> /\ last' \in {last, 0}
      BY <1>16, ReleaseBeginsEffect DEF Releases
    <3>2. QED
      BY <3>1 DEF MTypes, Counts
  <2>5. Queues3'
    BY <1>16, ReleaseBeginsEffect DEF Releases, MTypes, Queues3
  <2>6. QED
    BY <2>1, <2>2, <2>3, <2>4, <2>5 DEF MTypes
<1>17. CASE Proven
  BY <1>17, ReleaseProvesEffect DEF Proven, MTypes, Menu, Calls, Flags, Counts, Queues3
<1>18. CASE ReleaseEnds
  BY <1>18, ReleaseEndsEffect DEF MTypes, Menu, Calls, Flags, Counts, Queues3
<1>19. CASE CreateFeature
  BY <1>19, CreateFeatureEffect DEF MTypes, Menu, Calls, Flags, Counts, Queues3
<1>20. CASE ListExecuting
  BY <1>20, ListExecutingEffect DEF MTypes, Menu, Calls, Flags, Counts, Queues3
<1>21. CASE NativeSubmit
  BY <1>21, NativeSubmitEffect DEF MTypes, Menu, Calls, Flags, Counts, Queues3
<1>22. CASE PresentQueueRuns
  BY <1>22, PresentQueueEffect DEF Still, MTypes, Menu, Calls, Flags, Counts, Queues3
<1>23. CASE GameQueueRuns
  BY <1>23, GameQueueEffect DEF Still, MTypes, Menu, Calls, Flags, Counts, Queues3
<1>24. CASE PassRuns
  BY <1>24, PassRunsEffect DEF Still, MTypes, Menu, Calls, Flags, Counts, Queues3
<1>25. QED
  BY <1>1, <1>2, <1>3, <1>4, <1>5, <1>6, <1>7, <1>8, <1>9, <1>10, <1>11, <1>12, <1>13, <1>14, <1>15, <1>16,
     <1>17, <1>18, <1>19, <1>20, <1>21, <1>22, <1>23, <1>24 DEF Step

LEMMA NumberedKept ==
  ASSUME MTypes, Numbered, Queued, Step
  PROVE  Numbered'
<1>1. ASSUME Toggle \/ DeviceRemoved3 \/ Presents \/ LeaseSkips \/ PassRefused \/ RunEnds
             \/ Drains \/ Begins \/ EvaluateSteps \/ EvaluateGone \/ EvaluateLeaves \/ Proven
      PROVE  UNCHANGED <<privateQ, f1, f2, entry, passes, lists, made, model, list, feature, dirty>>
  <2>1. CASE Toggle
    BY <2>1, ToggleEffect
  <2>2. CASE DeviceRemoved3
    BY <2>2, DeviceEffect
  <2>3. CASE Presents
    BY <2>3, PresentEffect DEF Presents
  <2>4. CASE LeaseSkips
    BY <2>4, LeaseSkipsEffect
  <2>5. CASE PassRefused
    BY <2>5, PassRefusedEffect, EntersEffect
  <2>6. CASE RunEnds
    BY <2>6, PassEndsRunEffect DEF RunEnds
  <2>7. CASE Drains
    BY <2>7, DrainEffect DEF Drains
  <2>8. CASE Begins
    BY <2>8, EvaluateBeginsEffect DEF Begins
  <2>9. CASE EvaluateSteps
    BY <2>9, EvaluateStepsEffect
  <2>10. CASE EvaluateGone
    BY <2>10, EvaluateGoneEffect
  <2>11. CASE EvaluateLeaves
    BY <2>11, EvaluateLeavesEffect
  <2>12. CASE Proven
    BY <2>12, ReleaseProvesEffect DEF Proven
  <2>13. QED
    BY <1>1, <2>1, <2>2, <2>3, <2>4, <2>5, <2>6, <2>7, <2>8, <2>9, <2>10, <2>11, <2>12
<1>2. CASE Toggle \/ DeviceRemoved3 \/ Presents \/ LeaseSkips \/ PassRefused \/ RunEnds
           \/ Drains \/ Begins \/ EvaluateSteps \/ EvaluateGone \/ EvaluateLeaves \/ Proven
  BY <1>1, <1>2 DEF Numbered
<1>3. CASE Creates
  <2>1. UNCHANGED <<privateQ, f1, f2, entry, passes, lists, made, list, feature, dirty>> /\ model' = 0
    BY <1>3, PassCreatesEffect, EntersEffect DEF Creates
  <2>2. QED
    BY <2>1 DEF Numbered, MTypes, Counts
<1>4. CASE Submits
  <2>1. /\ privateQ \in Seq(Pass) /\ passes' = passes + 1 /\ dirty' = dirty \cup {model} /\ model # 0
        /\ [pass |-> passes + 1, model |-> model, entry |-> gate'] \in Pass
        /\ privateQ' = Append(privateQ, [pass |-> passes + 1, model |-> model, entry |-> gate'])
        /\ UNCHANGED <<f1, f2, entry, lists, made, model, list, feature>>
    BY <1>4, SubmitsEffect DEF MTypes, Queues3
  <2>2. /\ Len(privateQ') = Len(privateQ) + 1
        /\ privateQ'[Len(privateQ) + 1] = [pass |-> passes + 1, model |-> model, entry |-> gate']
        /\ \A i \in 1 .. Len(privateQ) : privateQ'[i] = privateQ[i]
        /\ \A i \in 1 .. Len(privateQ) + 1 : i \in 1 .. Len(privateQ) \/ i = Len(privateQ) + 1
    BY ONLY <2>1, Appended
  <2>3. model \in 1 .. made
    BY <2>1 DEF Numbered, MTypes, Counts
  <2>4. \A i \in 1 .. Len(privateQ') : privateQ'[i].pass = f2 + i /\ privateQ'[i].model \in 1 .. made
    <3>1. SUFFICES ASSUME NEW i \in 1 .. Len(privateQ) + 1
                   PROVE  privateQ'[i].pass = f2 + i /\ privateQ'[i].model \in 1 .. made
      BY <2>2
    <3>2. CASE i \in 1 .. Len(privateQ)
      BY <2>2, <3>2 DEF Numbered
    <3>3. CASE i = Len(privateQ) + 1
      <4>1. privateQ'[i].pass = passes + 1 /\ privateQ'[i].model = model
        BY <2>2, <3>3
      <4>2. passes + 1 = f2 + i
        BY <2>1, <3>3 DEF Numbered, MTypes, Counts
      <4>3. QED
        BY <2>3, <4>1, <4>2
    <3>4. QED
      BY <2>2, <3>2, <3>3
  <2>5. QED
    BY <2>1, <2>2, <2>3, <2>4 DEF Numbered, MTypes, Counts
<1>5. CASE CoreCalls
  <2>1. /\ UNCHANGED <<privateQ, f1, f2, entry, passes, feature>> /\ feature /\ lists' = lists + 1
        /\ made' \in {made, made + 1} /\ model' \in {model, made'} /\ list'.model \in {0, model'} /\ dirty' \subseteq dirty
    BY <1>5, EvaluateCallsEffect DEF CoreCalls
  <2>2. 1 .. made \subseteq 1 .. made' /\ made' \in Nat /\ model' <= made' /\ list'.model <= made'
    BY <2>1 DEF Numbered, MTypes, Counts
  <2>3. QED
    BY <2>1, <2>2 DEF Numbered, MTypes, Counts
<1>6. CASE Notes
  <2>1. UNCHANGED <<privateQ, f1, f2, entry, passes, lists, made, model, feature, dirty>> /\ list'.model = list.model
    BY <1>6, EvaluateNotedEffect DEF Notes
  <2>2. QED
    BY <2>1 DEF Numbered, MTypes, Counts
<1>7. CASE Releases
  <2>1. UNCHANGED <<privateQ, f1, f2, entry, passes, lists, made, model, feature, dirty>> /\ list'.model = list.model
    BY <1>7, ReleaseBeginsEffect DEF Releases
  <2>2. QED
    BY <2>1 DEF Numbered, MTypes, Counts
<1>8. CASE ReleaseEnds
  <2>1. UNCHANGED <<privateQ, f1, f2, entry, passes, lists, made, list, dirty>> /\ model' = 0
    BY <1>8, ReleaseEndsEffect
  <2>2. QED
    BY <2>1 DEF Numbered, MTypes, Counts
<1>9. CASE CreateFeature
  <2>1. /\ UNCHANGED <<privateQ, f1, f2, entry, passes, lists, list, dirty>> /\ feature'
        /\ made' = made + 1 /\ model' = made + 1
    BY <1>9, CreateFeatureEffect
  <2>2. 1 .. made \subseteq 1 .. made' /\ made' \in Nat
    BY <2>1 DEF MTypes, Counts
  <2>3. list'.model <= made'
    BY <2>1 DEF Numbered, MTypes, Counts, Calls, GameList
  <2>4. QED
    BY <2>1, <2>2, <2>3 DEF Numbered, MTypes, Counts
<1>10. CASE ListExecuting
  <2>1. UNCHANGED <<privateQ, f1, f2, entry, passes, lists, made, model, feature, dirty>> /\ list'.model = list.model
    BY <1>10, ListExecutingEffect
  <2>2. QED
    BY <2>1 DEF Numbered, MTypes, Counts
<1>11. CASE NativeSubmit
  <2>1. UNCHANGED <<privateQ, f1, f2, entry, passes, lists, made, model, feature, dirty>> /\ list' = NoList
    BY <1>11, NativeSubmitEffect
  <2>2. QED
    BY <2>1 DEF Numbered, MTypes, Counts, NoList
<1>12. CASE PresentQueueRuns
  <2>1. /\ UNCHANGED <<privateQ, f2, entry, passes, lists, made, model, list, feature, dirty>>
        /\ f1' = f1 \/ (1 \in 1 .. Len(presentQ) /\ presentQ[1].op = "capture" /\ f1' = presentQ[1].value)
    BY <1>12, PresentQueueEffect DEF Still
  <2>2. QED
    BY <2>1 DEF Numbered, Queued
<1>13. CASE GameQueueRuns
  <2>1. /\ UNCHANGED <<privateQ, f1, f2, passes, lists, made, model, list, feature, dirty>>
        /\ entry' = entry \/ (1 \in 1 .. Len(gameQ) /\ gameQ[1].op = "entry" /\ entry' = gameQ[1].value)
    BY <1>13, GameQueueEffect DEF Still
  <2>2. QED
    BY <2>1 DEF Numbered, Queued
<1>14. CASE PassRuns
  <2>1. /\ UNCHANGED <<f1, entry, passes, lists, made, model, list, feature, dirty>>
        /\ f2' = privateQ[1].pass /\ Len(privateQ') = Len(privateQ) - 1 /\ 1 \in 1 .. Len(privateQ)
        /\ \A i \in 1 .. Len(privateQ') : privateQ'[i] = privateQ[i + 1] /\ i + 1 \in 1 .. Len(privateQ)
        /\ privateQ' \in Seq(Pass) /\ privateQ \in Seq(Pass)
    BY <1>14, PassRunsEffect DEF Still, MTypes, Queues3
  <2>2. f2' = f2 + 1
    BY <2>1 DEF Numbered
  <2>3. \A i \in 1 .. Len(privateQ') : privateQ'[i].pass = f2' + i /\ privateQ'[i].model \in 1 .. made
    <3>1. SUFFICES ASSUME NEW i \in 1 .. Len(privateQ')
                   PROVE  privateQ'[i].pass = f2' + i /\ privateQ'[i].model \in 1 .. made
      OBVIOUS
    <3>2. privateQ'[i].pass = f2 + (i + 1) /\ privateQ'[i].model \in 1 .. made
      BY <2>1 DEF Numbered
    <3>3. f2 + (i + 1) = (f2 + 1) + i /\ i \in Nat
      BY <2>1 DEF MTypes, Counts
    <3>4. QED
      BY <2>2, <3>2, <3>3
  <2>4. f2' + Len(privateQ') = passes
    BY <2>1, <2>2 DEF Numbered, MTypes, Counts
  <2>5. QED
    BY <2>1, <2>3, <2>4 DEF Numbered
<1>15. QED
  BY <1>2, <1>3, <1>4, <1>5, <1>6, <1>7, <1>8, <1>9, <1>10, <1>11, <1>12, <1>13, <1>14 DEF Step

LEMMA QueuedKept ==
  ASSUME MTypes, Numbered, Queued, Step
  PROVE  Queued'
<1>1. ASSUME Toggle \/ DeviceRemoved3 \/ Presents \/ LeaseSkips \/ RunEnds \/ Drains
             \/ Begins \/ EvaluateGone \/ Notes \/ EvaluateLeaves \/ Releases \/ Proven
             \/ ReleaseEnds \/ ListExecuting \/ PassRuns
      PROVE  UNCHANGED <<presentQ, gameQ, passes, made, lists, separate>>
  <2>1. CASE Toggle
    BY <2>1, ToggleEffect
  <2>2. CASE DeviceRemoved3
    BY <2>2, DeviceEffect
  <2>3. CASE Presents
    BY <2>3, PresentEffect DEF Presents
  <2>4. CASE LeaseSkips
    BY <2>4, LeaseSkipsEffect
  <2>5. CASE RunEnds
    BY <2>5, PassEndsRunEffect DEF RunEnds
  <2>6. CASE Drains
    BY <2>6, DrainEffect DEF Drains
  <2>7. CASE Begins
    BY <2>7, EvaluateBeginsEffect DEF Begins
  <2>8. CASE EvaluateGone
    BY <2>8, EvaluateGoneEffect
  <2>9. CASE Notes
    BY <2>9, EvaluateNotedEffect DEF Notes
  <2>10. CASE EvaluateLeaves
    BY <2>10, EvaluateLeavesEffect
  <2>11. CASE Releases
    BY <2>11, ReleaseBeginsEffect DEF Releases
  <2>12. CASE Proven
    BY <2>12, ReleaseProvesEffect DEF Proven
  <2>13. CASE ReleaseEnds
    BY <2>13, ReleaseEndsEffect
  <2>14. CASE ListExecuting
    BY <2>14, ListExecutingEffect
  <2>15. CASE PassRuns
    BY <2>15, PassRunsEffect DEF Still
  <2>16. QED
    BY <1>1, <2>1, <2>2, <2>3, <2>4, <2>5, <2>6, <2>7, <2>8, <2>9, <2>10, <2>11, <2>12, <2>13, <2>14, <2>15
<1>2. CASE Toggle \/ DeviceRemoved3 \/ Presents \/ LeaseSkips \/ RunEnds \/ Drains
           \/ Begins \/ EvaluateGone \/ Notes \/ EvaluateLeaves \/ Releases \/ Proven
           \/ ReleaseEnds \/ ListExecuting \/ PassRuns
  BY <1>1, <1>2 DEF Queued
<1>3. CASE PassRefused
  <2>1. /\ UNCHANGED <<presentQ, passes, made, lists, separate>>
        /\ gameQ' = gameQ \/ (gameQ' = Append(gameQ, EntrySignal) /\ separate)
        /\ EntrySignal \in Entry
    BY <1>3, PassRefusedEffect, EntersEffect
  <2>11. gameQ \in Seq(Entry)
    BY DEF MTypes, Queues3
  <2>2. gameQ' = gameQ \/ (/\ Len(gameQ') = Len(gameQ) + 1 /\ gameQ'[Len(gameQ) + 1] = EntrySignal
                           /\ \A i \in 1 .. Len(gameQ) : gameQ'[i] = gameQ[i]
                           /\ \A i \in 1 .. Len(gameQ) + 1 : i \in 1 .. Len(gameQ) \/ i = Len(gameQ) + 1)
    BY ONLY <2>1, <2>11, Appended
  <2>3. QED
    BY <2>1, <2>2 DEF Queued, MTypes, Counts, EntrySignal
<1>4. CASE Creates
  <2>1. /\ UNCHANGED <<presentQ, passes, made, lists, separate>>
        /\ gameQ' = gameQ \/ (gameQ' = Append(gameQ, EntrySignal) /\ separate)
        /\ EntrySignal \in Entry
    BY <1>4, PassCreatesEffect, EntersEffect DEF Creates
  <2>11. gameQ \in Seq(Entry)
    BY DEF MTypes, Queues3
  <2>2. gameQ' = gameQ \/ (/\ Len(gameQ') = Len(gameQ) + 1 /\ gameQ'[Len(gameQ) + 1] = EntrySignal
                           /\ \A i \in 1 .. Len(gameQ) : gameQ'[i] = gameQ[i]
                           /\ \A i \in 1 .. Len(gameQ) + 1 : i \in 1 .. Len(gameQ) \/ i = Len(gameQ) + 1)
    BY ONLY <2>1, <2>11, Appended
  <2>3. QED
    BY <2>1, <2>2 DEF Queued, MTypes, Counts, EntrySignal
<1>5. CASE Submits
  <2>1. /\ UNCHANGED <<made, lists, separate>>
        /\ gameQ' = gameQ \/ (gameQ' = Append(gameQ, EntrySignal) /\ separate)
        /\ EntrySignal \in Entry
    BY <1>5, SubmitsEffect, EntersEffect
  <2>11. gameQ \in Seq(Entry)
    BY DEF MTypes, Queues3
  <2>2. gameQ' = gameQ \/ (/\ Len(gameQ') = Len(gameQ) + 1 /\ gameQ'[Len(gameQ) + 1] = EntrySignal
                           /\ \A i \in 1 .. Len(gameQ) : gameQ'[i] = gameQ[i]
                           /\ \A i \in 1 .. Len(gameQ) + 1 : i \in 1 .. Len(gameQ) \/ i = Len(gameQ) + 1)
    BY ONLY <2>1, <2>11, Appended
  <2>3. /\ presentQ' \in {Captures, Shows} /\ Captures \in Seq(Entry) /\ passes' = passes + 1
        /\ presentQ \in Seq(Entry) /\ passes \in Nat
    BY <1>5, SubmitsEffect DEF MTypes, Queues3, Counts
  <2>4. \A i \in 1 .. Len(gameQ') : /\ gameQ'[i].op = "list" => gameQ'[i].value <= made /\ separate
                                    /\ gameQ'[i].op = "entry" => gameQ'[i].value <= lists
    BY <2>1, <2>2 DEF Queued, MTypes, Counts, EntrySignal
  <2>5. /\ [op |-> "capture", value |-> passes + 1] \in Entry /\ [op |-> "show", value |-> passes + 1] \in Entry
    BY <2>3 DEF Entry
  <2>6. /\ Len(Captures) = Len(presentQ) + 1 /\ Captures[Len(presentQ) + 1] = [op |-> "capture", value |-> passes + 1]
        /\ \A i \in 1 .. Len(presentQ) : Captures[i] = presentQ[i]
        /\ \A i \in 1 .. Len(presentQ) + 1 : i \in 1 .. Len(presentQ) \/ i = Len(presentQ) + 1
    BY ONLY <2>3, <2>5, Appended DEF Captures
  <2>7. \A i \in 1 .. Len(Captures) : /\ Captures[i].op = "capture" => Captures[i].value <= passes + 1
                                      /\ Captures[i].op = "list" => Captures[i].value <= made
    <3>1. /\ Captures[Len(presentQ) + 1].op = "capture" /\ Captures[Len(presentQ) + 1].value = passes + 1
          /\ \A i \in 1 .. Len(presentQ) : presentQ[i].value \in Nat
          /\ passes + 1 <= passes + 1 /\ \A n \in Nat : n <= passes => n <= passes + 1
      BY <2>3, <2>6, Entries
    <3>2. QED
      BY <2>6, <3>1 DEF Queued
  <2>8. /\ Len(Shows) = Len(Captures) + 1 /\ Shows[Len(Captures) + 1] = [op |-> "show", value |-> passes + 1]
        /\ \A i \in 1 .. Len(Captures) : Shows[i] = Captures[i]
        /\ \A i \in 1 .. Len(Captures) + 1 : i \in 1 .. Len(Captures) \/ i = Len(Captures) + 1
    BY ONLY <2>3, <2>5, Appended DEF Shows
  <2>9. \A i \in 1 .. Len(Shows) : /\ Shows[i].op = "capture" => Shows[i].value <= passes + 1
                                   /\ Shows[i].op = "list" => Shows[i].value <= made
    BY <2>7, <2>8
  <2>10. \A i \in 1 .. Len(presentQ') : /\ presentQ'[i].op = "capture" => presentQ'[i].value <= passes'
                                        /\ presentQ'[i].op = "list" => presentQ'[i].value <= made
    BY <2>3, <2>7, <2>9
  <2>12. UNCHANGED <<made, lists, separate>>
    BY <2>1
  <2>13. \A i \in 1 .. Len(gameQ') : /\ gameQ'[i].op = "list" => gameQ'[i].value <= made' /\ separate'
                                     /\ gameQ'[i].op = "entry" => gameQ'[i].value <= lists'
    BY <2>4, <2>12
  <2>14. \A i \in 1 .. Len(presentQ') : /\ presentQ'[i].op = "capture" => presentQ'[i].value <= passes'
                                        /\ presentQ'[i].op = "list" => presentQ'[i].value <= made'
    BY <2>10, <2>12
  <2>15. QED
    BY ONLY <2>13, <2>14 DEF Queued
<1>6. CASE EvaluateSteps
  <2>1. /\ UNCHANGED <<presentQ, passes, made, lists, separate>>
        /\ gameQ' = gameQ \/ (gameQ' = Append(gameQ, [op |-> "wait", value |-> evaluate.last]) /\ separate)
        /\ [op |-> "wait", value |-> evaluate.last] \in Entry
    BY <1>6, EvaluateStepsEffect DEF MTypes, Calls, Call, Entry
  <2>11. gameQ \in Seq(Entry)
    BY DEF MTypes, Queues3
  <2>2. gameQ' = gameQ \/ (/\ Len(gameQ') = Len(gameQ) + 1 /\ gameQ'[Len(gameQ) + 1] = [op |-> "wait", value |-> evaluate.last]
                           /\ \A i \in 1 .. Len(gameQ) : gameQ'[i] = gameQ[i]
                           /\ \A i \in 1 .. Len(gameQ) + 1 : i \in 1 .. Len(gameQ) \/ i = Len(gameQ) + 1)
    BY ONLY <2>1, <2>11, Appended
  <2>3. QED
    BY <2>1, <2>2 DEF Queued, MTypes, Counts
<1>7. CASE CoreCalls
  <2>1. /\ UNCHANGED <<presentQ, gameQ, passes, separate>> /\ lists' = lists + 1
        /\ made' \in {made, made + 1}
    BY <1>7, EvaluateCallsEffect DEF CoreCalls
  <2>2. /\ \A i \in 1 .. Len(presentQ) : presentQ[i].value \in Nat
        /\ \A i \in 1 .. Len(gameQ) : gameQ[i].value \in Nat
    BY Entries DEF MTypes, Queues3
  <2>3. \A n \in Nat : (n <= made => n <= made') /\ (n <= lists => n <= lists')
    BY <2>1 DEF MTypes, Counts
  <2>4. QED
    BY <2>1, <2>2, <2>3 DEF Queued
<1>8. CASE CreateFeature
  <2>1. UNCHANGED <<presentQ, gameQ, passes, separate, lists>> /\ made' = made + 1
    BY <1>8, CreateFeatureEffect
  <2>2. /\ \A i \in 1 .. Len(presentQ) : presentQ[i].value \in Nat
        /\ \A i \in 1 .. Len(gameQ) : gameQ[i].value \in Nat
    BY Entries DEF MTypes, Queues3
  <2>3. \A n \in Nat : n <= made => n <= made'
    BY <2>1 DEF MTypes, Counts
  <2>4. QED
    BY <2>1, <2>2, <2>3 DEF Queued
<1>9. CASE NativeSubmit
  <2>1. /\ UNCHANGED <<passes, made, lists, separate>> /\ Submitted \in Entry
        /\ presentQ \in Seq(Entry) /\ gameQ \in Seq(Entry) /\ Submitted.op = "list" /\ Submitted.value <= made
        /\ IF separate THEN gameQ' = Append(gameQ, Submitted) /\ presentQ' = presentQ
                       ELSE presentQ' = Append(presentQ, Submitted) /\ gameQ' = gameQ
    BY <1>9, NativeSubmitEffect DEF MTypes, Queues3, Numbered, Submitted
  <2>2. \A q \in Seq(Entry) :
          /\ Len(Append(q, Submitted)) = Len(q) + 1 /\ Append(q, Submitted)[Len(q) + 1] = Submitted
          /\ \A i \in 1 .. Len(q) : Append(q, Submitted)[i] = q[i]
          /\ \A i \in 1 .. Len(q) + 1 : i \in 1 .. Len(q) \/ i = Len(q) + 1
    BY ONLY <2>1, Appended
  <2>3. CASE separate
    <3>1. gameQ' = Append(gameQ, Submitted) /\ presentQ' = presentQ
      BY <2>1, <2>3
    <3>2. \A i \in 1 .. Len(gameQ') : \/ i \in 1 .. Len(gameQ) /\ gameQ'[i] = gameQ[i]
                                      \/ gameQ'[i] = Submitted
      BY <2>1, <2>2, <3>1
    <3>3. QED
      BY <2>1, <2>3, <3>1, <3>2 DEF Queued
  <2>4. CASE ~separate
    <3>1. presentQ' = Append(presentQ, Submitted) /\ gameQ' = gameQ
      BY <2>1, <2>4
    <3>2. \A i \in 1 .. Len(presentQ') : \/ i \in 1 .. Len(presentQ) /\ presentQ'[i] = presentQ[i]
                                         \/ presentQ'[i] = Submitted
      BY <2>1, <2>2, <3>1
    <3>3. QED
      BY <2>1, <2>4, <3>1, <3>2 DEF Queued
  <2>5. QED
    BY <2>3, <2>4
<1>10. CASE PresentQueueRuns
  <2>1. /\ UNCHANGED <<gameQ, passes, separate, lists, made>>
        /\ \A i \in 1 .. Len(presentQ') : presentQ'[i] = presentQ[i + 1] /\ i + 1 \in 1 .. Len(presentQ)
    BY <1>10, PresentQueueEffect DEF Still
  <2>2. QED
    BY <2>1 DEF Queued
<1>11. CASE GameQueueRuns
  <2>1. /\ UNCHANGED <<presentQ, passes, separate, lists, made>>
        /\ \A i \in 1 .. Len(gameQ') : gameQ'[i] = gameQ[i + 1] /\ i + 1 \in 1 .. Len(gameQ)
    BY <1>11, GameQueueEffect DEF Still
  <2>2. QED
    BY <2>1 DEF Queued
<1>12. QED
  BY <1>2, <1>3, <1>4, <1>5, <1>6, <1>7, <1>8, <1>9, <1>10, <1>11 DEF Step

LEMMA WatchedKept ==
  ASSUME MTypes, Watched, Step
  PROVE  Watched'
<1>1. CASE Toggle
  BY <1>1, ToggleEffect DEF Watched, Early, NoEvaluate, NoProof
<1>2. CASE DeviceRemoved3
  BY <1>2, DeviceEffect DEF Watched, Early, NoEvaluate, NoProof
<1>3. CASE Presents
  BY <1>3, PresentEffect DEF Presents, Watched, Early, NoEvaluate, NoProof
<1>4. CASE LeaseSkips
  BY <1>4, LeaseSkipsEffect DEF Watched, Early, NoEvaluate, NoProof
<1>5. CASE PassRefused
  BY <1>5, PassRefusedEffect, EntersEffect DEF Watched, Early, NoEvaluate, NoProof
<1>6. CASE RunEnds
  BY <1>6, PassEndsRunEffect DEF RunEnds, Watched, Early, NoEvaluate, NoProof
<1>7. CASE Creates
  BY <1>7, PassCreatesEffect, EntersEffect DEF Creates, Watched, Early, NoEvaluate, NoProof
<1>8. CASE Submits
  <2>1. /\ begun /\ begun' = FALSE /\ ~evaluate.leased /\ watch'.remembered = watch.remembered
        /\ UNCHANGED <<seen, evaluate, release, list, feature>>
    BY <1>8, SubmitsEffect, EntersEffect
  <2>2. QED
    BY <2>1 DEF Watched, Early
<1>9. CASE Drains
  BY <1>9, DrainEffect DEF Drains, Watched, Early, NoEvaluate, NoProof
<1>10. CASE Begins
  <2>1. /\ evaluate.at = "out" /\ release.at = "out" /\ feature /\ ~begun /\ list = NoList /\ watch.remembered \in BOOLEAN
        /\ UNCHANGED <<begun, seen, release, list, feature>> /\ watch'.remembered = watch.remembered
        /\ evaluate'.leased = watch.remembered /\ evaluate'.at \in {"leave", "held", "order", "prove", "call"}
        /\ watch.remembered => ~machine'.active
        /\ ~watch.remembered => machine' = machine /\ evaluate'.at \in {"call", "leave"} /\ ~evaluate'.took
    BY <1>10, EvaluateBeginsEffect DEF Begins, MTypes, Menu, Watch
  <2>2. QED
    BY <2>1 DEF Watched, Early, NoList
<1>11. CASE EvaluateSteps
  <2>1. /\ evaluate.at \in {"held", "order", "prove"} /\ evaluate'.at \in {"leave", "order", "prove", "call"}
        /\ UNCHANGED <<watch, begun, seen, release, list, feature>> /\ (machine'.active => machine.active)
        /\ evaluate'.leased = evaluate.leased /\ evaluate'.tagged = evaluate.tagged /\ evaluate'.took = evaluate.took
    BY <1>11, EvaluateStepsEffect DEF AfterOrder
  <2>2. QED
    BY <2>1 DEF Watched, Early
<1>12. CASE CoreCalls
  BY <1>12, EvaluateCallsEffect DEF CoreCalls, Watched, Early, NoEvaluate, NoProof
<1>13. CASE EvaluateGone
  BY <1>13, EvaluateGoneEffect DEF Watched, Early, NoEvaluate, NoProof
<1>14. CASE Notes
  <2>1. /\ evaluate.at = "note" /\ ~begun /\ evaluate' = NoEvaluate /\ machine'.active = machine.active
        /\ watch'.remembered = (watch.remembered \/ Noticed) /\ (Noticed => feature /\ release.at = "out")
        /\ seen' = (IF Noticed THEN [list |-> TRUE, observed |-> FALSE, fresh |-> FALSE] ELSE seen)
        /\ UNCHANGED <<begun, release, feature>>
    BY <1>14, EvaluateNotedEffect DEF Notes, Noticed
  <2>2. QED
    BY <2>1 DEF Watched, Early, NoEvaluate
<1>15. CASE EvaluateLeaves
  BY <1>15, EvaluateLeavesEffect DEF Watched, Early, NoEvaluate, NoProof
<1>16. CASE Releases
  BY <1>16, ReleaseBeginsEffect DEF Releases, Watched, Early, NoEvaluate, NoProof
<1>17. CASE Proven
  BY <1>17, ReleaseProvesEffect DEF Proven, Watched, Early, NoEvaluate, NoProof
<1>18. CASE ReleaseEnds
  BY <1>18, ReleaseEndsEffect DEF Watched, Early, NoEvaluate, NoProof
<1>19. CASE CreateFeature
  BY <1>19, CreateFeatureEffect DEF Watched, Early, NoEvaluate, NoProof
<1>20. CASE ListExecuting
  BY <1>20, ListExecutingEffect DEF Watched, Early, NoEvaluate, NoProof
<1>21. CASE NativeSubmit
  BY <1>21, NativeSubmitEffect DEF Watched, Early, NoEvaluate, NoProof
<1>22. CASE PresentQueueRuns
  BY <1>22, PresentQueueEffect DEF Still, Watched, Early, NoEvaluate, NoProof
<1>23. CASE GameQueueRuns
  BY <1>23, GameQueueEffect DEF Still, Watched, Early, NoEvaluate, NoProof
<1>24. CASE PassRuns
  BY <1>24, PassRunsEffect DEF Still, Watched, Early, NoEvaluate, NoProof
<1>25. QED
  BY <1>1, <1>2, <1>3, <1>4, <1>5, <1>6, <1>7, <1>8, <1>9, <1>10, <1>11, <1>12, <1>13, <1>14, <1>15, <1>16,
     <1>17, <1>18, <1>19, <1>20, <1>21, <1>22, <1>23, <1>24 DEF Step

LEMMA NoFlowKept ==
  ASSUME MTypes, Watched, NoFlow, Step
  PROVE  NoFlow'
<1>1. CASE Toggle
  BY <1>1, ToggleEffect DEF NoFlow, Early, Watched, NoEvaluate, NoProof
<1>2. CASE DeviceRemoved3
  BY <1>2, DeviceEffect DEF NoFlow, Early, Watched, NoEvaluate, NoProof
<1>3. CASE Presents
  BY <1>3, PresentEffect DEF Presents, NoFlow, Early, Watched, NoEvaluate, NoProof
<1>4. CASE LeaseSkips
  BY <1>4, LeaseSkipsEffect DEF NoFlow, Early, Watched, NoEvaluate, NoProof
<1>5. CASE PassRefused
  BY <1>5, PassRefusedEffect, EntersEffect DEF NoFlow, Early, Watched, NoEvaluate, NoProof
<1>6. CASE RunEnds
  BY <1>6, PassEndsRunEffect DEF RunEnds, NoFlow, Early, Watched, NoEvaluate, NoProof
<1>7. CASE Creates
  BY <1>7, PassCreatesEffect, EntersEffect DEF Creates, NoFlow, Early, Watched, NoEvaluate, NoProof
<1>8. CASE Submits
  BY <1>8, SubmitsEffect, EntersEffect DEF NoFlow, Early, Watched, NoEvaluate, NoProof
<1>9. CASE Drains
  BY <1>9, DrainEffect DEF Drains, NoFlow, Early, Watched, NoEvaluate, NoProof
<1>10. CASE Begins
  BY <1>10, EvaluateBeginsEffect DEF Begins, NoFlow, Early, Watched, NoEvaluate, NoProof
<1>11. CASE EvaluateSteps
  BY <1>11, EvaluateStepsEffect DEF NoFlow, Early, Watched, NoEvaluate, NoProof
<1>12. CASE CoreCalls
  BY <1>12, EvaluateCallsEffect DEF CoreCalls, NoFlow, Early, Watched, NoEvaluate, NoProof
<1>13. CASE EvaluateGone
  BY <1>13, EvaluateGoneEffect DEF NoFlow, Early, Watched, NoEvaluate, NoProof
<1>14. CASE Notes
  BY <1>14, EvaluateNotedEffect DEF Notes, NoFlow, Early, Watched, NoEvaluate, NoProof
<1>15. CASE EvaluateLeaves
  BY <1>15, EvaluateLeavesEffect DEF NoFlow, Early, Watched, NoEvaluate, NoProof
<1>16. CASE Releases
  BY <1>16, ReleaseBeginsEffect DEF Releases, NoFlow, Early, Watched, NoEvaluate, NoProof
<1>17. CASE Proven
  BY <1>17, ReleaseProvesEffect DEF Proven, NoFlow, Early, Watched, NoEvaluate, NoProof
<1>18. CASE ReleaseEnds
  BY <1>18, ReleaseEndsEffect DEF NoFlow, Early, Watched, NoEvaluate, NoProof
<1>19. CASE CreateFeature
  BY <1>19, CreateFeatureEffect DEF NoFlow, Early, Watched, NoEvaluate, NoProof
<1>20. CASE ListExecuting
  BY <1>20, ListExecutingEffect DEF NoFlow, Early, Watched, NoEvaluate, NoProof
<1>21. CASE NativeSubmit
  BY <1>21, NativeSubmitEffect DEF NoFlow, Early, Watched, NoEvaluate, NoProof
<1>22. CASE PresentQueueRuns
  BY <1>22, PresentQueueEffect DEF Still, NoFlow, Early, Watched, NoEvaluate, NoProof
<1>23. CASE GameQueueRuns
  BY <1>23, GameQueueEffect DEF Still, NoFlow, Early, Watched, NoEvaluate, NoProof
<1>24. CASE PassRuns
  BY <1>24, PassRunsEffect DEF Still, NoFlow, Early, Watched, NoEvaluate, NoProof
<1>25. QED
  BY <1>1, <1>2, <1>3, <1>4, <1>5, <1>6, <1>7, <1>8, <1>9, <1>10, <1>11, <1>12, <1>13, <1>14, <1>15, <1>16,
     <1>17, <1>18, <1>19, <1>20, <1>21, <1>22, <1>23, <1>24 DEF Step

LEMMA OwedKept ==
  ASSUME MTypes, Watched, Numbered, Owed, Step
  PROVE  Owed'
<1>1. CASE Toggle
  BY <1>1, ToggleEffect DEF Owed, Early, Watched, Numbered, MTypes, Counts, NoEvaluate, NoProof
<1>2. CASE DeviceRemoved3
  BY <1>2, DeviceEffect DEF Owed, Early, Watched, Numbered, MTypes, Counts, NoEvaluate, NoProof
<1>3. CASE Presents
  BY <1>3, PresentEffect DEF Presents, Owed, Early, Watched, Numbered, MTypes, Counts, NoEvaluate, NoProof
<1>4. CASE LeaseSkips
  BY <1>4, LeaseSkipsEffect DEF Owed, Early, Watched, Numbered, MTypes, Counts, NoEvaluate, NoProof
<1>5. CASE PassRefused
  BY <1>5, PassRefusedEffect, EntersEffect DEF Owed, Early, Watched, Numbered, MTypes, Counts, NoEvaluate, NoProof
<1>6. CASE RunEnds
  <2>1. /\ UNCHANGED <<evaluate, release, model, dirty>> /\ machine'.owed = machine.owed
        /\ watch'.remembered = watch.remembered
    BY <1>6, PassEndsRunEffect DEF RunEnds
  <2>2. QED
    BY <2>1 DEF Owed
<1>7. CASE Creates
  <2>1. model' = 0 /\ UNCHANGED <<dirty, made>>
    BY <1>7, PassCreatesEffect, EntersEffect DEF Creates
  <2>2. QED
    BY <2>1 DEF Owed, Numbered, MTypes, Counts
<1>8. CASE Submits
  BY <1>8, SubmitsEffect, EntersEffect DEF Owed, Early, Watched, Numbered, MTypes, Counts,
     NoEvaluate, NoProof
<1>9. CASE Drains
  BY <1>9, DrainEffect DEF Drains, Owed, Early, Watched, Numbered, MTypes, Counts, NoEvaluate, NoProof
<1>10. CASE Begins
  <2>1. /\ evaluate.at = "out" /\ release.at = "out" /\ UNCHANGED <<release, model, dirty>> /\ evaluate'.at # "note"
        /\ evaluate'.at # "out" /\ (watch.remembered => evaluate'.took = machine.owed)
    BY <1>10, EvaluateBeginsEffect DEF Begins, MTypes, Menu, Watch
  <2>2. QED
    BY <2>1 DEF Owed, Early
<1>11. CASE EvaluateSteps
  <2>1. /\ evaluate.at \in {"held", "order", "prove"} /\ evaluate'.at \in {"leave", "order", "prove", "call"}
        /\ UNCHANGED <<release, model, dirty>> /\ evaluate'.took = evaluate.took
    BY <1>11, EvaluateStepsEffect DEF AfterOrder
  <2>2. QED
    BY <2>1 DEF Owed, Early
<1>12. CASE CoreCalls
  <2>1. /\ evaluate.at = "call" /\ evaluate'.at = "note" /\ evaluate'.took = evaluate.took /\ dirty' \subseteq dirty
        /\ model' \in {model, made + 1} /\ (evaluate'.ran => model' \notin dirty')
    BY <1>12, EvaluateCallsEffect DEF CoreCalls
  <2>2. QED
    BY <2>1 DEF Owed, Early, Numbered, MTypes, Counts
<1>13. CASE EvaluateGone
  BY <1>13, EvaluateGoneEffect DEF Owed, Early, Watched, Numbered, MTypes, Counts, NoEvaluate, NoProof
<1>14. CASE Notes
  <2>1. /\ evaluate' = NoEvaluate /\ UNCHANGED <<release, model, dirty, feature>> /\ evaluate.at = "note"
        /\ machine'.owed = (machine.owed \/ (evaluate.took /\ ~evaluate.ran)) /\ (watch.remembered => watch'.remembered)
    BY <1>14, EvaluateNotedEffect DEF Notes
  <2>2. CASE model \notin dirty
    BY <2>1, <2>2 DEF Owed
  <2>3. CASE model \in dirty
    <3>1. (evaluate.took /\ ~evaluate.ran)
      BY <2>1, <2>3 DEF Owed, Early
    <3>2. feature
      BY <2>3 DEF Numbered, MTypes, Counts
    <3>3. release.at = "out" => watch.remembered
      BY <3>1, <3>2 DEF Watched
    <3>4. machine'.owed /\ evaluate'.at = "out"
      BY <2>1, <3>1 DEF NoEvaluate
    <3>5. QED
      BY <2>1, <3>3, <3>4 DEF Owed, Early
  <2>4. QED
    BY <2>2, <2>3
<1>15. CASE EvaluateLeaves
  <2>1. /\ evaluate' = NoEvaluate /\ UNCHANGED <<release, model, dirty, feature>> /\ evaluate.at = "leave"
        /\ machine'.owed = (machine.owed \/ evaluate.took) /\ (watch.remembered => watch'.remembered)
    BY <1>15, EvaluateLeavesEffect
  <2>2. CASE model \notin dirty
    BY <2>1, <2>2 DEF Owed
  <2>3. CASE model \in dirty
    <3>1. evaluate.took
      BY <2>1, <2>3 DEF Owed, Early
    <3>2. feature
      BY <2>3 DEF Numbered, MTypes, Counts
    <3>3. release.at = "out" => watch.remembered
      BY <3>1, <3>2 DEF Watched
    <3>4. machine'.owed /\ evaluate'.at = "out"
      BY <2>1, <3>1 DEF NoEvaluate
    <3>5. QED
      BY <2>1, <3>3, <3>4 DEF Owed, Early
  <2>4. QED
    BY <2>2, <2>3
<1>16. CASE Releases
  <2>1. /\ release'.at # "out" /\ UNCHANGED <<evaluate, model, dirty>>
    BY <1>16, ReleaseBeginsEffect DEF Releases
  <2>2. QED
    BY <2>1 DEF Owed, Early
<1>17. CASE Proven
  <2>1. /\ release.at # "out" /\ release'.at # "out" /\ machine'.owed = machine.owed
        /\ UNCHANGED <<evaluate, model, dirty, watch>>
    BY <1>17, ReleaseProvesEffect DEF Proven
  <2>2. QED
    BY <2>1 DEF Owed, Early
<1>18. CASE ReleaseEnds
  BY <1>18, ReleaseEndsEffect DEF Owed, Early, Watched, Numbered, MTypes, Counts, NoEvaluate, NoProof
<1>19. CASE CreateFeature
  BY <1>19, CreateFeatureEffect DEF Owed, Early, Watched, Numbered, MTypes, Counts, NoEvaluate, NoProof
<1>20. CASE ListExecuting
  BY <1>20, ListExecutingEffect DEF Owed, Early, Watched, Numbered, MTypes, Counts, NoEvaluate, NoProof
<1>21. CASE NativeSubmit
  BY <1>21, NativeSubmitEffect DEF Owed, Early, Watched, Numbered, MTypes, Counts, NoEvaluate, NoProof
<1>22. CASE PresentQueueRuns
  BY <1>22, PresentQueueEffect DEF Still, Owed, Early, Watched, Numbered, MTypes, Counts, NoEvaluate, NoProof
<1>23. CASE GameQueueRuns
  BY <1>23, GameQueueEffect DEF Still, Owed, Early, Watched, Numbered, MTypes, Counts, NoEvaluate, NoProof
<1>24. CASE PassRuns
  BY <1>24, PassRunsEffect DEF Still, Owed, Early, Watched, Numbered, MTypes, Counts, NoEvaluate, NoProof
<1>25. QED
  BY <1>1, <1>2, <1>3, <1>4, <1>5, <1>6, <1>7, <1>8, <1>9, <1>10, <1>11, <1>12, <1>13, <1>14, <1>15, <1>16,
     <1>17, <1>18, <1>19, <1>20, <1>21, <1>22, <1>23, <1>24 DEF Step


\* The first layer.
Base == MTypes /\ Numbered /\ Queued /\ Watched /\ NoFlow /\ Owed

LEMMA BaseInit ==
  ASSUME MInit
  PROVE  Base
<1>1. /\ machine \in Machine3 /\ watch \in Watch /\ seen \in SeenList
      /\ machine.active = FALSE /\ watch.remembered /\ seen.list
  BY DEF MInit, Machine3, Watch, SeenList
<1>2. /\ held \in HeldPass /\ release \in ReleaseCall /\ list \in GameList
      /\ release.at = "out" /\ list.model = 0 /\ list.at = "none"
  BY DEF MInit, NotHeld, HeldPass, NoProof, Proof, ReleaseCall, NoList, GameList
<1>3. evaluate \in Call /\ evaluate.at = "out" /\ ~evaluate.leased /\ ~evaluate.tagged /\ ~evaluate.took
  BY DEF MInit, NoEvaluate, NoProof, Proof, Call
<1>4. MTypes
  <2>1. Menu /\ Calls
    BY <1>1, <1>2, <1>3 DEF Menu, Calls
  <2>2. Flags /\ Counts
    BY DEF MInit, Flags, Counts
  <2>3. Queues3
    BY DEF MInit, Queues3
  <2>4. QED
    BY <2>1, <2>2, <2>3 DEF MTypes
<1>5. Numbered /\ Queued
  BY <1>2 DEF MInit, Numbered, Queued
<1>6. Watched /\ NoFlow /\ Owed
  BY <1>1, <1>2, <1>3 DEF MInit, Watched, NoFlow, Owed, Early
<1>7. QED
  BY <1>4, <1>5, <1>6 DEF Base

LEMMA BaseStep ==
  ASSUME Base, [MNext]_mvars
  PROVE  Base'
<1>1. CASE MNext
  <2>1. MTypes /\ Numbered /\ Queued /\ Watched /\ NoFlow /\ Owed /\ Step
    BY <1>1, Steps DEF Base
  <2>2. QED
    BY <2>1, MTypesKept, NumberedKept, QueuedKept, WatchedKept, NoFlowKept, OwedKept DEF Base
<1>2. CASE UNCHANGED mvars
  <2> USE <1>2 DEF mvars, user, pipeline, queues3, core3
  <2>1. Menu' /\ Calls' /\ Flags' /\ Counts' /\ Queues3'
    BY DEF Base, MTypes, Menu, Calls, Flags, Counts, Queues3
  <2>2. Numbered' /\ Queued'
    BY DEF Base, Numbered, Queued
  <2>3. Watched'
    BY DEF Base, Watched
  <2>4. NoFlow' /\ Owed'
    BY DEF Base, NoFlow, Owed
  <2>5. QED
    BY <2>1, <2>2, <2>3, <2>4 DEF Base, MTypes
<1>3. QED
  BY <1>1, <1>2

\* The core never evaluates the game's frame along a menu's optical flow: the run's end asks for the game's
\* vectors, and the evaluate that finds the core unwilling is withheld.
THEOREM GamesOwnVectors == MSpec => []GameVectors
<1>1. Base => GameVectors
  BY DEF Base, NoFlow, Early, GameVectors
<1>2. QED
  BY <1>1, BaseInit, BaseStep, PTL DEF MSpec

\* A model's history loses its menu's frames with the model, or in a call that carries the reset.
LEMMA ResetStep ==
  ASSUME Base, MNext
  PROVE  \A m \in (dirty \ dirty') \cap alive' : evaluate.took
<1>1. MTypes /\ Numbered /\ Owed /\ Step
  BY Steps DEF Base
<1>2. CASE CoreCalls
  <2>1. PICK renews \in BOOLEAN, runs \in BOOLEAN :
          /\ evaluate.at = "call"
          /\ model' = (IF renews THEN made + 1 ELSE model)
          /\ dirty \cap alive' \subseteq dirty' \cup {model'}
    BY <1>1, <1>2, EvaluateCallsEffect DEF CoreCalls
  <2>2. made + 1 \notin dirty
    BY <1>1 DEF Numbered, MTypes, Counts
  <2>3. model \in dirty => evaluate.took
    BY <1>1, <2>1 DEF Owed, Early
  <2>4. QED
    BY <2>1, <2>2, <2>3
<1>3. CASE ~CoreCalls
  <2>1. dirty \subseteq dirty'
    <3>1. CASE Toggle
      BY <1>1, <3>1, ToggleEffect
    <3>2. CASE DeviceRemoved3
      BY <1>1, <3>2, DeviceEffect
    <3>3. CASE Presents
      BY <1>1, <3>3, PresentEffect DEF Presents
    <3>4. CASE LeaseSkips
      BY <1>1, <3>4, LeaseSkipsEffect
    <3>5. CASE PassRefused
      BY <1>1, <3>5, PassRefusedEffect, EntersEffect
    <3>6. CASE RunEnds
      BY <1>1, <3>6, PassEndsRunEffect DEF RunEnds
    <3>7. CASE Creates
      BY <1>1, <3>7, PassCreatesEffect, EntersEffect DEF Creates
    <3>8. CASE Submits
      BY <1>1, <3>8, SubmitsEffect, EntersEffect
    <3>9. CASE Drains
      BY <1>1, <3>9, DrainEffect DEF Drains
    <3>10. CASE Begins
      BY <1>1, <3>10, EvaluateBeginsEffect DEF Begins
    <3>11. CASE EvaluateSteps
      BY <1>1, <3>11, EvaluateStepsEffect
    <3>12. CASE EvaluateGone
      BY <1>1, <3>12, EvaluateGoneEffect
    <3>13. CASE Notes
      BY <1>1, <3>13, EvaluateNotedEffect DEF Notes
    <3>14. CASE EvaluateLeaves
      BY <1>1, <3>14, EvaluateLeavesEffect
    <3>15. CASE Releases
      BY <1>1, <3>15, ReleaseBeginsEffect DEF Releases
    <3>16. CASE Proven
      BY <1>1, <3>16, ReleaseProvesEffect DEF Proven
    <3>17. CASE ReleaseEnds
      BY <1>1, <3>17, ReleaseEndsEffect
    <3>18. CASE CreateFeature
      BY <1>1, <3>18, CreateFeatureEffect
    <3>19. CASE ListExecuting
      BY <1>1, <3>19, ListExecutingEffect
    <3>20. CASE NativeSubmit
      BY <1>1, <3>20, NativeSubmitEffect
    <3>21. CASE PresentQueueRuns
      BY <1>1, <3>21, PresentQueueEffect DEF Still
    <3>22. CASE GameQueueRuns
      BY <1>1, <3>22, GameQueueEffect DEF Still
    <3>23. CASE PassRuns
      BY <1>1, <3>23, PassRunsEffect DEF Still
    <3>24. QED
      BY <1>1, <1>3, <3>1, <3>2, <3>3, <3>4, <3>5, <3>6, <3>7, <3>8, <3>9, <3>10, <3>11, <3>12, <3>13, <3>14,
         <3>15, <3>16, <3>17, <3>18, <3>19, <3>20, <3>21, <3>22, <3>23 DEF Step
  <2>2. QED
    BY <2>1
<1>4. QED
  BY <1>2, <1>3

\* The first successful call of the game's after a pass carries the reset, whatever evaluates were withheld,
\* failed or released in between: the reset is owed until a call that runs has taken it.
THEOREM HistoryMeetsReset == MSpec => HistoryReset
<1>1. Base /\ [MNext]_mvars => [\A m \in (dirty \ dirty') \cap alive' : evaluate.took]_mvars
  BY ResetStep
<1>2. QED
  BY <1>1, BaseInit, BaseStep, PTL DEF MSpec, HistoryReset


-----------------------------------------------------------------------------
(* The pass a call of the core's has to follow.                            *)

\* The models of the passes that are not over.
Used == {privateQ[i].model : i \in 1 .. Len(privateQ)}

\* What the pipeline knows of the last pass: the fence's number, or the pass a failure left behind.
LastKnown ==
  /\ last # 0 => last = passes \/ last <= f2
  /\ held.pass # 0 => held.pass = passes \/ removed
  /\ evaluate.leased /\ evaluate.last # 0 => evaluate.last = passes \/ evaluate.last <= f2
  /\ evaluate.leased /\ evaluate.proof.pass # 0 =>
       evaluate.proof.pass = passes \/ evaluate.proof.pass <= f2 \/ removed

\* A failure without a number, a held pass, or the last one.
Known == held.unfenced \/ held.pass # 0 \/ last = passes
Proves(proof) == model \in Used => proof.unfenced \/ (proof.pass # 0 /\ (proof.pass = passes \/ removed))

\* The proof that a call or a free has to follow is taken, kept through the steps, and held good at the call.
Covers ==
  /\ model \in Used /\ release.at = "out" => watch.remembered /\ Known
  /\ evaluate.leased /\ evaluate.at \in {"held", "order", "prove"} => Proves(evaluate.proof)
  /\ evaluate.at = "held" => evaluate.proof.outstanding /\ ~evaluate.proof.wait /\ ~evaluate.proof.unfenced
  /\ evaluate.at = "order" => evaluate.last # 0
  /\ evaluate.at = "order" /\ evaluate.proof.outstanding /\ ~evaluate.proof.wait => model \notin Used
  /\ evaluate.at = "call" => model \notin Used
  /\ release.at = "prove" => Proves(release.proof)
  /\ release.at = "core" => model \notin Used

\* The feature's model and those of the passes are not freed.
Alive == /\ model # 0 => model \in alive
         /\ Used \subseteq alive

\* When the last pass is over, none is left.
LEMMA Finished ==
  ASSUME MTypes, Numbered, NEW p \in Nat, Complete(p), p = passes \/ removed
  PROVE  Used = {}
<1>1. passes <= f2 /\ f2 + Len(privateQ) = passes /\ Len(privateQ) \in Nat
  BY DEF Complete, Numbered, MTypes, Queues3
<1>2. Len(privateQ) = 0
  BY <1>1 DEF MTypes, Counts
<1>3. QED
  BY <1>2 DEF Used

\* No pass is of no model, or of one not made yet.
LEMMA NotUsed ==
  ASSUME MTypes, Numbered
  PROVE  0 \notin Used /\ made + 1 \notin Used /\ (Used # {} => passes > f2 /\ passes # 0)
<1>1. /\ f2 + Len(privateQ) = passes /\ f2 \in Nat /\ made \in Nat /\ Len(privateQ) \in Nat
      /\ \A i \in 1 .. Len(privateQ) : privateQ[i].model \in 1 .. made
  BY DEF Numbered, MTypes, Counts, Queues3
<1>2. Used \subseteq 1 .. made /\ (Used # {} => Len(privateQ) # 0)
  BY <1>1 DEF Used
<1>3. QED
  BY <1>1, <1>2

LEMMA SubmitsUses ==
  ASSUME MTypes, Submits
  PROVE  Used' = Used \cup {model}
<1>1. PICK e \in Pass : /\ privateQ \in Seq(Pass) /\ e.model = model /\ privateQ' = Append(privateQ, e)
  BY SubmitsEffect DEF MTypes, Queues3
<1>2. /\ Len(privateQ') = Len(privateQ) + 1 /\ privateQ'[Len(privateQ) + 1] = e /\ Len(privateQ) \in Nat
      /\ \A i \in 1 .. Len(privateQ) : privateQ'[i] = privateQ[i]
      /\ \A i \in 1 .. Len(privateQ) + 1 : i \in 1 .. Len(privateQ) \/ i = Len(privateQ) + 1
  BY <1>1, Appended
<1>3. QED
  BY <1>1, <1>2 DEF Used

LEMMA PassRunsUses ==
  ASSUME MTypes, PassRuns
  PROVE  Used' \subseteq Used
  BY PassRunsEffect DEF Used

LEMMA LastKnownKept ==
  ASSUME MTypes, Numbered, Watched, LastKnown, "reenter" \notin Surprises, "overlap" \notin Surprises, Step
  PROVE  LastKnown'
<1>1. ASSUME Toggle \/ LeaseSkips \/ PassRefused \/ RunEnds \/ Creates \/ Drains
             \/ ReleaseEnds \/ CreateFeature \/ Proven \/ ListExecuting \/ NativeSubmit \/ PresentQueueRuns
             \/ GameQueueRuns
      PROVE  UNCHANGED <<last, held, evaluate, passes, f2, removed>>
  <2>1. CASE Toggle
    BY <2>1, ToggleEffect
  <2>2. CASE LeaseSkips
    BY <2>2, LeaseSkipsEffect
  <2>3. CASE PassRefused
    BY <2>3, PassRefusedEffect, EntersEffect
  <2>4. CASE RunEnds
    BY <2>4, PassEndsRunEffect DEF RunEnds
  <2>5. CASE Creates
    BY <2>5, PassCreatesEffect, EntersEffect DEF Creates
  <2>6. CASE Drains
    BY <2>6, DrainEffect DEF Drains
  <2>7. CASE ReleaseEnds
    BY <2>7, ReleaseEndsEffect
  <2>8. CASE CreateFeature
    BY <2>8, CreateFeatureEffect
  <2>9. CASE Proven
    BY <2>9, ReleaseProvesEffect DEF Proven
  <2>10. CASE ListExecuting
    BY <2>10, ListExecutingEffect
  <2>11. CASE NativeSubmit
    BY <2>11, NativeSubmitEffect
  <2>12. CASE PresentQueueRuns
    BY <2>12, PresentQueueEffect DEF Still
  <2>13. CASE GameQueueRuns
    BY <2>13, GameQueueEffect DEF Still
  <2>14. QED
    BY <1>1, <2>1, <2>2, <2>3, <2>4, <2>5, <2>6, <2>7, <2>8, <2>9, <2>10, <2>11, <2>12, <2>13
<1>2. CASE Toggle \/ LeaseSkips \/ PassRefused \/ RunEnds \/ Creates \/ Drains
           \/ ReleaseEnds \/ CreateFeature \/ Proven \/ ListExecuting \/ NativeSubmit \/ PresentQueueRuns
           \/ GameQueueRuns
  BY <1>1, <1>2 DEF LastKnown
<1>3. CASE DeviceRemoved3
  <2>1. UNCHANGED <<last, held, evaluate, passes, f2>> /\ removed'
    BY <1>3, DeviceEffect
  <2>2. QED
    BY <2>1 DEF LastKnown
<1>4. CASE Presents
  <2>1. UNCHANGED <<held, evaluate, passes, f2, removed>> /\ last' \in {0, last}
    BY <1>4, PresentEffect DEF Presents
  <2>2. QED
    BY <2>1 DEF LastKnown
<1>5. CASE Submits
  <2>1. /\ ~evaluate.leased /\ passes' = passes + 1 /\ UNCHANGED <<evaluate, f2, removed>> /\ ~Pending
        /\ \/ held' = held /\ last' = passes + 1
           \/ held'.pass = passes + 1 /\ last' = last /\ (last = 0 \/ Complete(last))
           \/ held'.pass = 0 /\ last' = last /\ (last = 0 \/ Complete(last))
    BY <1>5, SubmitsEffect, EntersEffect
  <2>2. QED
    BY <2>1 DEF LastKnown, Pending, Complete
<1>6. CASE Begins
  <2>1. /\ UNCHANGED <<last, held, passes, f2, removed>>
        /\ evaluate'.leased = watch.remembered
        /\ watch.remembered => evaluate'.proof = ProofFor(FALSE) /\ evaluate'.last \in {0, last}
    BY <1>6, EvaluateBeginsEffect DEF Begins
  <2>2. held \in HeldPass /\ last \in Nat
    BY DEF MTypes, Calls, Counts
  <2>3. ProofFor(FALSE).pass # 0 => ProofFor(FALSE).pass \in {held.pass, last}
    BY <2>2, ProofForFields DEF HeldPass
  <2>4. QED
    BY <2>1, <2>3 DEF LastKnown
<1>7. CASE EvaluateSteps
  <2>1. /\ UNCHANGED <<last, passes, f2, removed>> /\ evaluate.leased /\ evaluate.at \in {"held", "order", "prove"}
        /\ \/ evaluate'.proof = NoProof /\ evaluate'.last = 0
           \/ evaluate'.proof = evaluate.proof /\ evaluate'.last = evaluate.last
        /\ \/ held' \in {held, NotHeld}
           \/ held' = Expired(evaluate.last) /\ (~removed => ~Complete(evaluate.last))
           \/ held' = Expired(evaluate.proof.pass) /\ (~removed => ~Complete(evaluate.proof.pass))
    <3>1. evaluate.at \in {"held", "order", "prove"} /\ evaluate.leased
      BY <1>7, EvaluateStepsEffect DEF Watched
    <3>2. held \in HeldPass /\ evaluate.proof \in Proof
      BY DEF MTypes, Calls, Call
    <3>3. Lifted(evaluate.proof) \in {held, NotHeld}
      BY DEF Lifted
    <3>4. QED
      BY <1>7, EvaluateStepsEffect, <3>1, <3>3
  <2>2. held \in HeldPass /\ evaluate.last \in Nat /\ evaluate.proof.pass \in Nat /\ NoProof \in Proof
    BY DEF MTypes, Calls, Call, Proof, NoProof
  <2>3. \A p \in Nat : Expired(p).pass = IF held.unfenced THEN held.pass ELSE p
    BY <2>2, HeldFields
  <2>4. held'.pass # 0 => held'.pass = passes \/ removed
    BY <2>1, <2>2, <2>3 DEF LastKnown, NotHeld, Complete
  <2>5. QED
    BY <2>1, <2>4 DEF LastKnown, NoProof
<1>8. CASE CoreCalls
  <2>1. UNCHANGED <<last, held, passes, f2, removed>> /\ evaluate'.last = 0 /\ evaluate'.proof = NoProof
    BY <1>8, EvaluateCallsEffect DEF CoreCalls
  <2>2. QED
    BY <2>1 DEF LastKnown, NoProof
<1>9. CASE EvaluateGone
  <2>1. UNCHANGED <<last, held, passes, f2, removed>> /\ evaluate'.last = 0 /\ evaluate'.proof = NoProof
    BY <1>9, EvaluateGoneEffect
  <2>2. QED
    BY <2>1 DEF LastKnown, NoProof
<1>10. CASE Notes
  <2>1. UNCHANGED <<last, held, passes, f2, removed>> /\ evaluate' = NoEvaluate
    BY <1>10, EvaluateNotedEffect DEF Notes
  <2>2. QED
    BY <2>1 DEF LastKnown, NoEvaluate
<1>11. CASE EvaluateLeaves
  <2>1. UNCHANGED <<last, held, passes, f2, removed>> /\ evaluate' = NoEvaluate
    BY <1>11, EvaluateLeavesEffect
  <2>2. QED
    BY <2>1 DEF LastKnown, NoEvaluate
<1>12. CASE Releases
  <2>1. /\ UNCHANGED <<evaluate, passes, f2, removed>>
        /\ (held' = held /\ last' = last) \/ (held' = NotHeld /\ last' = 0)
    BY <1>12, ReleaseBeginsEffect DEF Releases
  <2>2. QED
    BY <2>1 DEF LastKnown, NotHeld
<1>13. CASE PassRuns
  <2>1. UNCHANGED <<last, held, evaluate, passes, removed>> /\ f2' = privateQ[1].pass /\ 1 \in 1 .. Len(privateQ)
    BY <1>13, PassRunsEffect DEF Still
  <2>2. f2' = f2 + 1 /\ f2 \in Nat
    BY <2>1 DEF Numbered, MTypes, Counts
  <2>3. \A n \in Nat : n <= f2 => n <= f2'
    BY <2>2
  <2>4. last \in Nat /\ evaluate.last \in Nat /\ evaluate.proof.pass \in Nat
    BY DEF MTypes, Counts, Calls, Call, Proof
  <2>5. QED
    BY <2>1, <2>3, <2>4 DEF LastKnown
<1>14. QED
  BY <1>2, <1>3, <1>4, <1>5, <1>6, <1>7, <1>8, <1>9, <1>10, <1>11, <1>12, <1>13 DEF Step

\* ProofFor names a pass that proves what it must.
LEMMA ProofForProves ==
  ASSUME MTypes, Numbered, LastKnown, model \in Used => Known, NEW force \in BOOLEAN
  PROVE  Proves(ProofFor(force))
<1>1. held \in HeldPass /\ last \in Nat
  BY DEF MTypes, Calls, Counts
<1>2. SUFFICES ASSUME model \in Used, ~held.unfenced
               PROVE  ProofFor(force).pass # 0 /\ (ProofFor(force).pass = passes \/ removed)
  BY <1>1, ProofForFields DEF Proves
<1>3. CASE held.pass # 0
  BY <1>1, <1>2, <1>3, ProofForFields DEF LastKnown
<1>4. CASE held.pass = 0
  <2>1. last = passes /\ passes > f2 /\ passes # 0
    BY <1>2, <1>4, NotUsed DEF Known
  <2>2. ~Complete(last)
    BY <2>1 DEF Complete, MTypes, Counts
  <2>3. QED
    BY <1>1, <1>2, <1>4, <2>1, <2>2, ProofForFields
<1>5. QED
  BY <1>3, <1>4

LEMMA CoversKept ==
  ASSUME MTypes, Numbered, Watched, LastKnown, Covers, Step
  PROVE  Covers'
<1>1. ASSUME Toggle \/ LeaseSkips \/ PassRefused \/ RunEnds \/ Drains \/ ListExecuting
             \/ NativeSubmit \/ PresentQueueRuns \/ GameQueueRuns
      PROVE  UNCHANGED <<privateQ, model, release, watch.remembered, held, last, passes, evaluate, removed>>
  <2>1. CASE Toggle
    BY <2>1, ToggleEffect
  <2>2. CASE LeaseSkips
    BY <2>2, LeaseSkipsEffect
  <2>3. CASE PassRefused
    BY <2>3, PassRefusedEffect, EntersEffect
  <2>4. CASE RunEnds
    BY <2>4, PassEndsRunEffect DEF RunEnds
  <2>5. CASE Drains
    BY <2>5, DrainEffect DEF Drains
  <2>6. CASE ListExecuting
    BY <2>6, ListExecutingEffect
  <2>7. CASE NativeSubmit
    BY <2>7, NativeSubmitEffect
  <2>8. CASE PresentQueueRuns
    BY <2>8, PresentQueueEffect DEF Still
  <2>9. CASE GameQueueRuns
    BY <2>9, GameQueueEffect DEF Still
  <2>10. QED
    BY <1>1, <2>1, <2>2, <2>3, <2>4, <2>5, <2>6, <2>7, <2>8, <2>9
<1>2. CASE Toggle \/ LeaseSkips \/ PassRefused \/ RunEnds \/ Drains \/ ListExecuting
           \/ NativeSubmit \/ PresentQueueRuns \/ GameQueueRuns
  BY <1>1, <1>2 DEF Covers, Known, Proves, Used
<1>3. CASE DeviceRemoved3
  <2>1. UNCHANGED <<privateQ, model, release, watch, held, last, passes, evaluate>> /\ removed'
    BY <1>3, DeviceEffect
  <2>2. QED
    BY <2>1 DEF Covers, Known, Proves, Used
<1>4. CASE Presents
  <2>1. /\ UNCHANGED <<privateQ, model, release, held, passes, evaluate, removed>> /\ watch'.remembered = watch.remembered
        /\ last' = last \/ Complete(last)
    BY <1>4, PresentEffect DEF Presents
  <2>2. last \in Nat /\ (Complete(last) /\ last = passes => Used = {})
    BY Finished DEF MTypes, Counts
  <2>3. Used' = Used
    BY <2>1 DEF Used
  <2>4. model \in Used /\ Known => Known'
    BY <2>1, <2>2 DEF Known
  <2>5. QED
    BY <2>1, <2>3, <2>4 DEF Covers, Proves
<1>5. CASE Creates
  <2>1. /\ UNCHANGED <<privateQ, release, held, last, passes, evaluate, removed>> /\ model' = 0
        /\ watch'.remembered = watch.remembered
    BY <1>5, PassCreatesEffect, EntersEffect DEF Creates
  <2>2. QED
    BY <2>1, NotUsed DEF Covers, Known, Proves, Used
<1>6. CASE Submits
  <2>1. /\ UNCHANGED <<model, release, evaluate, removed>> /\ ~evaluate.leased /\ begun
        /\ watch'.remembered = watch.remembered /\ passes' = passes + 1
        /\ \/ last' = passes + 1
           \/ held'.pass = passes + 1
           \/ held'.unfenced
    BY <1>6, SubmitsEffect, EntersEffect
  <2>2. passes + 1 # 0
    BY DEF MTypes, Counts
  <2>3. watch.remembered /\ evaluate.at = "out" /\ release.at = "out"
    BY <2>1 DEF Watched
  <2>4. QED
    BY <2>1, <2>2, <2>3 DEF Covers, Known
<1>7. CASE Begins
  <2>1. /\ UNCHANGED <<privateQ, model, release, held, last, passes, removed>> /\ release.at = "out"
        /\ watch'.remembered = watch.remembered
        /\ watch.remembered => /\ evaluate'.proof = ProofFor(FALSE)
                               /\ evaluate'.at = "held" => evaluate'.proof.outstanding /\ ~evaluate'.proof.wait
                               /\ evaluate'.at = "order" => ~(evaluate'.proof.outstanding /\ ~evaluate'.proof.wait)
                               /\ evaluate'.at = "call" => ~Needed(evaluate'.proof)
                               /\ evaluate'.at = "order" => evaluate'.last # 0
        /\ ~watch.remembered => evaluate'.at \in {"call", "leave"}
        /\ evaluate'.leased = watch.remembered
    BY <1>7, EvaluateBeginsEffect DEF Begins
  <2>2. Used' = Used
    BY <2>1 DEF Used
  <2>3. CASE watch.remembered
    <3>1. Proves(ProofFor(FALSE))
      BY <2>1, ProofForProves DEF Covers
    <3>2. model \in Used => Needed(ProofFor(FALSE))
      BY <3>1 DEF Proves, Needed
    <3>3. held \in HeldPass /\ last \in Nat
      BY DEF MTypes, Calls, Counts
    <3>4. ProofFor(FALSE).outstanding => ~ProofFor(FALSE).unfenced
      BY <3>3, ProofForFields DEF HeldPass
    <3>5. QED
      BY <2>1, <2>2, <2>3, <3>1, <3>2, <3>4 DEF Covers, Known, Proves
  <2>4. CASE ~watch.remembered
    BY <2>1, <2>2, <2>4 DEF Covers, Known, Proves
  <2>5. QED
    BY <2>3, <2>4
<1>8. CASE EvaluateSteps
  <2>1. /\ UNCHANGED <<privateQ, model, release, watch, last, passes, removed>>
        /\ evaluate.at \in {"held", "order", "prove"}
    BY <1>8, EvaluateStepsEffect
  <2>2. Used' = Used /\ evaluate.leased /\ Proves(evaluate.proof)
    BY <2>1 DEF Used, Watched, Covers
  <2>3. held \in HeldPass /\ evaluate.last \in Nat /\ evaluate.proof.pass \in Nat /\ NoProof \in Proof
    BY DEF MTypes, Calls, Call, Proof, NoProof
  <2>4. CASE /\ evaluate'.at = "leave"
             /\ \/ held' = held
                \/ evaluate.at = "order" /\ held' = Expired(evaluate.last)
                \/ /\ evaluate.at # "order" /\ held' = Expired(evaluate.proof.pass)
                   /\ evaluate.at = "prove" => ~evaluate.proof.unfenced
    <3>1. \A p \in Nat : /\ Expired(p).unfenced = held.unfenced
                         /\ Expired(p).pass = IF held.unfenced THEN held.pass ELSE p
      BY <2>3, HeldFields
    <3>2. model \in Used /\ Known => Known'
      BY <2>1, <2>2, <2>3, <2>4, <3>1 DEF Covers, Known, Proves
    <3>3. QED
      BY <2>1, <2>2, <2>4, <3>2 DEF Covers, Proves
  <2>5. CASE /\ evaluate'.proof = evaluate.proof /\ evaluate'.last = evaluate.last
             /\ evaluate.at = "order" /\ held' = held /\ evaluate'.at = AfterOrder
    BY <2>1, <2>2, <2>5 DEF Covers, Known, Proves, AfterOrder, Needed
  <2>6. CASE /\ evaluate'.proof = evaluate.proof /\ evaluate'.last = evaluate.last
             /\ evaluate.at \in {"held", "prove"} /\ Complete(evaluate.proof.pass)
             /\ (evaluate.at = "prove" => ~evaluate.proof.unfenced)
             /\ evaluate'.at \in {"order", "call"} /\ (evaluate'.at = "order" => evaluate.last # 0)
    <3>1. evaluate.at = "held" => ~evaluate.proof.unfenced
      BY DEF Covers
    <3>2. model \notin Used
      BY <2>2, <2>3, <2>6, <3>1, Finished DEF Proves
    <3>3. QED
      BY <2>1, <2>2, <2>6, <3>2 DEF Covers, Proves
  <2>7. QED
    BY <1>8, <2>4, <2>5, <2>6, EvaluateStepsEffect
<1>9. CASE CoreCalls
  <2>1. /\ UNCHANGED <<privateQ, release>> /\ evaluate.at = "call" /\ evaluate'.at = "note" /\ model' \in {model, made + 1}
    BY <1>9, EvaluateCallsEffect DEF CoreCalls
  <2>2. Used' = Used /\ model' \notin Used
    BY <2>1, NotUsed DEF Used, Covers
  <2>3. QED
    BY <2>1, <2>2 DEF Covers, Proves
<1>10. CASE EvaluateGone
  <2>1. /\ UNCHANGED <<privateQ, model, release, watch, held, last, passes, removed>>
        /\ evaluate'.at = "leave"
    BY <1>10, EvaluateGoneEffect
  <2>2. QED
    BY <2>1 DEF Covers, Known, Proves, Used
<1>11. CASE Notes
  <2>1. /\ UNCHANGED <<privateQ, model, release, held, last, passes, removed>> /\ evaluate' = NoEvaluate
        /\ watch.remembered => watch'.remembered
    BY <1>11, EvaluateNotedEffect DEF Notes
  <2>2. QED
    BY <2>1 DEF Covers, Known, Proves, Used, NoEvaluate
<1>12. CASE EvaluateLeaves
  <2>1. /\ UNCHANGED <<privateQ, model, release, watch, held, last, passes, removed>>
        /\ evaluate' = NoEvaluate
    BY <1>12, EvaluateLeavesEffect
  <2>2. QED
    BY <2>1 DEF Covers, Known, Proves, Used, NoEvaluate
<1>13. CASE Releases
  <2>1. /\ UNCHANGED <<privateQ, model, passes, evaluate, removed>> /\ release.at = "out"
        /\ watch.remembered => release'.at = "prove" /\ release'.proof = ProofFor(TRUE)
        /\ ~watch.remembered => release'.at = "core"
    BY <1>13, ReleaseBeginsEffect DEF Releases
  <2>2. Used' = Used
    BY <2>1 DEF Used
  <2>3. Proves(ProofFor(TRUE))
    BY <2>1, ProofForProves DEF Covers
  <2>4. QED
    BY <2>1, <2>2, <2>3 DEF Covers, Proves
<1>14. CASE Proven
  <2>1. /\ UNCHANGED <<privateQ, model, watch, held, last, passes, evaluate, removed>> /\ release.at = "prove"
        /\ release'.at \in {"keep", "core"}
        /\ release'.at = "core" => ~release.proof.unfenced /\ (release.proof.pass # 0 => Complete(release.proof.pass))
    BY <1>14, ReleaseProvesEffect DEF Proven, ReleaseProven
  <2>2. Used' = Used
    BY <2>1 DEF Used
  <2>3. release.proof.pass \in Nat
    BY DEF MTypes, Calls, ReleaseCall, Proof
  <2>4. release'.at = "core" => model \notin Used
    BY <2>1, <2>3, Finished DEF Covers, Proves
  <2>5. QED
    BY <2>1, <2>2, <2>4 DEF Covers, Known, Proves
<1>15. CASE ReleaseEnds
  <2>1. UNCHANGED <<privateQ, held, last, passes, evaluate, removed>> /\ model' = 0 /\ release'.at = "out"
    BY <1>15, ReleaseEndsEffect
  <2>2. QED
    BY <2>1, NotUsed DEF Covers, Known, Proves, Used
<1>16. CASE CreateFeature
  <2>1. UNCHANGED <<privateQ, evaluate, release>> /\ evaluate.at = "out" /\ model' = made + 1
    BY <1>16, CreateFeatureEffect
  <2>2. Used' = Used /\ model' \notin Used
    BY <2>1, NotUsed DEF Used
  <2>3. QED
    BY <2>1, <2>2 DEF Covers, Proves
<1>17. CASE PassRuns
  <2>1. UNCHANGED <<model, release, watch, held, last, passes, evaluate, removed>>
    BY <1>17, PassRunsEffect DEF Still
  <2>2. Used' \subseteq Used
    BY <1>17, PassRunsUses
  <2>3. QED
    BY <2>1, <2>2 DEF Covers, Known, Proves
<1>18. QED
  BY <1>2, <1>3, <1>4, <1>5, <1>6, <1>7, <1>8, <1>9, <1>10, <1>11, <1>12, <1>13, <1>14, <1>15, <1>16, <1>17 DEF Step

LEMMA AliveKept ==
  ASSUME MTypes, Numbered, Covers, Alive, Step
  PROVE  Alive'
<1>1. ASSUME Toggle \/ DeviceRemoved3 \/ Presents \/ LeaseSkips \/ PassRefused \/ RunEnds
             \/ Drains \/ Begins \/ EvaluateSteps \/ EvaluateGone \/ Notes \/ EvaluateLeaves
             \/ Releases \/ Proven \/ ListExecuting \/ NativeSubmit \/ PresentQueueRuns \/ GameQueueRuns
      PROVE  UNCHANGED <<privateQ, model, alive>>
  <2>1. CASE Toggle
    BY <2>1, ToggleEffect
  <2>2. CASE DeviceRemoved3
    BY <2>2, DeviceEffect
  <2>3. CASE Presents
    BY <2>3, PresentEffect DEF Presents
  <2>4. CASE LeaseSkips
    BY <2>4, LeaseSkipsEffect
  <2>5. CASE PassRefused
    BY <2>5, PassRefusedEffect, EntersEffect
  <2>6. CASE RunEnds
    BY <2>6, PassEndsRunEffect DEF RunEnds
  <2>7. CASE Drains
    BY <2>7, DrainEffect DEF Drains
  <2>8. CASE Begins
    BY <2>8, EvaluateBeginsEffect DEF Begins
  <2>9. CASE EvaluateSteps
    BY <2>9, EvaluateStepsEffect
  <2>10. CASE EvaluateGone
    BY <2>10, EvaluateGoneEffect
  <2>11. CASE Notes
    BY <2>11, EvaluateNotedEffect DEF Notes
  <2>12. CASE EvaluateLeaves
    BY <2>12, EvaluateLeavesEffect
  <2>13. CASE Releases
    BY <2>13, ReleaseBeginsEffect DEF Releases
  <2>14. CASE Proven
    BY <2>14, ReleaseProvesEffect DEF Proven
  <2>15. CASE ListExecuting
    BY <2>15, ListExecutingEffect
  <2>16. CASE NativeSubmit
    BY <2>16, NativeSubmitEffect
  <2>17. CASE PresentQueueRuns
    BY <2>17, PresentQueueEffect DEF Still
  <2>18. CASE GameQueueRuns
    BY <2>18, GameQueueEffect DEF Still
  <2>19. QED
    BY <1>1, <2>1, <2>2, <2>3, <2>4, <2>5, <2>6, <2>7, <2>8, <2>9, <2>10, <2>11, <2>12, <2>13, <2>14, <2>15,
       <2>16, <2>17, <2>18
<1>2. CASE Toggle \/ DeviceRemoved3 \/ Presents \/ LeaseSkips \/ PassRefused \/ RunEnds
           \/ Drains \/ Begins \/ EvaluateSteps \/ EvaluateGone \/ Notes \/ EvaluateLeaves
           \/ Releases \/ Proven \/ ListExecuting \/ NativeSubmit \/ PresentQueueRuns \/ GameQueueRuns
  BY <1>1, <1>2 DEF Alive, Used
<1>3. CASE Creates
  <2>1. UNCHANGED privateQ /\ model' = 0 /\ alive' = alive \ {model} /\ Complete(passes)
    BY <1>3, PassCreatesEffect DEF Creates, CoreFree
  <2>2. Used = {} /\ Used' = Used
    BY <2>1, Finished DEF Used, MTypes, Counts
  <2>3. QED
    BY <2>1, <2>2 DEF Alive
<1>4. CASE Submits
  <2>1. UNCHANGED <<model, alive>> /\ model # 0
    BY <1>4, SubmitsEffect
  <2>2. Used' = Used \cup {model}
    BY <1>4, SubmitsUses
  <2>3. QED
    BY <2>1, <2>2 DEF Alive
<1>5. CASE CoreCalls
  <2>1. /\ UNCHANGED privateQ /\ evaluate.at = "call"
        /\ \/ model' = model /\ alive' = alive
           \/ model' = made + 1 /\ alive' = (alive \ {model}) \cup {made + 1}
    BY <1>5, EvaluateCallsEffect DEF CoreCalls
  <2>2. Used' = Used /\ model \notin Used
    BY <2>1 DEF Used, Covers
  <2>3. QED
    BY <2>1, <2>2 DEF Alive
<1>6. CASE ReleaseEnds
  <2>1. /\ UNCHANGED privateQ /\ model' = 0
        /\ alive' = IF release.at = "core" THEN alive \ {model} ELSE alive
    BY <1>6, ReleaseEndsEffect
  <2>2. Used' = Used /\ (release.at = "core" => model \notin Used)
    BY <2>1 DEF Used, Covers
  <2>3. QED
    BY <2>1, <2>2 DEF Alive
<1>7. CASE CreateFeature
  <2>1. UNCHANGED privateQ /\ model' = made + 1 /\ alive' = alive \cup {made + 1}
    BY <1>7, CreateFeatureEffect
  <2>2. Used' = Used
    BY <2>1 DEF Used
  <2>3. QED
    BY <2>1, <2>2 DEF Alive
<1>8. CASE PassRuns
  <2>1. UNCHANGED <<model, alive>>
    BY <1>8, PassRunsEffect DEF Still
  <2>2. Used' \subseteq Used
    BY <1>8, PassRunsUses
  <2>3. QED
    BY <2>1, <2>2 DEF Alive
<1>9. QED
  BY <1>2, <1>3, <1>4, <1>5, <1>6, <1>7, <1>8 DEF Step

\* No pass is submitted while one is held, and none runs behind one whose f2 failed.
NoSurprise == "reenter" \notin Surprises /\ "overlap" \notin Surprises
\* The second layer.
Cover == Base /\ LastKnown /\ Covers /\ Alive

LEMMA CoverInit ==
  ASSUME MInit
  PROVE  Cover
<1>1. Base
  BY BaseInit
<1>2. /\ Used = {} /\ last = 0 /\ held.pass = 0 /\ evaluate.at = "out" /\ ~evaluate.leased /\ release.at = "out"
      /\ model \in alive
  BY DEF MInit, Used, NotHeld, NoEvaluate
<1>3. QED
  BY <1>1, <1>2 DEF Cover, LastKnown, Covers, Alive

LEMMA CoverStep ==
  ASSUME NoSurprise, Cover, [MNext]_mvars
  PROVE  Cover'
<1>1. Base'
  BY BaseStep DEF Cover
<1>2. CASE MNext
  <2>1. MTypes /\ Numbered /\ Watched /\ LastKnown /\ Covers /\ Alive /\ Step
    BY <1>2, Steps DEF Cover, Base
  <2>2. QED
    BY <1>1, <2>1, LastKnownKept, CoversKept, AliveKept DEF Cover, NoSurprise
<1>3. CASE UNCHANGED mvars
  <2> USE <1>3 DEF mvars, user, pipeline, queues3, core3
  <2>1. Used' = Used /\ LastKnown'
    BY DEF Used, Cover, LastKnown
  <2>2. Covers' /\ Alive'
    BY <2>1 DEF Cover, Covers, Known, Proves, Alive
  <2>3. QED
    BY <1>1, <2>1, <2>2 DEF Cover
<1>4. QED
  BY <1>2, <1>3

\* No model is freed under a pass that uses it, by an evaluate that makes it anew, a menu frame whose core
\* wants another, or the feature's release; the late submit and the straddling evaluate change nothing.
THEOREM NoModelFreed ==
  ASSUME "reenter" \notin Surprises, "overlap" \notin Surprises
  PROVE  MSpec => []ModelKept
<1>1. NoSurprise
  BY DEF NoSurprise
<1>2. MInit => Cover
  BY CoverInit
<1>3. Cover /\ [MNext]_mvars => Cover'
  BY <1>1, CoverStep
<1>4. Cover => ModelKept
  <2>1. ASSUME Cover
        PROVE  \A i \in DOMAIN privateQ : privateQ[i].model \in alive
    <3>1. DOMAIN privateQ = 1 .. Len(privateQ)
      BY <2>1 DEF Cover, Base, MTypes, Queues3
    <3>2. QED
      BY <2>1, <3>1 DEF Cover, Alive, Used
  <2>2. QED
    BY <2>1 DEF ModelKept
<1>5. QED
  BY <1>2, <1>3, <1>4, PTL DEF MSpec

\* At the core's call no pass uses the model: ruling A of the menu pipeline.  With "reenter" the run menu_reenter
\* shows the assumption is needed.
THEOREM ProvenFirst ==
  ASSUME "reenter" \notin Surprises, "overlap" \notin Surprises
  PROVE  MSpec => []ProvenBeforeCall
<1>1. NoSurprise
  BY DEF NoSurprise
<1>2. MInit => Cover
  BY CoverInit
<1>3. Cover /\ [MNext]_mvars => Cover'
  BY <1>1, CoverStep
<1>4. Cover => ProvenBeforeCall
  <2>1. ASSUME Cover, evaluate.at = "call"
        PROVE  \A i \in DOMAIN privateQ : privateQ[i].model # model
    <3>1. DOMAIN privateQ = 1 .. Len(privateQ)
      BY <2>1 DEF Cover, Base, MTypes, Queues3
    <3>2. QED
      BY <2>1, <3>1 DEF Cover, Covers, Used
  <2>2. QED
    BY <2>1 DEF ProvenBeforeCall
<1>5. QED
  BY <1>2, <1>3, <1>4, PTL DEF MSpec

-----------------------------------------------------------------------------
(* The order of a pass and of the game's lists of the same model.          *)

\* A present never lets a pass in on a snapshot that the checkbox has withdrawn.
Checked ==
  /\ ~checkbox /\ ~machine.enabled => watch.snapshot = 0
  /\ evaluate.tagged => checkbox \/ machine.enabled
  /\ evaluate.at # "out" /\ ~evaluate.tagged /\ ~(machine.enabled /\ ~checkbox) /\ watch.remembered =>
       watch.snapshot = 0

\* The game's list of its model now is on its way.
Submitting == list.at # "none" /\ list.model = model /\ model # 0

\* A present in progress, or one to come, may submit a pass.
Admits == watch.remembered /\ watch.snapshot # 0 /\ (begun \/ ~(machine.enabled /\ ~checkbox))

\* While it is, a run's entry waits for it.
EntryKnows ==
  Submitting /\ evaluate.at = "out" /\ Admits =>
    /\ list.at = "recorded" => ~seen.observed
    /\ list.at = "executing" => ~seen.observed \/ seen.fresh
    /\ machine.active => watch.order

\* Once the run has entered, its passes wait for every list of the game's.
GateKnown == separate /\ machine.active /\ ~watch.order => gate = lists

\* A list on its way to the queue is of no pass's model.
Apart == list.at # "none" /\ list.model # 0 => list.model \notin Used

\* Before a list of model `m` the queue has nothing that lets what waits for `bound` run.
ListBehind(q, fence, op, bound, m) ==
  \A k \in 1 .. Len(q) : q[k].op = "list" /\ q[k].value = m =>
    fence < bound /\ \A j \in 1 .. k - 1 : q[j].op = op => q[j].value < bound

\* On the present queue the capture of each pass is behind the lists of its model.
Captured == \A i \in 1 .. Len(privateQ) : ListBehind(presentQ, f1, "capture", privateQ[i].pass, privateQ[i].model)

\* On the game's queue so is the entry signal of each pass, and of one to come.
Gated ==
  /\ \A i \in 1 .. Len(privateQ) : ListBehind(gameQ, entry, "entry", privateQ[i].entry, privateQ[i].model)
  /\ model # 0 => ListBehind(gameQ, entry, "entry", lists, model)

\* A list on its way is behind no entry signal that names it.
EntryOpen ==
  Submitting => entry < lists /\ \A j \in 1 .. Len(gameQ) : gameQ[j].op = "entry" => gameQ[j].value < lists

\* What joins a queue, and what leaves it, keeps a list behind what it is behind of.
LEMMA BehindAppended ==
  ASSUME NEW q \in Seq(Entry), NEW e \in Entry, NEW fence \in Nat, NEW op, NEW bound \in Nat, NEW m,
         ListBehind(q, fence, op, bound, m),
         e.op = "list" /\ e.value = m =>
           fence < bound /\ \A j \in 1 .. Len(q) : q[j].op = op => q[j].value < bound
  PROVE  ListBehind(Append(q, e), fence, op, bound, m)
<1> DEFINE r == Append(q, e)
<1>1. /\ Len(r) = Len(q) + 1 /\ Len(q) \in Nat /\ r[Len(q) + 1] = e
      /\ \A i \in 1 .. Len(q) : r[i] = q[i]
      /\ \A i \in 1 .. Len(q) + 1 : i \in 1 .. Len(q) \/ i = Len(q) + 1
  BY Appended
<1> HIDE DEF r
<1>2. SUFFICES ASSUME NEW k \in 1 .. Len(r), r[k].op = "list", r[k].value = m
               PROVE  fence < bound /\ \A j \in 1 .. k - 1 : r[j].op = op => r[j].value < bound
  BY DEF ListBehind, r
<1>3. CASE k \in 1 .. Len(q)
  <2>1. fence < bound /\ \A j \in 1 .. k - 1 : q[j].op = op => q[j].value < bound
    BY <1>1, <1>2, <1>3 DEF ListBehind
  <2>2. \A j \in 1 .. k - 1 : j \in 1 .. Len(q)
    BY <1>1, <1>3
  <2>3. QED
    BY <1>1, <2>1, <2>2
<1>4. CASE k = Len(q) + 1
  <2>1. 1 .. k - 1 = 1 .. Len(q) /\ r[k] = e
    BY <1>1, <1>4
  <2>2. QED
    BY <1>1, <1>2, <2>1
<1>5. QED
  BY <1>1, <1>3, <1>4

LEMMA BehindTail ==
  ASSUME NEW q \in Seq(Entry), q # <<>>, NEW fence \in Nat, NEW after \in Nat, NEW op, op # "list", NEW bound \in Nat, NEW m,
         after = IF q[1].op = op THEN q[1].value ELSE fence,
         ListBehind(q, fence, op, bound, m)
  PROVE  ListBehind(Tail(q), after, op, bound, m)
<1> DEFINE r == Tail(q)
<1>1. /\ Len(r) = Len(q) - 1 /\ Len(q) \in Nat /\ Len(q) > 0
      /\ \A i \in 1 .. Len(r) : r[i] = q[i + 1] /\ i + 1 \in 1 .. Len(q)
  BY Removed
<1> HIDE DEF r
<1>2. SUFFICES ASSUME NEW k \in 1 .. Len(r), r[k].op = "list", r[k].value = m
               PROVE  after < bound /\ \A j \in 1 .. k - 1 : r[j].op = op => r[j].value < bound
  BY DEF ListBehind, r
<1>3. k + 1 \in 1 .. Len(q) /\ q[k + 1].op = "list" /\ q[k + 1].value = m
  BY <1>1, <1>2
<1>4. fence < bound /\ \A j \in 1 .. (k + 1) - 1 : q[j].op = op => q[j].value < bound
  BY <1>3 DEF ListBehind
<1>5. 1 \in 1 .. (k + 1) - 1 /\ \A j \in 1 .. k - 1 : j + 1 \in 1 .. (k + 1) - 1 /\ j \in 1 .. Len(r)
  BY <1>1, <1>2
<1>6. after < bound
  BY <1>4, <1>5
<1>7. QED
  BY <1>1, <1>4, <1>5, <1>6

\* A first pass is not submitted while a list of the model is on its way.
LEMMA EntersAlone ==
  ASSUME MTypes, Watched, EntryKnows, begun, Enters
  PROVE  /\ ~Submitting /\ evaluate.at = "out" /\ machine.active /\ watch.remembered
         /\ watch.order /\ separate => gate' = lists
         /\ ~(watch.order /\ separate) => gate' = gate
<1>1. /\ ~evaluate.leased /\ (watch.order /\ seen.list => seen.observed /\ ~seen.fresh)
      /\ gate' = IF watch.order /\ separate /\ seen.list THEN lists ELSE gate
  BY EntersEffect
<1>2. evaluate.at = "out" /\ machine.active /\ watch.remembered /\ watch.snapshot # 0 /\ seen.list
  BY <1>1 DEF Watched
<1>3. list.at \in {"none", "recorded", "executing"}
  BY DEF MTypes, Calls, GameList
<1>4. ~Submitting
  BY <1>1, <1>2, <1>3 DEF EntryKnows, Admits, Submitting
<1>5. QED
  BY <1>1, <1>2, <1>4

LEMMA CheckedKept ==
  ASSUME MTypes, Watched, Checked, "straddle" \notin Surprises, Step
  PROVE  Checked'
<1>1. ASSUME DeviceRemoved3 \/ LeaseSkips \/ PassRefused \/ RunEnds \/ Creates \/ Drains
             \/ Proven \/ ReleaseEnds \/ CreateFeature \/ ListExecuting \/ NativeSubmit \/ PresentQueueRuns
             \/ GameQueueRuns \/ PassRuns
      PROVE  UNCHANGED <<checkbox, machine.enabled, watch.remembered, watch.snapshot, evaluate>>
  <2>1. CASE DeviceRemoved3
    BY <2>1, DeviceEffect
  <2>2. CASE LeaseSkips
    BY <2>2, LeaseSkipsEffect
  <2>3. CASE PassRefused
    BY <2>3, PassRefusedEffect, EntersEffect
  <2>4. CASE RunEnds
    BY <2>4, PassEndsRunEffect DEF RunEnds
  <2>5. CASE Creates
    BY <2>5, PassCreatesEffect, EntersEffect DEF Creates
  <2>6. CASE Drains
    BY <2>6, DrainEffect DEF Drains
  <2>7. CASE Proven
    BY <2>7, ReleaseProvesEffect DEF Proven
  <2>8. CASE ReleaseEnds
    BY <2>8, ReleaseEndsEffect
  <2>9. CASE CreateFeature
    BY <2>9, CreateFeatureEffect
  <2>10. CASE ListExecuting
    BY <2>10, ListExecutingEffect
  <2>11. CASE NativeSubmit
    BY <2>11, NativeSubmitEffect
  <2>12. CASE PresentQueueRuns
    BY <2>12, PresentQueueEffect DEF Still
  <2>13. CASE GameQueueRuns
    BY <2>13, GameQueueEffect DEF Still
  <2>14. CASE PassRuns
    BY <2>14, PassRunsEffect DEF Still
  <2>15. QED
    BY <1>1, <2>1, <2>2, <2>3, <2>4, <2>5, <2>6, <2>7, <2>8, <2>9, <2>10, <2>11, <2>12, <2>13, <2>14
<1>2. CASE DeviceRemoved3 \/ LeaseSkips \/ PassRefused \/ RunEnds \/ Creates \/ Drains
           \/ Proven \/ ReleaseEnds \/ CreateFeature \/ ListExecuting \/ NativeSubmit \/ PresentQueueRuns
           \/ GameQueueRuns \/ PassRuns
  BY <1>1, <1>2 DEF Checked
<1>3. CASE Toggle
  <2>1. /\ checkbox' = ~checkbox /\ checkbox = machine.enabled
        /\ UNCHANGED <<machine, watch, evaluate>>
    BY <1>3, ToggleEffect
  <2>2. QED
    BY <2>1 DEF Checked, MTypes, Flags
<1>4. CASE Presents
  <2>1. /\ UNCHANGED <<checkbox, evaluate>> /\ machine'.enabled = checkbox /\ watch'.remembered = watch.remembered
        /\ watch'.snapshot = IF machine.enabled /\ ~checkbox THEN 0 ELSE watch.snapshot
        /\ machine.enabled /\ ~checkbox => ~evaluate.tagged
    BY <1>4, PresentEffect DEF Presents
  <2>2. QED
    BY <2>1 DEF Checked
<1>5. CASE Submits
  <2>1. /\ UNCHANGED <<checkbox, evaluate>> /\ machine'.enabled = machine.enabled
        /\ watch'.remembered = watch.remembered /\ watch'.snapshot = watch.snapshot
    BY <1>5, SubmitsEffect, EntersEffect
  <2>2. QED
    BY <2>1 DEF Checked
<1>6. CASE Begins
  <2>1. /\ evaluate'.tagged = checkbox /\ checkbox' = checkbox /\ machine'.enabled = machine.enabled
        /\ watch'.remembered = watch.remembered /\ watch'.snapshot = watch.snapshot
    BY <1>6, EvaluateBeginsEffect DEF Begins
  <2>2. QED
    BY <2>1 DEF Checked
<1>7. CASE EvaluateSteps
  <2>1. /\ UNCHANGED <<checkbox, watch>> /\ machine'.enabled = machine.enabled /\ evaluate'.tagged = evaluate.tagged
        /\ evaluate.at # "out"
    BY <1>7, EvaluateStepsEffect
  <2>2. QED
    BY <2>1 DEF Checked
<1>8. CASE CoreCalls
  <2>1. /\ UNCHANGED <<checkbox, watch, machine>> /\ evaluate'.tagged = evaluate.tagged /\ evaluate.at # "out"
    BY <1>8, EvaluateCallsEffect DEF CoreCalls
  <2>2. QED
    BY <2>1 DEF Checked
<1>9. CASE EvaluateGone
  <2>1. /\ UNCHANGED <<checkbox, watch, machine>> /\ evaluate'.tagged = evaluate.tagged /\ evaluate.at # "out"
    BY <1>9, EvaluateGoneEffect
  <2>2. QED
    BY <2>1 DEF Checked
<1>10. CASE Notes
  <2>1. /\ evaluate' = NoEvaluate /\ checkbox' = checkbox /\ machine'.enabled = machine.enabled
        /\ watch'.snapshot # 0 => watch'.snapshot = watch.snapshot \/ evaluate.tagged
    BY <1>10, EvaluateNotedEffect DEF Notes, Noticed
  <2>2. QED
    BY <2>1 DEF Checked, NoEvaluate
<1>11. CASE EvaluateLeaves
  <2>1. /\ evaluate' = NoEvaluate /\ UNCHANGED <<checkbox, watch>> /\ machine'.enabled = machine.enabled
    BY <1>11, EvaluateLeavesEffect
  <2>2. QED
    BY <2>1 DEF Checked, NoEvaluate
<1>12. CASE Releases
  <2>1. /\ UNCHANGED <<checkbox, evaluate>> /\ machine'.enabled = machine.enabled
        /\ watch' = watch \/ (watch'.snapshot = 0 /\ ~watch'.remembered)
    BY <1>12, ReleaseBeginsEffect DEF Releases
  <2>2. QED
    BY <2>1 DEF Checked
<1>13. QED
  BY <1>2, <1>3, <1>4, <1>5, <1>6, <1>7, <1>8, <1>9, <1>10, <1>11, <1>12 DEF Step

LEMMA EntryKnowsKept ==
  ASSUME MTypes, Numbered, Watched, Checked, EntryKnows, "late" \notin Surprises, Step
  PROVE  EntryKnows'
<1>1. ASSUME DeviceRemoved3 \/ PresentQueueRuns \/ GameQueueRuns \/ PassRuns
      PROVE  UNCHANGED <<list, model, evaluate, watch, begun, machine, checkbox, seen>>
  <2>1. CASE DeviceRemoved3
    BY <2>1, DeviceEffect
  <2>2. CASE PresentQueueRuns
    BY <2>2, PresentQueueEffect DEF Still
  <2>3. CASE GameQueueRuns
    BY <2>3, GameQueueEffect DEF Still
  <2>4. CASE PassRuns
    BY <2>4, PassRunsEffect DEF Still
  <2>5. QED
    BY <1>1, <2>1, <2>2, <2>3, <2>4
<1>2. CASE DeviceRemoved3 \/ PresentQueueRuns \/ GameQueueRuns \/ PassRuns
  BY <1>1, <1>2 DEF EntryKnows, Submitting, Admits
<1>3. CASE Toggle
  <2>1. /\ checkbox' = ~checkbox /\ checkbox = machine.enabled
        /\ UNCHANGED <<list, model, evaluate, watch, begun, machine, seen>>
    BY <1>3, ToggleEffect
  <2>2. QED
    BY <2>1 DEF EntryKnows, Submitting, Admits, Checked, MTypes, Flags
<1>4. CASE Presents
  <2>1. /\ UNCHANGED <<list, model, evaluate, checkbox>> /\ machine'.enabled = checkbox /\ watch'.remembered = watch.remembered
        /\ watch'.snapshot = IF machine.enabled /\ ~checkbox THEN 0 ELSE watch.snapshot
        /\ seen'.observed = seen.observed /\ list.at # "executing"
        /\ machine'.active => watch'.order \/ (machine.active /\ watch'.order = watch.order)
    BY <1>4, PresentEffect DEF Presents
  <2>2. QED
    BY <2>1 DEF EntryKnows, Submitting, Admits
<1>5. CASE LeaseSkips
  <2>1. evaluate.leased /\ UNCHANGED evaluate
    BY <1>5, LeaseSkipsEffect
  <2>2. QED
    BY <2>1 DEF EntryKnows, Submitting, Admits, Watched
<1>6. CASE PassRefused
  <2>1. ~Submitting
    BY <1>6, EntersAlone, PassRefusedEffect
  <2>2. UNCHANGED <<list, model>>
    BY <1>6, PassRefusedEffect
  <2>3. QED
    BY <2>1, <2>2 DEF EntryKnows, Submitting
<1>7. CASE RunEnds
  <2>1. /\ UNCHANGED <<list, model, evaluate, checkbox, seen>> /\ ~machine'.active /\ machine'.enabled = machine.enabled
        /\ watch'.remembered = watch.remembered /\ watch'.snapshot = watch.snapshot /\ ~begun'
    BY <1>7, PassEndsRunEffect DEF RunEnds
  <2>2. QED
    BY <2>1 DEF EntryKnows, Submitting, Admits
<1>8. CASE Creates
  <2>1. model' = 0
    BY <1>8, PassCreatesEffect, EntersEffect DEF Creates
  <2>2. QED
    BY <2>1 DEF EntryKnows, Submitting, Admits
<1>9. CASE Submits
  <2>1. ~Submitting
    BY <1>9, EntersAlone, SubmitsEffect
  <2>2. UNCHANGED <<list, model>>
    BY <1>9, SubmitsEffect
  <2>3. QED
    BY <2>1, <2>2 DEF EntryKnows, Submitting
<1>10. CASE Drains
  <2>1. /\ UNCHANGED <<list, model, evaluate, checkbox, seen, begun>> /\ machine'.enabled = machine.enabled
        /\ watch'.remembered = watch.remembered /\ watch'.snapshot = watch.snapshot
        /\ machine'.active => machine.active /\ watch'.order = watch.order
    BY <1>10, DrainEffect DEF Drains
  <2>2. QED
    BY <2>1 DEF EntryKnows, Submitting, Admits
<1>11. CASE Begins
  <2>1. evaluate'.at # "out"
    BY <1>11, EvaluateBeginsEffect DEF Begins
  <2>2. QED
    BY <2>1 DEF EntryKnows, Submitting, Admits
<1>12. CASE EvaluateSteps
  <2>1. evaluate'.at # "out"
    BY <1>12, EvaluateStepsEffect DEF AfterOrder
  <2>2. QED
    BY <2>1 DEF EntryKnows, Submitting, Admits
<1>13. CASE CoreCalls
  <2>1. evaluate'.at # "out"
    BY <1>13, EvaluateCallsEffect DEF CoreCalls
  <2>2. QED
    BY <2>1 DEF EntryKnows, Submitting, Admits
<1>14. CASE EvaluateGone
  <2>1. evaluate'.at # "out"
    BY <1>14, EvaluateGoneEffect
  <2>2. QED
    BY <2>1 DEF EntryKnows, Submitting, Admits
<1>15. CASE Notes
  <2>1. /\ evaluate.at = "note" /\ ~begun /\ begun' = begun /\ UNCHANGED <<model, checkbox, release, feature>>
        /\ watch'.remembered = (watch.remembered \/ Noticed) /\ watch'.order = watch.order
        /\ watch'.snapshot # 0 => watch'.snapshot = watch.snapshot \/ Noticed
        /\ Noticed => ~seen'.observed
        /\ list'.at = list.at /\ list'.model = list.model
        /\ machine'.active = machine.active /\ machine'.enabled = machine.enabled
    BY <1>15, EvaluateNotedEffect DEF Notes
  <2>2. list'.at = "recorded" /\ (machine'.active => watch'.order)
    BY <2>1 DEF Watched
  <2>3. CASE Noticed
    BY <2>1, <2>2, <2>3 DEF EntryKnows
  <2>4. CASE ~Noticed
    <3>1. SUFFICES ASSUME Submitting', Admits'
                   PROVE  FALSE
      BY DEF EntryKnows
    <3>2. watch.remembered /\ watch.snapshot # 0 /\ ~(machine.enabled /\ ~checkbox) /\ model # 0
      BY <2>1, <2>4, <3>1 DEF Admits, Submitting
    <3>3. feature /\ release.at = "out"
      BY <3>2 DEF Watched
    <3>4. ~evaluate.tagged
      BY <2>4, <3>2, <3>3 DEF Noticed
    <3>5. QED
      BY <2>1, <3>2, <3>4 DEF Checked
  <2>5. QED
    BY <2>3, <2>4
<1>16. CASE EvaluateLeaves
  <2>1. evaluate.at = "leave" /\ list' = list
    BY <1>16, EvaluateLeavesEffect
  <2>2. QED
    BY <2>1 DEF EntryKnows, Submitting, Admits, Watched, Early
<1>17. CASE Releases
  <2>1. /\ ~watch'.remembered \/ UNCHANGED <<machine, watch>>
        /\ UNCHANGED <<model, evaluate, checkbox, begun>> /\ list'.at = list.at /\ list'.model = list.model
        /\ ~watch.remembered \/ ~watch'.remembered
    BY <1>17, ReleaseBeginsEffect DEF Releases
  <2>2. QED
    BY <2>1 DEF EntryKnows, Submitting, Admits
<1>18. CASE Proven
  <2>1. /\ UNCHANGED <<list, model, evaluate, checkbox, seen, begun, watch>> /\ machine'.enabled = machine.enabled
        /\ machine'.active => machine.active
    BY <1>18, ReleaseProvesEffect DEF Proven
  <2>2. QED
    BY <2>1 DEF EntryKnows, Submitting, Admits
<1>19. CASE ReleaseEnds
  <2>1. model' = 0
    BY <1>19, ReleaseEndsEffect
  <2>2. QED
    BY <2>1 DEF EntryKnows, Submitting, Admits
<1>20. CASE CreateFeature
  <2>1. model' = made + 1 /\ list' = list
    BY <1>20, CreateFeatureEffect
  <2>2. QED
    BY <2>1 DEF EntryKnows, Submitting, Admits, Numbered, MTypes, Counts, Calls, GameList
<1>21. CASE ListExecuting
  <2>1. /\ UNCHANGED <<model, evaluate, checkbox, begun, watch, machine>> /\ list.at = "recorded" /\ list'.at = "executing"
        /\ list'.model = list.model /\ (seen' = seen \/ (seen'.observed /\ seen'.fresh))
    BY <1>21, ListExecutingEffect
  <2>2. QED
    BY <2>1 DEF EntryKnows, Submitting, Admits
<1>22. CASE NativeSubmit
  <2>1. list' = NoList
    BY <1>22, NativeSubmitEffect
  <2>2. QED
    BY <2>1 DEF EntryKnows, Submitting, Admits, NoList
<1>23. QED
  BY <1>2, <1>3, <1>4, <1>5, <1>6, <1>7, <1>8, <1>9, <1>10, <1>11, <1>12, <1>13, <1>14, <1>15, <1>16, <1>17,
     <1>18, <1>19, <1>20, <1>21, <1>22 DEF Step

\* The numbers of a pass.
LEMMA Passes ==
  ASSUME NEW q \in Seq(Pass)
  PROVE  \A i \in 1 .. Len(q) : q[i].pass \in Nat /\ q[i].entry \in Nat
<1>1. \A i \in 1 .. Len(q) : q[i] \in Pass
  OBVIOUS
<1>2. QED
  BY <1>1 DEF Pass

LEMMA GateKnownKept ==
  ASSUME MTypes, Watched, EntryKnows, GateKnown, Step
  PROVE  GateKnown'
<1>1. ASSUME Toggle \/ DeviceRemoved3 \/ LeaseSkips \/ EvaluateGone \/ ReleaseEnds \/ CreateFeature
             \/ ListExecuting \/ NativeSubmit \/ PresentQueueRuns \/ GameQueueRuns \/ PassRuns
      PROVE  UNCHANGED <<separate, gate, lists, machine, watch>>
  <2>1. CASE Toggle
    BY <2>1, ToggleEffect
  <2>2. CASE DeviceRemoved3
    BY <2>2, DeviceEffect
  <2>3. CASE LeaseSkips
    BY <2>3, LeaseSkipsEffect
  <2>4. CASE EvaluateGone
    BY <2>4, EvaluateGoneEffect
  <2>5. CASE ReleaseEnds
    BY <2>5, ReleaseEndsEffect
  <2>6. CASE CreateFeature
    BY <2>6, CreateFeatureEffect
  <2>7. CASE ListExecuting
    BY <2>7, ListExecutingEffect
  <2>8. CASE NativeSubmit
    BY <2>8, NativeSubmitEffect
  <2>9. CASE PresentQueueRuns
    BY <2>9, PresentQueueEffect DEF Still
  <2>10. CASE GameQueueRuns
    BY <2>10, GameQueueEffect DEF Still
  <2>11. CASE PassRuns
    BY <2>11, PassRunsEffect DEF Still
  <2>12. QED
    BY <1>1, <2>1, <2>2, <2>3, <2>4, <2>5, <2>6, <2>7, <2>8, <2>9, <2>10, <2>11
<1>2. CASE Toggle \/ DeviceRemoved3 \/ LeaseSkips \/ EvaluateGone \/ ReleaseEnds \/ CreateFeature
           \/ ListExecuting \/ NativeSubmit \/ PresentQueueRuns \/ GameQueueRuns \/ PassRuns
  BY <1>1, <1>2 DEF GateKnown
<1>3. CASE Presents
  <2>1. /\ UNCHANGED <<separate, gate, lists>>
        /\ machine'.active => watch'.order \/ (machine.active /\ watch'.order = watch.order)
    BY <1>3, PresentEffect DEF Presents
  <2>2. QED
    BY <2>1 DEF GateKnown
<1>4. CASE PassRefused
  <2>1. /\ machine.active /\ (watch.order /\ separate => gate' = lists) /\ (~(watch.order /\ separate) => gate' = gate)
    BY <1>4, EntersAlone, PassRefusedEffect
  <2>2. UNCHANGED <<separate, lists>>
    BY <1>4, PassRefusedEffect
  <2>3. QED
    BY <2>1, <2>2 DEF GateKnown
<1>5. CASE RunEnds
  <2>1. /\ UNCHANGED <<separate, gate, lists>> /\ ~machine'.active
    BY <1>5, PassEndsRunEffect DEF RunEnds
  <2>2. QED
    BY <2>1 DEF GateKnown
<1>6. CASE Creates
  <2>1. /\ machine.active /\ (watch.order /\ separate => gate' = lists) /\ (~(watch.order /\ separate) => gate' = gate)
    BY <1>6, EntersAlone, PassCreatesEffect DEF Creates
  <2>2. UNCHANGED <<separate, lists>>
    BY <1>6, PassCreatesEffect DEF Creates
  <2>3. QED
    BY <2>1, <2>2 DEF GateKnown
<1>7. CASE Submits
  <2>1. /\ machine.active /\ (watch.order /\ separate => gate' = lists) /\ (~(watch.order /\ separate) => gate' = gate)
    BY <1>7, EntersAlone, SubmitsEffect
  <2>2. UNCHANGED <<separate, lists>>
    BY <1>7, SubmitsEffect
  <2>3. QED
    BY <2>1, <2>2 DEF GateKnown
<1>8. CASE Drains
  <2>1. /\ UNCHANGED <<separate, gate, lists>>
        /\ machine'.active => machine.active /\ watch'.order = watch.order
    BY <1>8, DrainEffect DEF Drains
  <2>2. QED
    BY <2>1 DEF GateKnown
<1>9. CASE Begins
  <2>1. /\ UNCHANGED <<separate, gate, lists>>
        /\ ~machine'.active \/ UNCHANGED <<machine, watch>>
    BY <1>9, EvaluateBeginsEffect DEF Begins
  <2>2. QED
    BY <2>1 DEF GateKnown
<1>10. CASE EvaluateSteps
  <2>1. /\ UNCHANGED <<separate, gate, lists, watch>> /\ (machine'.active => machine.active)
    BY <1>10, EvaluateStepsEffect
  <2>2. QED
    BY <2>1 DEF GateKnown
<1>11. CASE CoreCalls
  <2>1. /\ UNCHANGED <<separate, gate, machine, watch>> /\ evaluate.at = "call"
    BY <1>11, EvaluateCallsEffect DEF CoreCalls
  <2>2. QED
    BY <2>1 DEF GateKnown, Watched
<1>12. CASE Notes
  <2>1. /\ UNCHANGED <<separate, gate, lists>>
        /\ machine'.active = machine.active /\ watch'.order = watch.order
    BY <1>12, EvaluateNotedEffect DEF Notes
  <2>2. QED
    BY <2>1 DEF GateKnown
<1>13. CASE EvaluateLeaves
  <2>1. /\ UNCHANGED <<separate, gate, lists, watch>> /\ machine'.active = machine.active
    BY <1>13, EvaluateLeavesEffect
  <2>2. QED
    BY <2>1 DEF GateKnown
<1>14. CASE Releases
  <2>1. /\ UNCHANGED <<separate, gate, lists>>
        /\ ~machine'.active \/ UNCHANGED <<machine, watch>>
    BY <1>14, ReleaseBeginsEffect DEF Releases
  <2>2. QED
    BY <2>1 DEF GateKnown
<1>15. CASE Proven
  <2>1. /\ UNCHANGED <<separate, gate, lists, watch>> /\ (machine'.active => machine.active)
    BY <1>15, ReleaseProvesEffect DEF Proven
  <2>2. QED
    BY <2>1 DEF GateKnown
<1>16. QED
  BY <1>2, <1>3, <1>4, <1>5, <1>6, <1>7, <1>8, <1>9, <1>10, <1>11, <1>12, <1>13, <1>14, <1>15 DEF Step

LEMMA ApartKept ==
  ASSUME MTypes, Numbered, Watched, EntryKnows, Covers, Apart, Step
  PROVE  Apart'
<1>1. ASSUME Toggle \/ DeviceRemoved3 \/ Presents \/ LeaseSkips \/ PassRefused \/ RunEnds
             \/ Creates \/ Drains \/ Begins \/ EvaluateSteps \/ EvaluateGone \/ EvaluateLeaves
             \/ Proven \/ ReleaseEnds \/ CreateFeature \/ PresentQueueRuns \/ GameQueueRuns
      PROVE  UNCHANGED <<privateQ, list>>
  <2>1. CASE Toggle
    BY <2>1, ToggleEffect
  <2>2. CASE DeviceRemoved3
    BY <2>2, DeviceEffect
  <2>3. CASE Presents
    BY <2>3, PresentEffect DEF Presents
  <2>4. CASE LeaseSkips
    BY <2>4, LeaseSkipsEffect
  <2>5. CASE PassRefused
    BY <2>5, PassRefusedEffect, EntersEffect
  <2>6. CASE RunEnds
    BY <2>6, PassEndsRunEffect DEF RunEnds
  <2>7. CASE Creates
    BY <2>7, PassCreatesEffect, EntersEffect DEF Creates
  <2>8. CASE Drains
    BY <2>8, DrainEffect DEF Drains
  <2>9. CASE Begins
    BY <2>9, EvaluateBeginsEffect DEF Begins
  <2>10. CASE EvaluateSteps
    BY <2>10, EvaluateStepsEffect
  <2>11. CASE EvaluateGone
    BY <2>11, EvaluateGoneEffect
  <2>12. CASE EvaluateLeaves
    BY <2>12, EvaluateLeavesEffect
  <2>13. CASE Proven
    BY <2>13, ReleaseProvesEffect DEF Proven
  <2>14. CASE ReleaseEnds
    BY <2>14, ReleaseEndsEffect
  <2>15. CASE CreateFeature
    BY <2>15, CreateFeatureEffect
  <2>16. CASE PresentQueueRuns
    BY <2>16, PresentQueueEffect DEF Still
  <2>17. CASE GameQueueRuns
    BY <2>17, GameQueueEffect DEF Still
  <2>18. QED
    BY <1>1, <2>1, <2>2, <2>3, <2>4, <2>5, <2>6, <2>7, <2>8, <2>9, <2>10, <2>11, <2>12, <2>13, <2>14, <2>15,
       <2>16, <2>17
<1>2. CASE Toggle \/ DeviceRemoved3 \/ Presents \/ LeaseSkips \/ PassRefused \/ RunEnds
           \/ Creates \/ Drains \/ Begins \/ EvaluateSteps \/ EvaluateGone \/ EvaluateLeaves
           \/ Proven \/ ReleaseEnds \/ CreateFeature \/ PresentQueueRuns \/ GameQueueRuns
  BY <1>1, <1>2 DEF Apart, Used
<1>3. CASE Submits
  <2>1. ~Submitting /\ list' = list /\ model # 0 /\ Used' = Used \cup {model}
    BY <1>3, EntersAlone, SubmitsEffect, SubmitsUses
  <2>2. QED
    BY <2>1 DEF Apart, Submitting
<1>4. CASE CoreCalls
  <2>1. /\ evaluate.at = "call" /\ privateQ' = privateQ /\ model' \in {model, made + 1} /\ list'.model \in {0, model'}
    BY <1>4, EvaluateCallsEffect DEF CoreCalls
  <2>2. model \notin Used /\ made + 1 \notin Used /\ Used' = Used
    BY <2>1, NotUsed DEF Covers, Used
  <2>3. QED
    BY <2>1, <2>2 DEF Apart
<1>5. CASE Notes
  <2>1. privateQ' = privateQ /\ list'.at = list.at /\ list'.model = list.model
    BY <1>5, EvaluateNotedEffect DEF Notes
  <2>2. QED
    BY <2>1 DEF Apart, Used
<1>6. CASE Releases
  <2>1. privateQ' = privateQ /\ list'.at = list.at /\ list'.model = list.model
    BY <1>6, ReleaseBeginsEffect DEF Releases
  <2>2. QED
    BY <2>1 DEF Apart, Used
<1>7. CASE ListExecuting
  <2>1. /\ privateQ' = privateQ /\ list.at = "recorded" /\ list'.at = "executing"
        /\ list'.model = list.model
    BY <1>7, ListExecutingEffect
  <2>2. QED
    BY <2>1 DEF Apart, Used
<1>8. CASE NativeSubmit
  <2>1. list'.at = "none"
    BY <1>8, NativeSubmitEffect DEF NoList
  <2>2. QED
    BY <2>1 DEF Apart
<1>9. CASE PassRuns
  <2>1. Used' \subseteq Used /\ list' = list
    BY <1>9, PassRunsUses, PassRunsEffect DEF Still
  <2>2. QED
    BY <2>1 DEF Apart
<1>10. QED
  BY <1>2, <1>3, <1>4, <1>5, <1>6, <1>7, <1>8, <1>9 DEF Step

LEMMA CapturedKept ==
  ASSUME MTypes, Numbered, Queued, Apart, Captured, Step
  PROVE  Captured'
<1>1. ASSUME Toggle \/ DeviceRemoved3 \/ Presents \/ LeaseSkips \/ PassRefused \/ RunEnds
             \/ Creates \/ Drains \/ Begins \/ EvaluateSteps \/ CoreCalls \/ EvaluateGone
             \/ Notes \/ EvaluateLeaves \/ Releases \/ Proven \/ ReleaseEnds \/ CreateFeature
             \/ ListExecuting \/ GameQueueRuns
      PROVE  UNCHANGED <<privateQ, presentQ, f1>>
  <2>1. CASE Toggle
    BY <2>1, ToggleEffect
  <2>2. CASE DeviceRemoved3
    BY <2>2, DeviceEffect
  <2>3. CASE Presents
    BY <2>3, PresentEffect DEF Presents
  <2>4. CASE LeaseSkips
    BY <2>4, LeaseSkipsEffect
  <2>5. CASE PassRefused
    BY <2>5, PassRefusedEffect, EntersEffect
  <2>6. CASE RunEnds
    BY <2>6, PassEndsRunEffect DEF RunEnds
  <2>7. CASE Creates
    BY <2>7, PassCreatesEffect, EntersEffect DEF Creates
  <2>8. CASE Drains
    BY <2>8, DrainEffect DEF Drains
  <2>9. CASE Begins
    BY <2>9, EvaluateBeginsEffect DEF Begins
  <2>10. CASE EvaluateSteps
    BY <2>10, EvaluateStepsEffect
  <2>11. CASE CoreCalls
    BY <2>11, EvaluateCallsEffect DEF CoreCalls
  <2>12. CASE EvaluateGone
    BY <2>12, EvaluateGoneEffect
  <2>13. CASE Notes
    BY <2>13, EvaluateNotedEffect DEF Notes
  <2>14. CASE EvaluateLeaves
    BY <2>14, EvaluateLeavesEffect
  <2>15. CASE Releases
    BY <2>15, ReleaseBeginsEffect DEF Releases
  <2>16. CASE Proven
    BY <2>16, ReleaseProvesEffect DEF Proven
  <2>17. CASE ReleaseEnds
    BY <2>17, ReleaseEndsEffect
  <2>18. CASE CreateFeature
    BY <2>18, CreateFeatureEffect
  <2>19. CASE ListExecuting
    BY <2>19, ListExecutingEffect
  <2>20. CASE GameQueueRuns
    BY <2>20, GameQueueEffect DEF Still
  <2>21. QED
    BY <1>1, <2>1, <2>2, <2>3, <2>4, <2>5, <2>6, <2>7, <2>8, <2>9, <2>10, <2>11, <2>12, <2>13, <2>14, <2>15,
       <2>16, <2>17, <2>18, <2>19, <2>20
<1>2. CASE Toggle \/ DeviceRemoved3 \/ Presents \/ LeaseSkips \/ PassRefused \/ RunEnds
           \/ Creates \/ Drains \/ Begins \/ EvaluateSteps \/ CoreCalls \/ EvaluateGone
           \/ Notes \/ EvaluateLeaves \/ Releases \/ Proven \/ ReleaseEnds \/ CreateFeature
           \/ ListExecuting \/ GameQueueRuns
  BY <1>1, <1>2 DEF Captured
<1>3. CASE Submits
  <2>1. /\ passes' = passes + 1 /\ f1' = f1 /\ presentQ' \in {Captures, Shows} /\ Captures \in Seq(Entry)
        /\ [pass |-> passes + 1, model |-> model, entry |-> gate'] \in Pass
        /\ privateQ' = Append(privateQ, [pass |-> passes + 1, model |-> model, entry |-> gate'])
        /\ presentQ \in Seq(Entry) /\ privateQ \in Seq(Pass) /\ passes \in Nat /\ f1 \in Nat
    BY <1>3, SubmitsEffect DEF MTypes, Queues3, Counts
  <2>2. /\ [op |-> "capture", value |-> passes + 1] \in Entry /\ [op |-> "show", value |-> passes + 1] \in Entry
    BY <2>1 DEF Entry
  <2>3. /\ Len(privateQ') = Len(privateQ) + 1
        /\ privateQ'[Len(privateQ) + 1] = [pass |-> passes + 1, model |-> model, entry |-> gate']
        /\ \A i \in 1 .. Len(privateQ) : privateQ'[i] = privateQ[i] /\ privateQ[i] \in Pass
        /\ \A i \in 1 .. Len(privateQ) + 1 : i \in 1 .. Len(privateQ) \/ i = Len(privateQ) + 1
    BY ONLY <2>1, Appended
  <2>4. ASSUME NEW bound \in Nat, NEW m, ListBehind(presentQ, f1, "capture", bound, m)
        PROVE  ListBehind(presentQ', f1, "capture", bound, m)
    <3>1. ListBehind(Captures, f1, "capture", bound, m)
      BY <2>1, <2>2, <2>4, BehindAppended DEF Captures
    <3>2. ListBehind(Shows, f1, "capture", bound, m)
      BY <2>1, <2>2, <3>1, BehindAppended DEF Shows
    <3>3. QED
      BY <2>1, <3>1, <3>2
  <2>5. ListBehind(presentQ, f1, "capture", passes + 1, model)
    <3>1. f1 < passes + 1 /\ \A n \in Nat : n <= passes => n < passes + 1
      BY <2>1 DEF Numbered
    <3>2. \A j \in 1 .. Len(presentQ) : presentQ[j].op = "capture" => presentQ[j].value < passes + 1
      BY <2>1, <3>1, Entries DEF Queued
    <3>3. \A k \in 1 .. Len(presentQ) : \A j \in 1 .. k - 1 : j \in 1 .. Len(presentQ)
      BY <2>1
    <3>4. QED
      BY <3>1, <3>2, <3>3 DEF ListBehind
  <2>6. \A i \in 1 .. Len(privateQ') : ListBehind(presentQ', f1, "capture", privateQ'[i].pass, privateQ'[i].model)
    <3>1. SUFFICES ASSUME NEW i \in 1 .. Len(privateQ) + 1
                   PROVE  ListBehind(presentQ', f1, "capture", privateQ'[i].pass, privateQ'[i].model)
      BY <2>3
    <3>2. CASE i \in 1 .. Len(privateQ)
      <4>1. privateQ'[i] = privateQ[i] /\ privateQ[i].pass \in Nat
        BY <2>3, <3>2 DEF Pass
      <4>2. ListBehind(presentQ, f1, "capture", privateQ[i].pass, privateQ[i].model)
        BY <3>2 DEF Captured
      <4>3. QED
        BY <2>4, <4>1, <4>2
    <3>3. CASE i = Len(privateQ) + 1
      <4>1. privateQ'[i].pass = passes + 1 /\ privateQ'[i].model = model /\ passes + 1 \in Nat
        BY <2>1, <2>3, <3>3
      <4>2. QED
        BY <2>4, <2>5, <4>1
    <3>4. QED
      BY <2>3, <3>2, <3>3
  <2>7. QED
    BY <2>1, <2>6 DEF Captured
<1>4. CASE NativeSubmit
  <2>1. /\ list.at = "executing" /\ UNCHANGED <<privateQ, f1>> /\ Submitted \in Entry
        /\ presentQ' = presentQ \/ presentQ' = Append(presentQ, Submitted)
    BY <1>4, NativeSubmitEffect
  <2>2. /\ presentQ \in Seq(Entry) /\ f1 \in Nat
        /\ \A i \in 1 .. Len(privateQ) : privateQ[i].pass \in Nat /\ privateQ[i].model # list.model
    BY <2>1 DEF Apart, Used, Numbered, MTypes, Queues3, Counts
  <2>3. ASSUME NEW i \in 1 .. Len(privateQ)
        PROVE  ListBehind(presentQ', f1, "capture", privateQ[i].pass, privateQ[i].model)
    <3>1. ListBehind(presentQ, f1, "capture", privateQ[i].pass, privateQ[i].model)
      BY DEF Captured
    <3>2. Submitted.value # privateQ[i].model
      BY <2>2 DEF Submitted
    <3>3. QED
      BY <2>1, <2>2, <3>1, <3>2, BehindAppended
  <2>4. QED
    BY <2>1, <2>3 DEF Captured
<1>5. CASE PresentQueueRuns
  <2>1. /\ presentQ # <<>> /\ presentQ' = Tail(presentQ) /\ privateQ' = privateQ
        /\ f1' = (IF presentQ[1].op = "capture" THEN presentQ[1].value ELSE f1) /\ f1' \in Nat
    BY <1>5, PresentQueueEffect
  <2>2. presentQ \in Seq(Entry) /\ f1 \in Nat /\ \A i \in 1 .. Len(privateQ) : privateQ[i].pass \in Nat
    BY DEF Numbered, MTypes, Queues3, Counts
  <2>3. ASSUME NEW i \in 1 .. Len(privateQ)
        PROVE  ListBehind(Tail(presentQ), f1', "capture", privateQ[i].pass, privateQ[i].model)
    <3>1. ListBehind(presentQ, f1, "capture", privateQ[i].pass, privateQ[i].model)
      BY DEF Captured
    <3>2. QED
      BY <2>1, <2>2, <3>1, BehindTail
  <2>4. QED
    BY <2>1, <2>3 DEF Captured
<1>6. CASE PassRuns
  <2>1. /\ UNCHANGED <<presentQ, f1>>
        /\ \A i \in 1 .. Len(privateQ') : privateQ'[i] = privateQ[i + 1] /\ i + 1 \in 1 .. Len(privateQ)
    BY <1>6, PassRunsEffect
  <2>2. QED
    BY <2>1 DEF Captured
<1>7. QED
  BY <1>2, <1>3, <1>4, <1>5, <1>6 DEF Step

LEMMA GatedKept ==
  ASSUME MTypes, Numbered, Queued, Watched, EntryKnows, GateKnown, Apart, EntryOpen, Gated, Step
  PROVE  Gated'
<1>1. ASSUME Toggle \/ DeviceRemoved3 \/ Presents \/ LeaseSkips \/ RunEnds \/ Drains
             \/ Begins \/ EvaluateGone \/ Notes \/ EvaluateLeaves \/ Releases \/ Proven
             \/ ListExecuting \/ PresentQueueRuns
      PROVE  UNCHANGED <<privateQ, gameQ, entry, lists, model>>
  <2>1. CASE Toggle
    BY <2>1, ToggleEffect
  <2>2. CASE DeviceRemoved3
    BY <2>2, DeviceEffect
  <2>3. CASE Presents
    BY <2>3, PresentEffect DEF Presents
  <2>4. CASE LeaseSkips
    BY <2>4, LeaseSkipsEffect
  <2>5. CASE RunEnds
    BY <2>5, PassEndsRunEffect DEF RunEnds
  <2>6. CASE Drains
    BY <2>6, DrainEffect DEF Drains
  <2>7. CASE Begins
    BY <2>7, EvaluateBeginsEffect DEF Begins
  <2>8. CASE EvaluateGone
    BY <2>8, EvaluateGoneEffect
  <2>9. CASE Notes
    BY <2>9, EvaluateNotedEffect DEF Notes
  <2>10. CASE EvaluateLeaves
    BY <2>10, EvaluateLeavesEffect
  <2>11. CASE Releases
    BY <2>11, ReleaseBeginsEffect DEF Releases
  <2>12. CASE Proven
    BY <2>12, ReleaseProvesEffect DEF Proven
  <2>13. CASE ListExecuting
    BY <2>13, ListExecutingEffect
  <2>14. CASE PresentQueueRuns
    BY <2>14, PresentQueueEffect DEF Still
  <2>15. QED
    BY <1>1, <2>1, <2>2, <2>3, <2>4, <2>5, <2>6, <2>7, <2>8, <2>9, <2>10, <2>11, <2>12, <2>13, <2>14
<1>2. CASE Toggle \/ DeviceRemoved3 \/ Presents \/ LeaseSkips \/ RunEnds \/ Drains
           \/ Begins \/ EvaluateGone \/ Notes \/ EvaluateLeaves \/ Releases \/ Proven
           \/ ListExecuting \/ PresentQueueRuns
  BY <1>1, <1>2 DEF Gated
<1>3. CASE PassRefused
  <2>1. /\ UNCHANGED <<privateQ, entry, lists>> /\ model' \in {0, model} /\ EntrySignal \in Entry
        /\ gameQ' = gameQ \/ gameQ' = Append(gameQ, EntrySignal)
    BY <1>3, EntersEffect, PassRefusedEffect
  <2>2. /\ gameQ \in Seq(Entry) /\ entry \in Nat /\ lists \in Nat
        /\ \A i \in 1 .. Len(privateQ) : privateQ[i].entry \in Nat
    BY Passes DEF MTypes, Queues3, Counts
  <2>3. ASSUME NEW bound \in Nat, NEW m, ListBehind(gameQ, entry, "entry", bound, m)
        PROVE  ListBehind(gameQ', entry, "entry", bound, m)
    BY <2>1, <2>2, <2>3, BehindAppended DEF EntrySignal
  <2>4. QED
    BY <2>1, <2>2, <2>3 DEF Gated
<1>4. CASE Creates
  <2>1. /\ UNCHANGED <<privateQ, entry, lists>> /\ model' \in {0, model} /\ EntrySignal \in Entry
        /\ gameQ' = gameQ \/ gameQ' = Append(gameQ, EntrySignal)
    BY <1>4, EntersEffect, PassCreatesEffect DEF Creates
  <2>2. /\ gameQ \in Seq(Entry) /\ entry \in Nat /\ lists \in Nat
        /\ \A i \in 1 .. Len(privateQ) : privateQ[i].entry \in Nat
    BY Passes DEF MTypes, Queues3, Counts
  <2>3. ASSUME NEW bound \in Nat, NEW m, ListBehind(gameQ, entry, "entry", bound, m)
        PROVE  ListBehind(gameQ', entry, "entry", bound, m)
    BY <2>1, <2>2, <2>3, BehindAppended DEF EntrySignal
  <2>4. QED
    BY <2>1, <2>2, <2>3 DEF Gated
<1>5. CASE Submits
  <2>1. /\ UNCHANGED <<entry, lists, model>> /\ EntrySignal \in Entry /\ gate' \in Nat /\ model # 0
        /\ gameQ' = gameQ \/ gameQ' = Append(gameQ, EntrySignal)
        /\ [pass |-> passes + 1, model |-> model, entry |-> gate'] \in Pass
        /\ privateQ' = Append(privateQ, [pass |-> passes + 1, model |-> model, entry |-> gate'])
    BY <1>5, EntersEffect, SubmitsEffect
  <2>2. /\ gameQ \in Seq(Entry) /\ privateQ \in Seq(Pass) /\ entry \in Nat /\ lists \in Nat
    BY DEF MTypes, Queues3, Counts
  <2>3. /\ Len(privateQ') = Len(privateQ) + 1
        /\ privateQ'[Len(privateQ) + 1] = [pass |-> passes + 1, model |-> model, entry |-> gate']
        /\ \A i \in 1 .. Len(privateQ) : privateQ'[i] = privateQ[i] /\ privateQ[i] \in Pass
        /\ \A i \in 1 .. Len(privateQ) + 1 : i \in 1 .. Len(privateQ) \/ i = Len(privateQ) + 1
    BY ONLY <2>1, <2>2, Appended
  <2>4. ASSUME NEW bound \in Nat, NEW m, ListBehind(gameQ, entry, "entry", bound, m)
        PROVE  ListBehind(gameQ', entry, "entry", bound, m)
    BY <2>1, <2>2, <2>4, BehindAppended DEF EntrySignal
  <2>5. ListBehind(gameQ, entry, "entry", gate', model)
    <3>1. CASE separate
      <4>1. gate' = lists
        BY <1>5, <3>1, EntersAlone, SubmitsEffect DEF GateKnown
      <4>2. QED
        BY <2>1, <4>1 DEF Gated
    <3>2. CASE ~separate
      BY <3>2 DEF Queued, ListBehind
    <3>3. QED
      BY <3>1, <3>2
  <2>6. \A i \in 1 .. Len(privateQ') : ListBehind(gameQ', entry, "entry", privateQ'[i].entry, privateQ'[i].model)
    <3>1. SUFFICES ASSUME NEW i \in 1 .. Len(privateQ) + 1
                   PROVE  ListBehind(gameQ', entry, "entry", privateQ'[i].entry, privateQ'[i].model)
      BY <2>3
    <3>2. CASE i \in 1 .. Len(privateQ)
      <4>1. privateQ'[i] = privateQ[i] /\ privateQ[i].entry \in Nat
        BY <2>3, <3>2 DEF Pass
      <4>2. ListBehind(gameQ, entry, "entry", privateQ[i].entry, privateQ[i].model)
        BY <3>2 DEF Gated
      <4>3. QED
        BY <2>4, <4>1, <4>2
    <3>3. CASE i = Len(privateQ) + 1
      <4>1. privateQ'[i].entry = gate' /\ privateQ'[i].model = model
        BY <2>3, <3>3
      <4>2. QED
        BY <2>1, <2>4, <2>5, <4>1
    <3>4. QED
      BY <2>3, <3>2, <3>3
  <2>7. model # 0 => ListBehind(gameQ', entry, "entry", lists, model)
    BY <2>2, <2>4 DEF Gated
  <2>8. QED
    BY <2>1, <2>6, <2>7 DEF Gated
<1>6. CASE EvaluateSteps
  <2>1. /\ UNCHANGED <<privateQ, entry, lists, model>>
        /\ gameQ' = gameQ \/ gameQ' = Append(gameQ, [op |-> "wait", value |-> evaluate.last])
        /\ [op |-> "wait", value |-> evaluate.last] \in Entry
    BY <1>6, EvaluateStepsEffect DEF MTypes, Calls, Call, Entry
  <2>2. /\ gameQ \in Seq(Entry) /\ entry \in Nat /\ lists \in Nat
        /\ \A i \in 1 .. Len(privateQ) : privateQ[i].entry \in Nat
    BY Passes DEF MTypes, Queues3, Counts
  <2>3. ASSUME NEW bound \in Nat, NEW m, ListBehind(gameQ, entry, "entry", bound, m)
        PROVE  ListBehind(gameQ', entry, "entry", bound, m)
    BY <2>1, <2>2, <2>3, BehindAppended
  <2>4. QED
    BY <2>1, <2>2, <2>3 DEF Gated
<1>7. CASE CoreCalls
  <2>1. UNCHANGED <<privateQ, gameQ, entry>> /\ lists' = lists + 1 /\ model' \in {model, made + 1}
    BY <1>7, EvaluateCallsEffect DEF CoreCalls
  <2>2. /\ entry \in Nat /\ lists \in Nat /\ made \in Nat
        /\ \A i \in 1 .. Len(gameQ) : gameQ[i].value \in Nat /\ (gameQ[i].op = "list" => gameQ[i].value # made + 1)
    <3>1. gameQ \in Seq(Entry) /\ entry \in Nat /\ lists \in Nat /\ made \in Nat
      BY DEF MTypes, Queues3, Counts
    <3>2. \A i \in 1 .. Len(gameQ) : gameQ[i].value \in Nat
      BY <3>1, Entries
    <3>3. \A n \in Nat : n <= made => n # made + 1
      BY <3>1
    <3>4. QED
      BY <3>1, <3>2, <3>3 DEF Queued
  <2>3. ListBehind(gameQ, entry, "entry", lists + 1, made + 1)
    BY <2>2 DEF ListBehind
  <2>4. model # 0 => ListBehind(gameQ, entry, "entry", lists + 1, model)
    <3>1. ASSUME model # 0, NEW k \in 1 .. Len(gameQ), gameQ[k].op = "list", gameQ[k].value = model
          PROVE  entry < lists + 1 /\ \A j \in 1 .. k - 1 : gameQ[j].op = "entry" => gameQ[j].value < lists + 1
      <4>1. entry < lists /\ \A j \in 1 .. k - 1 : gameQ[j].op = "entry" => gameQ[j].value < lists
        BY <3>1 DEF Gated, ListBehind
      <4>2. \A j \in 1 .. k - 1 : j \in 1 .. Len(gameQ)
        BY DEF MTypes, Queues3
      <4>3. \A n \in Nat : n < lists => n < lists + 1
        BY <2>2
      <4>4. QED
        BY <2>2, <4>1, <4>2, <4>3
    <3>2. QED
      BY <3>1 DEF ListBehind
  <2>5. QED
    BY <2>1, <2>3, <2>4 DEF Gated
<1>8. CASE ReleaseEnds
  <2>1. UNCHANGED <<privateQ, gameQ, entry, lists>> /\ model' = 0
    BY <1>8, ReleaseEndsEffect
  <2>2. QED
    BY <2>1 DEF Gated
<1>9. CASE CreateFeature
  <2>1. UNCHANGED <<privateQ, gameQ, entry, lists>> /\ model' = made + 1
    BY <1>9, CreateFeatureEffect
  <2>2. \A i \in 1 .. Len(gameQ) : gameQ[i].op = "list" => gameQ[i].value # made + 1
    <3>1. gameQ \in Seq(Entry) /\ made \in Nat
      BY DEF MTypes, Queues3, Counts
    <3>2. \A i \in 1 .. Len(gameQ) : gameQ[i].value \in Nat
      BY <3>1, Entries
    <3>3. \A n \in Nat : n <= made => n # made + 1
      BY <3>1
    <3>4. QED
      BY <3>2, <3>3 DEF Queued
  <2>3. ListBehind(gameQ, entry, "entry", lists, made + 1)
    BY <2>2 DEF ListBehind
  <2>4. QED
    BY <2>1, <2>3 DEF Gated
<1>10. CASE NativeSubmit
  <2>1. /\ list.at = "executing" /\ UNCHANGED <<privateQ, entry, lists, model>> /\ Submitted \in Entry
        /\ gameQ' = gameQ \/ gameQ' = Append(gameQ, Submitted)
    BY <1>10, NativeSubmitEffect
  <2>2. /\ gameQ \in Seq(Entry) /\ entry \in Nat /\ lists \in Nat
        /\ \A i \in 1 .. Len(privateQ) : privateQ[i].entry \in Nat
    BY Passes DEF MTypes, Queues3, Counts
  <2>3. \A i \in 1 .. Len(privateQ) : privateQ[i].model # list.model
    BY <2>1 DEF Apart, Used, Numbered, MTypes, Queues3, Counts
  <2>4. ASSUME NEW i \in 1 .. Len(privateQ)
        PROVE  ListBehind(gameQ', entry, "entry", privateQ[i].entry, privateQ[i].model)
    <3>1. ListBehind(gameQ, entry, "entry", privateQ[i].entry, privateQ[i].model)
      BY DEF Gated
    <3>2. Submitted.value # privateQ[i].model
      BY <2>3 DEF Submitted
    <3>3. QED
      BY <2>1, <2>2, <3>1, <3>2, BehindAppended
  <2>5. ASSUME model # 0
        PROVE  ListBehind(gameQ', entry, "entry", lists, model)
    <3>1. ListBehind(gameQ, entry, "entry", lists, model)
      BY <2>5 DEF Gated
    <3>2. Submitted.value = model =>
            entry < lists /\ \A j \in 1 .. Len(gameQ) : gameQ[j].op = "entry" => gameQ[j].value < lists
      BY <2>1, <2>5 DEF EntryOpen, Submitting, Submitted
    <3>3. QED
      BY <2>1, <2>2, <3>1, <3>2, BehindAppended
  <2>6. QED
    BY <2>1, <2>4, <2>5 DEF Gated
<1>11. CASE GameQueueRuns
  <2>1. /\ gameQ # <<>> /\ gameQ' = Tail(gameQ) /\ UNCHANGED <<privateQ, lists, model>>
        /\ entry' = (IF gameQ[1].op = "entry" THEN gameQ[1].value ELSE entry) /\ entry' \in Nat
    BY <1>11, GameQueueEffect DEF Still
  <2>2. /\ gameQ \in Seq(Entry) /\ entry \in Nat /\ lists \in Nat
        /\ \A i \in 1 .. Len(privateQ) : privateQ[i].entry \in Nat
    BY Passes DEF MTypes, Queues3, Counts
  <2>3. ASSUME NEW bound \in Nat, NEW m, ListBehind(gameQ, entry, "entry", bound, m)
        PROVE  ListBehind(Tail(gameQ), entry', "entry", bound, m)
    BY <2>1, <2>2, <2>3, BehindTail
  <2>4. QED
    BY <2>1, <2>2, <2>3 DEF Gated
<1>12. CASE PassRuns
  <2>1. /\ UNCHANGED <<gameQ, entry, lists, model>>
        /\ \A i \in 1 .. Len(privateQ') : privateQ'[i] = privateQ[i + 1] /\ i + 1 \in 1 .. Len(privateQ)
    BY <1>12, PassRunsEffect DEF Still
  <2>2. QED
    BY <2>1 DEF Gated
<1>13. QED
  BY <1>2, <1>3, <1>4, <1>5, <1>6, <1>7, <1>8, <1>9, <1>10, <1>11, <1>12 DEF Step

LEMMA EntryOpenKept ==
  ASSUME MTypes, Numbered, Queued, Watched, EntryKnows, EntryOpen, Step
  PROVE  EntryOpen'
<1>1. ASSUME Toggle \/ DeviceRemoved3 \/ Presents \/ LeaseSkips \/ RunEnds \/ Drains
             \/ Begins \/ EvaluateGone \/ EvaluateLeaves \/ Proven \/ PresentQueueRuns \/ PassRuns
      PROVE  UNCHANGED <<list, model, gameQ, entry, lists>>
  <2>1. CASE Toggle
    BY <2>1, ToggleEffect
  <2>2. CASE DeviceRemoved3
    BY <2>2, DeviceEffect
  <2>3. CASE Presents
    BY <2>3, PresentEffect DEF Presents
  <2>4. CASE LeaseSkips
    BY <2>4, LeaseSkipsEffect
  <2>5. CASE RunEnds
    BY <2>5, PassEndsRunEffect DEF RunEnds
  <2>6. CASE Drains
    BY <2>6, DrainEffect DEF Drains
  <2>7. CASE Begins
    BY <2>7, EvaluateBeginsEffect DEF Begins
  <2>8. CASE EvaluateGone
    BY <2>8, EvaluateGoneEffect
  <2>9. CASE EvaluateLeaves
    BY <2>9, EvaluateLeavesEffect
  <2>10. CASE Proven
    BY <2>10, ReleaseProvesEffect DEF Proven
  <2>11. CASE PresentQueueRuns
    BY <2>11, PresentQueueEffect DEF Still
  <2>12. CASE PassRuns
    BY <2>12, PassRunsEffect DEF Still
  <2>13. QED
    BY <1>1, <2>1, <2>2, <2>3, <2>4, <2>5, <2>6, <2>7, <2>8, <2>9, <2>10, <2>11, <2>12
<1>2. CASE Toggle \/ DeviceRemoved3 \/ Presents \/ LeaseSkips \/ RunEnds \/ Drains
           \/ Begins \/ EvaluateGone \/ EvaluateLeaves \/ Proven \/ PresentQueueRuns \/ PassRuns
  BY <1>1, <1>2 DEF EntryOpen, Submitting
<1>3. CASE PassRefused
  <2>1. ~Submitting /\ list' = list /\ model' \in {0, model}
    BY <1>3, EntersAlone, PassRefusedEffect
  <2>2. QED
    BY <2>1 DEF EntryOpen, Submitting
<1>4. CASE Creates
  <2>1. ~Submitting /\ list' = list /\ model' \in {0, model}
    BY <1>4, EntersAlone, PassCreatesEffect DEF Creates
  <2>2. QED
    BY <2>1 DEF EntryOpen, Submitting
<1>5. CASE Submits
  <2>1. ~Submitting /\ list' = list /\ model' \in {0, model}
    BY <1>5, EntersAlone, SubmitsEffect
  <2>2. QED
    BY <2>1 DEF EntryOpen, Submitting
<1>6. CASE EvaluateSteps
  <2>1. evaluate.at \in Early /\ list' = list
    BY <1>6, EvaluateStepsEffect DEF Early
  <2>2. QED
    BY <2>1 DEF Watched, EntryOpen, Submitting
<1>7. CASE CoreCalls
  <2>1. lists' = lists + 1 /\ UNCHANGED <<gameQ, entry>>
    BY <1>7, EvaluateCallsEffect DEF CoreCalls
  <2>2. /\ gameQ \in Seq(Entry) /\ entry \in Nat /\ lists \in Nat /\ entry <= lists
    BY DEF MTypes, Queues3, Counts, Numbered
  <2>3. \A n \in Nat : n <= lists => n < lists + 1
    BY <2>2
  <2>4. \A j \in 1 .. Len(gameQ) : gameQ[j].op = "entry" => gameQ[j].value < lists + 1
    BY <2>2, <2>3, Entries DEF Queued
  <2>5. QED
    BY <2>1, <2>2, <2>3, <2>4 DEF EntryOpen
<1>8. CASE Notes
  <2>1. UNCHANGED <<model, gameQ, entry, lists>> /\ list'.at = list.at /\ list'.model = list.model
    BY <1>8, EvaluateNotedEffect DEF Notes
  <2>2. QED
    BY <2>1 DEF EntryOpen, Submitting
<1>9. CASE Releases
  <2>1. UNCHANGED <<model, gameQ, entry, lists>> /\ list'.at = list.at /\ list'.model = list.model
    BY <1>9, ReleaseBeginsEffect DEF Releases
  <2>2. QED
    BY <2>1 DEF EntryOpen, Submitting
<1>10. CASE ReleaseEnds
  <2>1. model' = 0
    BY <1>10, ReleaseEndsEffect
  <2>2. QED
    BY <2>1 DEF EntryOpen, Submitting
<1>11. CASE CreateFeature
  <2>1. model' = made + 1 /\ list' = list
    BY <1>11, CreateFeatureEffect
  <2>2. list.model # made + 1
    BY DEF Numbered, MTypes, Counts, Calls, GameList
  <2>3. QED
    BY <2>1, <2>2 DEF EntryOpen, Submitting
<1>12. CASE ListExecuting
  <2>1. /\ UNCHANGED <<model, gameQ, entry, lists>> /\ list.at = "recorded"
        /\ list'.model = list.model
    BY <1>12, ListExecutingEffect
  <2>2. QED
    BY <2>1 DEF EntryOpen, Submitting
<1>13. CASE NativeSubmit
  <2>1. list'.at = "none"
    BY <1>13, NativeSubmitEffect DEF NoList
  <2>2. QED
    BY <2>1 DEF EntryOpen, Submitting
<1>14. CASE GameQueueRuns
  <2>1. /\ 1 \in 1 .. Len(gameQ) /\ UNCHANGED <<list, model, lists>>
        /\ entry' = IF gameQ[1].op = "entry" THEN gameQ[1].value ELSE entry
        /\ \A i \in 1 .. Len(gameQ') : gameQ'[i] = gameQ[i + 1] /\ i + 1 \in 1 .. Len(gameQ)
    BY <1>14, GameQueueEffect DEF Still
  <2>2. QED
    BY <2>1 DEF EntryOpen, Submitting
<1>15. QED
  BY <1>2, <1>3, <1>4, <1>5, <1>6, <1>7, <1>8, <1>9, <1>10, <1>11, <1>12, <1>13, <1>14 DEF Step

\* The third layer.
Order ==
  Cover /\ Checked /\ EntryKnows /\ GateKnown /\ Apart /\ Captured /\ Gated /\ EntryOpen

LEMMA OrderInit ==
  ASSUME MInit
  PROVE  Order
<1>1. /\ checkbox = TRUE /\ evaluate.at = "out" /\ evaluate.tagged = FALSE /\ list.at = "none" /\ machine.active = FALSE
      /\ Len(privateQ) = 0 /\ Len(presentQ) = 0 /\ Len(gameQ) = 0
  BY DEF MInit, NoEvaluate, NoList
<1>2. Checked /\ EntryKnows /\ GateKnown /\ Apart /\ Captured /\ Gated /\ EntryOpen
  BY <1>1 DEF Checked, EntryKnows, Submitting, GateKnown, Apart, Captured, Gated, ListBehind, EntryOpen
<1>3. QED
  BY <1>2, CoverInit DEF Order

LEMMA OrderStep ==
  ASSUME Surprises = {}, Order, [MNext]_mvars
  PROVE  Order'
<1>1. Cover'
  BY CoverStep DEF Order, NoSurprise
<1>2. CASE MNext
  <2>1. /\ MTypes /\ Numbered /\ Queued /\ Watched /\ Covers /\ Step
        /\ "late" \notin Surprises /\ "straddle" \notin Surprises
        /\ Checked /\ EntryKnows /\ GateKnown /\ Apart /\ Captured /\ Gated /\ EntryOpen
    BY <1>2, Steps DEF Order, Cover, Base
  <2>2. Checked' /\ EntryKnows' /\ GateKnown'
    BY <2>1, CheckedKept, EntryKnowsKept, GateKnownKept
  <2>3. Apart' /\ Captured' /\ Gated' /\ EntryOpen'
    BY <2>1, ApartKept, CapturedKept, GatedKept, EntryOpenKept
  <2>4. QED
    BY <1>1, <2>2, <2>3 DEF Order
<1>3. CASE UNCHANGED mvars
  <2> USE <1>3 DEF mvars, user, pipeline, queues3, core3, Order
  <2>1. Checked' /\ EntryKnows' /\ GateKnown'
    BY DEF Checked, EntryKnows, Submitting, Admits, GateKnown
  <2>2. Apart' /\ Captured'
    BY DEF Apart, Used, Captured
  <2>3. Gated' /\ EntryOpen'
    BY DEF Gated, EntryOpen, Submitting
  <2>4. QED
    BY <1>1, <2>1, <2>2, <2>3
<1>4. QED
  BY <1>2, <1>3

\* The GPU never has a pass and a list of the game's to run on the same model, on the present queue or on a
\* queue of the game's own: the capture's fence, the run's entry and the host queue's wait order them.
THEOREM NeverTogether ==
  ASSUME Surprises = {}
  PROVE  MSpec => []NoOverlap
<1>1. MInit => Order
  BY OrderInit
<1>2. Order /\ [MNext]_mvars => Order'
  BY OrderStep
<1>3. Order => NoOverlap
  <2>1. SUFFICES ASSUME Order, PassReady
                 PROVE  Head(privateQ).model \notin ListAt(presentQ) \cup ListAt(gameQ)
    BY DEF NoOverlap
  <2>2. /\ privateQ \in Seq(Pass) /\ presentQ \in Seq(Entry) /\ gameQ \in Seq(Entry)
        /\ f1 \in Nat /\ entry \in Nat /\ privateQ # <<>>
    BY <2>1 DEF Order, Cover, Base, MTypes, Queues3, Counts, PassReady
  <2>3. /\ Head(privateQ) = privateQ[1] /\ 1 \in 1 .. Len(privateQ)
        /\ presentQ # <<>> => Head(presentQ) = presentQ[1] /\ 1 \in 1 .. Len(presentQ)
        /\ gameQ # <<>> => Head(gameQ) = gameQ[1] /\ 1 \in 1 .. Len(gameQ)
    BY <2>2
  <2>4. privateQ[1].pass <= f1 /\ privateQ[1].entry <= entry /\ privateQ[1].pass \in Nat /\ privateQ[1].entry \in Nat
    BY <2>1, <2>2, <2>3, Passes DEF PassReady
  <2>5. ~(f1 < privateQ[1].pass) /\ ~(entry < privateQ[1].entry)
    BY <2>2, <2>4
  <2>6. privateQ[1].model \notin ListAt(presentQ)
    BY <2>1, <2>3, <2>5 DEF Order, Captured, ListBehind, ListAt
  <2>7. privateQ[1].model \notin ListAt(gameQ)
    BY <2>1, <2>3, <2>5 DEF Order, Gated, ListBehind, ListAt
  <2>8. QED
    BY <2>3, <2>6, <2>7
<1>4. QED
  BY <1>1, <1>2, <1>3, PTL DEF MSpec
=============================================================================

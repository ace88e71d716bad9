------------------------ MODULE BackgroundJobProofs ------------------------
(***************************************************************************)
(* Proofs about BackgroundJob, for every number of passes, job objects,    *)
(* allocators, frames and changes of the mode.                             *)
(*                                                                         *)
(* The invariant relates three places where a pass leaves traces: the      *)
(* queue it runs on, the entries still on the host's queues, and the job   *)
(* that kicked it.  Its main conjunct, Placed, is about a list of the      *)
(* pipeline at a position of the host's queue: the pass it follows on is   *)
(* over or waited for before that position, the copies it reads are those  *)
(* of that pass, and no signal or copy before it is of a later one.        *)
(* Sendable says the same of a signal.  Both are told of the queue and of  *)
(* a job object's standing, how far it has come; they survive whatever is  *)
(* put behind (Later), and the GPU's coming to the end of the first entry  *)
(* (Ran).  A new list or signal gets its place from what the job knows of  *)
(* the queues' ends: Awaited, CopiedFor, Known, Pending.                   *)
(*                                                                         *)
(* A pass settled before the host submits its list is signalled ahead of   *)
(* that list; Late is that one exception, and its job is on its way out.   *)
(*                                                                         *)
(* ModelLists and Spaced say where the host's own lists with the model     *)
(* stand, and that a mark stands between two lists.  They hold where the   *)
(* host stays with lists the pipeline can record on.                       *)
(***************************************************************************)
EXTENDS BackgroundJob, FiniteSetTheorems, TLAPS

-----------------------------------------------------------------------------
(* The inductive invariant.                                                *)

Queues == {Main, Other}

ListE == [op : {"list"}, gen : 0..MaxGens, adopt : Nat, copy : Nat, out : 0..1, model : BOOLEAN]
SignalE == [op : {"signal"}, gen : Gens, value : Nat \ {0}]
WaitE == [op : {"wait"}, gen : Gens, value : Nat \ {0}]
Entry == ListE \cup SignalE \cup WaitE \cup {Mark}
Pass == [job : Nat, out : 0..1, slot : 0..Slots - 1]
Job == [gen : Gens, jobId : Nat, inflight : BOOLEAN, discard : BOOLEAN, signalPending : BOOLEAN,
        submitQueue : {NoEntry, Main}, sinceKick : Nat, age : Nat, outIndex : 0..1,
        slotJob : [0..Slots - 1 -> Nat], wantDirect : BOOLEAN, freshCompute : BOOLEAN, warpFailed : BOOLEAN]

Burying == {"drain", "settle", "settled"}
Pipeline == {"ensure", "build", "direct", "sync", "cap", "capped", "adopt", "kick"}

HostTypes ==
  /\ queues \in {{Main}, {Main, Other}} /\ observed \in BOOLEAN /\ (queues # {Main} => observed)
  /\ mode \in {"background", "host"} /\ modeChanges \in Nat
ThreadTypes ==
  /\ pc \in Burying \cup Pipeline \cup {"host"} /\ after \in {"host", "build", "direct"} /\ reset \in BOOLEAN
  /\ made \in 0..MaxGens
  /\ job = NoJob \/ job \in Job
  /\ open = NoEntry \/ open \in ListE
  /\ rec = NoEntry \/ rec \in ListE
QueueTypes == queue \in [Queues -> Seq(Entry)] /\ \A q \in Queues \ queues : queue[q] = <<>>
GpuTypes ==
  /\ bg \in [Gens -> Seq(Pass)] /\ running \in [Gens -> BOOLEAN]
  /\ fInputs \in [Gens -> Nat] /\ fModel \in [Gens -> Nat] /\ copies \in [Gens -> Nat]
  /\ answer \in [Gens -> [0..1 -> Nat]] /\ abandoned \in [Gens -> BOOLEAN]
BTypeOK == HostTypes /\ ThreadTypes /\ QueueTypes /\ GpuTypes

\* How far each job object has come; last: the pass it kicked last.
Standings == [done : Nat, inputs : Nat, copied : Nat, last : Nat, left : BOOLEAN]
stand == [g \in Gens |-> [done |-> fModel[g], inputs |-> fInputs[g], copied |-> copies[g],
                          last |-> fModel[g] + Len(bg[g]), left |-> abandoned[g]]]

\* The passes of a job object.
PassesOf(g) ==
  /\ \A i \in 1..Len(bg[g]) : bg[g][i].job = fModel[g] + i /\ bg[g][i].out = (fModel[g] + i) % 2
  /\ running[g] => Len(bg[g]) > 0 /\ fModel[g] < fInputs[g]
  /\ answer[g][fModel[g] % 2] = fModel[g]
  /\ fModel[g] > 0 => answer[g][(fModel[g] - 1) % 2] = fModel[g] - 1
  /\ fModel[g] <= fInputs[g] /\ fInputs[g] <= fModel[g] + Len(bg[g]) /\ copies[g] <= fModel[g] + Len(bg[g])
  /\ ~abandoned[g] => fInputs[g] <= copies[g] /\ copies[g] <= fModel[g] + 1
  /\ g > made => Len(bg[g]) = 0 /\ fModel[g] = 0 /\ fInputs[g] = 0 /\ copies[g] = 0 /\ ~abandoned[g]
Passes == \A g \in Gens : PassesOf(g)

\* What stands before position n of a queue s, for the pass v of the job object g (st: its standing).
Waited(s, n, g, v, st) == st.done >= v \/ \E k \in 1..Len(s) : k < n /\ s[k] = Wait(g, v)
Copied(s, n, g, v, st) ==
  st.copied = v \/ \E k \in 1..Len(s) : k < n /\ s[k].op = "list" /\ s[k].gen = g /\ s[k].copy = v /\ v # 0
Signalled(s, g, v, st) == st.inputs >= v \/ \E k \in 1..Len(s) : s[k] = Signal(g, v)
Late(v, st) == st.left /\ v = st.last
Reach(b, v, st) == v <= b \/ (v = b + 1 /\ Late(v, st))

\* The pass a list follows on: the one it adopts, or the one before the kick it copies for.
Base(e) == IF e.copy # 0 THEN e.copy - 1 ELSE e.adopt

Placed(s, n, e, st) ==
  /\ e.adopt # 0 \/ e.copy # 0
  /\ ~e.model
  /\ e.copy <= st.last /\ e.adopt <= st.last
  /\ e.adopt # 0 => e.adopt = Base(e) /\ e.out = e.adopt % 2
  /\ Waited(s, n, e.gen, Base(e), st)
  /\ Reach(Base(e), st.inputs, st)
  /\ st.copied <= Base(e)
  /\ Copied(s, n, e.gen, Base(e), st)
  /\ \A k \in 1..Len(s) : k < n =>
       /\ s[k].op = "signal" /\ s[k].gen = e.gen => Reach(Base(e), s[k].value, st)
       /\ s[k].op = "list" /\ s[k].gen = e.gen => s[k].copy <= Base(e)

Sendable(s, n, g, v, st) ==
  /\ v <= st.last
  /\ Waited(s, n, g, v - 1, st)
  /\ v > st.inputs \/ (v = st.inputs /\ Late(v, st))
  /\ \A k \in 1..Len(s) : k < n =>
       /\ s[k].op = "signal" /\ s[k].gen = g => s[k].value < v
       /\ s[k].op = "wait" /\ s[k].gen = g => s[k].value < v
       /\ s[k].op = "list" /\ s[k].gen = g => s[k].copy <= v

\* A list of the host's own, or one of the pipeline in its place.
ListAt(s, n, e, S) == IF e.gen = 0 THEN e.adopt = 0 /\ e.copy = 0 ELSE Placed(s, n, e, S[e.gen])

ListsPlaced ==
  /\ \A k \in 1..Len(queue[Other]) : queue[Other][k].op # "list"
  /\ \A k \in 1..Len(queue[Main]) : queue[Main][k].op = "list" => ListAt(queue[Main], k, queue[Main][k], stand)
OpenPlaced == open # NoEntry => ListAt(queue[Main], Len(queue[Main]) + 1, open, stand)

\* A signal in its place: behind the list that copies, or for a pass that was settled before that list.
SentAt(s, n, g, v, st, main) == Sendable(s, n, g, v, st) /\ (Late(v, st) \/ (main /\ Copied(s, n, g, v, st)))
SignalsSent ==
  \A q \in Queues : \A k \in 1..Len(queue[q]) : queue[q][k].op = "signal" =>
    SentAt(queue[q], k, queue[q][k].gen, queue[q][k].value, stand[queue[q][k].gen], q = Main)

WaitsFollow ==
  \A q \in Queues : \A k \in 1..Len(queue[q]) : queue[q][k].op = "wait" =>
    /\ queue[q][k].value <= stand[queue[q][k].gen].last
    /\ Signalled(queue[Main], queue[q][k].gen, queue[q][k].value, stand[queue[q][k].gen])

\* Behind everything the host's queues hold the pass v is over, and the copies for it are made.
Awaited(g, v) == \A q \in queues : Waited(queue[q], Len(queue[q]) + 1, g, v, stand[g])
CopiedFor(g, v) == Copied(queue[Main], Len(queue[Main]) + 1, g, v, stand[g])

\* The job.
SlotsKept ==
  /\ SlotsApart3
  /\ ~Gone => \A i \in 1..Len(bg[job.gen]) : job.slotJob[bg[job.gen][i].slot] >= bg[job.gen][i].job
Numbered == ~Gone => job.gen = made /\ job.jobId = stand[job.gen].last /\ job.outIndex = job.jobId % 2
Pending ==
  ~Gone /\ job.signalPending =>
    /\ fInputs[job.gen] < job.jobId
    /\ \A q \in Queues : \A k \in 1..Len(queue[q]) :
         queue[q][k].op \in {"signal", "wait"} /\ queue[q][k].gen = job.gen => queue[q][k].value < job.jobId
    /\ Awaited(job.gen, job.jobId - 1)
    /\ open # NoEntry => open.gen = job.gen /\ open.copy = job.jobId
    /\ open = NoEntry => CopiedFor(job.gen, job.jobId) /\ (job.submitQueue = Main \/ queues = {Main})
Known ==
  ~Gone =>
    /\ ~job.signalPending => Signalled(queue[Main], job.gen, job.jobId, stand[job.gen])
    /\ \/ CopiedFor(job.gen, job.jobId)
       \/ open # NoEntry /\ open.gen = job.gen /\ open.copy = job.jobId
       \/ abandoned[job.gen]
    /\ ~job.inflight => Awaited(job.gen, job.jobId)

\* The list that is recorded adopts nothing, or the pass the job kicked last.
RecFits(r, j) ==
  /\ ~r.model /\ r.copy = 0
  /\ IF r.gen = 0 THEN r.adopt = 0
     ELSE r.gen = j.gen /\ r.adopt = j.jobId /\ j.jobId # 0 /\ r.out = j.outIndex /\ ~j.inflight

Control ==
  /\ pc \in {"sync", "cap", "capped", "adopt", "kick", "drain", "settle"} => ~Gone
  /\ pc \in {"drain", "settle"} => job.inflight
  /\ pc \in {"build", "direct"} => Gone
  /\ pc = "settled" => Gone \/ ~job.inflight \/ Finished(job.jobId)
  /\ pc \in Pipeline => open = NoEntry /\ mode = "background"
  /\ pc \in Burying /\ after # "host" => open = NoEntry /\ mode = "background"
  /\ pc = "host" /\ mode = "host" => Gone
  /\ ~Gone /\ abandoned[job.gen] => pc \in Burying
  /\ ~Gone /\ job.signalPending => pc = "host" /\ job.inflight
  /\ ~Gone /\ job.inflight => job.jobId > 0
  /\ pc = "adopt" => rec = NewList
  /\ pc = "kick" => rec \in ListE /\ RecFits(rec, job)

\* Of the passes that have not finished.
OneAtWork ==
  /\ \A g, h \in Gens : bg[g] # <<>> /\ bg[h] # <<>> => g = h
  /\ \A g \in Gens : Gone \/ g # job.gen => Awaited(g, stand[g].last)
  /\ ~Gone /\ pc # "sync" => \A g \in Gens : g # job.gen => bg[g] = <<>>

BInv ==
  /\ BTypeOK /\ Passes /\ ListsPlaced /\ SignalsSent /\ WaitsFollow /\ OpenPlaced
  /\ SlotsKept /\ Numbered /\ Pending /\ Known /\ Control /\ OneAtWork

\* With lists that stay what they are.
ModelLists ==
  /\ ~Gone /\ pc # "sync" =>
       /\ open # NoEntry => ~open.model
       /\ \A k \in 1..Len(queue[Main]) : queue[Main][k].op = "list" => ~queue[Main][k].model
  /\ \A g \in Gens :
       /\ open # NoEntry /\ open.model => Awaited(g, stand[g].last)
       /\ \A k \in 1..Len(queue[Main]) : queue[Main][k].op = "list" /\ queue[Main][k].model =>
            Waited(queue[Main], k, g, stand[g].last, stand[g])

\* A mark stands behind the list at i, and no list between them.
MarkedAt(s, i) == \E m \in 1..Len(s) : i < m /\ s[m].op = "mark" /\ \A j \in i + 1..m - 1 : s[j].op # "list"
LastList(s, i) == \A j \in i + 1..Len(s) : s[j].op # "list"
Spaced ==
  /\ ~Gone /\ pc # "sync" => \A i \in 1..Len(queue[Main]) : queue[Main][i].op = "list" =>
       \/ MarkedAt(queue[Main], i)
       \/ pc \notin {"capped", "adopt", "kick"} /\ open = NoEntry /\ LastList(queue[Main], i)
  /\ pc = "adopt" /\ queues = {Main} => Marks(Main) <= MaxQueue

-----------------------------------------------------------------------------
(* Sequences and entries.                                                  *)

LEMMA Appended ==
  ASSUME NEW S, NEW s \in Seq(S), NEW e \in S
  PROVE  /\ Append(s, e) \in Seq(S) /\ Len(Append(s, e)) = Len(s) + 1
         /\ Append(s, e)[Len(s) + 1] = e
         /\ \A i \in 1..Len(s) : Append(s, e)[i] = s[i]
  OBVIOUS

LEMMA Removed ==
  ASSUME NEW S, NEW s \in Seq(S), s # <<>>
  PROVE  /\ Tail(s) \in Seq(S) /\ Len(s) \in Nat /\ Len(s) > 0 /\ Len(Tail(s)) = Len(s) - 1
         /\ Head(s) = s[1] /\ s[1] \in S
         /\ \A i \in 1..Len(s) - 1 : Tail(s)[i] = s[i + 1] /\ i + 1 \in 1..Len(s)
  OBVIOUS

LEMMA EntryKinds ==
  ASSUME NEW e \in Entry
  PROVE  /\ e.op \in {"list", "signal", "wait", "mark"}
         /\ e.op = "list" => /\ e \in ListE /\ e.gen \in 0..MaxGens /\ e.adopt \in Nat /\ e.copy \in Nat
                             /\ e.out \in 0..1 /\ e.model \in BOOLEAN
         /\ e.op = "signal" => e.gen \in Gens /\ e.value \in Nat \ {0} /\ e = Signal(e.gen, e.value)
         /\ e.op = "wait" => e.gen \in Gens /\ e.value \in Nat \ {0} /\ e = Wait(e.gen, e.value)
  BY DEF Entry, ListE, SignalE, WaitE, Mark, Signal, Wait

LEMMA EntriesMade ==
  /\ Mark \in Entry /\ Mark.op = "mark"
  /\ \A g \in Gens, v \in Nat \ {0} :
       /\ Signal(g, v) \in Entry /\ Signal(g, v).op = "signal" /\ Signal(g, v).gen = g /\ Signal(g, v).value = v
       /\ Wait(g, v) \in Entry /\ Wait(g, v).op = "wait" /\ Wait(g, v).gen = g /\ Wait(g, v).value = v
  BY DEF Entry, SignalE, WaitE, Mark, Signal, Wait

LEMMA ListMade ==
  ASSUME NEW e \in ListE
  PROVE  /\ e \in Entry /\ e.op = "list" /\ e.gen \in 0..MaxGens /\ e.adopt \in Nat /\ e.copy \in Nat
         /\ e.out \in 0..1 /\ e.model \in BOOLEAN /\ e # NoEntry
  BY DEF Entry, ListE, NoEntry

LEMMA StandNow ==
  ASSUME GpuTypes
  PROVE  /\ stand \in [Gens -> Standings]
         /\ \A g \in Gens : /\ stand[g].done = fModel[g] /\ stand[g].inputs = fInputs[g] /\ stand[g].copied = copies[g]
                           /\ stand[g].last = fModel[g] + Len(bg[g]) /\ stand[g].left = abandoned[g]
                           /\ stand[g] \in Standings /\ Len(bg[g]) \in Nat /\ fModel[g] \in Nat /\ fInputs[g] \in Nat
                           /\ copies[g] \in Nat /\ stand[g].last \in Nat /\ stand[g].left \in BOOLEAN
<1>1. \A g \in Gens : Len(bg[g]) \in Nat /\ fModel[g] \in Nat
  BY DEF GpuTypes
<1>2. QED
  BY <1>1 DEF GpuTypes, stand, Standings

LEMMA StandNext ==
  ASSUME GpuTypes'
  PROVE  /\ stand' \in [Gens -> Standings]
         /\ \A g \in Gens : /\ stand'[g].done = fModel'[g] /\ stand'[g].inputs = fInputs'[g]
                           /\ stand'[g].copied = copies'[g]
                           /\ stand'[g].last = fModel'[g] + Len(bg'[g]) /\ stand'[g].left = abandoned'[g]
                           /\ stand'[g] \in Standings /\ Len(bg'[g]) \in Nat /\ fModel'[g] \in Nat /\ fInputs'[g] \in Nat
                           /\ copies'[g] \in Nat /\ stand'[g].last \in Nat /\ stand'[g].left \in BOOLEAN
<1>1. \A g \in Gens : Len(bg'[g]) \in Nat /\ fModel'[g] \in Nat
  BY DEF GpuTypes
<1>2. QED
  BY <1>1 DEF GpuTypes, stand, Standings

\* Passes are numbered alternately even and odd.
LEMMA Parity ==
  ASSUME NEW n \in Nat
  PROVE  n % 2 \in 0..1 /\ (n + 1) % 2 = 1 - (n % 2)
  OBVIOUS

-----------------------------------------------------------------------------
(* What a queue that grows and a job object that gets on leave of a place. *)

Extends(t, s) == Len(t) >= Len(s) /\ \A k \in 1..Len(s) : t[k] = s[k]
Later(st2, st) ==
  /\ st2.done >= st.done /\ st2.inputs = st.inputs /\ st2.copied = st.copied /\ st2.last >= st.last
  /\ st.left => st2.left /\ st2.last = st.last

LEMMA WaitedLater ==
  ASSUME NEW s \in Seq(Entry), NEW t \in Seq(Entry), Extends(t, s), NEW st \in Standings, NEW st2 \in Standings,
         Later(st2, st), NEW n \in Nat, NEW m \in Nat, n <= m, NEW g, NEW v \in Nat, Waited(s, n, g, v, st)
  PROVE  Waited(t, m, g, v, st2)
<1>1. st.done \in Nat /\ st2.done \in Nat /\ st2.done >= st.done /\ Len(s) \in Nat /\ Len(t) \in Nat
  BY DEF Standings, Later
<1>2. \A k \in 1..Len(s) : k \in 1..Len(t) /\ t[k] = s[k]
  BY <1>1 DEF Extends
<1>3. QED
  BY <1>1, <1>2 DEF Waited

LEMMA CopiedLater ==
  ASSUME NEW s \in Seq(Entry), NEW t \in Seq(Entry), Extends(t, s), NEW st \in Standings, NEW st2 \in Standings,
         st2.copied = st.copied, NEW n \in Nat, NEW m \in Nat, n <= m, NEW g, NEW v \in Nat, Copied(s, n, g, v, st)
  PROVE  Copied(t, m, g, v, st2)
<1>1. Len(s) \in Nat /\ Len(t) \in Nat
  OBVIOUS
<1>2. \A k \in 1..Len(s) : k \in 1..Len(t) /\ t[k] = s[k]
  BY <1>1 DEF Extends
<1>3. QED
  BY <1>1, <1>2 DEF Copied

LEMMA BaseType ==
  ASSUME NEW e \in ListE
  PROVE  Base(e) \in Nat
  BY DEF ListE, Base

LEMMA ReachLater ==
  ASSUME NEW st \in Standings, NEW st2 \in Standings, Later(st2, st), NEW b \in Nat, NEW v \in Nat, Reach(b, v, st)
  PROVE  Reach(b, v, st2)
  BY DEF Reach, Late, Later, Standings

LEMMA PlacedLater ==
  ASSUME NEW s \in Seq(Entry), NEW t \in Seq(Entry), Extends(t, s), NEW st \in Standings, NEW st2 \in Standings,
         Later(st2, st), NEW n \in Nat, n <= Len(s) + 1, NEW e \in ListE, Placed(s, n, e, st)
  PROVE  Placed(t, n, e, st2)
<1>1. /\ e.adopt \in Nat /\ e.copy \in Nat /\ Base(e) \in Nat /\ st.last \in Nat /\ st2.last \in Nat /\ st2.last >= st.last
      /\ st.inputs \in Nat /\ st2.inputs = st.inputs /\ st.copied \in Nat /\ st2.copied = st.copied
  BY ListMade, BaseType DEF Standings, Later
<1>2. \A k \in 1..Len(t) : k < n => k \in 1..Len(s) /\ t[k] = s[k]
  BY DEF Extends
<1>3. \A k \in 1..Len(s) : s[k] \in Entry
  OBVIOUS
<1>4. \A k \in 1..Len(s) : s[k].op = "signal" => s[k].value \in Nat
  BY <1>3, EntryKinds
<1>5. Waited(t, n, e.gen, Base(e), st2)
  BY <1>1, WaitedLater DEF Placed
<1>6. Copied(t, n, e.gen, Base(e), st2)
  BY <1>1, CopiedLater DEF Placed
<1>7. Reach(Base(e), st2.inputs, st2)
  BY <1>1, ReachLater DEF Placed
<1>8. ASSUME NEW k \in 1..Len(t), k < n
      PROVE  /\ t[k].op = "signal" /\ t[k].gen = e.gen => Reach(Base(e), t[k].value, st2)
             /\ t[k].op = "list" /\ t[k].gen = e.gen => t[k].copy <= Base(e)
  <2>1. k \in 1..Len(s) /\ t[k] = s[k]
    BY <1>2, <1>8
  <2>2. CASE s[k].op = "signal" /\ s[k].gen = e.gen
    <3>1. Reach(Base(e), s[k].value, st)
      BY <1>8, <2>1, <2>2 DEF Placed
    <3>2. QED
      BY <1>1, <1>4, <2>1, <2>2, <3>1, ReachLater
  <2>3. CASE ~(s[k].op = "signal" /\ s[k].gen = e.gen)
    BY <1>8, <2>1, <2>3 DEF Placed
  <2>4. QED
    BY <2>2, <2>3
<1>9. /\ e.adopt # 0 \/ e.copy # 0
      /\ ~e.model /\ e.copy <= st2.last /\ e.adopt <= st2.last
      /\ e.adopt # 0 => e.adopt = Base(e) /\ e.out = e.adopt % 2
      /\ st2.copied <= Base(e)
  <2>1. /\ e.adopt # 0 \/ e.copy # 0
        /\ ~e.model /\ e.copy <= st.last /\ e.adopt <= st.last
        /\ e.adopt # 0 => e.adopt = Base(e) /\ e.out = e.adopt % 2
        /\ st.copied <= Base(e)
    BY DEF Placed
  <2>2. e.copy <= st2.last /\ e.adopt <= st2.last
    BY <1>1, <2>1
  <2>3. QED
    BY <1>1, <2>1, <2>2
<1>10. QED
  BY <1>5, <1>6, <1>7, <1>8, <1>9 DEF Placed

LEMMA SendableLater ==
  ASSUME NEW s \in Seq(Entry), NEW t \in Seq(Entry), Extends(t, s), NEW st \in Standings, NEW st2 \in Standings,
         Later(st2, st), NEW n \in Nat, n <= Len(s) + 1, NEW g, NEW v \in Nat \ {0}, Sendable(s, n, g, v, st)
  PROVE  Sendable(t, n, g, v, st2) /\ (Late(v, st) => Late(v, st2))
<1>1. /\ v - 1 \in Nat /\ st.last \in Nat /\ st2.last \in Nat /\ st2.last >= st.last
      /\ st.inputs \in Nat /\ st2.inputs = st.inputs
  BY DEF Standings, Later
<1>2. \A k \in 1..Len(t) : k < n => k \in 1..Len(s) /\ t[k] = s[k]
  BY DEF Extends
<1>3. Waited(t, n, g, v - 1, st2)
  BY <1>1, WaitedLater DEF Sendable
<1>4. Late(v, st) => Late(v, st2)
  BY DEF Late, Later
<1>5. v <= st2.last /\ (v > st2.inputs \/ (v = st2.inputs /\ Late(v, st2)))
  BY <1>1, <1>4 DEF Sendable
<1>6. ASSUME NEW k \in 1..Len(t), k < n
      PROVE  /\ t[k].op = "signal" /\ t[k].gen = g => t[k].value < v
             /\ t[k].op = "wait" /\ t[k].gen = g => t[k].value < v
             /\ t[k].op = "list" /\ t[k].gen = g => t[k].copy <= v
  BY <1>2, <1>6 DEF Sendable
<1>7. QED
  BY <1>3, <1>4, <1>5, <1>6 DEF Sendable

-----------------------------------------------------------------------------
(* What is left of a place when the GPU has come to the end of the entry   *)
(* at the head of the queue.                                               *)

Ran(h, g, st) ==
  [st EXCEPT !.copied = IF h.op = "list" /\ h.gen = g /\ h.copy # 0 THEN h.copy ELSE @,
             !.inputs = IF h.op = "signal" /\ h.gen = g THEN h.value ELSE @]

LEMMA RanFields ==
  ASSUME NEW h \in Entry, NEW g, NEW st \in Standings
  PROVE  /\ Ran(h, g, st) \in Standings
         /\ Ran(h, g, st).done = st.done /\ Ran(h, g, st).last = st.last /\ Ran(h, g, st).left = st.left
         /\ Ran(h, g, st).copied = IF h.op = "list" /\ h.gen = g /\ h.copy # 0 THEN h.copy ELSE st.copied
         /\ Ran(h, g, st).inputs = IF h.op = "signal" /\ h.gen = g THEN h.value ELSE st.inputs
<1>1. (h.op = "list" => h.copy \in Nat) /\ (h.op = "signal" => h.value \in Nat)
  BY EntryKinds
<1>2. QED
  BY <1>1 DEF Ran, Standings

LEMMA WaitedRuns ==
  ASSUME NEW s \in Seq(Entry), s # <<>>, NEW st \in Standings, NEW g, NEW v \in Nat, NEW n \in Nat,
         Waited(s, n + 1, g, v, st), s[1] = Wait(g, v) => st.done >= v
  PROVE  Waited(Tail(s), n, g, v, Ran(s[1], g, st))
<1>1. s[1] \in Entry /\ Len(s) \in Nat /\ Len(s) > 0 /\ Len(Tail(s)) = Len(s) - 1
  BY Removed
<1>2. Ran(s[1], g, st).done = st.done
  BY <1>1, RanFields
<1>3. CASE st.done >= v
  BY <1>2, <1>3 DEF Waited
<1>4. CASE ~(st.done >= v)
  <2>1. PICK k \in 1..Len(s) : k < n + 1 /\ s[k] = Wait(g, v)
    BY <1>4 DEF Waited
  <2>2. k # 1
    BY <1>4, <2>1
  <2>3. k - 1 \in 1..Len(s) - 1 /\ k - 1 < n /\ (k - 1) + 1 = k
    BY <1>1, <2>1, <2>2
  <2>4. Tail(s)[k - 1] = s[k]
    BY <2>3, Removed
  <2>5. QED
    BY <1>1, <2>1, <2>3, <2>4 DEF Waited
<1>5. QED
  BY <1>3, <1>4

\* A list at the head that copies v, or none for the passes after v, leaves v copied or to be copied.
LEMMA CopiedRuns ==
  ASSUME NEW s \in Seq(Entry), s # <<>>, NEW st \in Standings, NEW g, NEW v \in Nat, NEW n \in Nat,
         Copied(s, n + 1, g, v, st),
         s[1].op = "list" /\ s[1].gen = g /\ s[1].copy # 0 => s[1].copy <= v /\ st.copied < s[1].copy
  PROVE  Copied(Tail(s), n, g, v, Ran(s[1], g, st))
<1>1. s[1] \in Entry /\ Len(s) \in Nat /\ Len(s) > 0 /\ Len(Tail(s)) = Len(s) - 1
  BY Removed
<1>2. /\ Ran(s[1], g, st).copied = IF s[1].op = "list" /\ s[1].gen = g /\ s[1].copy # 0 THEN s[1].copy ELSE st.copied
      /\ st.copied \in Nat /\ (s[1].op = "list" => s[1].copy \in Nat)
  BY <1>1, RanFields, EntryKinds DEF Standings
<1>3. CASE \E k \in 1..Len(s) : k < n + 1 /\ s[k].op = "list" /\ s[k].gen = g /\ s[k].copy = v /\ v # 0
  <2>1. PICK k \in 1..Len(s) : k < n + 1 /\ s[k].op = "list" /\ s[k].gen = g /\ s[k].copy = v /\ v # 0
    BY <1>3
  <2>2. CASE k = 1
    BY <1>2, <2>1, <2>2 DEF Copied
  <2>3. CASE k # 1
    <3>1. k - 1 \in 1..Len(s) - 1 /\ k - 1 < n /\ (k - 1) + 1 = k
      BY <1>1, <2>1, <2>3
    <3>2. Tail(s)[k - 1] = s[k]
      BY <3>1, Removed
    <3>3. QED
      BY <1>1, <2>1, <3>1, <3>2 DEF Copied
  <2>4. QED
    BY <2>2, <2>3
<1>4. CASE st.copied = v
  <2>1. ~(s[1].op = "list" /\ s[1].gen = g /\ s[1].copy # 0)
    BY <1>2, <1>4
  <2>2. QED
    BY <1>2, <1>4, <2>1 DEF Copied
<1>5. QED
  BY <1>3, <1>4 DEF Copied

LEMMA PlacedRuns ==
  ASSUME NEW s \in Seq(Entry), s # <<>>, NEW st \in Standings, NEW n \in Nat \ {0}, NEW e \in ListE,
         Placed(s, n + 1, e, st),
         s[1] = Wait(e.gen, Base(e)) => st.done >= Base(e),
         s[1].op = "list" /\ s[1].gen = e.gen /\ s[1].copy # 0 => st.copied < s[1].copy
  PROVE  Placed(Tail(s), n, e, Ran(s[1], e.gen, st))
<1> DEFINE st2 == Ran(s[1], e.gen, st)
           t == Tail(s)
<1>1. s[1] \in Entry /\ Len(s) \in Nat /\ Len(s) > 0 /\ Len(t) = Len(s) - 1 /\ 1 \in 1..Len(s) /\ 1 < n + 1
  BY Removed
<1>2. /\ st2 \in Standings /\ st2.done = st.done /\ st2.last = st.last /\ st2.left = st.left
      /\ st2.copied = IF s[1].op = "list" /\ s[1].gen = e.gen /\ s[1].copy # 0 THEN s[1].copy ELSE st.copied
      /\ st2.inputs = IF s[1].op = "signal" /\ s[1].gen = e.gen THEN s[1].value ELSE st.inputs
  BY <1>1, RanFields
<1>3. Base(e) \in Nat
  BY BaseType
<1>4. /\ s[1].op = "signal" /\ s[1].gen = e.gen => Reach(Base(e), s[1].value, st)
      /\ s[1].op = "list" /\ s[1].gen = e.gen => s[1].copy <= Base(e)
  BY <1>1 DEF Placed
<1>5. Waited(t, n, e.gen, Base(e), st2)
  BY <1>3, WaitedRuns DEF Placed
<1>6. Copied(t, n, e.gen, Base(e), st2)
  BY <1>3, <1>4, CopiedRuns DEF Placed
<1> HIDE DEF st2
<1>7. \A v : Reach(Base(e), v, st2) <=> Reach(Base(e), v, st)
  BY <1>2 DEF Reach, Late
<1>8. Reach(Base(e), st2.inputs, st2) /\ st2.copied <= Base(e)
  BY <1>2, <1>4, <1>7 DEF Placed
<1>9. ASSUME NEW k \in 1..Len(t), k < n
      PROVE  /\ t[k].op = "signal" /\ t[k].gen = e.gen => Reach(Base(e), t[k].value, st2)
             /\ t[k].op = "list" /\ t[k].gen = e.gen => t[k].copy <= Base(e)
  <2>1. t[k] = s[k + 1] /\ k + 1 \in 1..Len(s) /\ k + 1 < n + 1
    BY <1>1, <1>9, Removed
  <2> HIDE DEF t
  <2>2. QED
    BY <1>7, <2>1 DEF Placed
<1>10. /\ e.adopt # 0 \/ e.copy # 0
       /\ ~e.model /\ e.copy <= st2.last /\ e.adopt <= st2.last
       /\ e.adopt # 0 => e.adopt = Base(e) /\ e.out = e.adopt % 2
  BY <1>2 DEF Placed
<1> HIDE DEF t
<1>11. Placed(t, n, e, st2)
  BY <1>5, <1>6, <1>8, <1>9, <1>10 DEF Placed
<1>12. QED
  BY <1>11 DEF t, st2

LEMMA SendableRuns ==
  ASSUME NEW s \in Seq(Entry), s # <<>>, NEW st \in Standings, NEW n \in Nat \ {0}, NEW g, NEW v \in Nat \ {0},
         Sendable(s, n + 1, g, v, st), s[1] = Wait(g, v - 1) => st.done >= v - 1
  PROVE  Sendable(Tail(s), n, g, v, Ran(s[1], g, st)) /\ Late(v, Ran(s[1], g, st)) = Late(v, st)
<1> DEFINE st2 == Ran(s[1], g, st)
           t == Tail(s)
<1>1. s[1] \in Entry /\ Len(s) \in Nat /\ Len(s) > 0 /\ Len(t) = Len(s) - 1 /\ 1 \in 1..Len(s) /\ 1 < n + 1
  BY Removed
<1>2. /\ st2 \in Standings /\ st2.done = st.done /\ st2.last = st.last /\ st2.left = st.left
      /\ st2.inputs = IF s[1].op = "signal" /\ s[1].gen = g THEN s[1].value ELSE st.inputs
  BY <1>1, RanFields
<1>3. v - 1 \in Nat /\ (s[1].op = "signal" => s[1].value \in Nat)
  BY <1>1, EntryKinds
<1>4. Waited(t, n, g, v - 1, st2)
  BY <1>3, WaitedRuns DEF Sendable
<1> HIDE DEF st2
<1>5. Late(v, st2) = Late(v, st)
  BY <1>2 DEF Late
<1>6. v <= st2.last /\ (v > st2.inputs \/ (v = st2.inputs /\ Late(v, st2)))
  <2>1. s[1].op = "signal" /\ s[1].gen = g => s[1].value < v
    BY <1>1 DEF Sendable
  <2>2. QED
    BY <1>2, <1>3, <1>5, <2>1 DEF Sendable
<1>7. ASSUME NEW k \in 1..Len(t), k < n
      PROVE  /\ t[k].op = "signal" /\ t[k].gen = g => t[k].value < v
             /\ t[k].op = "wait" /\ t[k].gen = g => t[k].value < v
             /\ t[k].op = "list" /\ t[k].gen = g => t[k].copy <= v
  <2>1. t[k] = s[k + 1] /\ k + 1 \in 1..Len(s) /\ k + 1 < n + 1
    BY <1>1, <1>7, Removed
  <2> HIDE DEF t
  <2>2. QED
    BY <2>1 DEF Sendable
<1> HIDE DEF t
<1>8. Sendable(t, n, g, v, st2)
  BY <1>4, <1>6, <1>7 DEF Sendable
<1>9. QED
  BY <1>5, <1>8 DEF t, st2

\* A signal on the other queue.
LEMMA PlacedElsewhere ==
  ASSUME NEW s, NEW st \in Standings, NEW h \in Entry, NEW n, NEW e \in ListE, h.op # "list",
         Placed(s, n, e, st), h.op = "signal" /\ h.gen = e.gen => Reach(Base(e), h.value, st)
  PROVE  Placed(s, n, e, Ran(h, e.gen, st))
<1> DEFINE st2 == Ran(h, e.gen, st)
<1>1. /\ st2.done = st.done /\ st2.last = st.last /\ st2.left = st.left /\ st2.copied = st.copied
      /\ st2.inputs = IF h.op = "signal" /\ h.gen = e.gen THEN h.value ELSE st.inputs
  BY RanFields
<1> HIDE DEF st2
<1>2. \A b, v : Reach(b, v, st2) <=> Reach(b, v, st)
  BY <1>1 DEF Reach, Late
<1>3. Waited(s, n, e.gen, Base(e), st2) /\ Copied(s, n, e.gen, Base(e), st2)
  BY <1>1 DEF Placed, Waited, Copied
<1>4. Placed(s, n, e, st2)
  BY <1>1, <1>2, <1>3 DEF Placed
<1>5. QED
  BY <1>4 DEF st2

LEMMA SendableElsewhere ==
  ASSUME NEW s, NEW st \in Standings, NEW h \in Entry, NEW n, NEW g, NEW v \in Nat \ {0},
         Sendable(s, n, g, v, st),
         h.op = "signal" /\ h.gen = g => v > h.value \/ (v = h.value /\ Late(v, st))
  PROVE  Sendable(s, n, g, v, Ran(h, g, st)) /\ Late(v, Ran(h, g, st)) = Late(v, st)
<1> DEFINE st2 == Ran(h, g, st)
<1>1. /\ st2.done = st.done /\ st2.last = st.last /\ st2.left = st.left
      /\ st2.inputs = IF h.op = "signal" /\ h.gen = g THEN h.value ELSE st.inputs
  BY RanFields
<1> HIDE DEF st2
<1>2. Late(v, st2) = Late(v, st)
  BY <1>1 DEF Late
<1>3. Waited(s, n, g, v - 1, st2)
  BY <1>1 DEF Sendable, Waited
<1>4. v > st2.inputs \/ (v = st2.inputs /\ Late(v, st2))
  BY <1>1, <1>2 DEF Sendable
<1>5. Sendable(s, n, g, v, st2)
  BY <1>1, <1>3, <1>4 DEF Sendable
<1>6. QED
  BY <1>2, <1>5 DEF st2

-----------------------------------------------------------------------------
(* What the steps do to the queues and to the job.                         *)

LEMMA PutOn ==
  ASSUME QueueTypes, NEW S \in SUBSET Queues, NEW e \in Entry
  PROVE  /\ OnQueues(S, e) \in [Queues -> Seq(Entry)]
         /\ \A q \in Queues : OnQueues(S, e)[q] = IF q \in S THEN Append(queue[q], e) ELSE queue[q]
<1>1. \A q \in Queues : queue[q] \in Seq(Entry) /\ Append(queue[q], e) \in Seq(Entry)
  BY DEF QueueTypes
<1>2. QED
  BY <1>1 DEF OnQueues, Queues

\* The queues afterwards: as they were, but for an entry put on those in S.
Put(S, e) ==
  /\ queue' \in [Queues -> Seq(Entry)]
  /\ \A q \in Queues : queue'[q] = IF q \in S THEN Append(queue[q], e) ELSE queue[q]

\* The job afterwards: of the same object, with the same pass.
SameJob ==
  /\ ~Gone /\ job' # NoJob /\ job' \in Job
  /\ job'.gen = job.gen /\ job'.jobId = job.jobId /\ job'.outIndex = job.outIndex /\ job'.slotJob = job.slotJob

LEMMA JobIs ==
  ASSUME ThreadTypes, ~Gone
  PROVE  /\ job \in Job /\ job.gen \in Gens /\ job.jobId \in Nat /\ job.outIndex \in 0..1
         /\ job.inflight \in BOOLEAN /\ job.signalPending \in BOOLEAN
         /\ job.slotJob \in [0..Slots - 1 -> Nat]
  BY DEF ThreadTypes, Gone, Job

LEMMA JobIsSome ==
  ASSUME NEW j \in Job
  PROVE  j # NoJob
<1>1. j.gen \in 1..MaxGens /\ NoJob.gen = 0
  BY DEF Job, Gens, NoJob
<1>2. QED
  BY <1>1

\* AsyncSignalPending sends nothing, or the signal for the pass kicked last.
Sends ==
  /\ ~Gone /\ job.signalPending
  /\ SameJob /\ job'.inflight = job.inflight /\ ~job'.signalPending
  /\ Put(IF job.submitQueue # Main THEN queues ELSE {Main}, Signal(job.gen, job.jobId))

LEMMA SendEffect ==
  ASSUME BTypeOK, Control, SignalPending
  PROVE  (queue' = queue /\ job' = job /\ (Gone \/ ~job.signalPending)) \/ Sends
<1>1. CASE Gone \/ ~job.signalPending
  BY <1>1 DEF SignalPending
<1>2. CASE ~Gone /\ job.signalPending
  <2>1. job \in Job /\ job.gen \in Gens /\ job.jobId \in Nat
    BY <1>2, JobIs DEF BTypeOK
  <2>2. job.jobId \in Nat \ {0}
    BY <1>2, <2>1 DEF Control
  <2>3. /\ queue' = OnQueues(IF job.submitQueue # Main THEN queues ELSE {Main}, Signal(job.gen, job.jobId))
        /\ job' = [job EXCEPT !.signalPending = FALSE, !.submitQueue = NoEntry]
    BY <1>2 DEF SignalPending
  <2>4. Put(IF job.submitQueue # Main THEN queues ELSE {Main}, Signal(job.gen, job.jobId))
    <3>1. Signal(job.gen, job.jobId) \in Entry
      BY <2>1, <2>2, EntriesMade
    <3>2. (IF job.submitQueue # Main THEN queues ELSE {Main}) \in SUBSET Queues
      BY DEF BTypeOK, HostTypes, Queues
    <3> DEFINE on == IF job.submitQueue # Main THEN queues ELSE {Main}
               e == Signal(job.gen, job.jobId)
    <3>3. queue' = OnQueues(on, e) /\ on \in SUBSET Queues /\ e \in Entry
      BY <2>3, <3>1, <3>2
    <3> HIDE DEF on, e
    <3>4. Put(on, e)
      BY <3>3, PutOn DEF Put, BTypeOK
    <3>5. QED
      BY <3>4 DEF on, e
  <2>5. /\ job' \in Job /\ job'.gen = job.gen /\ job'.jobId = job.jobId /\ job'.outIndex = job.outIndex
        /\ job'.slotJob = job.slotJob /\ job'.inflight = job.inflight /\ ~job'.signalPending
    BY <2>1, <2>3 DEF Job
  <2>6. QED
    BY <1>2, <2>4, <2>5, JobIsSome DEF Sends, SameJob
<1>3. QED
  BY <1>1, <1>2

\* A frame that ends without a kick.
FrameEnds ==
  /\ SameJob /\ job'.inflight = job.inflight /\ job'.signalPending = job.signalPending
  /\ job'.submitQueue = job.submitQueue
  /\ open' = rec /\ rec' = NoEntry /\ pc' = "host"

LEMMA EndEffect ==
  ASSUME BTypeOK, Control,
         NoKick \/ \E pack \in BOOLEAN : KickListFails(pack) \/ KickFails(pack)
  PROVE  FrameEnds
<1>1. pc = "kick" /\ ~Gone
  BY DEF NoKick, KickListFails, KickFails, Control
<1>2. job \in Job
  BY <1>1, JobIs DEF BTypeOK
<1>3. \A n \in Nat : Min2(n, Every) \in Nat /\ Min2(n, MaxAge) \in Nat
  BY BackgroundAssumption DEF Min2
<1>4. CASE NoKick
  <2>1. PICK aged \in 0..1 :
          job' = [job EXCEPT !.sinceKick = Min2(job.sinceKick + 1, Every), !.age = Min2(job.age + aged, MaxAge)]
    BY <1>4 DEF NoKick, Ends
  <2>2. Min2(job.sinceKick + 1, Every) \in Nat /\ Min2(job.age + aged, MaxAge) \in Nat
    <3>1. job.sinceKick + 1 \in Nat /\ job.age + aged \in Nat
      BY <1>2 DEF Job
    <3>2. QED
      BY <1>3, <3>1
  <2>3. /\ job' \in Job /\ job'.gen = job.gen /\ job'.jobId = job.jobId /\ job'.outIndex = job.outIndex
        /\ job'.slotJob = job.slotJob /\ job'.inflight = job.inflight /\ job'.signalPending = job.signalPending
        /\ job'.submitQueue = job.submitQueue
    BY <1>2, <2>1, <2>2 DEF Job
  <2>4. QED
    BY <1>1, <1>4, <2>3, JobIsSome DEF NoKick, Ends, FrameEnds, SameJob
<1>5. ASSUME NEW pack \in BOOLEAN, KickListFails(pack)
      PROVE  FrameEnds
  <2>1. /\ job' \in Job /\ job'.gen = job.gen /\ job'.jobId = job.jobId /\ job'.outIndex = job.outIndex
        /\ job'.slotJob = job.slotJob /\ job'.inflight = job.inflight /\ job'.signalPending = job.signalPending
        /\ job'.submitQueue = job.submitQueue
    <3>1. job' = [job EXCEPT !.warpFailed = pack, !.freshCompute = job.freshCompute /\ pack]
      BY <1>2, <1>5 DEF KickListFails, Job
    <3>2. (job.freshCompute /\ pack) \in BOOLEAN
      OBVIOUS
    <3> DEFINE fresh == job.freshCompute /\ pack
    <3> HIDE DEF fresh
    <3>3. QED
      BY <1>2, <3>1, <3>2 DEF Job, fresh
  <2>2. QED
    BY <1>1, <1>5, <2>1, JobIsSome DEF KickListFails, FrameEnds, SameJob
<1>6. ASSUME NEW pack \in BOOLEAN, KickFails(pack)
      PROVE  FrameEnds
  <2> DEFINE failed == [job EXCEPT !.freshCompute = FALSE, !.wantDirect = job.freshCompute, !.warpFailed = pack]
  <2>1. /\ failed \in Job /\ failed.gen = job.gen /\ failed.jobId = job.jobId /\ failed.outIndex = job.outIndex
        /\ failed.slotJob = job.slotJob /\ failed.inflight = job.inflight
        /\ failed.signalPending = job.signalPending /\ failed.submitQueue = job.submitQueue
    BY <1>2 DEF Job
  <2>2. Ends(failed, rec)
    BY <1>6 DEF KickFails
  <2> HIDE DEF failed
  <2>3. PICK aged \in 0..1 : job' = [failed EXCEPT !.sinceKick = Min2(failed.sinceKick + 1, Every),
                                                   !.age = Min2(failed.age + aged, MaxAge)]
    BY <2>2 DEF Ends
  <2>4. Min2(failed.sinceKick + 1, Every) \in Nat /\ Min2(failed.age + aged, MaxAge) \in Nat
    <3>1. failed.sinceKick + 1 \in Nat /\ failed.age + aged \in Nat
      BY <2>1 DEF Job
    <3>2. QED
      BY <1>3, <3>1
  <2>5. /\ job' \in Job /\ job'.gen = failed.gen /\ job'.jobId = failed.jobId /\ job'.outIndex = failed.outIndex
        /\ job'.slotJob = failed.slotJob /\ job'.inflight = failed.inflight
        /\ job'.signalPending = failed.signalPending /\ job'.submitQueue = failed.submitQueue
    BY <2>1, <2>3, <2>4 DEF Job
  <2>6. QED
    BY <1>1, <1>6, <2>1, <2>2, <2>5, JobIsSome DEF KickFails, Ends, FrameEnds, SameJob
<1>7. QED
  BY <1>4, <1>5, <1>6

\* What Adopt does.
Adopts ==
  /\ SameJob /\ job'.signalPending = job.signalPending
  /\ job'.inflight = (job.inflight /\ ~Finished(job.jobId) /\ ~Overdue)
  /\ \/ Overdue /\ Put(queues, Wait(job.gen, job.jobId))
     \/ ~Overdue /\ queue' = queue
  /\ rec' \in ListE /\ RecFits(rec', job')

LEMMA NewListIs ==
  NewList \in ListE /\ NewList.gen = 0 /\ NewList.adopt = 0 /\ NewList.copy = 0 /\ ~NewList.model /\ NewList # NoEntry
<1>1. MaxGens \in Nat /\ 0 \in 0..MaxGens
  BY BackgroundAssumption
<1>2. QED
  BY <1>1 DEF NewList, ListE, NoEntry

Taking(g, a, o) == [NewList EXCEPT !.gen = g, !.adopt = a, !.out = o]

LEMMA TakingList ==
  ASSUME NEW g \in Gens, NEW a \in Nat, NEW o \in 0..1
  PROVE  /\ Taking(g, a, o) \in ListE /\ Taking(g, a, o).gen = g /\ Taking(g, a, o).adopt = a
         /\ Taking(g, a, o).copy = 0 /\ Taking(g, a, o).out = o /\ ~Taking(g, a, o).model
<1>1. MaxGens \in Nat /\ g \in 0..MaxGens
  BY BackgroundAssumption DEF Gens
<1>2. QED
  BY <1>1 DEF NewList, ListE, Taking

ModelList == [NewList EXCEPT !.model = TRUE]

LEMMA ModelListIs ==
  /\ ModelList \in ListE /\ ModelList.gen = 0 /\ ModelList.adopt = 0 /\ ModelList.copy = 0 /\ ModelList.model
  /\ ModelList # NoEntry
<1>1. /\ ModelList \in ListE /\ ModelList.gen = 0 /\ ModelList.adopt = 0 /\ ModelList.copy = 0 /\ ModelList.op = "list"
      /\ ModelList.model
  BY NewListIs DEF ModelList, ListE
<1>2. QED
  BY <1>1 DEF NoEntry

LEMMA GensPositive ==
  \A g \in Gens : g \in Nat \ {0}
  BY BackgroundAssumption DEF Gens

LEMMA AdoptEffect ==
  ASSUME BTypeOK, Control, Adopt
  PROVE  Adopts
<1> DEFINE ready == Ready \/ Overdue
           taken == ready /\ ~Discards(reset)
           flying == job.inflight /\ ~ready
           dropped == Discards(reset) /\ ~ready
           years == IF taken THEN 0 ELSE job.age
<1>1. pc = "adopt" /\ ~Gone /\ rec = NewList
  BY DEF Adopt, Control
<1>2. job \in Job /\ job.gen \in Gens /\ job.jobId \in Nat /\ job.outIndex \in 0..1 /\ job.inflight \in BOOLEAN
  BY <1>1, JobIs DEF BTypeOK
<1>3. /\ queue' = ForcedWait
      /\ rec' = IF taken THEN [rec EXCEPT !.gen = job.gen, !.adopt = job.jobId, !.out = job.outIndex] ELSE rec
      /\ job' = [job EXCEPT !.inflight = flying, !.discard = dropped, !.age = years]
  BY DEF Adopt
<1>4. job.age \in Nat /\ (ready <=> (job.inflight /\ (Finished(job.jobId) \/ Overdue)))
  BY <1>2 DEF Job, Ready, Overdue
<1>5. years \in Nat /\ flying \in BOOLEAN /\ dropped \in BOOLEAN
  BY <1>4
<1>6. flying = (job.inflight /\ ~Finished(job.jobId) /\ ~Overdue) /\ (taken => ~flying /\ job.inflight)
  BY <1>4
<1> HIDE DEF taken, flying, dropped, years
<1>7. /\ job' \in Job /\ job'.gen = job.gen /\ job'.jobId = job.jobId /\ job'.outIndex = job.outIndex
      /\ job'.slotJob = job.slotJob /\ job'.inflight = flying /\ job'.signalPending = job.signalPending
  BY <1>2, <1>3, <1>5 DEF Job
<1>8. SameJob
  BY <1>1, <1>7, JobIsSome DEF SameJob
<1>9. \/ Overdue /\ Put(queues, Wait(job.gen, job.jobId))
      \/ ~Overdue /\ queue' = queue
  <2>1. CASE Overdue
    <3>1. job.jobId \in Nat \ {0}
      BY <1>1, <1>2, <2>1 DEF Overdue, Control
    <3>2. queue' = OnQueues(queues, Wait(job.gen, job.jobId)) /\ Wait(job.gen, job.jobId) \in Entry
      BY <1>2, <1>3, <2>1, <3>1, EntriesMade DEF ForcedWait
    <3>3. queues \in SUBSET Queues
      BY DEF BTypeOK, HostTypes, Queues
    <3> DEFINE e == Wait(job.gen, job.jobId)
    <3>4. queue' = OnQueues(queues, e) /\ e \in Entry
      BY <3>2
    <3> HIDE DEF e
    <3>5. Put(queues, e)
      BY <3>3, <3>4, PutOn DEF Put, BTypeOK
    <3>6. QED
      BY <2>1, <3>5 DEF e
  <2>2. CASE ~Overdue
    BY <1>3, <2>2 DEF ForcedWait
  <2>3. QED
    BY <2>1, <2>2
<1>10. rec' \in ListE /\ RecFits(rec', job')
  <2>1. CASE taken
    <3>1. job.jobId # 0 /\ job.gen # 0
      BY <1>1, <1>2, <1>6, <2>1, GensPositive DEF Control
    <3>2. rec' = [NewList EXCEPT !.gen = job.gen, !.adopt = job.jobId, !.out = job.outIndex]
      BY <1>1, <1>3, <2>1
    <3>3. /\ rec' \in ListE /\ rec'.gen = job.gen /\ rec'.adopt = job.jobId /\ rec'.copy = 0
          /\ rec'.out = job.outIndex /\ ~rec'.model
      <4>1. rec' = Taking(job.gen, job.jobId, job.outIndex)
        BY <3>2 DEF Taking
      <4>2. QED
        BY <1>2, <4>1, TakingList
    <3>4. QED
      BY <1>6, <1>7, <2>1, <3>1, <3>3 DEF RecFits
  <2>2. CASE ~taken
    BY <1>1, <1>3, <2>2, NewListIs DEF RecFits
  <2>3. QED
    BY <2>1, <2>2
<1>11. QED
  BY <1>6, <1>7, <1>8, <1>9, <1>10 DEF Adopts

LEMMA Remainder ==
  ASSUME NEW a \in Nat, NEW b \in Nat \ {0}
  PROVE  a % b \in 0..b - 1
  OBVIOUS

\* What Kick does.
Kicked ==
  /\ ~Gone /\ ~job.inflight /\ pc = "kick"
  /\ job' # NoJob /\ job' \in Job /\ job'.gen = job.gen /\ job'.jobId = job.jobId + 1 /\ job'.inflight
  /\ job'.signalPending /\ job'.outIndex = 1 - job.outIndex
  /\ Slot \in 0..Slots - 1 /\ Finished(job.slotJob[Slot])
  /\ job'.slotJob = [job.slotJob EXCEPT ![Slot] = job.jobId + 1]
  /\ bg' = [bg EXCEPT ![job.gen] = Append(@, [job |-> job.jobId + 1, out |-> 1 - job.outIndex, slot |-> Slot])]
  /\ open' \in ListE /\ open'.gen = job.gen /\ open'.copy = job.jobId + 1 /\ ~open'.model
  /\ open'.adopt = rec.adopt /\ open'.out = rec.out
  /\ rec' = NoEntry /\ pc' = "host"
  /\ UNCHANGED <<hostvars, made, queue, running, fInputs, fModel, copies, answer, abandoned>>

LEMMA KickEffect ==
  ASSUME BTypeOK, Control, NEW declined \in BOOLEAN, Kick(declined)
  PROVE  Kicked
<1> DEFINE g == job.gen
           next == 1 - job.outIndex
           slots == [job.slotJob EXCEPT ![Slot] = Next3]
           part == [job EXCEPT !.jobId = Next3, !.inflight = TRUE, !.discard = declined, !.outIndex = next]
           full == [part EXCEPT !.signalPending = TRUE, !.sinceKick = 0, !.slotJob = slots]
           list == [rec EXCEPT !.gen = g, !.copy = Next3]
<1>1. pc = "kick" /\ ~Gone /\ ~job.inflight
  BY DEF Kick, Kicks, Control
<1>2. /\ job \in Job /\ g \in Gens /\ job.jobId \in Nat /\ job.outIndex \in 0..1
      /\ job.slotJob \in [0..Slots - 1 -> Nat] /\ Next3 \in Nat /\ next \in 0..1 /\ Next3 = job.jobId + 1
  BY <1>1, JobIs DEF BTypeOK, Next3
<1>3. Slot \in 0..Slots - 1
  BY <1>2, Remainder, BackgroundAssumption DEF Slot
<1>4. slots \in [0..Slots - 1 -> Nat]
  BY <1>2, <1>3
<1>5. [job EXCEPT !.jobId = Next3, !.inflight = TRUE, !.discard = declined, !.outIndex = next, !.signalPending = TRUE,
                  !.sinceKick = 0, !.slotJob[Slot] = Next3] = full
  BY <1>2 DEF Job
<1>6. /\ bg' = [bg EXCEPT ![g] = Append(@, [job |-> Next3, out |-> next, slot |-> Slot])]
      /\ Ends(full, list) /\ Unstalled
      /\ UNCHANGED <<hostvars, made, queue, running, fInputs, fModel, copies, answer, abandoned>>
  BY <1>5 DEF Kick
<1>7. /\ part \in Job /\ part.gen = g /\ part.jobId = Next3 /\ part.inflight /\ part.outIndex = next
  BY <1>2 DEF Job
<1> HIDE DEF slots, part, next
<1>8. /\ full \in Job /\ full.gen = g /\ full.jobId = Next3 /\ full.inflight /\ full.outIndex = next
      /\ full.signalPending /\ full.slotJob = slots
  BY <1>4, <1>7 DEF Job
<1> HIDE DEF full
<1>9. PICK aged \in 0..1 :
        job' = [full EXCEPT !.sinceKick = Min2(full.sinceKick + 1, Every), !.age = Min2(full.age + aged, MaxAge)]
  BY <1>6 DEF Ends
<1>10. Min2(full.sinceKick + 1, Every) \in Nat /\ Min2(full.age + aged, MaxAge) \in Nat
  <2>1. full.sinceKick + 1 \in Nat /\ full.age + aged \in Nat
    BY <1>8 DEF Job
  <2>2. QED
    BY <2>1, BackgroundAssumption DEF Min2
<1>11. /\ job' \in Job /\ job'.gen = full.gen /\ job'.jobId = full.jobId /\ job'.outIndex = full.outIndex
       /\ job'.slotJob = full.slotJob /\ job'.inflight = full.inflight
       /\ job'.signalPending = full.signalPending
  BY <1>8, <1>9, <1>10 DEF Job
<1>12. /\ list \in ListE /\ list.gen = g /\ list.copy = Next3 /\ ~list.model /\ list.adopt = rec.adopt
       /\ list.out = rec.out
  <2>1. rec \in ListE /\ ~rec.model
    BY <1>1 DEF Control, RecFits
  <2>2. g \in 0..MaxGens /\ Next3 \in Nat
    BY <1>2 DEF Gens
  <2>3. QED
    BY <2>1, <2>2 DEF ListE
<1>13. open' = list /\ rec' = NoEntry /\ pc' = "host"
  BY <1>6 DEF Ends
<1> HIDE DEF list
<1>14. job' # NoJob
  BY <1>11, JobIsSome
<1>15. Finished(job.slotJob[Slot])
  BY <1>6 DEF Unstalled
<1>16. QED
  BY <1>1, <1>2, <1>3, <1>6, <1>8, <1>11, <1>12, <1>13, <1>14, <1>15 DEF Kicked, slots, next

\* What Submit does.
Submits ==
  /\ open \in ListE /\ open' = NoEntry /\ pc = "host" /\ Put({Main}, open)
  /\ IF Gone THEN job' = job ELSE SameJob /\ job'.inflight = job.inflight /\ job'.signalPending = job.signalPending
  /\ ~Gone /\ job.signalPending /\ observed /\ open.gen = job.gen /\ open.copy = job.jobId => job'.submitQueue = Main

LEMMA SubmitEffect ==
  ASSUME BTypeOK, Submit
  PROVE  Submits
<1>1. open \in ListE /\ open \in Entry /\ open' = NoEntry /\ pc = "host" /\ queue' = OnQueues({Main}, open)
  BY ListMade DEF Submit, BTypeOK, ThreadTypes
<1>2. Put({Main}, open)
  BY <1>1, PutOn DEF Put, BTypeOK, Queues
<1> DEFINE seen == ~Gone /\ job.signalPending /\ observed /\ open.gen = job.gen /\ open.copy = job.jobId
<1>3. job' = IF seen THEN [job EXCEPT !.submitQueue = Main] ELSE job
  BY DEF Submit
<1>4. seen => ~Gone
  OBVIOUS
<1> HIDE DEF seen
<1>5. CASE Gone
  BY <1>1, <1>2, <1>3, <1>4, <1>5 DEF Submits
<1>6. CASE ~Gone
  <2>1. job \in Job
    BY <1>6, JobIs DEF BTypeOK
  <2>2. /\ job' \in Job /\ job'.gen = job.gen /\ job'.jobId = job.jobId /\ job'.outIndex = job.outIndex
        /\ job'.slotJob = job.slotJob /\ job'.inflight = job.inflight /\ job'.signalPending = job.signalPending
        /\ (seen => job'.submitQueue = Main)
    BY <1>3, <2>1 DEF Job
  <2>3. QED
    BY <1>1, <1>2, <1>6, <2>2, JobIsSome DEF Submits, SameJob, seen
<1>7. QED
  BY <1>5, <1>6

-----------------------------------------------------------------------------
(* The kinds of steps.                                                     *)

\* A step that may send the signal: an evaluate of the host's, or a bury.
SendStep ==
  /\ UNCHANGED <<queues, made, gpu>>
  /\ (queue' = queue /\ job' = job /\ (Gone \/ ~job.signalPending)) \/ Sends
  /\ \/ abandoned' = abandoned /\ (open = NoEntry \/ Gone \/ ~job.signalPending)
     \/ /\ ~Gone /\ job.signalPending /\ open # NoEntry
        /\ abandoned' = [abandoned EXCEPT ![job.gen] = TRUE]
  /\ open' = open \/ (open = NoEntry /\ open' = ModelList)

Built ==
  /\ Gone /\ open = NoEntry /\ open' = open
  /\ made < MaxGens /\ made' = made + 1 /\ pc' = "sync"
  /\ job' # NoJob /\ job' \in Job /\ job'.gen = made + 1 /\ job'.jobId = 0 /\ job'.outIndex = 0
  /\ ~job'.inflight /\ ~job'.signalPending

\* A step of the thread that leaves the queues and the GPU alone.
IdleStep ==
  /\ UNCHANGED <<queues, queue, gpu, abandoned>>
  /\ \/ made' = made /\ job' = job /\ (open' = open \/ (open = NoEntry /\ Gone /\ open' = ModelList))
     \/ made' = made /\ job' = NoJob /\ pc = "settled" /\ open' = open
     \/ made' = made /\ pc = "kick" /\ FrameEnds
     \/ Built

SubmitStep == Submits /\ UNCHANGED <<queues, made, gpu, abandoned>>
CapStep == pc = "cap" /\ Put(queues, Mark) /\ UNCHANGED <<queues, made, gpu, abandoned, job, open>>
AdoptStep == pc = "adopt" /\ Adopts /\ UNCHANGED <<queues, made, gpu, abandoned, open>>

LEMMA BurySends ==
  ASSUME BTypeOK, Control, UNCHANGED <<queues, made, gpu, open>>, NEW next, Bury(next)
  PROVE  SendStep
<1>1. SignalPending /\ abandoned' = IF ~Gone /\ job.signalPending /\ open # NoEntry
                                    THEN [abandoned EXCEPT ![job.gen] = TRUE] ELSE abandoned
  BY DEF Bury
<1>2. QED
  BY <1>1, SendEffect DEF SendStep

LEMMA BuiltEffect ==
  ASSUME BTypeOK, Control, Build, made < MaxGens, made' = made + 1
  PROVE  Built
<1>1. PICK compute \in BOOLEAN : job' = NewJob(made + 1, compute)
  BY DEF Build, BTypeOK, ThreadTypes
<1>2. pc' = "sync" /\ open' = open /\ Gone /\ open = NoEntry
  BY DEF Build, Control, Pipeline, BTypeOK, ThreadTypes
<1>3. /\ made \in Nat /\ made + 1 \in Gens /\ Every \in Nat
      /\ [s \in 0..Slots - 1 |-> 0] \in [0..Slots - 1 -> Nat]
  BY BackgroundAssumption DEF BTypeOK, ThreadTypes, Gens
<1>4. job' \in Job /\ job'.gen = made + 1 /\ job'.jobId = 0 /\ job'.outIndex = 0 /\ ~job'.inflight /\ ~job'.signalPending
  <2> DEFINE slots == [s \in 0..Slots - 1 |-> 0]
  <2>1. job' = [gen |-> made + 1, jobId |-> 0, inflight |-> FALSE, discard |-> FALSE, signalPending |-> FALSE,
                submitQueue |-> NoEntry, sinceKick |-> Every, age |-> 0, outIndex |-> 0, slotJob |-> slots,
                wantDirect |-> FALSE, freshCompute |-> compute, warpFailed |-> FALSE]
    BY <1>1 DEF NewJob
  <2> HIDE DEF slots
  <2>2. slots \in [0..Slots - 1 -> Nat]
    BY <1>3 DEF slots
  <2>3. QED
    BY <1>3, <2>1, <2>2 DEF Job
<1>5. QED
  BY <1>2, <1>4, JobIsSome DEF Built

LEMMA ThreadKinds ==
  ASSUME BTypeOK, Control, Thread
  PROVE  SendStep \/ IdleStep \/ CapStep \/ AdoptStep \/ Kicked
<1>1. CASE SettleDrain \/ SettleWait \/ StartSync \/ CapWait
  BY <1>1 DEF SettleDrain, SettleWait, StartSync, CapWait, IdleStep, hostvars
<1>2. CASE Settled
  BY <1>2 DEF Settled, IdleStep, hostvars
<1>3. CASE Ensure
  <2>1. UNCHANGED <<queues, gpu>>
    BY <1>3 DEF Ensure, hostvars
  <2>2. CASE UNCHANGED <<after, job, made, queue, open, abandoned>>
    BY <2>1, <2>2 DEF IdleStep
  <2>3. CASE Bury(IF job.wantDirect THEN "direct" ELSE "build") /\ UNCHANGED <<made, open>>
    BY <2>1, <2>3, BurySends
  <2>4. QED
    BY <1>3, <2>2, <2>3 DEF Ensure
<1>4. CASE Build
  <2>1. UNCHANGED <<queues, queue, gpu, abandoned>>
    BY <1>4 DEF Build, hostvars
  <2>2. CASE made < MaxGens /\ made' = made + 1
    BY <1>4, <2>1, <2>2, BuiltEffect DEF IdleStep
  <2>3. CASE open' = ModelList /\ UNCHANGED <<made, job>>
    BY <1>4, <2>1, <2>3 DEF IdleStep, Build, Control, Pipeline
  <2>4. QED
    BY <1>4, <2>2, <2>3 DEF Build, ModelList
<1>5. CASE QueueCap
  <2>1. queues \in SUBSET Queues /\ Mark \in Entry
    BY EntriesMade DEF BTypeOK, HostTypes, Queues
  <2>2. Put(queues, Mark)
    BY <1>5, <2>1, PutOn DEF QueueCap, Put, BTypeOK
  <2>3. QED
    BY <1>5, <2>2 DEF QueueCap, CapStep, hostvars
<1>6. CASE Adopt
  BY <1>6, AdoptEffect DEF Adopt, AdoptStep, hostvars
<1>7. CASE NoKick \/ \E pack \in BOOLEAN : KickListFails(pack) \/ KickFails(pack)
  <2>1. FrameEnds
    BY <1>7, EndEffect
  <2>2. pc = "kick" /\ UNCHANGED <<queues, made, queue, gpu, abandoned>>
    BY <1>7 DEF NoKick, KickListFails, KickFails, hostvars
  <2>3. QED
    BY <2>1, <2>2 DEF IdleStep
<1>8. CASE \E declined \in BOOLEAN : Kick(declined)
  BY <1>8, KickEffect
<1>9. QED
  BY <1>1, <1>2, <1>3, <1>4, <1>5, <1>6, <1>7, <1>8 DEF Thread

Kinds ==
  \/ SendStep \/ IdleStep \/ SubmitStep \/ CapStep \/ AdoptStep \/ Kicked
  \/ \E g \in Gens : PassStarts(g) \/ PassEnds(g)
  \/ \E q \in Queues : HostQueueRuns(q)

LEMMA NextKinds ==
  ASSUME BTypeOK, Control, [BNext]_bvars
  PROVE  Kinds
<1>1. CASE UNCHANGED bvars
  BY <1>1 DEF bvars, hostvars, Kinds, IdleStep
<1>2. CASE \E hostReset \in BOOLEAN : Evaluate(hostReset)
  BY <1>2, SendEffect DEF Evaluate, SendStep, Kinds, hostvars
<1>3. CASE HostEvaluate
  BY <1>3, SendEffect DEF HostEvaluate, SendStep, Kinds, hostvars, ModelList
<1>4. CASE Submit
  BY <1>4, SubmitEffect DEF Submit, SubmitStep, Kinds, hostvars
<1>5. CASE ChangeMode
  <2>1. UNCHANGED <<queues, made, gpu, open>>
    BY <1>5 DEF ChangeMode
  <2>2. CASE mode = "background"
    BY <1>5, <2>1, <2>2, BurySends DEF ChangeMode, Kinds
  <2>3. CASE mode # "background"
    BY <1>5, <2>1, <2>3 DEF ChangeMode, IdleStep, Kinds
  <2>4. QED
    BY <2>2, <2>3
<1>6. CASE Retire
  BY <1>6, BurySends DEF Retire, Kinds, hostvars
<1>7. CASE Thread
  BY <1>7, ThreadKinds DEF Kinds
<1>8. CASE Gpu
  BY <1>8 DEF Gpu, Kinds, Queues
<1>9. QED
  BY <1>1, <1>2, <1>3, <1>4, <1>5, <1>6, <1>7, <1>8 DEF BNext

-----------------------------------------------------------------------------
(* Types.                                                                  *)

LEMMA HostTyped ==
  ASSUME BTypeOK, [BNext]_bvars
  PROVE  HostTypes'
<1>1. CASE UNCHANGED hostvars
  BY <1>1 DEF BTypeOK, HostTypes, hostvars
<1>2. CASE ChangeMode
  BY <1>2 DEF ChangeMode, BTypeOK, HostTypes
<1>3. [BNext]_bvars => UNCHANGED hostvars \/ ChangeMode
  BY DEF BNext, bvars, Evaluate, HostEvaluate, Submit, Retire, Thread, SettleDrain, SettleWait, Settled, Ensure, Build,
         StartSync, QueueCap, CapWait, Adopt, NoKick, Kick, KickListFails, KickFails, Gpu, HostQueueRuns, PassStarts,
         PassEnds
<1>4. QED
  BY <1>1, <1>2, <1>3

LEMMA ThreadTyped ==
  ASSUME BTypeOK, Control, [BNext]_bvars
  PROVE  ThreadTypes'
<1>1. (job' = NoJob \/ job' \in Job) /\ (open' = NoEntry \/ open' \in ListE) /\ made' \in 0..MaxGens
  <2>1. /\ job = NoJob \/ job \in Job
        /\ open = NoEntry \/ open \in ListE
        /\ rec = NoEntry \/ rec \in ListE
        /\ made \in 0..MaxGens /\ MaxGens \in Nat
    BY BackgroundAssumption DEF BTypeOK, ThreadTypes
  <2>2. CASE SendStep
    BY <2>1, <2>2, ModelListIs DEF SendStep, Sends, SameJob
  <2>3. CASE IdleStep
    BY <2>1, <2>3, ModelListIs DEF IdleStep, FrameEnds, SameJob, Built
  <2>4. CASE SubmitStep
    BY <2>1, <2>4 DEF SubmitStep, Submits, SameJob
  <2>5. CASE CapStep \/ AdoptStep
    BY <2>1, <2>5 DEF CapStep, AdoptStep, Adopts, SameJob
  <2>6. CASE Kicked
    BY <2>1, <2>6 DEF Kicked
  <2>7. CASE \E g \in Gens : PassStarts(g) \/ PassEnds(g)
    BY <2>1, <2>7 DEF PassStarts, PassEnds
  <2>8. CASE \E q \in Queues : HostQueueRuns(q)
    BY <2>1, <2>8 DEF HostQueueRuns
  <2>9. QED
    BY <2>2, <2>3, <2>4, <2>5, <2>6, <2>7, <2>8, NextKinds DEF Kinds
<1>2. rec' = NoEntry \/ rec' \in ListE
  <2>1. rec' = rec \/ rec' = NewList \/ rec' = NoEntry \/ Adopt
    BY DEF BNext, bvars, Evaluate, HostEvaluate, Submit, ChangeMode, Retire, Thread, SettleDrain, SettleWait, Settled,
           Ensure, Build, StartSync, QueueCap, CapWait, NoKick, Kick, KickListFails, KickFails, Ends, Gpu,
           HostQueueRuns, PassStarts, PassEnds
  <2>2. QED
    BY <2>1, NewListIs, AdoptEffect DEF Adopts, BTypeOK, ThreadTypes
<1>3. pc' \in Burying \cup Pipeline \cup {"host"} /\ after' \in {"host", "build", "direct"} /\ reset' \in BOOLEAN
  <2>1. /\ pc \in Burying \cup Pipeline \cup {"host"} /\ after \in {"host", "build", "direct"} /\ reset \in BOOLEAN
    BY DEF BTypeOK, ThreadTypes
  <2>2. CASE Thread
    BY <2>1, <2>2 DEF Thread, SettleDrain, SettleWait, Settled, Ensure, Bury, Build, StartSync, QueueCap, CapWait, Adopt,
                      NoKick, Kick, KickListFails, KickFails, Ends, Burying, Pipeline
  <2>3. CASE ~Thread
    BY <2>1, <2>3 DEF BNext, bvars, Evaluate, HostEvaluate, Submit, ChangeMode, Retire, Bury, Gpu, HostQueueRuns,
                      PassStarts, PassEnds, Burying, Pipeline
  <2>4. QED
    BY <2>2, <2>3
<1>4. QED
  BY <1>1, <1>2, <1>3 DEF ThreadTypes

LEMMA QueuesTyped ==
  ASSUME BTypeOK, Control, [BNext]_bvars
  PROVE  QueueTypes'
<1>1. queue \in [Queues -> Seq(Entry)] /\ (\A q \in Queues \ queues : queue[q] = <<>>) /\ queues \in {{Main}, {Main, Other}}
  BY DEF BTypeOK, QueueTypes, HostTypes
<1>2. ASSUME NEW S \in SUBSET queues, NEW e, Put(S, e), queues' = queues
      PROVE  QueueTypes'
  BY <1>1, <1>2 DEF Put, QueueTypes
<1>3. CASE queue' = queue /\ queues' = queues
  BY <1>1, <1>3 DEF QueueTypes
<1>4. CASE SendStep
  <2>1. CASE Sends
    <3>1. (IF job.submitQueue # Main THEN queues ELSE {Main}) \in SUBSET queues
      BY <1>1
    <3>2. QED
      BY <1>2, <1>4, <2>1, <3>1 DEF Sends, SendStep
  <2>2. QED
    BY <1>3, <1>4, <2>1 DEF SendStep
<1>5. CASE SubmitStep
  BY <1>1, <1>2, <1>5 DEF SubmitStep, Submits
<1>6. CASE CapStep
  BY <1>2, <1>6 DEF CapStep
<1>7. CASE AdoptStep
  BY <1>2, <1>3, <1>7 DEF AdoptStep, Adopts
<1>8. ASSUME NEW q \in Queues, HostQueueRuns(q)
      PROVE  QueueTypes'
  <2>1. queue[q] # <<>> /\ queue' = [queue EXCEPT ![q] = Tail(queue[q])] /\ queues' = queues
    BY <1>8 DEF HostQueueRuns, hostvars
  <2>2. Tail(queue[q]) \in Seq(Entry)
    BY <1>1, <2>1, Removed
  <2>3. q \in queues
    BY <1>1, <2>1
  <2>4. QED
    BY <1>1, <2>1, <2>2, <2>3 DEF QueueTypes
<1>9. CASE IdleStep \/ Kicked \/ \E g \in Gens : PassStarts(g) \/ PassEnds(g)
  BY <1>3, <1>9 DEF IdleStep, Kicked, PassStarts, PassEnds, hostvars
<1>10. QED
  BY <1>4, <1>5, <1>6, <1>7, <1>8, <1>9, NextKinds DEF Kinds

LEMMA GpuTyped ==
  ASSUME BTypeOK, Control, Passes, [BNext]_bvars
  PROVE  GpuTypes'
<1>1. /\ bg \in [Gens -> Seq(Pass)] /\ running \in [Gens -> BOOLEAN]
      /\ fInputs \in [Gens -> Nat] /\ fModel \in [Gens -> Nat] /\ copies \in [Gens -> Nat]
      /\ answer \in [Gens -> [0..1 -> Nat]] /\ abandoned \in [Gens -> BOOLEAN]
  BY DEF BTypeOK, GpuTypes
<1>2. CASE gpu' = gpu
  <2>1. abandoned' \in [Gens -> BOOLEAN]
    <3>1. CASE SendStep
      BY <1>1, <3>1 DEF SendStep
    <3>2. CASE ~SendStep
      BY <1>1, <3>2, NextKinds DEF Kinds, IdleStep, SubmitStep, CapStep, AdoptStep, Kicked, PassStarts, PassEnds,
                                   HostQueueRuns
    <3>3. QED
      BY <3>1, <3>2
  <2>2. QED
    BY <1>1, <1>2, <2>1 DEF GpuTypes, gpu
<1>3. CASE Kicked
  <2> DEFINE pass == [job |-> job.jobId + 1, out |-> 1 - job.outIndex, slot |-> Slot]
  <2>1. job.gen \in Gens /\ pass \in Pass
    BY <1>3, JobIs DEF BTypeOK, Kicked, Pass
  <2>2. bg' = [bg EXCEPT ![job.gen] = Append(bg[job.gen], pass)]
    BY <1>3 DEF Kicked
  <2> HIDE DEF pass
  <2>3. Append(bg[job.gen], pass) \in Seq(Pass)
    BY <1>1, <2>1
  <2>4. bg' \in [Gens -> Seq(Pass)]
    BY <1>1, <2>2, <2>3
  <2>5. QED
    BY <1>1, <1>3, <2>4 DEF Kicked, GpuTypes
<1>4. ASSUME NEW g \in Gens, PassStarts(g)
      PROVE  GpuTypes'
  BY <1>1, <1>4 DEF PassStarts, GpuTypes
<1>5. ASSUME NEW g \in Gens, PassEnds(g)
      PROVE  GpuTypes'
  <2>1. bg[g] \in Seq(Pass) /\ bg[g] # <<>>
    BY <1>1, <1>5 DEF PassEnds, Passes, PassesOf
  <2>2. Tail(bg[g]) \in Seq(Pass) /\ Head(bg[g]).job \in Nat /\ Head(bg[g]).out \in 0..1
    <3>1. Tail(bg[g]) \in Seq(Pass) /\ Head(bg[g]) \in Pass
      BY <2>1, Removed
    <3>2. QED
      BY <3>1 DEF Pass
  <2>3. /\ bg' = [bg EXCEPT ![g] = Tail(bg[g])] /\ fModel' = [fModel EXCEPT ![g] = Head(bg[g]).job]
        /\ answer' = [answer EXCEPT ![g][Head(bg[g]).out] = Head(bg[g]).job]
        /\ running' = [running EXCEPT ![g] = FALSE] /\ UNCHANGED <<fInputs, copies, abandoned>>
    BY <1>5 DEF PassEnds
  <2>4. QED
    BY <1>1, <2>2, <2>3 DEF GpuTypes
<1>6. ASSUME NEW q \in Queues, HostQueueRuns(q)
      PROVE  GpuTypes'
  <2>1. Head(queue[q]) \in Entry
    BY <1>6, Removed DEF HostQueueRuns, BTypeOK, QueueTypes
  <2> DEFINE h == Head(queue[q])
  <2>2. (h.op = "list" => h.copy \in Nat) /\ (h.op = "signal" => h.value \in Nat /\ h.gen \in Gens) /\ Run(h)
    BY <1>6, <2>1, EntryKinds DEF HostQueueRuns
  <2> HIDE DEF h
  <2>3. copies' \in [Gens -> Nat] /\ fInputs' \in [Gens -> Nat]
    BY <1>1, <2>2 DEF Run
  <2>4. QED
    BY <1>1, <1>6, <2>3 DEF HostQueueRuns, GpuTypes
<1>7. QED
  BY <1>2, <1>3, <1>4, <1>5, <1>6, NextKinds DEF Kinds, SendStep, IdleStep, SubmitStep, CapStep, AdoptStep

LEMMA Typed ==
  ASSUME BTypeOK, Control, Passes, [BNext]_bvars
  PROVE  BTypeOK'
  BY HostTyped, ThreadTyped, QueuesTyped, GpuTyped DEF BTypeOK

-----------------------------------------------------------------------------
(* Every step but those of the host's queues lets the queues grow and the  *)
(* job objects get on.                                                     *)

\* What an entry that a step puts on a queue is.
Entered(q, e) ==
  \/ e = Mark /\ pc = "cap"
  \/ e.op = "wait" /\ e = Wait(job.gen, job.jobId) /\ pc = "adopt" /\ ~Gone /\ Overdue /\ q \in queues
  \/ e.op = "list" /\ e = open /\ open # NoEntry /\ q = Main
  \/ /\ e.op = "signal" /\ e = Signal(job.gen, job.jobId) /\ ~Gone /\ job.signalPending /\ q \in queues
     /\ q = Main \/ job.submitQueue # Main
     /\ open = NoEntry \/ abandoned'[job.gen]

Grows ==
  /\ queue \in [Queues -> Seq(Entry)] /\ queue' \in [Queues -> Seq(Entry)]
  /\ \A q \in Queues : \/ queue'[q] = queue[q]
                       \/ \E e \in Entry : queue'[q] = Append(queue[q], e) /\ Entered(q, e)
  /\ stand \in [Gens -> Standings] /\ stand' \in [Gens -> Standings]
  /\ \A g \in Gens : Later(stand'[g], stand[g])
  /\ queues' = queues

\* Nothing changes in a job object but that it is left.
LEMMA StandKept ==
  ASSUME GpuTypes, GpuTypes', gpu' = gpu, \A g \in Gens : abandoned[g] => abandoned'[g]
  PROVE  \A g \in Gens : Later(stand'[g], stand[g])
<1>1. bg' = bg /\ fModel' = fModel /\ fInputs' = fInputs /\ copies' = copies
  BY DEF gpu
<1>2. TAKE g \in Gens
<1>3. /\ stand'[g].done = stand[g].done /\ stand'[g].inputs = stand[g].inputs /\ stand'[g].copied = stand[g].copied
      /\ stand'[g].last = stand[g].last /\ stand[g].left = abandoned[g] /\ stand'[g].left = abandoned'[g]
      /\ stand[g].done \in Nat /\ stand[g].last \in Nat
  BY <1>1, StandNow, StandNext
<1>4. QED
  BY <1>3 DEF Later

LEMMA GrowsOrRuns ==
  ASSUME BTypeOK, Control, Passes, [BNext]_bvars
  PROVE  Grows \/ \E q \in Queues : HostQueueRuns(q)
<1>1. BTypeOK' /\ queues \in SUBSET Queues
  BY Typed DEF BTypeOK, HostTypes, Queues
<1>2. queue \in [Queues -> Seq(Entry)] /\ queue' \in [Queues -> Seq(Entry)]
  BY <1>1 DEF BTypeOK, QueueTypes
<1>3. stand \in [Gens -> Standings] /\ stand' \in [Gens -> Standings]
  BY <1>1, StandNow, StandNext DEF BTypeOK
<1>4. CASE SendStep
  <2>1. queues' = queues /\ gpu' = gpu
    BY <1>4 DEF SendStep
  <2>2. \A g \in Gens : abandoned[g] => abandoned'[g]
    BY <1>4 DEF SendStep, BTypeOK, GpuTypes
  <2>3. \A q \in Queues : \/ queue'[q] = queue[q]
                          \/ \E e \in Entry : queue'[q] = Append(queue[q], e) /\ Entered(q, e)
    <3>1. CASE Sends
      <4>1. job.gen \in Gens /\ job.jobId \in Nat \ {0}
        BY <3>1, JobIs DEF Sends, Control, BTypeOK
      <4>2. open = NoEntry \/ abandoned'[job.gen]
        BY <1>4, <3>1, <4>1 DEF SendStep, Sends, BTypeOK, GpuTypes
      <4>3. TAKE q \in Queues
      <4> DEFINE e == Signal(job.gen, job.jobId)
      <4>4. e \in Entry /\ e.op = "signal"
        BY <4>1, EntriesMade
      <4>5. queue'[q] = queue[q] \/ (queue'[q] = Append(queue[q], e) /\ q \in queues /\ (q = Main \/ job.submitQueue # Main))
        BY <3>1 DEF Sends, Put, BTypeOK, HostTypes
      <4>6. QED
        BY <3>1, <4>2, <4>4, <4>5 DEF Entered, Sends
    <3>2. QED
      BY <1>4, <3>1 DEF SendStep
  <2>4. QED
    BY <1>1, <1>2, <1>3, <2>1, <2>2, <2>3, StandKept DEF Grows, BTypeOK
<1>5. CASE IdleStep
  <2>1. \A g \in Gens : Later(stand'[g], stand[g])
    BY <1>1, <1>5, StandKept DEF IdleStep, BTypeOK
  <2>2. QED
    BY <1>2, <1>3, <1>5, <2>1 DEF Grows, IdleStep
<1>6. CASE SubmitStep
  <2>1. \A g \in Gens : Later(stand'[g], stand[g])
    BY <1>1, <1>6, StandKept DEF SubmitStep, BTypeOK
  <2>2. open \in Entry /\ open.op = "list" /\ open # NoEntry
    BY <1>6, ListMade DEF SubmitStep, Submits
  <2>3. \A q \in Queues : queue'[q] = IF q \in {Main} THEN Append(queue[q], open) ELSE queue[q]
    BY <1>6 DEF SubmitStep, Submits, Put
  <2>4. \A q \in Queues : queue'[q] = queue[q] \/ (q = Main /\ queue'[q] = Append(queue[q], open))
    BY <2>3
  <2>5. \A q \in Queues : q = Main => Entered(q, open)
    BY <2>2 DEF Entered
  <2>6. QED
    BY <1>2, <1>3, <1>6, <2>1, <2>2, <2>4, <2>5 DEF Grows, SubmitStep
<1>7. CASE CapStep
  <2>1. \A g \in Gens : Later(stand'[g], stand[g])
    BY <1>1, <1>7, StandKept DEF CapStep, BTypeOK
  <2>2. \A q \in Queues : queue'[q] = queue[q] \/ queue'[q] = Append(queue[q], Mark)
    BY <1>7 DEF CapStep, Put
  <2>3. \A q \in Queues : Mark \in Entry /\ Entered(q, Mark)
    BY <1>7, EntriesMade DEF CapStep, Entered
  <2>4. QED
    BY <1>2, <1>3, <1>7, <2>1, <2>2, <2>3 DEF Grows, CapStep
<1>8. CASE AdoptStep
  <2>1. \A g \in Gens : Later(stand'[g], stand[g])
    BY <1>1, <1>8, StandKept DEF AdoptStep, BTypeOK
  <2>2. CASE queue' = queue
    BY <1>2, <1>3, <1>8, <2>1, <2>2 DEF Grows, AdoptStep
  <2>3. CASE Overdue /\ Put(queues, Wait(job.gen, job.jobId))
    <3> DEFINE e == Wait(job.gen, job.jobId)
    <3>1. ~Gone /\ pc = "adopt"
      BY <1>8 DEF AdoptStep, Adopts, SameJob
    <3>2. job.gen \in Gens /\ job.jobId \in Nat \ {0}
      BY <2>3, <3>1, JobIs DEF Overdue, Control, BTypeOK
    <3>3. e \in Entry /\ e.op = "wait"
      BY <3>2, EntriesMade
    <3>4. \A q \in Queues : queue'[q] = queue[q] \/ (queue'[q] = Append(queue[q], e) /\ Entered(q, e))
      BY <2>3, <3>1, <3>3 DEF Put, Entered
    <3> HIDE DEF e
    <3>5. QED
      BY <1>2, <1>3, <1>8, <2>1, <3>3, <3>4 DEF Grows, AdoptStep
  <2>4. QED
    BY <1>8, <2>2, <2>3 DEF AdoptStep, Adopts
<1>9. CASE Kicked
  <2>1. \A g \in Gens : Later(stand'[g], stand[g])
    <3>1. TAKE g \in Gens
    <3>2. job.gen \in Gens /\ bg \in [Gens -> Seq(Pass)]
      BY <1>9, JobIs DEF Kicked, BTypeOK, GpuTypes
    <3>3. /\ stand'[g].done = stand[g].done /\ stand'[g].inputs = stand[g].inputs /\ stand'[g].copied = stand[g].copied
          /\ stand[g].left = abandoned[g] /\ stand'[g].left = abandoned[g] /\ stand[g].done \in Nat
          /\ stand'[g].last = fModel[g] + Len(bg'[g]) /\ stand[g].last = fModel[g] + Len(bg[g])
      BY <1>1, <1>9, StandNow, StandNext DEF Kicked, BTypeOK
    <3>4. Len(bg[g]) \in Nat /\ fModel[g] \in Nat
      BY <3>2 DEF BTypeOK, GpuTypes
    <3>5. CASE g = job.gen
      <4> DEFINE pass == [job |-> job.jobId + 1, out |-> 1 - job.outIndex, slot |-> Slot]
      <4>1. bg'[g] = Append(bg[g], pass)
        BY <1>9, <3>2, <3>5 DEF Kicked
      <4> HIDE DEF pass
      <4>2. Len(bg'[g]) = Len(bg[g]) + 1
        BY <3>2, <4>1
      <4>3. ~abandoned[g]
        BY <1>9, <3>5 DEF Kicked, Control, Burying
      <4>4. QED
        BY <3>3, <3>4, <4>2, <4>3 DEF Later
    <3>6. CASE g # job.gen
      <4>1. bg'[g] = bg[g]
        BY <1>9, <3>2, <3>6 DEF Kicked
      <4>2. QED
        BY <3>3, <3>4, <4>1 DEF Later
    <3>7. QED
      BY <3>5, <3>6
  <2>2. QED
    BY <1>2, <1>3, <1>9, <2>1 DEF Grows, Kicked, hostvars
<1>10. ASSUME NEW h \in Gens, PassStarts(h)
       PROVE  Grows
  <2>1. UNCHANGED <<queues, queue, bg, fModel, fInputs, copies, abandoned>>
    BY <1>10 DEF PassStarts, hostvars
  <2>2. \A g \in Gens : Later(stand'[g], stand[g])
    <3>1. stand' = stand
      BY <2>1 DEF stand
    <3>2. \A g \in Gens : stand[g] \in Standings
      BY <1>3
    <3>3. QED
      BY <3>1, <3>2 DEF Later, Standings
  <2>3. QED
    BY <1>2, <1>3, <2>1, <2>2 DEF Grows
<1>11. ASSUME NEW h \in Gens, PassEnds(h)
       PROVE  Grows
  <2>1. /\ UNCHANGED <<queues, queue, fInputs, copies, abandoned>> /\ running[h]
        /\ bg' = [bg EXCEPT ![h] = Tail(bg[h])] /\ fModel' = [fModel EXCEPT ![h] = Head(bg[h]).job]
    BY <1>11 DEF PassEnds, hostvars
  <2>2. bg \in [Gens -> Seq(Pass)] /\ fModel \in [Gens -> Nat]
    BY DEF BTypeOK, GpuTypes
  <2>3. /\ bg[h] # <<>> /\ Len(bg[h]) \in Nat /\ Len(bg[h]) > 0 /\ Len(Tail(bg[h])) = Len(bg[h]) - 1
        /\ Head(bg[h]) = bg[h][1]
    <3>1. bg[h] # <<>> /\ bg[h] \in Seq(Pass)
      BY <2>1, <2>2 DEF Passes, PassesOf
    <3>2. QED
      BY <3>1, Removed
  <2>4. Head(bg[h]).job = fModel[h] + 1
    BY <2>3 DEF Passes, PassesOf
  <2>5. \A g \in Gens : Later(stand'[g], stand[g])
    <3>1. TAKE g \in Gens
    <3>2. /\ stand'[g].done = fModel'[g] /\ stand'[g].inputs = stand[g].inputs /\ stand'[g].copied = stand[g].copied
          /\ stand[g].left = stand'[g].left /\ stand[g].done = fModel[g]
          /\ stand'[g].last = fModel'[g] + Len(bg'[g]) /\ stand[g].last = fModel[g] + Len(bg[g])
          /\ fModel[g] \in Nat /\ Len(bg[g]) \in Nat
      BY <1>1, <2>1, StandNow, StandNext DEF BTypeOK
    <3>3. fModel'[g] >= fModel[g] /\ fModel'[g] + Len(bg'[g]) = fModel[g] + Len(bg[g])
      <4>1. CASE g = h
        BY <2>1, <2>2, <2>3, <2>4, <3>2, <4>1
      <4>2. CASE g # h
        BY <2>1, <2>2, <3>2, <4>2
      <4>3. QED
        BY <4>1, <4>2
    <3>4. QED
      BY <3>2, <3>3 DEF Later
  <2>6. QED
    BY <1>2, <1>3, <2>1, <2>5 DEF Grows
<1>12. QED
  BY <1>4, <1>5, <1>6, <1>7, <1>8, <1>9, <1>10, <1>11, NextKinds DEF Kinds

-----------------------------------------------------------------------------
(* The host's queues run.                                                  *)

\* The first entry of q is over.
Runs(q) ==
  /\ queue[q] # <<>> /\ queue[q] \in Seq(Entry) /\ queue[q][1] \in Entry /\ q \in queues
  /\ Len(queue[q]) \in Nat /\ 1 \in 1..Len(queue[q])
  /\ queue'[q] = Tail(queue[q])
  /\ \A r \in Queues : r # q => queue'[r] = queue[r]
  /\ stand \in [Gens -> Standings] /\ stand' \in [Gens -> Standings]
  /\ \A g \in Gens : stand'[g] = Ran(queue[q][1], g, stand[g])
  /\ queue[q][1].op = "wait" => stand[queue[q][1].gen].done >= queue[q][1].value
  /\ UNCHANGED <<queues, pc, job, made, open, rec, bg, running, fModel, answer, abandoned>>

LEMMA StandingIs ==
  ASSUME NEW x \in Standings, NEW y \in Standings,
         x.done = y.done, x.inputs = y.inputs, x.copied = y.copied, x.last = y.last, x.left = y.left
  PROVE  x = y
  BY DEF Standings

LEMMA RunsEffect ==
  ASSUME BTypeOK, Control, Passes, NEW q \in Queues, HostQueueRuns(q)
  PROVE  Runs(q)
<1> DEFINE h == queue[q][1]
<1>1. queue \in [Queues -> Seq(Entry)] /\ queue[q] # <<>>
  BY DEF BTypeOK, QueueTypes, HostQueueRuns
<1>2. /\ queue[q] \in Seq(Entry) /\ h \in Entry /\ Len(queue[q]) \in Nat /\ 1 \in 1..Len(queue[q])
      /\ Head(queue[q]) = h
  <2>1. queue[q] \in Seq(Entry)
    BY <1>1
  <2>2. QED
    BY <1>1, <2>1, Removed
<1>3. queue'[q] = Tail(queue[q]) /\ \A r \in Queues : r # q => queue'[r] = queue[r]
  BY <1>1 DEF HostQueueRuns
<1>4. UNCHANGED <<queues, pc, job, made, open, rec, bg, running, fModel, answer, abandoned>>
  BY DEF HostQueueRuns, hostvars
<1>5. Run(h)
  BY <1>2 DEF HostQueueRuns
<1>6. BTypeOK'
  <2>1. BNext
    BY DEF BNext, Gpu, Queues
  <2>2. QED
    BY <2>1, Typed
<1>7. stand \in [Gens -> Standings] /\ stand' \in [Gens -> Standings]
  BY <1>6, StandNow, StandNext DEF BTypeOK
<1>8. q \in queues
  BY <1>1 DEF BTypeOK, QueueTypes
<1>9. h.op = "wait" => stand[h.gen].done >= h.value
  <2>1. ASSUME h.op = "wait" PROVE stand[h.gen].done >= h.value
    <3>1. h.gen \in Gens /\ fModel[h.gen] >= h.value
      BY <1>2, <1>5, <2>1, EntryKinds DEF Run
    <3>2. QED
      BY <3>1, StandNow DEF BTypeOK
  <2>2. QED
    BY <2>1
<1>10. ASSUME NEW g \in Gens
       PROVE  stand'[g] = Ran(h, g, stand[g])
  <2>1. stand[g] \in Standings /\ stand'[g] \in Standings
    BY <1>7
  <2>2. /\ Ran(h, g, stand[g]) \in Standings
        /\ Ran(h, g, stand[g]).done = stand[g].done /\ Ran(h, g, stand[g]).last = stand[g].last
        /\ Ran(h, g, stand[g]).left = stand[g].left
        /\ Ran(h, g, stand[g]).copied = IF h.op = "list" /\ h.gen = g /\ h.copy # 0 THEN h.copy ELSE stand[g].copied
        /\ Ran(h, g, stand[g]).inputs = IF h.op = "signal" /\ h.gen = g THEN h.value ELSE stand[g].inputs
    <3>1. h \in Entry
      BY <1>2
    <3> HIDE DEF h
    <3>2. QED
      BY <2>1, <3>1, RanFields
  <2>3. /\ stand'[g].done = stand[g].done /\ stand'[g].last = stand[g].last /\ stand'[g].left = stand[g].left
        /\ stand'[g].copied = copies'[g] /\ stand'[g].inputs = fInputs'[g]
        /\ stand[g].copied = copies[g] /\ stand[g].inputs = fInputs[g]
    BY <1>4, <1>6, StandNow, StandNext DEF BTypeOK
  <2>4. /\ copies' = IF h.op = "list" /\ h.copy # 0 THEN [copies EXCEPT ![h.gen] = h.copy] ELSE copies
        /\ fInputs' = IF h.op = "signal" THEN [fInputs EXCEPT ![h.gen] = h.value] ELSE fInputs
    <3> HIDE DEF h
    <3>1. QED
      BY <1>5 DEF Run
  <2>5. copies \in [Gens -> Nat] /\ fInputs \in [Gens -> Nat]
    BY DEF BTypeOK, GpuTypes
  <2> HIDE DEF h
  <2>6. /\ copies'[g] = IF h.op = "list" /\ h.gen = g /\ h.copy # 0 THEN h.copy ELSE copies[g]
        /\ fInputs'[g] = IF h.op = "signal" /\ h.gen = g THEN h.value ELSE fInputs[g]
    BY <2>4, <2>5
  <2>7. QED
    BY <2>1, <2>2, <2>3, <2>6, StandingIs
<1>11. QED
  BY <1>2, <1>3, <1>4, <1>7, <1>8, <1>1, <1>9, <1>10 DEF Runs

LEMMA StepShape ==
  ASSUME BTypeOK, Control, Passes, [BNext]_bvars
  PROVE  Grows \/ \E q \in Queues : Runs(q)
  BY GrowsOrRuns, RunsEffect

\* A list at the head is the first since the copies it replaces.
LEMMA HeadCopies ==
  ASSUME BTypeOK, ListsPlaced, NEW q \in Queues, Runs(q), NEW g \in Gens,
         queue[q][1].op = "list", queue[q][1].gen = g, queue[q][1].copy # 0
  PROVE  /\ q = Main /\ stand[g].copied < queue[q][1].copy /\ queue[q][1].copy <= stand[g].last
         /\ stand[g].done >= queue[q][1].copy - 1 /\ stand[g].copied = queue[q][1].copy - 1
<1>1. q = Main
  BY DEF Runs, ListsPlaced, Queues
<1> DEFINE e == queue[Main][1]
<1>2. e \in Entry /\ 1 \in 1..Len(queue[Main])
  BY <1>1 DEF Runs
<1>3. ListAt(queue[Main], 1, e, stand) /\ g # 0 /\ e.gen = g
  BY <1>1, <1>2, GensPositive DEF ListsPlaced
<1>4. Placed(queue[Main], 1, e, stand[g]) /\ e.copy \in Nat \ {0}
  <2>1. e \in ListE
    BY <1>1, <1>2, EntryKinds
  <2>2. e.copy \in Nat
    BY <2>1, ListMade
  <2>3. QED
    BY <1>1, <1>3, <2>2 DEF ListAt
<1>5. stand[g] \in Standings
  BY DEF Runs
<1> HIDE DEF e
<1>6. Base(e) = e.copy - 1
  BY <1>4 DEF Base
<1>7. stand[g].copied <= e.copy - 1 /\ e.copy <= stand[g].last /\ stand[g].done >= e.copy - 1
      /\ stand[g].copied = e.copy - 1
  <2>1. stand[g].copied <= Base(e) /\ e.copy <= stand[g].last
    BY <1>4 DEF Placed
  <2>2. stand[g].done >= Base(e)
    BY <1>4 DEF Placed, Waited
  <2>3. stand[g].copied = Base(e)
    BY <1>4 DEF Placed, Copied
  <2>4. QED
    BY <1>6, <2>1, <2>2, <2>3
<1>8. stand[g].copied \in Nat
  BY <1>5 DEF Standings
<1>9. QED
  BY <1>1, <1>4, <1>7, <1>8 DEF e

\* A signal at the head is the next one, or the last one of an abandoned pass once more.
LEMMA HeadSignals ==
  ASSUME BTypeOK, SignalsSent, NEW q \in Queues, Runs(q), NEW g \in Gens,
         queue[q][1].op = "signal", queue[q][1].gen = g
  PROVE  /\ Sendable(queue[q], 1, g, queue[q][1].value, stand[g])
         /\ queue[q][1].value \in Nat \ {0} /\ queue[q][1].value <= stand[g].last
         /\ stand[g].done >= queue[q][1].value - 1 /\ queue[q][1].value >= stand[g].inputs
         /\ Late(queue[q][1].value, stand[g]) \/ (q = Main /\ stand[g].copied = queue[q][1].value)
<1> DEFINE v == queue[q][1].value
<1>1. v \in Nat \ {0} /\ 1 \in 1..Len(queue[q]) /\ stand[g] \in Standings
  BY EntryKinds DEF Runs
<1>2. SentAt(queue[q], 1, g, v, stand[g], q = Main)
  BY <1>1 DEF SignalsSent
<1> HIDE DEF v
<1>3. Sendable(queue[q], 1, g, v, stand[g]) /\ (Late(v, stand[g]) \/ (q = Main /\ Copied(queue[q], 1, g, v, stand[g])))
  BY <1>2 DEF SentAt
<1>4. v <= stand[g].last /\ stand[g].done >= v - 1 /\ (v > stand[g].inputs \/ v = stand[g].inputs)
  BY <1>3 DEF Sendable, Waited
<1>5. Copied(queue[q], 1, g, v, stand[g]) => stand[g].copied = v
  BY DEF Copied
<1>6. stand[g].inputs \in Nat
  BY <1>1 DEF Standings
<1>7. v >= stand[g].inputs
  BY <1>1, <1>4, <1>6
<1>8. QED
  BY <1>1, <1>3, <1>4, <1>5, <1>7 DEF v

-----------------------------------------------------------------------------
(* Every list, signal and wait stays in its place.                         *)

\* The entries of a queue after a step that lets it grow: the old ones, and one that has entered.
LEMMA GrownQueue ==
  ASSUME Grows, NEW q \in Queues
  PROVE  /\ queue[q] \in Seq(Entry) /\ queue'[q] \in Seq(Entry) /\ Extends(queue'[q], queue[q])
         /\ Len(queue[q]) \in Nat /\ Len(queue'[q]) \in Nat
         /\ \A k \in 1..Len(queue'[q]) :
              \/ k \in 1..Len(queue[q]) /\ queue'[q][k] = queue[q][k]
              \/ k = Len(queue[q]) + 1 /\ queue'[q][k] \in Entry /\ Entered(q, queue'[q][k])
<1>1. queue[q] \in Seq(Entry) /\ queue'[q] \in Seq(Entry)
  BY DEF Grows
<1>2. Len(queue[q]) \in Nat /\ Len(queue'[q]) \in Nat
  BY <1>1
<1>3. CASE queue'[q] = queue[q]
  BY <1>1, <1>2, <1>3 DEF Extends
<1>4. ASSUME NEW e \in Entry, queue'[q] = Append(queue[q], e), Entered(q, e)
      PROVE  /\ Extends(queue'[q], queue[q])
             /\ \A k \in 1..Len(queue'[q]) :
                  \/ k \in 1..Len(queue[q]) /\ queue'[q][k] = queue[q][k]
                  \/ k = Len(queue[q]) + 1 /\ queue'[q][k] \in Entry /\ Entered(q, queue'[q][k])
  <2>1. /\ Len(queue'[q]) = Len(queue[q]) + 1 /\ queue'[q][Len(queue[q]) + 1] = e
        /\ \A i \in 1..Len(queue[q]) : queue'[q][i] = queue[q][i]
    BY <1>1, <1>4, Appended
  <2>2. Extends(queue'[q], queue[q])
    BY <1>2, <2>1 DEF Extends
  <2>3. ASSUME NEW k \in 1..Len(queue'[q])
        PROVE  \/ k \in 1..Len(queue[q]) /\ queue'[q][k] = queue[q][k]
               \/ k = Len(queue[q]) + 1 /\ queue'[q][k] \in Entry /\ Entered(q, queue'[q][k])
    <3>1. k \in 1..Len(queue[q]) \/ k = Len(queue[q]) + 1
      BY <1>2, <2>1
    <3>2. CASE k = Len(queue[q]) + 1
      BY <1>4, <2>1, <3>2
    <3>3. QED
      BY <2>1, <3>1, <3>2
  <2>4. QED
    BY <2>2, <2>3
<1>5. QED
  BY <1>1, <1>2, <1>3, <1>4 DEF Grows

\* The entries of the queue that has run.
LEMMA RunQueue ==
  ASSUME NEW q \in Queues, Runs(q)
  PROVE  /\ queue[q] \in Seq(Entry) /\ queue[q] # <<>> /\ Len(queue[q]) \in Nat /\ queue'[q] = Tail(queue[q])
         /\ Len(queue'[q]) = Len(queue[q]) - 1
         /\ \A k \in 1..Len(queue'[q]) :
              k \in Nat \ {0} /\ k + 1 \in 1..Len(queue[q]) /\ queue'[q][k] = queue[q][k + 1]
<1>1. queue[q] \in Seq(Entry) /\ queue[q] # <<>> /\ Len(queue[q]) \in Nat /\ queue'[q] = Tail(queue[q])
  BY DEF Runs
<1>2. /\ Len(Tail(queue[q])) = Len(queue[q]) - 1
      /\ \A i \in 1..Len(queue[q]) - 1 : Tail(queue[q])[i] = queue[q][i + 1] /\ i + 1 \in 1..Len(queue[q])
  BY <1>1, Removed
<1>3. QED
  BY <1>1, <1>2

LEMMA OtherQueue ==
  /\ Main \in Queues /\ Other \in Queues /\ Main # Other
  /\ \A q \in Queues : q = Main \/ q = Other
  BY BackgroundAssumption DEF Queues

LEMMA ListAtLater ==
  ASSUME Grows, NEW n \in Nat, n <= Len(queue[Main]) + 1, NEW e \in ListE, ListAt(queue[Main], n, e, stand)
  PROVE  ListAt(queue'[Main], n, e, stand')
<1>1. CASE e.gen = 0
  BY <1>1 DEF ListAt
<1>2. CASE e.gen # 0
  <2> DEFINE g == e.gen
  <2>1. g \in Gens
    BY <1>2, ListMade DEF Gens
  <2>2. Placed(queue[Main], n, e, stand[g])
    BY <1>2 DEF ListAt
  <2>3. stand[g] \in Standings /\ stand'[g] \in Standings /\ Later(stand'[g], stand[g])
    BY <2>1 DEF Grows
  <2>4. queue[Main] \in Seq(Entry) /\ queue'[Main] \in Seq(Entry) /\ Extends(queue'[Main], queue[Main])
    BY GrownQueue, OtherQueue
  <2>5. Placed(queue'[Main], n, e, stand'[g])
    BY <2>2, <2>3, <2>4, PlacedLater
  <2>6. QED
    BY <1>2, <2>5 DEF ListAt
<1>3. QED
  BY <1>1, <1>2

LEMMA ListAtRuns ==
  ASSUME BTypeOK, Passes, ListsPlaced, SignalsSent, NEW q \in Queues, Runs(q),
         NEW n \in Nat \ {0}, NEW m, m = (IF q = Main THEN n + 1 ELSE n), NEW e \in ListE, ListAt(queue[Main], m, e, stand)
  PROVE  ListAt(queue'[Main], n, e, stand')
<1>1. CASE e.gen = 0
  BY <1>1 DEF ListAt
<1>2. CASE e.gen # 0
  <2> DEFINE g == e.gen
             h == queue[q][1]
             st == stand[g]
  <2>1. g \in Gens
    BY <1>2, ListMade DEF Gens
  <2>2. Placed(queue[Main], m, e, st)
    BY <1>2 DEF ListAt
  <2>3. st \in Standings /\ stand'[g] = Ran(h, g, st) /\ h \in Entry
    BY <2>1 DEF Runs
  <2>4. CASE q = Main
    <3>1. h = Wait(g, Base(e)) => st.done >= Base(e)
      <4>1. Wait(g, Base(e)).op = "wait" /\ Wait(g, Base(e)).gen = g /\ Wait(g, Base(e)).value = Base(e)
        BY DEF Wait
      <4>2. h.op = "wait" => stand[h.gen].done >= h.value
        BY DEF Runs
      <4>3. QED
        BY <4>1, <4>2
    <3>2. h.op = "list" /\ h.gen = g /\ h.copy # 0 => st.copied < h.copy
      BY <2>1, HeadCopies
    <3>3. queue[q] \in Seq(Entry) /\ queue[q] # <<>> /\ queue'[q] = Tail(queue[q])
      BY RunQueue
    <3>4. Placed(queue[q], n + 1, e, st)
      BY <2>2, <2>4
    <3> HIDE DEF st
    <3>5. Placed(Tail(queue[q]), n, e, Ran(h, g, st))
      BY <2>3, <3>1, <3>2, <3>3, <3>4, PlacedRuns
    <3>6. QED
      BY <1>2, <2>3, <2>4, <3>3, <3>5 DEF ListAt
  <2>5. CASE q # Main
    <3>1. q = Other /\ queue'[Main] = queue[Main]
      BY <2>5, OtherQueue DEF Runs
    <3>2. h.op # "list"
      BY <3>1 DEF ListsPlaced, Runs
    <3>3. h.op = "signal" /\ h.gen = g => Reach(Base(e), h.value, st)
      <4>1. ASSUME h.op = "signal", h.gen = g PROVE Reach(Base(e), h.value, st)
        <5>1. /\ h.value \in Nat /\ h.value <= st.last /\ st.done >= h.value - 1 /\ Late(h.value, st)
          BY <2>1, <2>5, <4>1, HeadSignals
        <5>2. Reach(Base(e), st.inputs, st) /\ Base(e) \in Nat
          BY <2>2, BaseType DEF Placed
        <5>3. st.inputs >= st.done /\ st.inputs \in Nat /\ st.done \in Nat /\ st.last \in Nat
          <6>1. st.inputs = fInputs[g] /\ st.done = fModel[g] /\ fModel[g] <= fInputs[g]
            BY <2>1, StandNow DEF Passes, PassesOf, BTypeOK
          <6>2. QED
            BY <2>3, <6>1 DEF Standings
        <5> HIDE DEF st, h
        <5>4. st.inputs <= Base(e) \/ (st.inputs = Base(e) + 1 /\ st.inputs = st.last)
          BY <5>2 DEF Reach, Late
        <5>5. h.value = st.last
          BY <5>1 DEF Late
        <5>6. h.value <= Base(e) \/ h.value = Base(e) + 1
          BY <5>1, <5>2, <5>3, <5>4, <5>5
        <5>7. QED
          BY <5>1, <5>6 DEF Reach
      <4>2. QED
        BY <4>1
    <3>4. Placed(queue[Main], n, e, st)
      BY <2>2, <2>5
    <3> HIDE DEF st, h
    <3>5. Placed(queue[Main], n, e, Ran(h, g, st))
      BY <2>3, <3>2, <3>3, <3>4, PlacedElsewhere
    <3>6. QED
      BY <1>2, <2>3, <3>1, <3>5 DEF ListAt
  <2>6. QED
    BY <2>4, <2>5
<1>3. QED
  BY <1>1, <1>2

LEMMA ListsStayPlaced ==
  ASSUME BInv, [BNext]_bvars
  PROVE  ListsPlaced'
<1>1. BTypeOK /\ Passes /\ ListsPlaced /\ SignalsSent /\ Control /\ OpenPlaced
  BY DEF BInv
<1>2. CASE Grows
  <2>1. ASSUME NEW k \in 1..Len(queue'[Other]) PROVE queue'[Other][k].op # "list"
    <3>1. \/ k \in 1..Len(queue[Other]) /\ queue'[Other][k] = queue[Other][k]
          \/ Entered(Other, queue'[Other][k])
      BY <1>2, <2>1, GrownQueue, OtherQueue
    <3>2. CASE k \in 1..Len(queue[Other]) /\ queue'[Other][k] = queue[Other][k]
      BY <1>1, <3>2 DEF ListsPlaced
    <3>3. CASE Entered(Other, queue'[Other][k])
      BY <3>3, OtherQueue, EntriesMade DEF Entered
    <3>4. QED
      BY <3>1, <3>2, <3>3
  <2>2. ASSUME NEW k \in 1..Len(queue'[Main]), queue'[Main][k].op = "list"
        PROVE  ListAt(queue'[Main], k, queue'[Main][k], stand')
    <3>1. /\ queue'[Main] \in Seq(Entry) /\ Len(queue[Main]) \in Nat /\ Len(queue'[Main]) \in Nat
          /\ \/ k \in 1..Len(queue[Main]) /\ queue'[Main][k] = queue[Main][k]
             \/ k = Len(queue[Main]) + 1 /\ Entered(Main, queue'[Main][k])
      BY <1>2, <2>2, GrownQueue, OtherQueue
    <3>2. queue'[Main][k] \in ListE /\ k \in Nat /\ k <= Len(queue[Main]) + 1
      <4>1. queue'[Main][k] \in Entry
        BY <3>1
      <4>2. QED
        BY <2>2, <3>1, <4>1, EntryKinds
    <3>3. ListAt(queue[Main], k, queue'[Main][k], stand)
      <4>1. CASE k \in 1..Len(queue[Main]) /\ queue'[Main][k] = queue[Main][k]
        BY <1>1, <2>2, <4>1 DEF ListsPlaced
      <4>2. CASE k = Len(queue[Main]) + 1 /\ Entered(Main, queue'[Main][k])
        <5>1. queue'[Main][k] = open /\ open # NoEntry
          BY <2>2, <4>2, EntriesMade DEF Entered
        <5>2. QED
          BY <1>1, <4>2, <5>1 DEF OpenPlaced
      <4>3. QED
        BY <3>1, <4>1, <4>2
    <3>4. QED
      BY <1>2, <3>2, <3>3, ListAtLater
  <2>3. QED
    BY <2>1, <2>2 DEF ListsPlaced
<1>3. ASSUME NEW q \in Queues, Runs(q)
      PROVE  ListsPlaced'
  <2>1. ASSUME NEW k \in 1..Len(queue'[Other]) PROVE queue'[Other][k].op # "list"
    <3>1. CASE q = Other
      BY <1>1, <1>3, <2>1, <3>1, RunQueue DEF ListsPlaced
    <3>2. CASE q # Other
      BY <1>1, <1>3, <2>1, <3>2, OtherQueue DEF ListsPlaced, Runs
    <3>3. QED
      BY <3>1, <3>2
  <2>2. ASSUME NEW k \in 1..Len(queue'[Main]), queue'[Main][k].op = "list"
        PROVE  ListAt(queue'[Main], k, queue'[Main][k], stand')
    <3> DEFINE m == IF q = Main THEN k + 1 ELSE k
    <3>1. m \in 1..Len(queue[Main]) /\ queue'[Main][k] = queue[Main][m] /\ k \in Nat \ {0}
      <4>1. CASE q = Main
        BY <1>3, <2>2, <4>1, RunQueue
      <4>2. CASE q # Main
        BY <1>3, <2>2, <4>2, OtherQueue DEF Runs
      <4>3. QED
        BY <4>1, <4>2
    <3>2. queue'[Main][k] \in ListE
      <4>1. queue[Main] \in Seq(Entry)
        BY <1>1, OtherQueue DEF BTypeOK, QueueTypes
      <4>2. queue[Main][m] \in Entry
        BY <3>1, <4>1
      <4>3. QED
        BY <2>2, <3>1, <4>2, EntryKinds
    <3>3. ListAt(queue[Main], m, queue'[Main][k], stand)
      BY <1>1, <2>2, <3>1 DEF ListsPlaced
    <3>4. QED
      BY <1>1, <1>3, <3>1, <3>2, <3>3, ListAtRuns
  <2>3. QED
    BY <2>1, <2>2 DEF ListsPlaced
<1>4. QED
  BY <1>1, <1>2, <1>3, StepShape

LEMMA PlacedFurther ==
  ASSUME NEW s \in Seq(Entry), NEW st \in Standings, NEW n \in 1..Len(s), NEW e \in ListE, Placed(s, n, e, st),
         s[n].op # "list", s[n].op = "signal" /\ s[n].gen = e.gen => Reach(Base(e), s[n].value, st)
  PROVE  Placed(s, n + 1, e, st)
<1>1. Len(s) \in Nat /\ n \in Nat /\ \A k \in 1..Len(s) : k < n + 1 => k < n \/ k = n
  OBVIOUS
<1>2. Waited(s, n + 1, e.gen, Base(e), st) /\ Copied(s, n + 1, e.gen, Base(e), st)
  <2>1. \A k \in 1..Len(s) : k < n => k < n + 1
    OBVIOUS
  <2>2. QED
    BY <2>1 DEF Placed, Waited, Copied
<1>3. ASSUME NEW k \in 1..Len(s), k < n + 1
      PROVE  /\ s[k].op = "signal" /\ s[k].gen = e.gen => Reach(Base(e), s[k].value, st)
             /\ s[k].op = "list" /\ s[k].gen = e.gen => s[k].copy <= Base(e)
  BY <1>1, <1>3 DEF Placed
<1>4. QED
  BY <1>2, <1>3 DEF Placed

\* No entry speaks of a pass that was not kicked yet.
LEMMA KickedOnly ==
  ASSUME BTypeOK, ListsPlaced, SignalsSent, WaitsFollow, NEW q \in Queues, NEW k \in 1..Len(queue[q]), NEW g \in Gens,
         queue[q][k].gen = g
  PROVE  /\ queue[q][k].op = "signal" => queue[q][k].value \in Nat /\ queue[q][k].value <= stand[g].last
         /\ queue[q][k].op = "wait" => queue[q][k].value \in Nat /\ queue[q][k].value <= stand[g].last
         /\ queue[q][k].op = "list" => queue[q][k].copy \in Nat /\ queue[q][k].copy <= stand[g].last
<1>1. queue[q][k] \in Entry
  BY DEF BTypeOK, QueueTypes
<1>2. queue[q][k].op = "signal" => queue[q][k].value \in Nat /\ queue[q][k].value <= stand[g].last
  BY <1>1, EntryKinds DEF SignalsSent, SentAt, Sendable
<1>3. queue[q][k].op = "wait" => queue[q][k].value \in Nat /\ queue[q][k].value <= stand[g].last
  BY <1>1, EntryKinds DEF WaitsFollow
<1>4. ASSUME queue[q][k].op = "list"
      PROVE  queue[q][k].copy \in Nat /\ queue[q][k].copy <= stand[g].last
  <2>1. q = Main
    BY <1>4, OtherQueue DEF ListsPlaced
  <2>2. g # 0 /\ ListAt(queue[Main], k, queue[Main][k], stand)
    BY <1>4, <2>1, GensPositive DEF ListsPlaced
  <2>3. queue[q][k].copy <= stand[g].last
    BY <2>1, <2>2 DEF ListAt, Placed
  <2>4. QED
    BY <1>1, <1>4, <2>3, EntryKinds
<1>5. QED
  BY <1>2, <1>3, <1>4

\* The list a frame records may follow what the host's queue holds.
LEMMA FreshPlaced ==
  ASSUME BInv, pc = "kick", ~job.inflight, NEW e \in ListE, e.gen = job.gen, ~e.model,
         e.adopt = 0 \/ (e.adopt = job.jobId /\ e.out = job.outIndex),
         e.copy = 0 \/ e.copy = job.jobId + 1, e.adopt # 0 \/ e.copy # 0,
         NEW st \in Standings, Later(st, stand[job.gen]), e.copy <= st.last
  PROVE  Placed(queue[Main], Len(queue[Main]) + 1, e, st)
<1> DEFINE g == job.gen
           s == queue[Main]
           n == Len(queue[Main]) + 1
           b == job.jobId
           old == stand[g]
<1>1. ~Gone /\ open = NoEntry /\ ~abandoned[g] /\ ~job.signalPending
  BY DEF BInv, Control, Pipeline, Burying
<1>2. /\ g \in Gens /\ b \in Nat /\ s \in Seq(Entry) /\ n \in Nat /\ old \in Standings /\ Main \in queues
      /\ \A k \in 1..Len(s) : s[k] \in Entry
  <2>1. g \in Gens /\ b \in Nat
    BY <1>1, JobIs DEF BInv, BTypeOK
  <2>2. old \in Standings
    BY <2>1, StandNow DEF BInv, BTypeOK
  <2>3. s \in Seq(Entry) /\ Main \in queues
    BY OtherQueue DEF BInv, BTypeOK, QueueTypes, HostTypes
  <2>4. QED
    BY <2>1, <2>2, <2>3
<1>3. old.last = b /\ job.outIndex = b % 2
  BY <1>1 DEF BInv, Numbered
<1>4. old.inputs \in Nat /\ old.copied \in Nat /\ old.inputs <= b /\ old.copied <= b
  <2>1. /\ old.inputs = fInputs[g] /\ old.copied = copies[g] /\ old.last = fModel[g] + Len(bg[g])
        /\ fInputs[g] <= fModel[g] + Len(bg[g]) /\ copies[g] <= fModel[g] + Len(bg[g])
    BY <1>2, StandNow DEF BInv, BTypeOK, Passes, PassesOf
  <2>2. QED
    BY <1>2, <1>3, <2>1 DEF Standings
<1>5. Waited(s, n, g, b, old)
  BY <1>1, <1>2 DEF BInv, Known, Awaited
<1>6. Copied(s, n, g, b, old)
  BY <1>1 DEF BInv, Known, CopiedFor
<1>7. ASSUME NEW k \in 1..Len(s), s[k].gen = g
      PROVE  /\ s[k].op = "signal" => s[k].value <= b
             /\ s[k].op = "list" => s[k].copy <= b
  BY <1>2, <1>3, <1>7, KickedOnly, OtherQueue DEF BInv
<1>8. /\ st.inputs = old.inputs /\ st.copied = old.copied /\ st.last \in Nat /\ old.last <= st.last
  BY DEF Later, Standings
<1>9. Base(e) = b /\ (e.adopt # 0 => e.adopt = b)
  <2>1. e.copy # 0 => e.copy - 1 = b
    BY <1>2
  <2>2. QED
    BY <2>1 DEF Base
<1>10. Extends(s, s) /\ n <= n
  BY <1>2 DEF Extends
<1>11. Later(st, old) /\ e.gen = g
  OBVIOUS
<1>12. e.adopt # 0 => e.out = e.adopt % 2
  BY <1>3
<1>13. (e.adopt # 0 \/ e.copy # 0) /\ ~e.model /\ e.copy <= st.last
  OBVIOUS
<1> HIDE DEF g, s, n, b, old
<1>14. Waited(s, n, g, b, st)
  BY <1>2, <1>5, <1>10, <1>11, WaitedLater
<1>15. Copied(s, n, g, b, st)
  BY <1>2, <1>6, <1>8, <1>10, CopiedLater
<1>16. \A v : v <= b => Reach(b, v, st)
  BY DEF Reach
<1>17. e.adopt <= st.last
  BY <1>2, <1>3, <1>8, <1>9
<1>18. Reach(b, st.inputs, st) /\ st.copied <= b
  BY <1>4, <1>8, <1>16
<1>19. QED
  <2>1. Placed(s, n, e, st)
    BY <1>7, <1>9, <1>11, <1>12, <1>13, <1>14, <1>15, <1>16, <1>17, <1>18 DEF Placed
  <2>2. QED
    BY <2>1 DEF s, n

LEMMA OpenStaysPlaced ==
  ASSUME BInv, [BNext]_bvars
  PROVE  OpenPlaced'
<1>1. /\ BTypeOK /\ Passes /\ ListsPlaced /\ SignalsSent /\ Control /\ OpenPlaced /\ Numbered /\ Pending
      /\ open = NoEntry \/ open \in ListE
  BY DEF BInv, BTypeOK, ThreadTypes
<1>2. BTypeOK'
  BY <1>1, Typed
<1>3. CASE open' = NoEntry
  BY <1>3 DEF OpenPlaced
<1>4. CASE open' = ModelList
  BY <1>4, ModelListIs DEF OpenPlaced, ListAt
<1>5. ASSUME Grows, open' = open, queue'[Main] = queue[Main]
      PROVE  OpenPlaced'
  <2>1. CASE open = NoEntry
    BY <1>5, <2>1 DEF OpenPlaced
  <2>2. CASE open # NoEntry
    <3>1. Len(queue[Main]) + 1 \in Nat /\ open \in ListE
      BY <1>1, <1>5, <2>2, GrownQueue, OtherQueue
    <3>2. ListAt(queue[Main], Len(queue[Main]) + 1, open, stand)
      BY <1>1, <2>2 DEF OpenPlaced
    <3>3. ListAt(queue'[Main], Len(queue[Main]) + 1, open, stand')
      BY <1>5, <3>1, <3>2, ListAtLater
    <3>4. QED
      BY <1>5, <3>3 DEF OpenPlaced
  <2>3. QED
    BY <2>1, <2>2
<1>6. ASSUME Grows, SendStep, Sends, open' = open, open # NoEntry
      PROVE  OpenPlaced'
  <2> DEFINE g == job.gen
             t == queue'[Main]
             n == Len(queue[Main]) + 1
             v == job.jobId
             st == stand'[g]
  <2>1. /\ g \in Gens /\ g # 0 /\ v \in Nat \ {0} /\ open \in ListE /\ open.gen = g /\ open.copy = v
        /\ v = stand[g].last /\ abandoned'[g]
    <3>1. g \in Gens /\ v \in Nat /\ v # 0 /\ abandoned \in [Gens -> BOOLEAN]
      BY <1>1, <1>6, JobIs DEF Sends, BTypeOK, Control, GpuTypes
    <3>2. open.gen = g /\ open.copy = v /\ v = stand[g].last
      BY <1>1, <1>6 DEF Sends, Pending, Numbered
    <3>3. abandoned'[g]
      BY <1>6, <3>1 DEF SendStep, Sends
    <3>4. QED
      BY <1>1, <1>6, <3>1, <3>2, <3>3, GensPositive
  <2>2. /\ t = Append(queue[Main], Signal(g, v)) /\ queue[Main] \in Seq(Entry) /\ Signal(g, v) \in Entry
        /\ Len(queue[Main]) \in Nat
    BY <1>1, <1>6, <2>1, EntriesMade, GrownQueue, OtherQueue DEF Sends, Put, BTypeOK, HostTypes
  <2>3. t \in Seq(Entry) /\ Len(t) = n /\ t[n] = Signal(g, v) /\ n \in 1..Len(t) /\ n \in Nat
    <3>1. Len(t) = Len(queue[Main]) + 1 /\ t[Len(queue[Main]) + 1] = Signal(g, v)
      BY <2>2, Appended
    <3>2. t \in Seq(Entry)
      BY <2>2, Appended
    <3>3. QED
      BY <2>2, <3>1, <3>2
  <2>4. st \in Standings /\ st.left /\ st.last = v
    <3>1. UNCHANGED <<fModel, bg>>
      BY <1>6 DEF SendStep, gpu
    <3>2. /\ stand'[g] \in Standings /\ stand'[g].left = abandoned'[g]
          /\ stand'[g].last = fModel'[g] + Len(bg'[g]) /\ stand[g].last = fModel[g] + Len(bg[g])
      BY <1>1, <1>2, <2>1, StandNow, StandNext DEF BTypeOK
    <3>3. QED
      BY <2>1, <3>1, <3>2
  <2>5. ListAt(t, n, open, stand')
    <3>1. ListAt(queue[Main], n, open, stand)
      BY <1>1, <1>6 DEF OpenPlaced
    <3>2. QED
      BY <1>6, <2>1, <2>3, <3>1, ListAtLater
  <2>6. Placed(t, n, open, st)
    BY <2>1, <2>5 DEF ListAt
  <2>7. t[n].op = "signal" /\ t[n].value = v /\ Reach(Base(open), v, st)
    <3>1. Base(open) = v - 1 /\ v = (v - 1) + 1
      BY <2>1 DEF Base
    <3>2. QED
      BY <2>1, <2>3, <2>4, <3>1, EntriesMade DEF Reach, Late
  <2>8. Placed(t, n + 1, open, st)
    <3> HIDE DEF t, n, v, st
    <3>1. QED
      BY <2>1, <2>3, <2>4, <2>6, <2>7, PlacedFurther
  <2>9. QED
    BY <1>6, <2>1, <2>3, <2>8 DEF OpenPlaced, ListAt
<1>7. CASE IdleStep /\ pc = "kick" /\ FrameEnds
  <2>1. Grows
    <3>1. \A q \in Queues : ~HostQueueRuns(q)
      BY <1>7 DEF HostQueueRuns, FrameEnds
    <3>2. QED
      BY <1>1, <3>1, GrowsOrRuns
  <2>2. rec \in ListE /\ RecFits(rec, job) /\ ~Gone /\ job.gen \in Gens /\ open' = rec /\ queue' = queue
    BY <1>1, <1>7, JobIs DEF Control, FrameEnds, IdleStep, BTypeOK
  <2>3. ListAt(queue[Main], Len(queue[Main]) + 1, rec, stand')
    <3>1. CASE rec.gen = 0
      BY <2>2, <3>1 DEF ListAt, RecFits
    <3>2. CASE rec.gen # 0
      <4>1. /\ rec.gen = job.gen /\ rec.adopt = job.jobId /\ job.jobId # 0 /\ rec.out = job.outIndex /\ ~job.inflight
            /\ ~rec.model /\ rec.copy = 0
        BY <2>2, <3>2 DEF RecFits
      <4>2. stand'[job.gen] \in Standings /\ Later(stand'[job.gen], stand[job.gen]) /\ stand'[job.gen].last \in Nat
        BY <2>1, <2>2 DEF Grows, Standings
      <4>3. rec.copy <= stand'[job.gen].last
        BY <4>1, <4>2
      <4>4. Placed(queue[Main], Len(queue[Main]) + 1, rec, stand'[job.gen])
        BY <1>7, <2>2, <4>1, <4>2, <4>3, FreshPlaced
      <4>5. QED
        BY <3>2, <4>1, <4>4 DEF ListAt
    <3>3. QED
      BY <3>1, <3>2
  <2>4. QED
    BY <2>2, <2>3 DEF OpenPlaced
<1>8. CASE Kicked
  <2>1. Grows
    <3>1. \A q \in Queues : ~HostQueueRuns(q)
      <4>1. TAKE q \in Queues
      <4>2. job' # job
        BY <1>8 DEF Kicked
      <4>3. QED
        BY <4>2 DEF HostQueueRuns
    <3>2. QED
      BY <1>1, <3>1, GrowsOrRuns
  <2>2. ~Gone /\ job.gen \in Gens /\ job.jobId \in Nat /\ queue' = queue /\ pc = "kick" /\ ~job.inflight
    BY <1>1, <1>8, JobIs DEF Kicked, BTypeOK
  <2>3. /\ open' \in ListE /\ open'.gen = job.gen /\ open'.copy = job.jobId + 1 /\ ~open'.model
        /\ open'.adopt = rec.adopt /\ open'.out = rec.out
    BY <1>8 DEF Kicked
  <2>4. open'.adopt = 0 \/ (open'.adopt = job.jobId /\ open'.out = job.outIndex)
    BY <1>1, <2>2, <2>3 DEF Control, RecFits
  <2>5. stand'[job.gen] \in Standings /\ Later(stand'[job.gen], stand[job.gen])
    BY <2>1, <2>2 DEF Grows
  <2>6. open'.copy <= stand'[job.gen].last
    <3>1. stand[job.gen].last = job.jobId
      BY <1>1, <2>2 DEF Numbered
    <3>2. stand'[job.gen].last = fModel[job.gen] + Len(bg'[job.gen]) /\ stand[job.gen].last = fModel[job.gen] + Len(bg[job.gen])
      BY <1>1, <1>2, <1>8, <2>2, StandNow, StandNext DEF BTypeOK, Kicked
    <3>3. bg[job.gen] \in Seq(Pass) /\ fModel[job.gen] \in Nat /\ bg \in [Gens -> Seq(Pass)]
      BY <1>1, <2>2 DEF BTypeOK, GpuTypes
    <3> DEFINE pass == [job |-> job.jobId + 1, out |-> 1 - job.outIndex, slot |-> Slot]
    <3>4. bg'[job.gen] = Append(bg[job.gen], pass)
      BY <1>8, <2>2, <3>3 DEF Kicked
    <3> HIDE DEF pass
    <3>5. Len(bg'[job.gen]) = Len(bg[job.gen]) + 1 /\ Len(bg[job.gen]) \in Nat
      BY <3>3, <3>4
    <3>6. QED
      BY <2>2, <2>3, <3>1, <3>2, <3>3, <3>5
  <2>7. open'.adopt # 0 \/ open'.copy # 0
    BY <2>2, <2>3
  <2>8. Placed(queue[Main], Len(queue[Main]) + 1, open', stand'[job.gen])
    BY <2>2, <2>3, <2>4, <2>5, <2>6, <2>7, FreshPlaced
  <2>9. QED
    BY <2>2, <2>3, <2>8, GensPositive DEF OpenPlaced, ListAt
<1>9. ASSUME NEW q \in Queues, Runs(q)
      PROVE  OpenPlaced'
  <2>1. CASE open = NoEntry
    BY <1>9, <2>1 DEF OpenPlaced, Runs
  <2>2. CASE open # NoEntry
    <3> DEFINE n == Len(queue'[Main]) + 1
    <3>1. n \in Nat \ {0} /\ Len(queue[Main]) + 1 = IF q = Main THEN n + 1 ELSE n
      <4>1. queue[Main] \in Seq(Entry) /\ queue'[Main] \in Seq(Entry)
        BY <1>1, <1>2, OtherQueue DEF BTypeOK, QueueTypes
      <4>2. Len(queue[Main]) \in Nat /\ Len(queue'[Main]) \in Nat
        BY <4>1
      <4>3. CASE q = Main
        BY <1>9, <4>2, <4>3, RunQueue
      <4>4. CASE q # Main
        BY <1>9, <4>2, <4>4, OtherQueue DEF Runs
      <4>5. QED
        BY <4>3, <4>4
    <3>2. ListAt(queue[Main], Len(queue[Main]) + 1, open, stand) /\ open \in ListE
      BY <1>1, <2>2 DEF OpenPlaced
    <3> HIDE DEF n
    <3>3. ListAt(queue'[Main], n, open, stand')
      BY <1>1, <1>9, <3>1, <3>2, ListAtRuns
    <3>4. open' = open
      BY <1>9 DEF Runs
    <3>5. QED
      BY <3>3, <3>4 DEF OpenPlaced, n
  <2>3. QED
    BY <2>1, <2>2
<1>10. Grows \/ \E q \in Queues : Runs(q)
  BY <1>1, StepShape
<1>11. CASE Grows
  <2>1. CASE SendStep
    <3>1. CASE open' = ModelList
      BY <1>4, <3>1
    <3>2. CASE open' = open /\ open = NoEntry
      BY <1>3, <3>2
    <3>3. CASE open' = open /\ open # NoEntry
      BY <1>5, <1>6, <1>11, <2>1, <3>3 DEF SendStep
    <3>4. QED
      BY <2>1, <3>1, <3>2, <3>3 DEF SendStep
  <2>2. CASE IdleStep
    BY <1>3, <1>4, <1>5, <1>7, <1>11, <2>2 DEF IdleStep, Built
  <2>3. CASE SubmitStep
    BY <1>3, <2>3 DEF SubmitStep, Submits
  <2>4. CASE CapStep \/ AdoptStep
    BY <1>1, <1>3, <2>4 DEF CapStep, AdoptStep, Control, Pipeline
  <2>5. CASE \E g \in Gens : PassStarts(g) \/ PassEnds(g)
    BY <1>5, <1>11, <2>5 DEF PassStarts, PassEnds
  <2>6. CASE \E q \in Queues : HostQueueRuns(q)
    BY <1>1, <1>9, <2>6, RunsEffect
  <2>7. QED
    BY <1>1, <1>8, <2>1, <2>2, <2>3, <2>4, <2>5, <2>6, NextKinds DEF Kinds
<1>12. QED
  BY <1>9, <1>10, <1>11

LEMMA SentLater ==
  ASSUME NEW s \in Seq(Entry), NEW t \in Seq(Entry), Extends(t, s), NEW st \in Standings, NEW st2 \in Standings,
         Later(st2, st), NEW n \in Nat, n <= Len(s) + 1, NEW g, NEW v \in Nat \ {0}, NEW main,
         SentAt(s, n, g, v, st, main)
  PROVE  SentAt(t, n, g, v, st2, main)
<1>1. Sendable(t, n, g, v, st2) /\ (Late(v, st) => Late(v, st2))
  BY SendableLater DEF SentAt
<1>2. Copied(s, n, g, v, st) => Copied(t, n, g, v, st2)
  <2>1. st2.copied = st.copied /\ v \in Nat /\ n <= n
    BY DEF Later
  <2>2. QED
    BY <2>1, CopiedLater
<1>3. QED
  BY <1>1, <1>2 DEF SentAt

LEMMA SignalsStaySent ==
  ASSUME BInv, [BNext]_bvars
  PROVE  SignalsSent'
<1>1. /\ BTypeOK /\ Passes /\ ListsPlaced /\ SignalsSent /\ WaitsFollow /\ Control /\ OpenPlaced /\ Numbered
      /\ Pending /\ queues \in SUBSET Queues
  BY OtherQueue DEF BInv, BTypeOK, HostTypes
<1>2. BTypeOK'
  BY <1>1, Typed
<1>3. ASSUME Grows, NEW q \in Queues, NEW k \in 1..Len(queue'[q]), queue'[q][k].op = "signal"
      PROVE  SentAt(queue'[q], k, queue'[q][k].gen, queue'[q][k].value, stand'[queue'[q][k].gen], q = Main)
  <2> DEFINE s == queue[q]
             t == queue'[q]
             e == t[k]
             g == e.gen
             v == e.value
             main == q = Main
  <2>1. /\ s \in Seq(Entry) /\ t \in Seq(Entry) /\ Extends(t, s) /\ Len(s) \in Nat
        /\ \/ k \in 1..Len(s) /\ e = s[k]
           \/ k = Len(s) + 1 /\ Entered(q, e)
    BY <1>3, GrownQueue
  <2>2. e \in Entry /\ g \in Gens /\ v \in Nat \ {0} /\ k \in Nat /\ k <= Len(s) + 1
    <3>1. e \in Entry
      BY <2>1
    <3>2. QED
      BY <1>3, <2>1, <3>1, EntryKinds
  <2>3. stand[g] \in Standings /\ stand'[g] \in Standings /\ Later(stand'[g], stand[g])
    BY <1>3, <2>2 DEF Grows
  <2>4. CASE k \in 1..Len(s) /\ e = s[k]
    <3>1. SentAt(s, k, g, v, stand[g], main)
      BY <1>1, <1>3, <2>4 DEF SignalsSent
    <3> HIDE DEF s, t, e, g, v, main
    <3>2. SentAt(t, k, g, v, stand'[g], main)
      BY <2>1, <2>2, <2>3, <3>1, SentLater
    <3>3. QED
      BY <3>2 DEF t, e, g, v, main
  <2>5. CASE k = Len(s) + 1 /\ Entered(q, e)
    <3>1. /\ ~Gone /\ job.signalPending /\ q \in queues /\ (main \/ job.submitQueue # Main)
          /\ e = Signal(job.gen, job.jobId) /\ (open = NoEntry \/ abandoned'[job.gen])
      BY <1>3, <2>5, EntriesMade, ListMade DEF Entered
    <3>2. g = job.gen /\ v = job.jobId
      BY <3>1 DEF Signal
    <3>3. v = stand[g].last /\ fInputs[g] < v /\ Waited(s, k, g, v - 1, stand[g])
      BY <1>1, <2>5, <3>1, <3>2 DEF Numbered, Pending, Awaited
    <3>4. stand[g].inputs = fInputs[g] /\ stand'[g].left = abandoned'[g]
      BY <1>1, <1>2, <2>2, StandNow, StandNext DEF BTypeOK
    <3>5. ASSUME NEW i \in 1..Len(s), i < k
          PROVE  /\ s[i].op = "signal" /\ s[i].gen = g => s[i].value < v
                 /\ s[i].op = "wait" /\ s[i].gen = g => s[i].value < v
                 /\ s[i].op = "list" /\ s[i].gen = g => s[i].copy <= v
      <4>1. s[i].op \in {"signal", "wait"} /\ s[i].gen = g => s[i].value < v
        BY <1>1, <3>1, <3>2 DEF Pending
      <4>2. s[i].op = "list" /\ s[i].gen = g => s[i].copy <= v
        BY <1>1, <2>2, <3>3, KickedOnly
      <4>3. QED
        BY <4>1, <4>2
    <3>6. stand[g].inputs < v /\ stand[g].inputs \in Nat /\ stand[g].last \in Nat
      BY <2>3, <3>3, <3>4 DEF Standings
    <3>7. Sendable(s, k, g, v, stand[g])
      <4> HIDE DEF s, t, e, g, v, main
      <4>1. v <= stand[g].last /\ v > stand[g].inputs
        BY <2>2, <3>3, <3>6
      <4>2. QED
        BY <3>3, <3>5, <4>1 DEF Sendable
    <3>8. open = NoEntry => q = Main /\ Copied(s, k, g, v, stand[g])
      <4>1. ASSUME open = NoEntry PROVE q = Main /\ Copied(s, k, g, v, stand[g])
        <5>1. CopiedFor(g, v) /\ (job.submitQueue = Main \/ queues = {Main})
          BY <1>1, <3>1, <3>2, <4>1 DEF Pending
        <5>2. q = Main
          BY <3>1, <5>1
        <5>3. QED
          BY <2>5, <5>1, <5>2 DEF CopiedFor
      <4>2. QED
        BY <4>1
    <3>9. stand'[g].last = stand[g].last
      <4>1. job.inflight /\ pc = "host"
        BY <1>1, <3>1 DEF Control
      <4>2. CASE Kicked \/ IdleStep \/ CapStep \/ AdoptStep
        BY <1>3, <2>5, <4>1, <4>2, GrownQueue, <2>1 DEF Kicked, IdleStep, CapStep, AdoptStep, Built
      <4>3. CASE SendStep \/ SubmitStep
        <5>1. UNCHANGED <<fModel, bg>>
          BY <4>3 DEF SendStep, SubmitStep, gpu
        <5>2. QED
          BY <1>1, <1>2, <2>2, <5>1, StandNow, StandNext DEF BTypeOK
      <4>4. CASE (\E h \in Gens : PassStarts(h) \/ PassEnds(h)) \/ (\E r \in Queues : HostQueueRuns(r))
        <5>1. job' = job /\ open' = open
          BY <4>4 DEF PassStarts, PassEnds, HostQueueRuns
        <5>2. CASE \E h \in Gens : PassStarts(h) \/ PassEnds(h)
          <6>1. queue' = queue
            BY <5>2 DEF PassStarts, PassEnds
          <6>2. QED
            BY <1>3, <2>1, <2>5, <6>1
        <5>3. ASSUME NEW r \in Queues, HostQueueRuns(r)
              PROVE  FALSE
          <6>1. Len(queue'[q]) <= Len(queue[q])
            <7>1. Runs(r)
              BY <1>1, <5>3, RunsEffect
            <7>2. CASE q = r
              BY <2>1, <7>1, <7>2, RunQueue
            <7>3. CASE q # r
              BY <2>1, <7>1, <7>3 DEF Runs
            <7>4. QED
              BY <7>2, <7>3
          <6>2. QED
            BY <1>3, <2>1, <2>5, <6>1
        <5>4. QED
          BY <4>4, <5>2, <5>3
      <4>5. QED
        BY <1>1, <4>2, <4>3, <4>4, NextKinds DEF Kinds
    <3>10. Sendable(t, k, g, v, stand'[g])
      <4> HIDE DEF s, t, e, g, v, main
      <4>1. QED
        BY <2>1, <2>2, <2>3, <3>7, SendableLater
    <3>11. Late(v, stand'[g]) \/ (main /\ Copied(t, k, g, v, stand'[g]))
      <4>1. CASE abandoned'[g]
        BY <3>3, <3>4, <3>9, <4>1 DEF Late
      <4>2. CASE open = NoEntry
        <5>1. Copied(s, k, g, v, stand[g]) /\ main
          BY <3>8, <4>2
        <5>2. stand'[g].copied = stand[g].copied
          BY <2>3 DEF Later
        <5> HIDE DEF s, t, e, g, v, main
        <5>3. Copied(t, k, g, v, stand'[g])
          BY <2>1, <2>2, <2>3, <5>1, <5>2, CopiedLater
        <5>4. QED
          BY <5>1, <5>3
      <4>3. QED
        BY <3>1, <3>2, <4>1, <4>2
    <3>12. QED
      BY <3>10, <3>11 DEF SentAt
  <2>6. QED
    BY <2>1, <2>4, <2>5
<1>4. ASSUME NEW q \in Queues, Runs(q), NEW r \in Queues, NEW k \in 1..Len(queue'[r]), queue'[r][k].op = "signal"
      PROVE  SentAt(queue'[r], k, queue'[r][k].gen, queue'[r][k].value, stand'[queue'[r][k].gen], r = Main)
  <2> DEFINE s == queue[r]
             t == queue'[r]
             e == t[k]
             g == e.gen
             v == e.value
             h == queue[q][1]
             st == stand[g]
             main == r = Main
  <2>1. t \in Seq(Entry) /\ s \in Seq(Entry)
    BY <1>1, <1>2 DEF BTypeOK, QueueTypes
  <2>2. e \in Entry /\ g \in Gens /\ v \in Nat \ {0} /\ k \in Nat \ {0}
    <3>1. e \in Entry
      BY <2>1, <1>4
    <3>2. QED
      BY <1>4, <2>1, <3>1, EntryKinds
  <2>3. st \in Standings /\ stand'[g] = Ran(h, g, st) /\ h \in Entry
    BY <1>4, <2>2 DEF Runs
  <2>4. CASE r = q
    <3>1. t = Tail(s) /\ s # <<>> /\ k + 1 \in 1..Len(s) /\ e = s[k + 1] /\ h = s[1] /\ 1 \in 1..Len(s) /\ 1 < k + 1
      BY <1>4, <2>2, <2>4, RunQueue DEF Runs
    <3>2. SentAt(s, k + 1, g, v, st, main)
      BY <1>1, <1>4, <3>1 DEF SignalsSent
    <3>3. h = Wait(g, v - 1) => st.done >= v - 1
      <4>1. Wait(g, v - 1).op = "wait" /\ Wait(g, v - 1).gen = g /\ Wait(g, v - 1).value = v - 1
        BY DEF Wait
      <4>2. h.op = "wait" => stand[h.gen].done >= h.value
        BY <1>4 DEF Runs
      <4>3. QED
        BY <4>1, <4>2
    <3>4. h.op = "list" /\ h.gen = g /\ h.copy # 0 => h.copy <= v /\ st.copied < h.copy
      <4>1. h.op = "list" /\ h.gen = g /\ h.copy # 0 => st.copied < h.copy
        BY <1>1, <1>4, <2>2, <2>4, HeadCopies
      <4>2. h.op = "list" /\ h.gen = g => h.copy <= v
        BY <3>1, <3>2 DEF SentAt, Sendable
      <4>3. QED
        BY <4>1, <4>2
    <3> HIDE DEF s, t, e, g, v, h, st, main
    <3>5. Sendable(Tail(s), k, g, v, Ran(s[1], g, st)) /\ Late(v, Ran(s[1], g, st)) = Late(v, st)
      BY <2>1, <2>2, <2>3, <3>1, <3>2, <3>3, SendableRuns DEF SentAt
    <3>6. Copied(s, k + 1, g, v, st) => Copied(Tail(s), k, g, v, Ran(s[1], g, st))
      BY <2>1, <2>2, <2>3, <3>1, <3>4, CopiedRuns
    <3>7. SentAt(t, k, g, v, stand'[g], main)
      BY <2>3, <3>1, <3>2, <3>5, <3>6 DEF SentAt
    <3>8. QED
      BY <3>7 DEF t, e, g, v, main
  <2>5. CASE r # q
    <3>1. t = s /\ k \in 1..Len(s) /\ e = s[k]
      BY <1>4, <2>5 DEF Runs
    <3>2. SentAt(s, k, g, v, st, main)
      BY <1>1, <1>4, <3>1 DEF SignalsSent
    <3>3. main => h.op # "list"
      BY <1>1, <1>4, <2>5, OtherQueue DEF ListsPlaced, Runs
    <3>4. h.op = "signal" /\ h.gen = g => v > h.value \/ (v = h.value /\ Late(v, st))
      <4>1. ASSUME h.op = "signal", h.gen = g
            PROVE  v > h.value \/ (v = h.value /\ Late(v, st))
        <5>1. /\ h.value \in Nat \ {0} /\ h.value <= st.last /\ st.done >= h.value - 1 /\ h.value >= st.inputs
              /\ Late(h.value, st) \/ q = Main
          BY <1>1, <1>4, <2>2, <4>1, HeadSignals
        <5>2. /\ v <= st.last /\ (v > st.inputs \/ (v = st.inputs /\ Late(v, st)))
              /\ Late(v, st) \/ main
          BY <3>2 DEF SentAt, Sendable
        <5>3. st.inputs >= st.done /\ st.inputs \in Nat /\ st.done \in Nat /\ st.last \in Nat
          <6>1. st.inputs = fInputs[g] /\ st.done = fModel[g] /\ fModel[g] <= fInputs[g]
            BY <1>1, <2>2, StandNow DEF Passes, PassesOf, BTypeOK
          <6>2. QED
            BY <2>3, <6>1 DEF Standings
        <5> HIDE DEF s, t, e, g, v, h, st
        <5>4. CASE main
          <6>1. Late(h.value, st)
            BY <2>5, <5>1, <5>4
          <6>2. h.value = st.last /\ st.left
            BY <6>1 DEF Late
          <6>3. v = st.last
            BY <2>2, <5>1, <5>2, <5>3, <6>2 DEF Late
          <6>4. QED
            BY <6>2, <6>3 DEF Late
        <5>5. CASE ~main
          <6>1. v = st.last /\ Late(v, st)
            BY <5>2, <5>5 DEF Late
          <6>2. v > h.value \/ v = h.value
            BY <2>2, <5>1, <5>3, <6>1
          <6>3. QED
            BY <6>1, <6>2
        <5>6. QED
          BY <5>4, <5>5
      <4>2. QED
        BY <4>1
    <3> HIDE DEF s, t, e, g, v, h, st, main
    <3>5. Sendable(s, k, g, v, Ran(h, g, st)) /\ Late(v, Ran(h, g, st)) = Late(v, st)
      BY <2>2, <2>3, <3>2, <3>4, SendableElsewhere DEF SentAt
    <3>6. main => (Copied(s, k, g, v, st) => Copied(s, k, g, v, Ran(h, g, st)))
      BY <2>3, <3>3, RanFields DEF Copied
    <3>7. SentAt(t, k, g, v, stand'[g], main)
      BY <2>3, <3>1, <3>2, <3>5, <3>6 DEF SentAt
    <3>8. QED
      BY <3>7 DEF t, e, g, v, main
  <2>6. QED
    BY <2>4, <2>5
<1>5. QED
  BY <1>1, <1>3, <1>4, StepShape DEF SignalsSent

\* What is signalled, or will be by an entry of the main queue, stays so.
LEMMA SignalledStays ==
  ASSUME BInv, [BNext]_bvars, NEW g \in Gens, NEW v \in Nat, Signalled(queue[Main], g, v, stand[g])
  PROVE  Signalled(queue'[Main], g, v, stand'[g])
<1>1. BTypeOK /\ Passes /\ Control /\ SignalsSent
  BY DEF BInv
<1>2. CASE Grows
  <2>1. /\ queue[Main] \in Seq(Entry) /\ Extends(queue'[Main], queue[Main])
        /\ Len(queue[Main]) \in Nat /\ Len(queue'[Main]) \in Nat
    BY <1>2, GrownQueue, OtherQueue
  <2>2. \A k \in 1..Len(queue[Main]) : k \in 1..Len(queue'[Main]) /\ queue'[Main][k] = queue[Main][k]
    BY <2>1 DEF Extends
  <2>3. stand'[g].inputs = stand[g].inputs
    BY <1>2 DEF Grows, Later
  <2>4. QED
    BY <2>2, <2>3 DEF Signalled
<1>3. ASSUME NEW q \in Queues, Runs(q)
      PROVE  Signalled(queue'[Main], g, v, stand'[g])
  <2> DEFINE h == queue[q][1]
  <2>1. stand[g] \in Standings /\ stand'[g] = Ran(h, g, stand[g]) /\ h \in Entry
    BY <1>3 DEF Runs
  <2>2. stand'[g].inputs = IF h.op = "signal" /\ h.gen = g THEN h.value ELSE stand[g].inputs
    BY <2>1, RanFields
  <2>3. h.op = "signal" /\ h.gen = g => h.value >= stand[g].inputs /\ h.value \in Nat
    BY <1>1, <1>3, HeadSignals
  <2>4. stand'[g].inputs >= stand[g].inputs /\ stand'[g].inputs \in Nat /\ stand[g].inputs \in Nat
    BY <2>1, <2>2, <2>3 DEF Standings
  <2>5. CASE stand[g].inputs >= v
    BY <2>4, <2>5 DEF Signalled
  <2>6. ASSUME NEW k \in 1..Len(queue[Main]), queue[Main][k] = Signal(g, v)
        PROVE  Signalled(queue'[Main], g, v, stand'[g])
    <3>1. Signal(g, v).op = "signal" /\ Signal(g, v).gen = g /\ Signal(g, v).value = v
      BY DEF Signal
    <3>2. CASE q = Main /\ k = 1
      <4>1. stand'[g].inputs = v
        BY <2>2, <2>6, <3>1, <3>2
      <4>2. QED
        BY <4>1 DEF Signalled
    <3>3. CASE q = Main /\ k # 1
      <4>1. /\ queue[q] \in Seq(Entry) /\ queue[q] # <<>> /\ queue'[q] = Tail(queue[q])
            /\ Len(queue'[q]) = Len(queue[q]) - 1 /\ Len(queue[q]) \in Nat
        BY <1>3, RunQueue
      <4>2. k - 1 \in 1..Len(queue[q]) - 1 /\ (k - 1) + 1 = k
        BY <2>6, <3>3, <4>1
      <4>3. Tail(queue[q])[k - 1] = queue[q][(k - 1) + 1]
        BY <4>1, <4>2, Removed
      <4>4. k - 1 \in 1..Len(queue'[Main]) /\ queue'[Main][k - 1] = Signal(g, v)
        BY <2>6, <3>3, <4>1, <4>2, <4>3
      <4>5. QED
        BY <4>4 DEF Signalled
    <3>4. CASE q # Main
      <4>1. queue'[Main] = queue[Main]
        BY <1>3, <3>4, OtherQueue DEF Runs
      <4>2. QED
        BY <2>6, <4>1 DEF Signalled
    <3>5. QED
      BY <3>2, <3>3, <3>4
  <2>7. QED
    BY <2>5, <2>6 DEF Signalled
<1>4. QED
  BY <1>1, <1>2, <1>3, StepShape

\* A job object never takes a pass back.
LEMMA LastGrows ==
  ASSUME BInv, [BNext]_bvars, NEW g \in Gens
  PROVE  stand'[g].last \in Nat /\ stand[g].last \in Nat /\ stand'[g].last >= stand[g].last /\ stand'[g].done >= stand[g].done
<1>1. BTypeOK /\ Passes /\ Control
  BY DEF BInv
<1>2. stand[g] \in Standings /\ stand'[g] \in Standings
  <2>1. BTypeOK'
    BY <1>1, Typed
  <2>2. QED
    BY <1>1, <2>1, StandNow, StandNext DEF BTypeOK
<1>3. CASE Grows
  BY <1>2, <1>3 DEF Grows, Later, Standings
<1>4. ASSUME NEW q \in Queues, Runs(q)
      PROVE  stand'[g].last = stand[g].last /\ stand'[g].done = stand[g].done
  BY <1>2, <1>4, RanFields DEF Runs
<1>5. QED
  BY <1>1, <1>2, <1>3, <1>4, StepShape DEF Standings

LEMMA WaitsStay ==
  ASSUME BInv, [BNext]_bvars
  PROVE  WaitsFollow'
<1>1. BTypeOK /\ Passes /\ Control /\ WaitsFollow /\ Known /\ Numbered
  BY DEF BInv
<1>2. BTypeOK'
  BY <1>1, Typed
<1>3. ASSUME NEW q \in Queues, NEW k \in 1..Len(queue'[q]), queue'[q][k].op = "wait"
      PROVE  /\ queue'[q][k].value <= stand'[queue'[q][k].gen].last
             /\ Signalled(queue'[Main], queue'[q][k].gen, queue'[q][k].value, stand'[queue'[q][k].gen])
  <2> DEFINE e == queue'[q][k]
  <2>1. e.gen \in Gens /\ e.value \in Nat \ {0} /\ e = Wait(e.gen, e.value)
    <3>1. e \in Entry
      BY <1>2, <1>3 DEF BTypeOK, QueueTypes
    <3>2. QED
      BY <1>3, <3>1, EntryKinds
  <2>2. e.value <= stand[e.gen].last /\ Signalled(queue[Main], e.gen, e.value, stand[e.gen])
    <3>1. CASE \E i \in 1..Len(queue[q]) : e = queue[q][i]
      BY <1>1, <1>3, <3>1 DEF WaitsFollow
    <3>2. CASE Entered(q, e)
      <4>1. e = Wait(job.gen, job.jobId) /\ pc = "adopt" /\ ~Gone
        BY <1>3, <3>2, EntriesMade, ListMade DEF Entered
      <4>2. e.gen = job.gen /\ e.value = job.jobId /\ ~job.signalPending
        BY <1>1, <4>1 DEF Wait, Control
      <4>3. stand[e.gen].last = e.value /\ Signalled(queue[Main], e.gen, e.value, stand[e.gen])
        BY <1>1, <4>1, <4>2 DEF Numbered, Known
      <4>4. QED
        BY <2>1, <4>3
    <3>3. CASE Grows
      BY <1>3, <3>1, <3>2, <3>3, GrownQueue
    <3>4. ASSUME NEW r \in Queues, Runs(r)
          PROVE  \E i \in 1..Len(queue[q]) : e = queue[q][i]
      <4>1. CASE r = q
        BY <1>3, <3>4, <4>1, RunQueue
      <4>2. CASE r # q
        BY <1>3, <3>4, <4>2 DEF Runs
      <4>3. QED
        BY <4>1, <4>2
    <3>5. QED
      BY <1>1, <3>1, <3>3, <3>4, StepShape
  <2> HIDE DEF e
  <2>3. Signalled(queue'[Main], e.gen, e.value, stand'[e.gen])
    BY <2>1, <2>2, SignalledStays
  <2>4. e.value <= stand'[e.gen].last
    BY <2>1, <2>2, LastGrows
  <2>5. QED
    BY <2>3, <2>4 DEF e
<1>4. QED
  BY <1>3 DEF WaitsFollow

-----------------------------------------------------------------------------
(* The passes of a job object.                                             *)

\* The passes of a job object whose own queue is at rest.
LEMMA PassesRest ==
  ASSUME BTypeOK, BTypeOK', Passes, NEW g \in Gens,
         bg'[g] = bg[g], running'[g] = running[g], fModel'[g] = fModel[g], answer'[g] = answer[g], made' >= made,
         abandoned[g] => abandoned'[g], abandoned'[g] /\ ~abandoned[g] => g <= made,
         stand'[g].inputs >= stand[g].inputs, stand'[g].inputs <= stand[g].last, stand'[g].copied <= stand[g].last,
         ~abandoned[g] => stand'[g].inputs <= stand'[g].copied /\ stand'[g].copied <= stand[g].done + 1
  PROVE  PassesOf(g)'
<1>1. /\ stand'[g].inputs = fInputs'[g] /\ stand[g].inputs = fInputs[g] /\ stand'[g].copied = copies'[g]
      /\ stand[g].last = fModel[g] + Len(bg[g]) /\ stand[g].done = fModel[g]
      /\ fModel[g] \in Nat /\ Len(bg[g]) \in Nat /\ fInputs[g] \in Nat /\ fInputs'[g] \in Nat
      /\ copies'[g] \in Nat
  BY StandNow, StandNext DEF BTypeOK
<1>2. made \in Nat /\ made' \in Nat /\ g \in Nat /\ abandoned[g] \in BOOLEAN /\ abandoned'[g] \in BOOLEAN
  BY GensPositive DEF BTypeOK, ThreadTypes, GpuTypes
<1>3. PassesOf(g)
  BY DEF Passes
<1>4. /\ \A i \in 1..Len(bg'[g]) : bg'[g][i].job = fModel'[g] + i /\ bg'[g][i].out = (fModel'[g] + i) % 2
      /\ answer'[g][fModel'[g] % 2] = fModel'[g]
      /\ fModel'[g] > 0 => answer'[g][(fModel'[g] - 1) % 2] = fModel'[g] - 1
  BY <1>3 DEF PassesOf
<1>5. running'[g] => Len(bg'[g]) > 0 /\ fModel'[g] < fInputs'[g]
  BY <1>1, <1>3 DEF PassesOf
<1>6. fModel'[g] <= fInputs'[g] /\ fInputs'[g] <= fModel'[g] + Len(bg'[g]) /\ copies'[g] <= fModel'[g] + Len(bg'[g])
  BY <1>1, <1>3 DEF PassesOf
<1>7. ~abandoned'[g] => fInputs'[g] <= copies'[g] /\ copies'[g] <= fModel'[g] + 1
  BY <1>1, <1>2
<1>8. g > made' => Len(bg'[g]) = 0 /\ fModel'[g] = 0 /\ fInputs'[g] = 0 /\ copies'[g] = 0 /\ ~abandoned'[g]
  <2>1. g > made' => g > made
    BY <1>2
  <2>2. g > made => Len(bg[g]) = 0 /\ fModel[g] = 0 /\ ~abandoned[g]
    BY <1>3 DEF PassesOf
  <2>3. g > made' => ~(g <= made)
    BY <1>2
  <2>4. QED
    BY <1>1, <1>2, <1>6, <2>1, <2>2, <2>3
<1>9. QED
  BY <1>4, <1>5, <1>6, <1>7, <1>8 DEF PassesOf

\* Where the host's queues have not run, the fences and the copies are as they were.
LEMMA PassesAtRest ==
  ASSUME BTypeOK, BTypeOK', Passes, NEW g \in Gens,
         bg'[g] = bg[g], running'[g] = running[g], fModel'[g] = fModel[g], answer'[g] = answer[g], made' >= made,
         abandoned[g] => abandoned'[g], abandoned'[g] /\ ~abandoned[g] => g <= made,
         fInputs'[g] = fInputs[g], copies'[g] = copies[g]
  PROVE  PassesOf(g)'
<1>1. /\ stand'[g].inputs = fInputs'[g] /\ stand[g].inputs = fInputs[g] /\ stand'[g].copied = copies'[g]
      /\ stand[g].last = fModel[g] + Len(bg[g]) /\ stand[g].done = fModel[g] /\ fInputs[g] \in Nat
  BY StandNow, StandNext DEF BTypeOK
<1>2. PassesOf(g)
  BY DEF Passes
<1>3. /\ stand'[g].inputs >= stand[g].inputs /\ stand'[g].inputs <= stand[g].last /\ stand'[g].copied <= stand[g].last
      /\ ~abandoned[g] => stand'[g].inputs <= stand'[g].copied /\ stand'[g].copied <= stand[g].done + 1
  BY <1>1, <1>2 DEF PassesOf
<1>4. QED
  BY <1>3, PassesRest

LEMMA PassesStay ==
  ASSUME BInv, [BNext]_bvars
  PROVE  Passes'
<1>1. BTypeOK /\ Passes /\ Control /\ Numbered /\ ListsPlaced /\ SignalsSent
  BY DEF BInv
<1>2. BTypeOK'
  BY <1>1, Typed
<1>3. /\ made \in Nat /\ made' \in Nat /\ bg \in [Gens -> Seq(Pass)] /\ running \in [Gens -> BOOLEAN]
      /\ fModel \in [Gens -> Nat] /\ answer \in [Gens -> [0..1 -> Nat]] /\ abandoned \in [Gens -> BOOLEAN]
      /\ fInputs \in [Gens -> Nat] /\ copies \in [Gens -> Nat]
      /\ \A g \in Gens : Len(bg[g]) \in Nat /\ g \in Nat
  <2>1. made \in Nat /\ made' \in Nat
    BY <1>1, <1>2 DEF BTypeOK, ThreadTypes
  <2>2. /\ bg \in [Gens -> Seq(Pass)] /\ running \in [Gens -> BOOLEAN]
        /\ fModel \in [Gens -> Nat] /\ answer \in [Gens -> [0..1 -> Nat]] /\ abandoned \in [Gens -> BOOLEAN]
        /\ fInputs \in [Gens -> Nat] /\ copies \in [Gens -> Nat]
    BY <1>1 DEF BTypeOK, GpuTypes
  <2>3. \A g \in Gens : Len(bg[g]) \in Nat
    BY <2>2
  <2>4. QED
    BY <2>1, <2>2, <2>3, GensPositive
<1>4. CASE gpu' = gpu
  <2>1. made' >= made
    BY <1>1, <1>3, <1>4, NextKinds DEF Kinds, SendStep, IdleStep, FrameEnds, Built, SubmitStep, CapStep, AdoptStep,
                                       Kicked, PassStarts, PassEnds, HostQueueRuns
  <2>2. ASSUME NEW g \in Gens
        PROVE  (abandoned[g] => abandoned'[g]) /\ (abandoned'[g] /\ ~abandoned[g] => g <= made)
    <3>1. CASE SendStep
      <4>1. CASE abandoned' = abandoned
        BY <4>1
      <4>2. CASE ~Gone /\ abandoned' = [abandoned EXCEPT ![job.gen] = TRUE]
        <5>1. job.gen = made /\ job.gen \in Gens
          BY <1>1, <4>2, JobIs DEF Numbered, BTypeOK
        <5>2. g # job.gen => abandoned'[g] = abandoned[g]
          BY <1>3, <4>2
        <5>3. g = job.gen => abandoned'[g] /\ g <= made
          BY <1>3, <4>2, <5>1
        <5>4. QED
          BY <5>2, <5>3
      <4>3. QED
        BY <3>1, <4>1, <4>2 DEF SendStep
    <3>2. CASE ~SendStep
      BY <1>1, <3>2, NextKinds DEF Kinds, IdleStep, SubmitStep, CapStep, AdoptStep, Kicked, PassStarts, PassEnds,
                                   HostQueueRuns
    <3>3. QED
      BY <3>1, <3>2
  <2>3. UNCHANGED <<bg, running, fModel, fInputs, copies, answer>>
    BY <1>4 DEF gpu
  <2>4. ASSUME NEW g \in Gens PROVE PassesOf(g)'
    BY <1>1, <1>2, <2>1, <2>2, <2>3, PassesAtRest
  <2>5. QED
    BY <2>4 DEF Passes
<1>5. CASE Kicked
  <2> DEFINE h == job.gen
             pass == [job |-> job.jobId + 1, out |-> 1 - job.outIndex, slot |-> Slot]
  <2>1. h \in Gens /\ job.jobId \in Nat /\ h = made /\ job.jobId = fModel[h] + Len(bg[h]) /\ job.outIndex = job.jobId % 2
    BY <1>1, <1>5, JobIs, StandNow DEF Kicked, BTypeOK, Numbered
  <2>2. /\ bg' = [bg EXCEPT ![h] = Append(bg[h], pass)]
        /\ UNCHANGED <<made, running, fInputs, fModel, copies, answer, abandoned>>
    BY <1>5 DEF Kicked
  <2>3. pass.job = job.jobId + 1 /\ pass.out = (job.jobId + 1) % 2 /\ pass \in Pass
    <3>1. 1 - job.outIndex \in 0..1 /\ 1 - job.outIndex = (job.jobId + 1) % 2
      BY <2>1, Parity
    <3>2. Slot \in 0..Slots - 1
      BY <1>5 DEF Kicked
    <3>3. QED
      BY <2>1, <3>1, <3>2 DEF Pass
  <2> HIDE DEF pass
  <2>4. /\ bg[h] \in Seq(Pass) /\ Len(bg'[h]) = Len(bg[h]) + 1 /\ bg'[h][Len(bg[h]) + 1] = pass
        /\ \A i \in 1..Len(bg[h]) : bg'[h][i] = bg[h][i]
    <3>1. bg[h] \in Seq(Pass) /\ bg'[h] = Append(bg[h], pass)
      BY <1>3, <2>1, <2>2
    <3>2. QED
      BY <2>3, <3>1, Appended
  <2> HIDE DEF h
  <2>5. ASSUME NEW g \in Gens, g # h
        PROVE  PassesOf(g)'
    <3>1. bg'[g] = bg[g] /\ made' >= made
      BY <1>3, <2>2, <2>5
    <3>2. QED
      BY <1>1, <1>2, <2>2, <3>1, PassesAtRest
  <2>6. ASSUME NEW g \in Gens, g = h
        PROVE  PassesOf(g)'
    <3>1. PassesOf(g)
      BY <1>1 DEF Passes
    <3>2. Len(bg[g]) \in Nat /\ fModel[g] \in Nat /\ fInputs[g] \in Nat /\ copies[g] \in Nat /\ g \in Nat
      BY <1>3
    <3>3. ASSUME NEW i \in 1..Len(bg'[g])
          PROVE  bg'[g][i].job = fModel'[g] + i /\ bg'[g][i].out = (fModel'[g] + i) % 2
      <4>1. CASE i \in 1..Len(bg[g])
        BY <2>2, <2>4, <2>6, <3>1, <4>1 DEF PassesOf
      <4>2. CASE i = Len(bg[g]) + 1
        <5>1. fModel[g] + i = job.jobId + 1
          <6>1. job.jobId = fModel[g] + Len(bg[g]) /\ i = Len(bg[g]) + 1
            BY <2>1, <2>6, <4>2
          <6>2. QED
            BY <3>2, <6>1
        <5>2. QED
          BY <2>2, <2>3, <2>4, <2>6, <4>2, <5>1
      <4>3. QED
        BY <2>4, <2>6, <3>2, <4>1, <4>2
    <3>4. fInputs'[g] <= fModel'[g] + Len(bg'[g]) /\ copies'[g] <= fModel'[g] + Len(bg'[g]) /\ Len(bg'[g]) > 0
      <4>1. Len(bg'[g]) = Len(bg[g]) + 1 /\ fInputs' = fInputs /\ fModel' = fModel /\ copies' = copies
        BY <2>2, <2>4, <2>6
      <4>2. fInputs[g] <= fModel[g] + Len(bg[g]) /\ copies[g] <= fModel[g] + Len(bg[g])
        BY <3>1 DEF PassesOf
      <4>3. QED
        BY <3>2, <4>1, <4>2
    <3>5. ~(g > made')
      BY <1>3, <2>1, <2>2, <2>6
    <3>6. /\ answer'[g][fModel'[g] % 2] = fModel'[g]
          /\ fModel'[g] > 0 => answer'[g][(fModel'[g] - 1) % 2] = fModel'[g] - 1
          /\ running'[g] => Len(bg'[g]) > 0 /\ fModel'[g] < fInputs'[g]
          /\ fModel'[g] <= fInputs'[g]
          /\ ~abandoned'[g] => fInputs'[g] <= copies'[g] /\ copies'[g] <= fModel'[g] + 1
      BY <2>2, <3>1, <3>4 DEF PassesOf
    <3>7. QED
      BY <3>3, <3>4, <3>5, <3>6 DEF PassesOf
  <2>7. QED
    BY <2>5, <2>6 DEF Passes
<1>6. ASSUME NEW h \in Gens, PassStarts(h)
      PROVE  Passes'
  <2>1. /\ bg[h] # <<>> /\ fInputs[h] >= Head(bg[h]).job /\ running' = [running EXCEPT ![h] = TRUE]
        /\ UNCHANGED <<made, bg, fInputs, fModel, copies, answer, abandoned>>
    BY <1>6 DEF PassStarts
  <2>2. ASSUME NEW g \in Gens, g # h
        PROVE  PassesOf(g)'
    <3>1. running'[g] = running[g] /\ made' >= made
      BY <1>3, <2>1, <2>2
    <3>2. QED
      BY <1>1, <1>2, <2>1, <3>1, PassesAtRest
  <2>3. PassesOf(h)'
    <3>1. PassesOf(h)
      BY <1>1 DEF Passes
    <3>2. bg[h] \in Seq(Pass)
      BY <1>3
    <3>3. Len(bg[h]) > 0 /\ Head(bg[h]) = bg[h][1] /\ 1 \in 1..Len(bg[h])
      BY <2>1, <3>2, Removed
    <3>4. fModel[h] < fInputs[h]
      <4>1. Head(bg[h]).job = fModel[h] + 1
        BY <3>1, <3>3 DEF PassesOf
      <4>2. fModel[h] \in Nat /\ fInputs[h] \in Nat
        BY <1>3
      <4>3. QED
        BY <2>1, <4>1, <4>2
    <3>5. QED
      BY <2>1, <3>1, <3>3, <3>4 DEF PassesOf
  <2>4. QED
    BY <2>2, <2>3 DEF Passes
<1>7. ASSUME NEW h \in Gens, PassEnds(h)
      PROVE  Passes'
  <2> DEFINE a == fModel[h]
  <2>1. /\ running[h] /\ running' = [running EXCEPT ![h] = FALSE] /\ bg' = [bg EXCEPT ![h] = Tail(bg[h])]
        /\ answer' = [answer EXCEPT ![h][Head(bg[h]).out] = Head(bg[h]).job]
        /\ fModel' = [fModel EXCEPT ![h] = Head(bg[h]).job]
        /\ UNCHANGED <<made, fInputs, copies, abandoned>>
    BY <1>7 DEF PassEnds
  <2>2. PassesOf(h) /\ a \in Nat /\ bg[h] \in Seq(Pass) /\ fInputs[h] \in Nat /\ copies[h] \in Nat
    BY <1>1, <1>3 DEF Passes
  <2>3. /\ bg[h] # <<>> /\ Len(bg[h]) \in Nat /\ Len(bg[h]) > 0 /\ Head(bg[h]) = bg[h][1] /\ 1 \in 1..Len(bg[h])
        /\ Len(Tail(bg[h])) = Len(bg[h]) - 1
        /\ \A i \in 1..Len(bg[h]) - 1 : Tail(bg[h])[i] = bg[h][i + 1] /\ i + 1 \in 1..Len(bg[h])
    <3>1. bg[h] # <<>>
      BY <2>1, <2>2 DEF PassesOf
    <3>2. QED
      BY <2>2, <3>1, Removed
  <2>4. Head(bg[h]).job = a + 1 /\ Head(bg[h]).out = (a + 1) % 2
    BY <2>2, <2>3 DEF PassesOf
  <2>5. ASSUME NEW g \in Gens, g # h
        PROVE  PassesOf(g)'
    <3>1. bg'[g] = bg[g] /\ running'[g] = running[g] /\ fModel'[g] = fModel[g] /\ answer'[g] = answer[g] /\ made' >= made
      BY <1>3, <2>1, <2>5
    <3>2. QED
      BY <1>1, <1>2, <2>1, <3>1, PassesAtRest
  <2>6. PassesOf(h)'
    <3>1. fModel'[h] = a + 1 /\ bg'[h] = Tail(bg[h]) /\ ~running'[h]
      BY <1>3, <2>1, <2>4
    <3>2. ASSUME NEW i \in 1..Len(bg'[h])
          PROVE  bg'[h][i].job = fModel'[h] + i /\ bg'[h][i].out = (fModel'[h] + i) % 2
      <4>1. i \in 1..Len(bg[h]) - 1 /\ bg'[h][i] = bg[h][i + 1] /\ i + 1 \in 1..Len(bg[h])
        BY <2>3, <3>1, <3>2
      <4>2. fModel'[h] + i = a + (i + 1)
        BY <2>2, <3>1, <4>1
      <4>3. bg[h][i + 1].job = a + (i + 1) /\ bg[h][i + 1].out = (a + (i + 1)) % 2
        BY <2>2, <4>1 DEF PassesOf
      <4>4. QED
        BY <4>1, <4>2, <4>3
    <3>3. a % 2 \in 0..1 /\ (a + 1) % 2 = 1 - (a % 2)
      BY <2>2, Parity
    <3>4. answer'[h][(a + 1) % 2] = a + 1 /\ answer'[h][a % 2] = a
      <4>1. answer[h] \in [0..1 -> Nat] /\ answer[h][a % 2] = a
        BY <1>3, <2>2 DEF PassesOf
      <4>2. answer'[h] = [answer[h] EXCEPT ![Head(bg[h]).out] = Head(bg[h]).job]
        BY <1>3, <2>1
      <4> DEFINE x == a % 2
      <4>3. x \in 0..1 /\ (a + 1) % 2 = 1 - x /\ answer[h][x] = a
        BY <3>3, <4>1
      <4> HIDE DEF x
      <4>4. 1 - x \in 0..1 /\ 1 - x # x
        BY <4>3
      <4>5. answer'[h] = [answer[h] EXCEPT ![1 - x] = a + 1]
        BY <2>4, <4>2, <4>3
      <4>6. answer'[h][1 - x] = a + 1 /\ answer'[h][x] = a
        BY <4>1, <4>3, <4>4, <4>5
      <4>7. QED
        BY <4>3, <4>6 DEF x
    <3>5. a < fInputs[h] /\ fInputs[h] <= a + Len(bg[h]) /\ copies[h] <= a + Len(bg[h])
      BY <2>1, <2>2 DEF PassesOf
    <3>6. /\ fModel'[h] <= fInputs'[h] /\ fInputs'[h] <= fModel'[h] + Len(bg'[h])
          /\ copies'[h] <= fModel'[h] + Len(bg'[h])
      <4> HIDE DEF a
      <4>1. QED
        BY <2>1, <2>2, <2>3, <3>1, <3>5
    <3>7. ~abandoned'[h] => fInputs'[h] <= copies'[h] /\ copies'[h] <= fModel'[h] + 1
      <4>1. ~abandoned[h] => fInputs[h] <= copies[h] /\ copies[h] <= a + 1
        BY <2>2 DEF PassesOf
      <4> HIDE DEF a
      <4>2. QED
        BY <2>1, <2>2, <3>1, <4>1
    <3>8. ~(h > made')
      <4>1. h > made => Len(bg[h]) = 0
        BY <2>2 DEF PassesOf
      <4>2. QED
        BY <2>1, <2>3, <4>1
    <3>9. (fModel'[h] > 0 => answer'[h][(fModel'[h] - 1) % 2] = fModel'[h] - 1) /\ answer'[h][fModel'[h] % 2] = fModel'[h]
      <4>1. (a + 1) - 1 = a
        BY <2>2
      <4>2. QED
        BY <3>1, <3>4, <4>1
    <3>10. QED
      BY <3>1, <3>2, <3>6, <3>7, <3>8, <3>9 DEF PassesOf
  <2>7. QED
    BY <2>5, <2>6 DEF Passes
<1>8. ASSUME NEW q \in Queues, Runs(q), NEW g \in Gens
      PROVE  PassesOf(g)'
  <2> DEFINE h == queue[q][1]
             st == stand[g]
             st2 == stand'[g]
  <2>1. st \in Standings /\ st2 = Ran(h, g, st) /\ h \in Entry
    BY <1>8 DEF Runs
  <2>2. /\ st2.copied = IF h.op = "list" /\ h.gen = g /\ h.copy # 0 THEN h.copy ELSE st.copied
        /\ st2.inputs = IF h.op = "signal" /\ h.gen = g THEN h.value ELSE st.inputs
    BY <2>1, RanFields
  <2>3. h.op = "signal" /\ h.gen = g =>
          /\ h.value \in Nat \ {0} /\ h.value <= st.last /\ h.value >= st.inputs
          /\ Late(h.value, st) \/ st.copied = h.value
    BY <1>1, <1>8, HeadSignals
  <2>4. h.op = "list" /\ h.gen = g /\ h.copy # 0 => st.copied < h.copy /\ h.copy <= st.last /\ st.done >= h.copy - 1
    BY <1>1, <1>8, HeadCopies
  <2>5. PassesOf(g)
    BY <1>1 DEF Passes
  <2>6. /\ st.inputs = fInputs[g] /\ st.copied = copies[g] /\ st.last = fModel[g] + Len(bg[g]) /\ st.done = fModel[g]
        /\ st.left = abandoned[g]
    BY <1>1, StandNow DEF BTypeOK
  <2>7. /\ st.inputs <= st.last /\ st.copied <= st.last
        /\ ~st.left => st.inputs <= st.copied /\ st.copied <= st.done + 1
    BY <2>5, <2>6 DEF PassesOf
  <2>8. st.inputs \in Nat /\ st.copied \in Nat /\ st.last \in Nat /\ st.done \in Nat
    BY <2>1 DEF Standings
  <2>9. h.op = "list" => h.copy \in Nat
    BY <2>1, EntryKinds
  <2>10. /\ st2.inputs >= st.inputs /\ st2.inputs <= st.last /\ st2.copied <= st.last
         /\ ~st.left => st2.inputs <= st2.copied /\ st2.copied <= st.done + 1
    <3> HIDE DEF h, st, st2
    <3>1. CASE h.op = "signal" /\ h.gen = g
      <4>1. st2.inputs = h.value /\ st2.copied = st.copied
        BY <2>2, <3>1
      <4>2. QED
        BY <2>3, <2>7, <2>8, <3>1, <4>1 DEF Late
    <3>2. CASE h.op = "list" /\ h.gen = g /\ h.copy # 0
      <4>1. st2.inputs = st.inputs /\ st2.copied = h.copy
        BY <2>2, <3>2
      <4>2. QED
        BY <2>4, <2>7, <2>8, <2>9, <3>2, <4>1
    <3>3. CASE ~(h.op = "signal" /\ h.gen = g) /\ ~(h.op = "list" /\ h.gen = g /\ h.copy # 0)
      <4>1. st2.inputs = st.inputs /\ st2.copied = st.copied
        BY <2>2, <3>3
      <4>2. QED
        BY <2>7, <2>8, <4>1
    <3>4. QED
      BY <3>1, <3>2, <3>3
  <2>11. UNCHANGED <<made, bg, running, fModel, answer, abandoned>> /\ made' >= made
    BY <1>3, <1>8 DEF Runs
  <2>12. QED
    BY <1>1, <1>2, <2>6, <2>10, <2>11, PassesRest
<1>9. CASE \E q \in Queues : HostQueueRuns(q)
  <2>1. PICK q \in Queues : Runs(q)
    BY <1>1, <1>9, RunsEffect
  <2>2. QED
    BY <1>8, <2>1 DEF Passes
<1>10. QED
  BY <1>1, <1>4, <1>5, <1>6, <1>7, <1>9, NextKinds DEF Kinds, SendStep, IdleStep, SubmitStep, CapStep, AdoptStep

-----------------------------------------------------------------------------
(* The job, its allocators and the thread.                                 *)

LEMMA LastKept ==
  ASSUME BInv, [BNext]_bvars, NEW g \in Gens
  PROVE  stand'[g].last = IF Kicked /\ g = job.gen THEN stand[g].last + 1 ELSE stand[g].last
<1>1. BTypeOK /\ Passes /\ Control
  BY DEF BInv
<1>2. BTypeOK'
  BY <1>1, Typed
<1>3. /\ stand'[g].last = fModel'[g] + Len(bg'[g]) /\ stand[g].last = fModel[g] + Len(bg[g])
      /\ fModel[g] \in Nat /\ bg \in [Gens -> Seq(Pass)] /\ fModel \in [Gens -> Nat] /\ Len(bg[g]) \in Nat
  BY <1>1, <1>2, StandNow, StandNext DEF BTypeOK, GpuTypes
<1>4. CASE Kicked
  <2> DEFINE pass == [job |-> job.jobId + 1, out |-> 1 - job.outIndex, slot |-> Slot]
  <2>1. bg' = [bg EXCEPT ![job.gen] = Append(bg[job.gen], pass)] /\ fModel' = fModel
    BY <1>4 DEF Kicked
  <2> HIDE DEF pass
  <2>2. CASE g = job.gen
    <3>1. bg[g] \in Seq(Pass) /\ bg'[g] = Append(bg[g], pass)
      BY <1>3, <2>1, <2>2
    <3>2. Len(bg'[g]) = Len(bg[g]) + 1
      BY <3>1
    <3>3. stand'[g].last = stand[g].last + 1
      BY <1>3, <2>1, <3>2
    <3>4. QED
      BY <1>4, <2>2, <3>3
  <2>3. CASE g # job.gen
    BY <1>3, <2>1, <2>3
  <2>4. QED
    BY <2>2, <2>3
<1>5. ASSUME NEW h \in Gens, PassEnds(h), ~Kicked
      PROVE  stand'[g].last = stand[g].last
  <2>1. running[h] /\ bg' = [bg EXCEPT ![h] = Tail(bg[h])] /\ fModel' = [fModel EXCEPT ![h] = Head(bg[h]).job]
    BY <1>5 DEF PassEnds
  <2>2. CASE g = h
    <3>1. bg[g] \in Seq(Pass) /\ bg[g] # <<>>
      BY <1>1, <1>3, <2>1, <2>2 DEF Passes, PassesOf
    <3>2. Len(Tail(bg[g])) = Len(bg[g]) - 1 /\ Head(bg[g]) = bg[g][1] /\ Len(bg[g]) > 0
      BY <3>1, Removed
    <3>3. Head(bg[g]).job = fModel[g] + 1
      BY <1>1, <1>3, <3>2 DEF Passes, PassesOf
    <3>4. QED
      BY <1>3, <2>1, <2>2, <3>2, <3>3
  <2>3. CASE g # h
    BY <1>3, <2>1, <2>3
  <2>4. QED
    BY <2>2, <2>3
<1>6. CASE UNCHANGED <<bg, fModel>> /\ ~Kicked
  BY <1>3, <1>6
<1>7. QED
  BY <1>1, <1>4, <1>5, <1>6, NextKinds DEF Kinds, SendStep, IdleStep, SubmitStep, CapStep, AdoptStep, gpu,
                                           PassStarts, HostQueueRuns

LEMMA NumberedStays ==
  ASSUME BInv, [BNext]_bvars
  PROVE  Numbered'
<1>1. BTypeOK /\ Passes /\ Control /\ Numbered
  BY DEF BInv
<1>2. BTypeOK'
  BY <1>1, Typed
<1>3. ASSUME ~Gone, job' = job \/ SameJob, made' = made, ~Kicked
      PROVE  Numbered'
  <2>1. job.gen \in Gens
    BY <1>1, <1>3, JobIs DEF BTypeOK
  <2>2. job'.gen = job.gen /\ job'.jobId = job.jobId /\ job'.outIndex = job.outIndex
    BY <1>3 DEF SameJob
  <2>3. stand'[job.gen].last = stand[job.gen].last
    BY <1>3, <2>1, LastKept
  <2>4. QED
    BY <1>1, <1>3, <2>2, <2>3 DEF Numbered
<1>4. CASE job' = NoJob
  BY <1>4 DEF Numbered, Gone
<1>5. CASE Built
  <2>1. made + 1 \in Gens /\ job'.gen = made + 1 /\ made' = made + 1 /\ job'.jobId = 0 /\ job'.outIndex = 0
    BY <1>1, <1>5 DEF Built, Job
  <2>2. stand'[made + 1].last = 0
    <3>1. made + 1 > made
      BY <1>1 DEF BTypeOK, ThreadTypes
    <3>2. Len(bg[made + 1]) = 0 /\ fModel[made + 1] = 0
      BY <1>1, <2>1, <3>1 DEF Passes, PassesOf
    <3>3. stand[made + 1].last = 0
      BY <1>1, <2>1, <3>2, StandNow DEF BTypeOK
    <3>4. ~Kicked
      BY <1>5 DEF Built, Kicked
    <3>5. QED
      BY <2>1, <3>3, <3>4, LastKept
  <2>3. QED
    BY <2>1, <2>2 DEF Numbered
<1>6. CASE Kicked
  <2>1. /\ ~Gone /\ job'.gen = job.gen /\ job'.jobId = job.jobId + 1 /\ job'.outIndex = 1 - job.outIndex /\ made' = made
    BY <1>6 DEF Kicked
  <2>2. job.gen \in Gens /\ job.jobId \in Nat
    BY <1>1, <2>1, JobIs DEF BTypeOK
  <2>3. stand'[job.gen].last = stand[job.gen].last + 1
    BY <1>6, <2>2, LastKept
  <2>4. job'.outIndex = (job.jobId + 1) % 2
    BY <1>1, <2>1, <2>2, Parity DEF Numbered
  <2>5. QED
    BY <1>1, <2>1, <2>3, <2>4 DEF Numbered
<1>7. Kicked \/ Built \/ job' = NoJob \/ (~Gone /\ (job' = job \/ SameJob) /\ made' = made)
  BY <1>1, NextKinds DEF Kinds, SendStep, Sends, SameJob, IdleStep, FrameEnds, SubmitStep, Submits, CapStep, AdoptStep,
                         Adopts, PassStarts, PassEnds, HostQueueRuns, Gone
<1>8. QED
  BY <1>3, <1>4, <1>5, <1>6, <1>7

LEMMA SlotsStay ==
  ASSUME BInv, [BNext]_bvars
  PROVE  SlotsKept'
<1>1. BTypeOK /\ Passes /\ Control /\ SlotsKept
  BY DEF BInv
<1>2. BTypeOK' /\ bg \in [Gens -> Seq(Pass)]
  BY <1>1, Typed DEF BTypeOK, GpuTypes
<1>3. CASE bg' = bg
  <2>1. SlotsApart3'
    BY <1>1, <1>3 DEF SlotsKept, SlotsApart3
  <2>2. CASE job' = NoJob
    BY <2>1, <2>2 DEF SlotsKept, Gone
  <2>3. CASE ~Gone /\ (job' = job \/ SameJob)
    BY <1>1, <1>3, <2>1, <2>3 DEF SlotsKept, SameJob
  <2>4. CASE Built
    <3>1. job'.gen = made + 1 /\ made + 1 \in Gens
      BY <2>4 DEF Built, Job
    <3>2. Len(bg[made + 1]) = 0
      <4>1. made + 1 > made
        BY <1>1 DEF BTypeOK, ThreadTypes
      <4>2. QED
        BY <1>1, <3>1, <4>1 DEF Passes, PassesOf
    <3>3. QED
      BY <1>3, <2>1, <3>1, <3>2 DEF SlotsKept
  <2>5. ~Kicked
    <3>1. ASSUME Kicked PROVE FALSE
      <4>1. stand'[job.gen].last = stand[job.gen].last + 1 /\ job.gen \in Gens
        <5>1. job.gen \in Gens
          BY <1>1, <3>1, JobIs DEF Kicked, BTypeOK
        <5>2. QED
          BY <3>1, <5>1, LastKept
      <4>2. /\ stand'[job.gen].last = fModel'[job.gen] + Len(bg'[job.gen])
            /\ stand[job.gen].last = fModel[job.gen] + Len(bg[job.gen]) /\ stand[job.gen].last \in Nat
        BY <1>1, <1>2, <4>1, StandNow, StandNext DEF BTypeOK
      <4>3. QED
        BY <1>3, <3>1, <4>1, <4>2 DEF Kicked
    <3>2. QED
      BY <3>1
  <2>6. QED
    BY <1>1, <2>2, <2>3, <2>4, <2>5, NextKinds
    DEF Kinds, SendStep, Sends, SameJob, IdleStep, FrameEnds, SubmitStep, Submits, CapStep, AdoptStep, Adopts,
        PassStarts, PassEnds, HostQueueRuns, Gone
<1>4. CASE Kicked
  <2> DEFINE h == job.gen
             pass == [job |-> job.jobId + 1, out |-> 1 - job.outIndex, slot |-> Slot]
             s == bg[job.gen]
  <2>1. /\ h \in Gens /\ ~Gone /\ Slot \in 0..Slots - 1 /\ Finished(job.slotJob[Slot])
        /\ job'.gen = h /\ job'.slotJob = [job.slotJob EXCEPT ![Slot] = job.jobId + 1]
        /\ bg' = [bg EXCEPT ![h] = Append(s, pass)]
        /\ job.slotJob \in [0..Slots - 1 -> Nat] /\ job.jobId \in Nat
    BY <1>1, <1>4, JobIs DEF Kicked, BTypeOK
  <2>2. pass \in Pass /\ pass.job = job.jobId + 1 /\ pass.slot = Slot
    <3>1. 1 - job.outIndex \in 0..1
      BY <1>1, <2>1, JobIs DEF BTypeOK
    <3>2. QED
      BY <2>1, <3>1 DEF Pass
  <2> HIDE DEF pass
  <2>3. s \in Seq(Pass) /\ Len(s) \in Nat /\ bg'[h] = Append(s, pass)
    BY <1>2, <2>1
  <2>4. /\ Len(bg'[h]) = Len(s) + 1 /\ bg'[h][Len(s) + 1] = pass
        /\ \A i \in 1..Len(s) : bg'[h][i] = s[i]
        /\ bg'[h] \in Seq(Pass)
    BY <2>2, <2>3, Appended
  <2>5. \A i \in 1..Len(s) : s[i].slot # Slot
    <3>1. TAKE i \in 1..Len(s)
    <3>2. s[i].job = fModel[h] + i /\ fModel[h] \in Nat
      BY <1>1, <2>1 DEF Passes, PassesOf, BTypeOK, GpuTypes
    <3>3. job.slotJob[s[i].slot] >= s[i].job
      BY <1>1, <2>1 DEF SlotsKept
    <3>4. fModel[h] >= job.slotJob[Slot]
      BY <2>1 DEF Finished
    <3>5. job.slotJob[Slot] \in Nat
      BY <2>1
    <3>6. QED
      BY <3>2, <3>3, <3>4, <3>5
  <2>6. \A i \in 1..Len(s) : s[i].slot \in 0..Slots - 1 /\ s[i].job \in Nat
    <3>1. \A i \in 1..Len(s) : s[i] \in Pass
      BY <2>3
    <3>2. QED
      BY <3>1 DEF Pass
  <2>7. \A i, k \in 1..Len(bg'[h]) : i # k => bg'[h][i].slot # bg'[h][k].slot
    <3>1. TAKE i, k \in 1..Len(bg'[h])
    <3>2. (i \in 1..Len(s) \/ i = Len(s) + 1) /\ (k \in 1..Len(s) \/ k = Len(s) + 1)
      BY <2>3, <2>4
    <3>3. i \in 1..Len(s) /\ k \in 1..Len(s) /\ i # k => s[i].slot # s[k].slot
      BY <1>1, <2>1, <2>3 DEF SlotsKept, SlotsApart3
    <3>4. QED
      BY <2>2, <2>4, <2>5, <3>2, <3>3
  <2>8. \A i \in 1..Len(bg'[h]) : job'.slotJob[bg'[h][i].slot] >= bg'[h][i].job
    <3>1. TAKE i \in 1..Len(bg'[h])
    <3>2. i \in 1..Len(s) \/ i = Len(s) + 1
      BY <2>3, <2>4
    <3>3. CASE i \in 1..Len(s)
      <4>1. job.slotJob[s[i].slot] >= s[i].job
        BY <1>1, <2>1, <3>3 DEF SlotsKept
      <4>2. job'.slotJob[s[i].slot] = job.slotJob[s[i].slot]
        BY <2>1, <2>5, <2>6, <3>3
      <4>3. QED
        BY <2>4, <3>3, <4>1, <4>2
    <3>4. CASE i = Len(s) + 1
      <4>1. job'.slotJob[Slot] = job.jobId + 1
        BY <2>1
      <4>2. QED
        BY <2>1, <2>2, <2>4, <3>4, <4>1
    <3>5. QED
      BY <3>2, <3>3, <3>4
  <2>9. SlotsApart3'
    <3>1. ASSUME NEW g \in Gens, NEW i \in DOMAIN bg'[g], NEW k \in DOMAIN bg'[g], i # k
          PROVE  bg'[g][i].slot # bg'[g][k].slot
      <4>1. CASE g = h
        <5>1. bg'[g] = bg'[h] /\ bg'[h] \in Seq(Pass)
          BY <2>4, <4>1
        <5>2. i \in 1..Len(bg'[h]) /\ k \in 1..Len(bg'[h])
          BY <3>1, <5>1
        <5>3. QED
          BY <2>7, <3>1, <5>1, <5>2
      <4>2. CASE g # h
        <5>1. bg'[g] = bg[g]
          BY <1>2, <2>1, <4>2
        <5>2. QED
          BY <1>1, <3>1, <5>1 DEF SlotsKept, SlotsApart3
      <4>3. QED
        BY <4>1, <4>2
    <3>2. QED
      BY <3>1 DEF SlotsApart3
  <2>10. QED
    BY <2>1, <2>8, <2>9 DEF SlotsKept
<1>5. ASSUME NEW h \in Gens, PassEnds(h)
      PROVE  SlotsKept'
  <2>1. running[h] /\ bg' = [bg EXCEPT ![h] = Tail(bg[h])] /\ job' = job
    BY <1>5 DEF PassEnds
  <2>2. /\ bg[h] \in Seq(Pass) /\ bg[h] # <<>>
    BY <1>1, <1>2, <2>1 DEF Passes, PassesOf
  <2>3. /\ Len(Tail(bg[h])) = Len(bg[h]) - 1 /\ Tail(bg[h]) \in Seq(Pass) /\ bg'[h] = Tail(bg[h])
        /\ \A i \in 1..Len(bg[h]) - 1 : Tail(bg[h])[i] = bg[h][i + 1] /\ i + 1 \in 1..Len(bg[h])
    BY <1>2, <2>1, <2>2, Removed
  <2>4. ASSUME NEW g \in Gens
        PROVE  \E d \in 0..1 : /\ \A i \in 1..Len(bg'[g]) : bg'[g][i] = bg[g][i + d] /\ i + d \in 1..Len(bg[g])
                               /\ bg'[g] \in Seq(Pass)
    <3>1. CASE g = h
      <4>1. \A i \in 1..Len(bg'[g]) : bg'[g][i] = bg[g][i + 1] /\ i + 1 \in 1..Len(bg[g])
        BY <2>3, <3>1
      <4>2. bg'[g] \in Seq(Pass)
        BY <2>3, <3>1
      <4>3. 1 \in 0..1
        OBVIOUS
      <4>4. QED
        BY <4>1, <4>2, <4>3
    <3>2. CASE g # h
      <4>1. bg'[g] = bg[g] /\ bg[g] \in Seq(Pass) /\ Len(bg[g]) \in Nat
        BY <1>2, <2>1, <3>2
      <4>2. \A i \in 1..Len(bg'[g]) : bg'[g][i] = bg[g][i + 0] /\ i + 0 \in 1..Len(bg[g])
        BY <4>1
      <4>3. 0 \in 0..1
        OBVIOUS
      <4>4. QED
        BY <4>1, <4>2, <4>3
    <3>3. QED
      BY <3>1, <3>2
  <2>5. SlotsApart3'
    <3>1. ASSUME NEW g \in Gens, NEW i \in DOMAIN bg'[g], NEW k \in DOMAIN bg'[g], i # k
          PROVE  bg'[g][i].slot # bg'[g][k].slot
      <4>1. PICK d \in 0..1 : /\ \A j \in 1..Len(bg'[g]) : bg'[g][j] = bg[g][j + d] /\ j + d \in 1..Len(bg[g])
                              /\ bg'[g] \in Seq(Pass)
        BY <2>4
      <4>2. i \in 1..Len(bg'[g]) /\ k \in 1..Len(bg'[g])
        BY <3>1, <4>1
      <4>3. i + d # k + d /\ i + d \in 1..Len(bg[g]) /\ k + d \in 1..Len(bg[g])
        BY <3>1, <4>1, <4>2
      <4>4. bg[g][i + d].slot # bg[g][k + d].slot
        <5>1. bg[g] \in Seq(Pass)
          BY <1>2
        <5>2. QED
          BY <1>1, <4>3, <5>1 DEF SlotsKept, SlotsApart3
      <4>5. QED
        BY <4>1, <4>2, <4>4
    <3>2. QED
      BY <3>1 DEF SlotsApart3
  <2>6. ~Gone => \A i \in 1..Len(bg'[job.gen]) : job.slotJob[bg'[job.gen][i].slot] >= bg'[job.gen][i].job
    <3>1. SUFFICES ASSUME ~Gone, NEW i \in 1..Len(bg'[job.gen])
                   PROVE  job.slotJob[bg'[job.gen][i].slot] >= bg'[job.gen][i].job
      OBVIOUS
    <3>2. job.gen \in Gens
      BY <1>1, <3>1, JobIs DEF BTypeOK
    <3>3. PICK d \in 0..1 : \A j \in 1..Len(bg'[job.gen]) :
                              bg'[job.gen][j] = bg[job.gen][j + d] /\ j + d \in 1..Len(bg[job.gen])
      BY <2>4, <3>2
    <3>4. QED
      BY <1>1, <3>1, <3>3 DEF SlotsKept
  <2>7. QED
    BY <2>1, <2>5, <2>6 DEF SlotsKept, Gone
<1>6. QED
  BY <1>1, <1>3, <1>4, <1>5, NextKinds
  DEF Kinds, SendStep, IdleStep, SubmitStep, CapStep, AdoptStep, gpu, PassStarts, HostQueueRuns

-----------------------------------------------------------------------------
(* What is waited for and copied behind everything a queue holds.          *)

LEMMA AwaitedStays ==
  ASSUME BInv, [BNext]_bvars, NEW g \in Gens, NEW v \in Nat, Awaited(g, v)
  PROVE  \A q \in queues' : Waited(queue'[q], Len(queue'[q]) + 1, g, v, stand'[g])
<1>1. BTypeOK /\ Passes /\ Control /\ queues \in SUBSET Queues
  BY OtherQueue DEF BInv, BTypeOK, HostTypes
<1>2. CASE Grows
  <2>1. SUFFICES ASSUME NEW q \in queues
                 PROVE  Waited(queue'[q], Len(queue'[q]) + 1, g, v, stand'[g])
    BY <1>2 DEF Grows
  <2>2. /\ queue[q] \in Seq(Entry) /\ queue'[q] \in Seq(Entry) /\ Extends(queue'[q], queue[q])
        /\ Len(queue[q]) \in Nat /\ Len(queue'[q]) \in Nat
    BY <1>1, <1>2, <2>1, GrownQueue
  <2>3. stand[g] \in Standings /\ stand'[g] \in Standings /\ Later(stand'[g], stand[g])
    BY <1>2 DEF Grows
  <2>4. Waited(queue[q], Len(queue[q]) + 1, g, v, stand[g])
    BY <2>1 DEF Awaited
  <2>5. Len(queue[q]) + 1 \in Nat /\ Len(queue'[q]) + 1 \in Nat /\ Len(queue[q]) + 1 <= Len(queue'[q]) + 1
    BY <2>2 DEF Extends
  <2> DEFINE s == queue[q]
             t == queue'[q]
             n == Len(queue[q]) + 1
             m == Len(queue'[q]) + 1
  <2>6. s \in Seq(Entry) /\ t \in Seq(Entry) /\ Extends(t, s) /\ n \in Nat /\ m \in Nat /\ n <= m
    BY <2>2, <2>5
  <2>7. Waited(s, n, g, v, stand[g])
    BY <2>4
  <2> HIDE DEF s, t, n, m
  <2>8. Waited(t, m, g, v, stand'[g])
    BY <2>3, <2>6, <2>7, WaitedLater
  <2>9. QED
    BY <2>8 DEF t, m
<1>3. ASSUME NEW r \in Queues, Runs(r)
      PROVE  \A q \in queues' : Waited(queue'[q], Len(queue'[q]) + 1, g, v, stand'[g])
  <2> DEFINE h == queue[r][1]
  <2>1. SUFFICES ASSUME NEW q \in queues
                 PROVE  Waited(queue'[q], Len(queue'[q]) + 1, g, v, stand'[g])
    BY <1>3 DEF Runs
  <2>2. stand[g] \in Standings /\ stand'[g] = Ran(h, g, stand[g]) /\ h \in Entry
    BY <1>3 DEF Runs
  <2>3. Waited(queue[q], Len(queue[q]) + 1, g, v, stand[g])
    BY <2>1 DEF Awaited
  <2>4. CASE q = r
    <3>1. /\ queue[q] \in Seq(Entry) /\ queue[q] # <<>> /\ queue'[q] = Tail(queue[q]) /\ Len(queue[q]) \in Nat
          /\ Len(queue'[q]) = Len(queue[q]) - 1
      BY <1>3, <2>4, RunQueue
    <3>2. h = Wait(g, v) => stand[g].done >= v
      <4>1. Wait(g, v).op = "wait" /\ Wait(g, v).gen = g /\ Wait(g, v).value = v
        BY DEF Wait
      <4>2. h.op = "wait" => stand[h.gen].done >= h.value
        BY <1>3 DEF Runs
      <4>3. QED
        BY <4>1, <4>2
    <3> DEFINE s == queue[q]
               n == Len(queue'[q]) + 1
    <3>3. n \in Nat /\ Len(s) + 1 = n + 1 /\ h = s[1] /\ s \in Seq(Entry) /\ s # <<>>
      <4>1. s # <<>> => Len(s) > 0
        BY <3>1
      <4>2. QED
        BY <2>4, <3>1, <4>1
    <3>4. Waited(s, n + 1, g, v, stand[g])
      BY <2>3, <3>3
    <3> HIDE DEF s, n, h
    <3>5. Waited(Tail(s), n, g, v, Ran(s[1], g, stand[g]))
      BY <2>2, <3>2, <3>3, <3>4, WaitedRuns
    <3>6. QED
      BY <2>2, <3>1, <3>3, <3>5 DEF s, n
  <2>5. CASE q # r
    <3>1. queue'[q] = queue[q]
      BY <1>1, <1>3, <2>1, <2>5 DEF Runs
    <3> HIDE DEF h
    <3>2. stand'[g].done = stand[g].done
      BY <2>2, RanFields
    <3>3. QED
      BY <2>3, <3>1, <3>2 DEF Waited
  <2>6. QED
    BY <2>4, <2>5
<1>4. QED
  BY <1>1, <1>2, <1>3, StepShape

LEMMA CopiedStays ==
  ASSUME BInv, [BNext]_bvars, NEW g \in Gens, NEW v \in Nat, v >= stand[g].last, CopiedFor(g, v)
  PROVE  Copied(queue'[Main], Len(queue'[Main]) + 1, g, v, stand'[g])
<1>1. BTypeOK /\ Passes /\ Control /\ ListsPlaced
  BY DEF BInv
<1>2. CASE Grows
  <2>1. /\ queue[Main] \in Seq(Entry) /\ queue'[Main] \in Seq(Entry) /\ Extends(queue'[Main], queue[Main])
        /\ Len(queue[Main]) \in Nat /\ Len(queue'[Main]) \in Nat
    BY <1>2, GrownQueue, OtherQueue
  <2>2. stand[g] \in Standings /\ stand'[g] \in Standings /\ stand'[g].copied = stand[g].copied
    BY <1>2 DEF Grows, Later
  <2>3. Len(queue[Main]) + 1 \in Nat /\ Len(queue'[Main]) + 1 \in Nat /\ Len(queue[Main]) + 1 <= Len(queue'[Main]) + 1
    BY <2>1 DEF Extends
  <2>4. Copied(queue[Main], Len(queue[Main]) + 1, g, v, stand[g])
    BY DEF CopiedFor
  <2> DEFINE s == queue[Main]
             t == queue'[Main]
             n == Len(queue[Main]) + 1
             m == Len(queue'[Main]) + 1
  <2>5. s \in Seq(Entry) /\ t \in Seq(Entry) /\ Extends(t, s) /\ n \in Nat /\ m \in Nat /\ n <= m
    BY <2>1, <2>3
  <2>6. Copied(s, n, g, v, stand[g])
    BY <2>4
  <2> HIDE DEF s, t, n, m
  <2>7. Copied(t, m, g, v, stand'[g])
    BY <2>2, <2>5, <2>6, CopiedLater
  <2>8. QED
    BY <2>7 DEF t, m
<1>3. ASSUME NEW r \in Queues, Runs(r)
      PROVE  Copied(queue'[Main], Len(queue'[Main]) + 1, g, v, stand'[g])
  <2> DEFINE h == queue[r][1]
             s == queue[Main]
             n == Len(queue'[Main]) + 1
  <2>1. stand[g] \in Standings /\ stand'[g] = Ran(h, g, stand[g]) /\ h \in Entry
    BY <1>3 DEF Runs
  <2>2. Copied(s, Len(s) + 1, g, v, stand[g])
    BY DEF CopiedFor
  <2>3. CASE r = Main
    <3>1. s \in Seq(Entry) /\ s # <<>> /\ queue'[Main] = Tail(s) /\ Len(s) \in Nat /\ Len(queue'[Main]) = Len(s) - 1
      BY <1>3, <2>3, RunQueue
    <3>2. n \in Nat /\ Len(s) + 1 = n + 1 /\ h = s[1]
      <4>1. Len(s) > 0
        BY <3>1
      <4>2. QED
        BY <2>3, <3>1, <4>1
    <3>3. h.op = "list" /\ h.gen = g /\ h.copy # 0 => h.copy <= v /\ stand[g].copied < h.copy
      <4>1. h.op = "list" /\ h.gen = g /\ h.copy # 0 => stand[g].copied < h.copy /\ h.copy <= stand[g].last
        BY <1>1, <1>3, HeadCopies
      <4>2. (h.op = "list" => h.copy \in Nat) /\ stand[g].last \in Nat
        BY <2>1, EntryKinds DEF Standings
      <4>3. QED
        BY <4>1, <4>2
    <3> HIDE DEF h, s, n
    <3>4. Copied(Tail(s), n, g, v, Ran(s[1], g, stand[g]))
      BY <2>1, <2>2, <3>1, <3>2, <3>3, CopiedRuns
    <3>5. QED
      BY <2>1, <3>1, <3>2, <3>4 DEF n
  <2>4. CASE r # Main
    <3>1. queue'[Main] = s /\ h.op # "list"
      BY <1>1, <1>3, <2>4, OtherQueue DEF Runs, ListsPlaced
    <3> HIDE DEF h
    <3>2. stand'[g].copied = stand[g].copied
      BY <2>1, <3>1, RanFields
    <3>3. QED
      BY <2>2, <3>1, <3>2 DEF Copied
  <2>5. QED
    BY <2>3, <2>4
<1>4. QED
  BY <1>1, <1>2, <1>3, StepShape

\* The list that copies for the pass v has gone out.
LEMMA CopiedSubmitted ==
  ASSUME BInv, [BNext]_bvars, SubmitStep, NEW g \in Gens, NEW v \in Nat \ {0}, open.gen = g, open.copy = v
  PROVE  Copied(queue'[Main], Len(queue'[Main]) + 1, g, v, stand'[g])
<1>1. queue[Main] \in Seq(Entry) /\ open \in Entry /\ open.op = "list" /\ queue'[Main] = Append(queue[Main], open)
  BY ListMade, OtherQueue DEF SubmitStep, Submits, Put, BInv, BTypeOK, QueueTypes
<1>2. /\ Len(queue'[Main]) = Len(queue[Main]) + 1 /\ queue'[Main][Len(queue[Main]) + 1] = open
      /\ Len(queue[Main]) \in Nat
  BY <1>1, Appended
<1> DEFINE k == Len(queue[Main]) + 1
<1>3. k \in 1..Len(queue'[Main]) /\ k < Len(queue'[Main]) + 1 /\ queue'[Main][k] = open /\ v # 0
  BY <1>2
<1> HIDE DEF k
<1>4. QED
  BY <1>1, <1>3 DEF Copied

\* What a step makes of the job.
LEMMA JobSteps ==
  ASSUME BInv, [BNext]_bvars
  PROVE  \/ job' = NoJob
         \/ Built
         \/ Kicked
         \/ ~Gone /\ (job' = job \/ SameJob) /\ job' # NoJob
  BY NextKinds DEF BInv, Kinds, SendStep, Sends, SameJob, IdleStep, FrameEnds, SubmitStep, Submits, CapStep, AdoptStep,
                   Adopts, PassStarts, PassEnds, HostQueueRuns, Gone

LEMMA PendingStays ==
  ASSUME BInv, [BNext]_bvars
  PROVE  Pending'
<1>1. /\ BTypeOK /\ Passes /\ Control /\ Pending /\ Known /\ Numbered /\ ListsPlaced /\ SignalsSent /\ WaitsFollow
      /\ queues \in {{Main}, {Main, Other}} /\ (queues # {Main} => observed) /\ observed \in BOOLEAN
  BY DEF BInv, BTypeOK, HostTypes
<1>2. BTypeOK'
  BY <1>1, Typed
<1>3. CASE Kicked
  <2> DEFINE g == job.gen
             v == job.jobId
  <2>1. /\ g \in Gens /\ v \in Nat /\ ~job.inflight /\ ~Gone /\ job'.gen = g /\ job'.jobId = v + 1
        /\ fInputs' = fInputs /\ queue' = queue /\ open'.gen = g /\ open'.copy = v + 1 /\ open' # NoEntry
    BY <1>1, <1>3, JobIs, ListMade DEF Kicked, BTypeOK
  <2>2. v = stand[g].last /\ stand[g].inputs = fInputs[g] /\ fInputs[g] <= v /\ fInputs[g] \in Nat
    <3>1. v = stand[g].last
      BY <1>1, <2>1 DEF Numbered
    <3>2. /\ stand[g].last = fModel[g] + Len(bg[g]) /\ fInputs[g] <= fModel[g] + Len(bg[g]) /\ fInputs[g] \in Nat
          /\ stand[g].inputs = fInputs[g]
      BY <1>1, <2>1, StandNow DEF BTypeOK, Passes, PassesOf
    <3>3. QED
      BY <3>1, <3>2
  <2>3. ASSUME NEW q \in Queues, NEW k \in 1..Len(queue[q]), queue[q][k].op \in {"signal", "wait"}, queue[q][k].gen = g
        PROVE  queue[q][k].value < v + 1
    <3>1. queue[q][k].value \in Nat /\ queue[q][k].value <= v
      BY <1>1, <2>1, <2>2, <2>3, KickedOnly
    <3>2. QED
      BY <2>1, <3>1
  <2>4. \A q \in queues' : Waited(queue'[q], Len(queue'[q]) + 1, g, v, stand'[g])
    BY <1>1, <2>1, AwaitedStays DEF Known
  <2>5. (v + 1) - 1 = v /\ fInputs[g] < v + 1
    BY <2>1, <2>2
  <2>6. Awaited(job.gen, job.jobId - 1)'
    BY <2>1, <2>4, <2>5 DEF Awaited
  <2>7. QED
    BY <2>1, <2>3, <2>5, <2>6 DEF Pending
<1>4. CASE job' = NoJob \/ Built
  BY <1>4 DEF Pending, Built, Gone
<1>5. ASSUME ~Gone, job' = job \/ SameJob, ~Kicked, job'.signalPending
      PROVE  Pending'
  <2> DEFINE g == job.gen
             v == job.jobId
  <2>1. /\ g \in Gens /\ v \in Nat /\ job'.gen = g /\ job'.jobId = v
    BY <1>1, <1>5, JobIs DEF SameJob, BTypeOK
  <2>2. /\ job.signalPending
        /\ \/ queue' = queue /\ gpu' = gpu /\ open' = open /\ job' = job
           \/ SubmitStep
           \/ (\E h \in Gens : PassStarts(h) \/ PassEnds(h))
           \/ \E q \in Queues : HostQueueRuns(q)
    <3>1. CASE SendStep
      BY <1>5, <3>1 DEF SendStep, Sends
    <3>2. CASE IdleStep
      <4>1. CASE job' = job
        <5>1. job.signalPending /\ pc = "host"
          BY <1>1, <1>5, <4>1 DEF Control
        <5>2. QED
          BY <1>5, <3>2, <4>1, <5>1 DEF IdleStep, Gone, Built
      <4>2. CASE job' # job
        BY <1>1, <1>5, <3>2, <4>2 DEF IdleStep, FrameEnds, SameJob, Built, Control
      <4>3. QED
        BY <4>1, <4>2
    <3>3. CASE SubmitStep
      BY <1>5, <3>3 DEF SubmitStep, Submits, Gone
    <3>4. CASE CapStep \/ AdoptStep
      BY <1>1, <1>5, <3>4 DEF CapStep, AdoptStep, Adopts, Control
    <3>5. CASE (\E h \in Gens : PassStarts(h) \/ PassEnds(h)) \/ \E q \in Queues : HostQueueRuns(q)
      BY <1>5, <3>5 DEF PassStarts, PassEnds, HostQueueRuns
    <3>6. QED
      BY <1>1, <1>5, <3>1, <3>2, <3>3, <3>4, <3>5, NextKinds DEF Kinds
  <2>3. /\ fInputs[g] < v /\ Awaited(g, v - 1)
        /\ \A q \in Queues : \A k \in 1..Len(queue[q]) :
             queue[q][k].op \in {"signal", "wait"} /\ queue[q][k].gen = g => queue[q][k].value < v
        /\ open # NoEntry => open.gen = g /\ open.copy = v
        /\ open = NoEntry => CopiedFor(g, v) /\ (job.submitQueue = Main \/ queues = {Main})
    BY <1>1, <1>5, <2>2 DEF Pending
  <2>4. fInputs[g] \in Nat /\ v # 0 /\ v - 1 \in Nat /\ v = stand[g].last
    <3>1. fInputs[g] \in Nat
      BY <1>1, <2>1 DEF BTypeOK, GpuTypes
    <3>2. v # 0
      BY <2>1, <2>3, <3>1
    <3>3. v - 1 \in Nat
      BY <2>1, <3>2
    <3>4. QED
      BY <1>1, <1>5, <3>1, <3>2, <3>3 DEF Numbered
  <2>5. Awaited(job.gen, job.jobId - 1)'
    <3>1. \A q \in queues' : Waited(queue'[q], Len(queue'[q]) + 1, g, v - 1, stand'[g])
      BY <2>1, <2>3, <2>4, AwaitedStays
    <3>2. QED
      BY <2>1, <3>1 DEF Awaited
  <2>6. /\ fInputs'[g] < v
        /\ \A q \in Queues : \A k \in 1..Len(queue'[q]) :
             queue'[q][k].op \in {"signal", "wait"} /\ queue'[q][k].gen = g => queue'[q][k].value < v
    <3>1. CASE queue' = queue /\ fInputs' = fInputs
      BY <2>3, <3>1
    <3>2. CASE SubmitStep
      <4>1. fInputs' = fInputs
        BY <3>2 DEF SubmitStep, gpu
      <4>2. ASSUME NEW q \in Queues, NEW k \in 1..Len(queue'[q]), queue'[q][k].op \in {"signal", "wait"}
            PROVE  k \in 1..Len(queue[q]) /\ queue'[q][k] = queue[q][k]
        <5>1. queue[q] \in Seq(Entry) /\ open \in Entry /\ open.op = "list"
          BY <1>1, <3>2, ListMade DEF BTypeOK, QueueTypes, SubmitStep, Submits
        <5>2. queue'[q] = queue[q] \/ queue'[q] = Append(queue[q], open)
          BY <3>2 DEF SubmitStep, Submits, Put
        <5>3. CASE queue'[q] = Append(queue[q], open)
          <6>1. /\ Len(queue'[q]) = Len(queue[q]) + 1 /\ queue'[q][Len(queue[q]) + 1] = open /\ Len(queue[q]) \in Nat
                /\ \A i \in 1..Len(queue[q]) : queue'[q][i] = queue[q][i]
            BY <5>1, <5>3, Appended
          <6>2. k \in 1..Len(queue[q]) \/ k = Len(queue[q]) + 1
            BY <6>1
          <6>3. k # Len(queue[q]) + 1
            BY <4>2, <5>1, <6>1
          <6>4. QED
            BY <6>1, <6>2, <6>3
        <5>4. QED
          BY <5>2, <5>3
      <4>3. QED
        BY <2>3, <4>1, <4>2
    <3>3. CASE \E h \in Gens : PassStarts(h) \/ PassEnds(h)
      BY <3>1, <3>3 DEF PassStarts, PassEnds
    <3>4. ASSUME NEW r \in Queues, Runs(r)
          PROVE  /\ fInputs'[g] < v
                 /\ \A q \in Queues : \A k \in 1..Len(queue'[q]) :
                      queue'[q][k].op \in {"signal", "wait"} /\ queue'[q][k].gen = g => queue'[q][k].value < v
      <4>1. fInputs'[g] < v
        <5> DEFINE h == queue[r][1]
        <5>1. stand[g] \in Standings /\ stand'[g] = Ran(h, g, stand[g]) /\ h \in Entry /\ 1 \in 1..Len(queue[r])
          BY <2>1, <3>4 DEF Runs
        <5>2. h.op = "signal" /\ h.gen = g => h.value < v
          BY <2>3, <5>1
        <5>3. fInputs'[g] = stand'[g].inputs /\ fInputs[g] = stand[g].inputs
          BY <1>1, <1>2, <2>1, StandNow, StandNext DEF BTypeOK
        <5> HIDE DEF h
        <5>4. stand'[g].inputs = IF h.op = "signal" /\ h.gen = g THEN h.value ELSE stand[g].inputs
          BY <5>1, RanFields
        <5>5. QED
          BY <2>3, <5>2, <5>3, <5>4
      <4>2. ASSUME NEW q \in Queues, NEW k \in 1..Len(queue'[q]), queue'[q][k].op \in {"signal", "wait"},
                   queue'[q][k].gen = g
            PROVE  queue'[q][k].value < v
        <5>1. CASE q = r
          <6>1. k + 1 \in 1..Len(queue[q]) /\ queue'[q][k] = queue[q][k + 1]
            BY <3>4, <4>2, <5>1, RunQueue
          <6>2. QED
            BY <2>3, <4>2, <6>1
        <5>2. CASE q # r
          BY <2>3, <3>4, <4>2, <5>2 DEF Runs
        <5>3. QED
          BY <5>1, <5>2
      <4>3. QED
        BY <4>1, <4>2
    <3>5. QED
      BY <1>1, <2>2, <3>1, <3>2, <3>3, <3>4, RunsEffect DEF gpu
  <2>7. open' # NoEntry => open'.gen = g /\ open'.copy = v
    BY <2>2, <2>3 DEF SubmitStep, Submits, PassStarts, PassEnds, HostQueueRuns
  <2>8. ASSUME open' = NoEntry
        PROVE  CopiedFor(job.gen, job.jobId)' /\ (job'.submitQueue = Main \/ queues' = {Main})
    <3>1. CASE SubmitStep
      <4>1. open \in ListE /\ open # NoEntry
        BY <3>1, ListMade DEF SubmitStep, Submits
      <4>2. open.gen = g /\ open.copy = v
        BY <2>3, <4>1
      <4>3. Copied(queue'[Main], Len(queue'[Main]) + 1, g, v, stand'[g])
        BY <2>1, <2>4, <3>1, <4>2, CopiedSubmitted
      <4>4. job'.submitQueue = Main \/ queues' = {Main}
        BY <1>1, <1>5, <2>2, <3>1, <4>2 DEF SubmitStep, Submits
      <4>5. QED
        BY <2>1, <4>3, <4>4 DEF CopiedFor
    <3>2. CASE ~SubmitStep
      <4>1. open' = open /\ job' = job /\ queues' = queues
        <5>1. queues' = queues
          BY <1>1, <1>5, <2>2, <3>2, NextKinds DEF Kinds, SendStep, IdleStep, CapStep, AdoptStep, PassStarts, PassEnds,
                                                   HostQueueRuns, hostvars
        <5>2. QED
          BY <2>2, <3>2, <5>1 DEF PassStarts, PassEnds, HostQueueRuns
      <4>2. CopiedFor(g, v) /\ (job.submitQueue = Main \/ queues = {Main})
        BY <2>3, <2>8, <4>1
      <4>3. v >= stand[g].last
        BY <2>1, <2>4
      <4>4. Copied(queue'[Main], Len(queue'[Main]) + 1, g, v, stand'[g])
        BY <2>1, <4>2, <4>3, CopiedStays
      <4>5. QED
        BY <2>1, <4>1, <4>2, <4>4 DEF CopiedFor
    <3>3. QED
      BY <3>1, <3>2
  <2>9. QED
    BY <2>1, <2>5, <2>6, <2>7, <2>8 DEF Pending
<1>6. QED
  BY <1>3, <1>4, <1>5, JobSteps DEF Pending

LEMMA KnownStays ==
  ASSUME BInv, [BNext]_bvars
  PROVE  Known'
<1>1. /\ BTypeOK /\ Passes /\ Control /\ Pending /\ Known /\ Numbered
      /\ queues \in {{Main}, {Main, Other}} /\ queues \in SUBSET Queues
  BY OtherQueue DEF BInv, BTypeOK, HostTypes
<1>2. BTypeOK'
  BY <1>1, Typed
<1>3. CASE job' = NoJob
  BY <1>3 DEF Known, Gone
<1>4. CASE Kicked
  <2>1. /\ job'.signalPending /\ job'.inflight /\ open'.gen = job'.gen /\ open'.copy = job'.jobId /\ open' # NoEntry
    BY <1>4, ListMade DEF Kicked
  <2>2. QED
    BY <2>1 DEF Known
<1>5. CASE Built
  <2> DEFINE g == made + 1
  <2>1. /\ g \in Gens /\ job'.gen = g /\ job'.jobId = 0
    BY <1>5 DEF Built, Job
  <2>2. stand'[g] \in Standings /\ stand'[g].done \in Nat /\ stand'[g].inputs \in Nat /\ stand'[g].copied = copies'[g]
    BY <1>2, <2>1, StandNext DEF BTypeOK, Standings
  <2>3. copies'[g] = 0
    <3>1. ~(g <= made') \/ g = made'
      BY <1>1, <1>5 DEF Built, BTypeOK, ThreadTypes
    <3>2. g > made
      BY <1>1 DEF BTypeOK, ThreadTypes
    <3>3. copies[g] = 0
      BY <1>1, <2>1, <3>2 DEF Passes, PassesOf
    <3>4. copies' = copies
      <4>1. /\ job' # job
        BY <1>5 DEF Built, Gone
      <4>2. \A q \in Queues : ~HostQueueRuns(q)
        BY <4>1 DEF HostQueueRuns
      <4>3. QED
        BY <1>1, <4>2, NextKinds DEF Kinds, SendStep, IdleStep, SubmitStep, CapStep, AdoptStep, gpu, Kicked, PassStarts,
                                     PassEnds
    <3>5. QED
      BY <3>3, <3>4
  <2>4. Signalled(queue'[Main], g, 0, stand'[g])
    BY <2>2 DEF Signalled
  <2>5. Copied(queue'[Main], Len(queue'[Main]) + 1, g, 0, stand'[g])
    BY <2>2, <2>3 DEF Copied
  <2>6. \A q \in queues' : Waited(queue'[q], Len(queue'[q]) + 1, g, 0, stand'[g])
    BY <2>2 DEF Waited
  <2> HIDE DEF g
  <2>7. QED
    BY <2>1, <2>4, <2>5, <2>6 DEF Known, CopiedFor, Awaited
<1>6. ASSUME ~Gone, job' = job \/ SameJob, ~Kicked
      PROVE  Known'
  <2> DEFINE g == job.gen
             v == job.jobId
  <2>1. g \in Gens /\ v \in Nat /\ job'.gen = g /\ job'.jobId = v
    BY <1>1, <1>6, JobIs DEF SameJob, BTypeOK
  <2>2. v = stand[g].last /\ v >= stand[g].last
    BY <1>1, <1>6, <2>1 DEF Numbered
  <2>3. ~job'.signalPending => Signalled(queue'[Main], g, v, stand'[g])
    <3>1. CASE ~job.signalPending
      BY <1>1, <1>6, <2>1, <3>1, SignalledStays DEF Known
    <3>2. CASE job.signalPending
      <4>1. CASE SendStep
        <5>1. Sends
          BY <1>6, <3>2, <4>1 DEF SendStep
        <5>2. queue'[Main] = Append(queue[Main], Signal(g, v)) /\ v # 0
          BY <1>1, <3>2, <5>1, OtherQueue DEF Sends, Put, Control
        <5>3. queue[Main] \in Seq(Entry) /\ Signal(g, v) \in Entry
          BY <1>1, <2>1, <5>2, OtherQueue, EntriesMade DEF BTypeOK, QueueTypes
        <5>4. Len(queue'[Main]) = Len(queue[Main]) + 1 /\ queue'[Main][Len(queue[Main]) + 1] = Signal(g, v)
              /\ Len(queue[Main]) \in Nat
          BY <5>2, <5>3, Appended
        <5> DEFINE k == Len(queue[Main]) + 1
        <5>5. k \in 1..Len(queue'[Main]) /\ queue'[Main][k] = Signal(g, v)
          BY <5>4
        <5> HIDE DEF k
        <5>6. QED
          BY <5>5 DEF Signalled
      <4>2. CASE ~SendStep
        <5>1. pc = "host"
          BY <1>1, <1>6, <3>2 DEF Control
        <5>2. job'.signalPending
          BY <1>1, <1>6, <3>2, <4>2, <5>1, NextKinds
          DEF Kinds, IdleStep, FrameEnds, SubmitStep, Submits, CapStep, AdoptStep, PassStarts, PassEnds, HostQueueRuns,
              Gone, SameJob, Built
        <5>3. QED
          BY <5>2
      <4>3. QED
        BY <4>1, <4>2
    <3>3. QED
      BY <3>1, <3>2
  <2>4. \/ Copied(queue'[Main], Len(queue'[Main]) + 1, g, v, stand'[g])
        \/ open' # NoEntry /\ open'.gen = g /\ open'.copy = v
        \/ abandoned'[g]
    <3>1. CASE CopiedFor(g, v)
      BY <2>1, <2>2, <3>1, CopiedStays
    <3>2. CASE abandoned[g]
      <4>1. abandoned' = abandoned \/ abandoned' = [abandoned EXCEPT ![g] = TRUE]
        BY <1>1, NextKinds DEF Kinds, SendStep, IdleStep, SubmitStep, CapStep, AdoptStep, Kicked, PassStarts, PassEnds,
                               HostQueueRuns
      <4>2. QED
        BY <1>1, <2>1, <3>2, <4>1 DEF BTypeOK, GpuTypes
    <3>3. CASE open # NoEntry /\ open.gen = g /\ open.copy = v
      <4>1. CASE SubmitStep
        <5>1. CASE v # 0
          BY <2>1, <3>3, <4>1, <5>1, CopiedSubmitted
        <5>2. CASE v = 0
          <6>1. copies'[g] = 0
            <7>1. stand[g].last = fModel[g] + Len(bg[g]) /\ fModel[g] \in Nat /\ Len(bg[g]) \in Nat /\ copies[g] \in Nat
              BY <1>1, <2>1, StandNow DEF BTypeOK
            <7>2. copies[g] <= fModel[g] + Len(bg[g])
              BY <1>1, <2>1 DEF Passes, PassesOf
            <7>3. copies[g] = 0
              <8>1. stand[g].last = 0
                BY <2>2, <5>2
              <8>2. QED
                BY <7>1, <7>2, <8>1
            <7>4. QED
              BY <4>1, <7>3 DEF SubmitStep, gpu
          <6>2. QED
            BY <1>2, <2>1, <5>2, <6>1, StandNext DEF BTypeOK, Copied
        <5>3. QED
          BY <5>1, <5>2
      <4>2. CASE ~SubmitStep
        <5>1. open' = open
          <6>1. CASE Kicked \/ CapStep \/ AdoptStep \/ IdleStep
            BY <1>1, <1>6, <3>3, <6>1 DEF IdleStep, FrameEnds, Built, CapStep, AdoptStep, Control, Pipeline
          <6>2. CASE SendStep \/ (\E h \in Gens : PassStarts(h) \/ PassEnds(h)) \/ (\E q \in Queues : HostQueueRuns(q))
            BY <3>3, <6>2 DEF SendStep, PassStarts, PassEnds, HostQueueRuns
          <6>3. QED
            BY <1>1, <4>2, <6>1, <6>2, NextKinds DEF Kinds
        <5>2. QED
          BY <3>3, <5>1
      <4>3. QED
        BY <4>1, <4>2
    <3>4. QED
      BY <1>1, <1>6, <3>1, <3>2, <3>3 DEF Known
  <2>5. ~job'.inflight => \A q \in queues' : Waited(queue'[q], Len(queue'[q]) + 1, g, v, stand'[g])
    <3>1. CASE ~job.inflight
      <4>1. Awaited(g, v)
        BY <1>1, <1>6, <3>1 DEF Known
      <4>2. QED
        BY <2>1, <4>1, AwaitedStays
    <3>2. CASE job.inflight
      <4>1. CASE AdoptStep
        <5>1. CASE Finished(v)
          <6>1. stand'[g].done >= v
            <7>1. stand[g].done >= v /\ stand[g].done \in Nat
              BY <1>1, <2>1, <5>1, StandNow DEF Finished, BTypeOK
            <7>2. stand'[g].done >= stand[g].done /\ stand'[g].done \in Nat
              <8>1. stand'[g].done >= stand[g].done
                BY <2>1, LastGrows
              <8>2. stand'[g].done \in Nat
                BY <1>2, <2>1, StandNext DEF BTypeOK
              <8>3. QED
                BY <8>1, <8>2
            <7>3. QED
              BY <2>1, <7>1, <7>2
          <6>2. QED
            BY <6>1 DEF Waited
        <5>2. CASE Overdue /\ Put(queues, Wait(g, v))
          <6>1. ASSUME NEW q \in queues
                PROVE  Waited(queue'[q], Len(queue'[q]) + 1, g, v, stand'[g])
            <7>1. queue'[q] = Append(queue[q], Wait(g, v)) /\ queue[q] \in Seq(Entry) /\ v # 0
              BY <1>1, <1>6, <5>2, <6>1 DEF Put, BTypeOK, QueueTypes, Overdue, Control
            <7>2. Wait(g, v) \in Entry
              BY <2>1, <7>1, EntriesMade
            <7>3. /\ Len(queue'[q]) = Len(queue[q]) + 1 /\ queue'[q][Len(queue[q]) + 1] = Wait(g, v)
                  /\ Len(queue[q]) \in Nat
              BY <7>1, <7>2, Appended
            <7> DEFINE k == Len(queue[q]) + 1
            <7>4. k \in 1..Len(queue'[q]) /\ k < Len(queue'[q]) + 1 /\ queue'[q][k] = Wait(g, v)
              BY <7>3
            <7> HIDE DEF k
            <7>5. QED
              BY <7>4 DEF Waited
          <6>2. queues' = queues
            BY <4>1 DEF AdoptStep
          <6>3. QED
            BY <6>1, <6>2
        <5>3. QED
          BY <3>2, <4>1, <5>1, <5>2 DEF AdoptStep, Adopts
      <4>2. CASE ~AdoptStep
        <5>1. job'.inflight
          BY <1>1, <1>6, <3>2, <4>2, NextKinds
          DEF Kinds, SendStep, Sends, IdleStep, FrameEnds, SubmitStep, Submits, CapStep, PassStarts, PassEnds,
              HostQueueRuns, Gone, SameJob, Built
        <5>2. QED
          BY <5>1
      <4>3. QED
        BY <4>1, <4>2
    <3>3. QED
      BY <3>1, <3>2
  <2>6. QED
    BY <2>1, <2>3, <2>4, <2>5 DEF Known, CopiedFor, Awaited
<1>7. QED
  BY <1>3, <1>4, <1>5, <1>6, JobSteps

LEMMA ControlStays ==
  ASSUME BInv, [BNext]_bvars
  PROVE  Control'
<1>1. BTypeOK /\ Passes /\ Control /\ Known /\ Numbered
  BY DEF BInv
<1>2. BTypeOK'
  BY <1>1, Typed
<1>3. ~Gone /\ job.inflight => job.jobId \in Nat \ {0}
  BY <1>1, JobIs DEF Control, BTypeOK
\* What does not move the thread.
<1>4. ASSUME pc' = pc, after' = after, mode' = mode, rec' = rec, abandoned' = abandoned,
             \/ job' = job
             \/ SameJob /\ job'.inflight = job.inflight /\ job'.signalPending = job.signalPending,
             open' = open \/ open' = NoEntry,
             \A g \in Gens : fModel'[g] >= fModel[g]
      PROVE  Control'
  <2>1. ~Gone => job.gen \in Gens /\ job.jobId \in Nat
    BY <1>1, JobIs DEF BTypeOK
  <2>2. (Gone => job' = NoJob) /\ (~Gone => job' # NoJob)
    BY <1>4 DEF SameJob, Gone
  <2>3. ~Gone => /\ job'.gen = job.gen /\ job'.jobId = job.jobId /\ job'.inflight = job.inflight
                 /\ job'.signalPending = job.signalPending /\ job'.outIndex = job.outIndex
    BY <1>4 DEF SameJob
  <2>4. ~Gone /\ Finished(job.jobId) => fModel'[job.gen] >= job.jobId
    <3>1. SUFFICES ASSUME ~Gone, Finished(job.jobId) PROVE fModel'[job.gen] >= job.jobId
      OBVIOUS
    <3>2. fModel[job.gen] \in Nat /\ fModel'[job.gen] \in Nat
      BY <1>1, <1>2, <2>1, <3>1 DEF BTypeOK, GpuTypes
    <3>3. QED
      BY <1>4, <2>1, <3>1, <3>2 DEF Finished
  <2>5. pc = "kick" => ~Gone /\ (RecFits(rec, job) => RecFits(rec, job'))
    BY <1>1, <2>3 DEF Control, RecFits
  <2>6. QED
    BY <1>1, <1>4, <2>2, <2>3, <2>4, <2>5 DEF Control, Gone, Finished
\* Bury.
<1>5. ASSUME NEW next, Bury(next), open' = open, mode' = mode \/ next = "host",
             next # "host" => open = NoEntry /\ mode = "background", UNCHANGED <<made, queues, gpu, rec>>
      PROVE  Control'
  <2>1. (queue' = queue /\ job' = job /\ (Gone \/ ~job.signalPending)) \/ Sends
    BY <1>1, <1>5, SendEffect DEF Bury
  <2>2. /\ after' = next /\ pc' = IF ~Gone /\ job.inflight /\ ~Finished(job.jobId) THEN "drain" ELSE "settled"
    BY <1>5 DEF Bury
  <2>3. (Gone => job' = NoJob) /\ (~Gone => job' # NoJob)
    BY <2>1 DEF Sends, SameJob, Gone
  <2>4. ~Gone => job'.gen = job.gen /\ job'.jobId = job.jobId /\ job'.inflight = job.inflight /\ ~job'.signalPending
    BY <2>1 DEF Sends, SameJob
  <2>5. fModel' = fModel
    BY <1>5 DEF gpu
  <2>6. pc' \in Burying /\ pc' \notin Pipeline \cup {"host"}
    BY <2>2 DEF Burying, Pipeline
  <2>7. CASE pc' = "drain"
    BY <1>3, <1>5, <2>2, <2>3, <2>4, <2>5, <2>6, <2>7 DEF Control, Gone, Finished
  <2>8. CASE pc' = "settled"
    BY <1>3, <1>5, <2>2, <2>3, <2>4, <2>5, <2>6, <2>8 DEF Control, Gone, Finished
  <2>9. QED
    BY <2>2, <2>7, <2>8
<1>6. CASE UNCHANGED bvars
  <2>1. \A g \in Gens : fModel'[g] >= fModel[g]
    BY <1>1, <1>6 DEF bvars, gpu, BTypeOK, GpuTypes
  <2>2. QED
    BY <1>4, <1>6, <2>1 DEF bvars, hostvars
<1>7. ASSUME NEW hostReset \in BOOLEAN, Evaluate(hostReset)
      PROVE  Control'
  <2>1. (queue' = queue /\ job' = job /\ (Gone \/ ~job.signalPending)) \/ Sends
    BY <1>1, <1>7, SendEffect DEF Evaluate
  <2>2. /\ pc = "host" /\ mode = "background" /\ open = NoEntry /\ pc' = "ensure"
        /\ UNCHANGED <<mode, after, rec, open, abandoned>>
    BY <1>7 DEF Evaluate, hostvars
  <2>3. (Gone => job' = NoJob) /\ (~Gone => job' # NoJob)
    BY <2>1 DEF Sends, SameJob, Gone
  <2>4. ~Gone => job'.gen = job.gen /\ job'.jobId = job.jobId /\ job'.inflight = job.inflight /\ ~job'.signalPending
    BY <2>1 DEF Sends, SameJob
  <2>5. ~Gone => ~abandoned[job.gen]
    BY <1>1, <2>2 DEF Control, Burying
  <2>6. QED
    BY <1>3, <2>2, <2>3, <2>4, <2>5 DEF Control, Gone, Burying
<1>8. CASE HostEvaluate
  <2>1. (queue' = queue /\ job' = job /\ (Gone \/ ~job.signalPending)) \/ Sends
    BY <1>1, <1>8, SendEffect DEF HostEvaluate
  <2>2. pc = "host" /\ pc' = "host" /\ UNCHANGED <<mode, after, rec, abandoned>>
    BY <1>8 DEF HostEvaluate, hostvars
  <2>3. (Gone => job' = NoJob) /\ (~Gone => job' # NoJob)
    BY <2>1 DEF Sends, SameJob, Gone
  <2>4. ~Gone => job'.gen = job.gen /\ job'.jobId = job.jobId /\ job'.inflight = job.inflight /\ ~job'.signalPending
    BY <2>1 DEF Sends, SameJob
  <2>5. ~Gone => ~abandoned[job.gen] /\ mode # "host"
    BY <1>1, <2>2 DEF Control, Burying
  <2>6. QED
    BY <1>3, <2>2, <2>3, <2>4, <2>5 DEF Control, Gone, Burying, Pipeline
<1>9. CASE Submit
  <2>1. Submits
    BY <1>1, <1>9, SubmitEffect
  <2>2. UNCHANGED <<pc, after, mode, rec, abandoned, fModel>> /\ \A g \in Gens : fModel'[g] >= fModel[g]
    BY <1>1, <1>9 DEF Submit, hostvars, gpu, BTypeOK, GpuTypes
  <2>3. QED
    BY <1>4, <2>1, <2>2 DEF Submits
<1>10. CASE ChangeMode
  <2>1. CASE mode = "background"
    <3>1. Bury("host") /\ UNCHANGED <<made, queues, gpu, rec, open>>
      BY <1>10, <2>1 DEF ChangeMode
    <3>2. QED
      BY <1>5, <3>1
  <2>2. CASE mode # "background"
    <3>1. mode' = "background" /\ pc = "host" /\ UNCHANGED <<pc, after, job, abandoned, rec, open, fModel>> /\ mode = "host"
      BY <1>1, <1>10, <2>2 DEF ChangeMode, gpu, BTypeOK, HostTypes
    <3>2. Gone
      BY <1>1, <3>1 DEF Control
    <3>3. QED
      BY <3>1, <3>2 DEF Control, Gone, Pipeline, Burying
  <2>3. QED
    BY <2>1, <2>2
<1>11. CASE Retire
  <2>1. Bury("host") /\ UNCHANGED <<made, queues, gpu, rec, open, mode>>
    BY <1>11 DEF Retire, hostvars
  <2>2. QED
    BY <1>5, <2>1
<1>12. CASE SettleDrain \/ SettleWait
  <2>1. pc' \in {"settle", "settled"} /\ UNCHANGED <<after, mode, rec, abandoned, job, open, fModel>> /\ pc \in Burying
    BY <1>12 DEF SettleDrain, SettleWait, hostvars, gpu, Burying
  <2>2. ~Gone /\ job.inflight /\ (pc' = "settled" => Finished(job.jobId))
    BY <1>1, <1>12 DEF SettleDrain, SettleWait, Control
  <2>3. ~job.signalPending
    BY <1>1, <2>1, <2>2 DEF Control, Burying
  <2>4. after # "host" => open = NoEntry /\ mode = "background"
    BY <1>1, <2>1 DEF Control
  <2>5. CASE pc' = "settle"
    BY <1>3, <2>1, <2>2, <2>3, <2>4, <2>5 DEF Control, Gone, Burying, Pipeline
  <2>6. CASE pc' = "settled"
    BY <1>3, <2>1, <2>2, <2>3, <2>4, <2>6 DEF Control, Gone, Burying, Pipeline, Finished
  <2>7. QED
    BY <2>1, <2>5, <2>6
<1>13. CASE Settled
  <2>1. pc = "settled" /\ job' = NoJob /\ pc' = after /\ after' = "host" /\ UNCHANGED <<mode, open>>
    BY <1>13 DEF Settled, hostvars
  <2>2. after \in {"host", "build", "direct"} /\ (after # "host" => open = NoEntry /\ mode = "background")
    BY <1>1, <2>1 DEF Control, Burying, BTypeOK, ThreadTypes
  <2>3. QED
    BY <2>1, <2>2 DEF Control, Gone, Burying, Pipeline
<1>14. CASE Ensure
  <2>1. pc = "ensure" /\ UNCHANGED <<mode, rec, made, queues, gpu>>
    BY <1>14 DEF Ensure, hostvars
  <2>2. open = NoEntry /\ mode = "background" /\ (~Gone => ~abandoned[job.gen] /\ ~job.signalPending)
    BY <1>1, <2>1 DEF Control, Pipeline, Burying
  <2>3. CASE ~Gone /\ pc' = "cap" /\ UNCHANGED <<after, job, made, queue, open, abandoned>>
    BY <1>1, <2>1, <2>2, <2>3 DEF Control, Gone, Burying, Pipeline
  <2>4. CASE Gone /\ pc' = "build" /\ UNCHANGED <<after, job, made, queue, open, abandoned>>
    BY <1>1, <2>1, <2>2, <2>4 DEF Control, Gone, Burying, Pipeline
  <2>5. CASE Bury(IF job.wantDirect THEN "direct" ELSE "build") /\ UNCHANGED <<made, open>>
    BY <1>5, <2>1, <2>2, <2>5
  <2>6. QED
    BY <1>14, <2>3, <2>4, <2>5 DEF Ensure
<1>15. CASE Build
  <2>1. pc \in {"build", "direct"} /\ UNCHANGED <<mode, rec, abandoned>>
    BY <1>15 DEF Build, hostvars
  <2>2. open = NoEntry /\ mode = "background" /\ Gone
    BY <1>1, <2>1 DEF Control, Pipeline
  <2>3. CASE made < MaxGens /\ made' = made + 1
    <3>1. Built
      BY <1>1, <1>15, <2>3, BuiltEffect
    <3>2. ~abandoned[job'.gen]
      <4>1. job'.gen = made + 1 /\ job'.gen \in Gens /\ made + 1 > made
        BY <1>1, <3>1 DEF Built, Job, BTypeOK, ThreadTypes
      <4>2. QED
        BY <1>1, <4>1 DEF Passes, PassesOf
    <3>3. QED
      BY <2>1, <2>2, <3>1, <3>2 DEF Control, Built, Gone, Burying, Pipeline
  <2>4. CASE pc' = "host" /\ UNCHANGED job
    BY <2>1, <2>2, <2>4 DEF Control, Gone, Burying, Pipeline
  <2>5. QED
    BY <1>15, <2>3, <2>4 DEF Build
<1>16. CASE StartSync \/ QueueCap \/ CapWait
  <2>1. /\ pc \in {"sync", "cap", "capped"} /\ pc' \in {"capped", "adopt"} /\ (pc' = "adopt" => rec' = NewList)
        /\ UNCHANGED <<mode, open, job, abandoned>>
    BY <1>16 DEF StartSync, QueueCap, CapWait, hostvars
  <2>2. ~Gone /\ open = NoEntry /\ mode = "background" /\ ~abandoned[job.gen] /\ ~job.signalPending
    BY <1>1, <2>1 DEF Control, Pipeline, Burying
  <2>3. QED
    BY <1>3, <2>1, <2>2 DEF Control, Gone, Burying, Pipeline
<1>17. CASE Adopt
  <2>1. Adopts
    BY <1>1, <1>17, AdoptEffect
  <2>2. pc = "adopt" /\ pc' = "kick" /\ UNCHANGED <<mode, open, abandoned>>
    BY <1>17 DEF Adopt, hostvars
  <2>3. ~Gone /\ open = NoEntry /\ mode = "background" /\ ~abandoned[job.gen] /\ ~job.signalPending
    BY <1>1, <2>2 DEF Control, Pipeline, Burying
  <2>4. /\ job' # NoJob /\ job'.gen = job.gen /\ job'.jobId = job.jobId /\ ~job'.signalPending
        /\ (job'.inflight => job.inflight) /\ rec' \in ListE /\ RecFits(rec', job')
    BY <2>1, <2>3 DEF Adopts, SameJob
  <2>5. QED
    BY <1>3, <2>2, <2>3, <2>4 DEF Control, Gone, Burying, Pipeline
<1>18. CASE NoKick \/ \E pack \in BOOLEAN : KickListFails(pack) \/ KickFails(pack)
  <2>1. FrameEnds
    BY <1>1, <1>18, EndEffect
  <2>2. pc = "kick" /\ UNCHANGED <<mode, abandoned>>
    BY <1>18 DEF NoKick, KickListFails, KickFails, hostvars
  <2>3. ~Gone /\ open = NoEntry /\ mode = "background" /\ ~abandoned[job.gen] /\ ~job.signalPending
    BY <1>1, <2>2 DEF Control, Pipeline, Burying
  <2>4. /\ job' # NoJob /\ job'.gen = job.gen /\ job'.jobId = job.jobId /\ ~job'.signalPending
        /\ job'.inflight = job.inflight /\ pc' = "host"
    BY <2>1, <2>3 DEF FrameEnds, SameJob
  <2>5. QED
    BY <1>3, <2>2, <2>3, <2>4 DEF Control, Gone, Burying, Pipeline
<1>19. CASE \E declined \in BOOLEAN : Kick(declined)
  <2>1. Kicked
    BY <1>1, <1>19, KickEffect
  <2>2. /\ pc = "kick" /\ pc' = "host" /\ UNCHANGED <<mode, abandoned>> /\ job' # NoJob /\ job'.gen = job.gen
        /\ job'.jobId = job.jobId + 1 /\ job'.inflight /\ ~Gone
    BY <2>1 DEF Kicked, hostvars
  <2>3. mode = "background" /\ ~abandoned[job.gen] /\ job.jobId + 1 > 0
    BY <1>1, <2>2, JobIs DEF Control, Pipeline, Burying, BTypeOK
  <2>4. QED
    BY <2>2, <2>3 DEF Control, Gone, Burying, Pipeline
<1>20. CASE Gpu
  <2>1. /\ UNCHANGED <<pc, after, mode, rec, abandoned, job, open>>
    BY <1>20 DEF Gpu, HostQueueRuns, PassStarts, PassEnds, hostvars
  <2>2. \A g \in Gens : fModel'[g] >= fModel[g]
    <3>1. TAKE g \in Gens
    <3>2. stand'[g].done >= stand[g].done /\ stand'[g].done = fModel'[g] /\ stand[g].done = fModel[g]
      BY <1>1, <1>2, LastGrows, StandNow, StandNext DEF BTypeOK
    <3>3. QED
      BY <3>2
  <2>3. QED
    BY <1>4, <2>1, <2>2
<1>21. QED
  BY <1>6, <1>7, <1>8, <1>9, <1>10, <1>11, <1>12, <1>13, <1>14, <1>15, <1>16, <1>17, <1>18, <1>19, <1>20 DEF BNext, Thread

-----------------------------------------------------------------------------
(* One job object at work.                                                 *)

\* A queue of passes gets one only from a kick.
LEMMA WorkShrinks ==
  ASSUME BInv, [BNext]_bvars, NEW g \in Gens, bg'[g] # <<>>
  PROVE  bg[g] # <<>> \/ (Kicked /\ g = job.gen)
<1>1. BTypeOK /\ Passes /\ Control
  BY DEF BInv
<1>2. bg \in [Gens -> Seq(Pass)]
  BY <1>1 DEF BTypeOK, GpuTypes
<1>3. CASE Kicked
  <2> DEFINE pass == [job |-> job.jobId + 1, out |-> 1 - job.outIndex, slot |-> Slot]
  <2>1. bg' = [bg EXCEPT ![job.gen] = Append(bg[job.gen], pass)]
    BY <1>3 DEF Kicked
  <2> HIDE DEF pass
  <2>2. QED
    BY <1>2, <1>3, <2>1
<1>4. ASSUME NEW h \in Gens, PassEnds(h)
      PROVE  bg[g] # <<>>
  <2>1. running[h] /\ bg' = [bg EXCEPT ![h] = Tail(bg[h])]
    BY <1>4 DEF PassEnds
  <2>2. Len(bg[h]) > 0
    BY <1>1, <2>1 DEF Passes, PassesOf
  <2>3. QED
    BY <1>2, <2>1, <2>2
<1>5. CASE UNCHANGED bg
  BY <1>5
<1>6. QED
  BY <1>1, <1>3, <1>4, <1>5, NextKinds DEF Kinds, SendStep, IdleStep, SubmitStep, CapStep, AdoptStep, gpu,
                                           PassStarts, HostQueueRuns

\* What is over behind everything is over once the host's queues are empty.
LEMMA OverWhenDrained ==
  ASSUME BInv, Drained, NEW g \in Gens, Awaited(g, stand[g].last)
  PROVE  bg[g] = <<>>
<1>1. BTypeOK /\ Main \in queues
  BY DEF BInv, BTypeOK, HostTypes
<1>2. queue[Main] = <<>> /\ Waited(queue[Main], Len(queue[Main]) + 1, g, stand[g].last, stand[g])
  BY <1>1 DEF Drained, Awaited
<1>3. stand[g].done >= stand[g].last
  BY <1>2 DEF Waited
<1>4. /\ stand[g].done = fModel[g] /\ stand[g].last = fModel[g] + Len(bg[g]) /\ Len(bg[g]) \in Nat /\ fModel[g] \in Nat
      /\ bg[g] \in Seq(Pass)
  BY <1>1, StandNow DEF BTypeOK, GpuTypes
<1>5. Len(bg[g]) = 0
  BY <1>3, <1>4
<1>6. QED
  BY <1>4, <1>5

\* Only StartSync gets a new job out of its wait.
LEMMA SyncLeaves ==
  ASSUME BInv, [BNext]_bvars, pc = "sync", pc' # "sync"
  PROVE  Drained /\ UNCHANGED <<queue, open, queues>>
<1>1. BTypeOK /\ Control
  BY DEF BInv
<1>2. CASE Thread
  BY <1>2 DEF Thread, SettleDrain, SettleWait, Settled, Ensure, Build, StartSync, QueueCap, CapWait, Adopt, NoKick,
              Kick, KickListFails, KickFails, hostvars
<1>3. CASE Gpu
  BY <1>3 DEF Gpu, HostQueueRuns, PassStarts, PassEnds
<1>4. CASE \E hostReset \in BOOLEAN : Evaluate(hostReset)
  BY <1>4 DEF Evaluate
<1>5. CASE HostEvaluate \/ Submit \/ ChangeMode \/ Retire
  BY <1>5 DEF HostEvaluate, Submit, ChangeMode, Retire
<1>6. CASE UNCHANGED bvars
  BY <1>6 DEF bvars
<1>7. QED
  BY <1>2, <1>3, <1>4, <1>5, <1>6 DEF BNext

\* A job is let go when its last pass is over, or awaited by the host's queues.
LEMMA LetGo ==
  ASSUME BInv, [BNext]_bvars, ~Gone, job' = NoJob
  PROVE  job.gen \in Gens /\ Awaited(job.gen, stand[job.gen].last)
<1>1. BTypeOK /\ Control /\ Known /\ Numbered
  BY DEF BInv
<1>2. pc = "settled"
  BY <1>1, NextKinds DEF Kinds, SendStep, Sends, SameJob, IdleStep, FrameEnds, Built, SubmitStep, Submits, CapStep,
                         AdoptStep, Adopts, Kicked, PassStarts, PassEnds, HostQueueRuns, Gone
<1>3. job.gen \in Gens /\ job.jobId \in Nat
  BY <1>1, JobIs DEF BTypeOK
<1>4. job.jobId = stand[job.gen].last /\ stand[job.gen].done = fModel[job.gen]
  BY <1>1, <1>3, StandNow DEF Numbered, BTypeOK
<1>5. CASE ~job.inflight
  BY <1>1, <1>3, <1>4, <1>5 DEF Known
<1>6. CASE Finished(job.jobId)
  BY <1>3, <1>4, <1>6 DEF Finished, Awaited, Waited
<1>7. QED
  BY <1>1, <1>2, <1>5, <1>6 DEF Control

LEMMA OneAtWorkStays ==
  ASSUME BInv, [BNext]_bvars
  PROVE  OneAtWork'
<1>1. BTypeOK /\ Control /\ OneAtWork
  BY DEF BInv
<1>2. Kicked => ~Gone /\ pc = "kick" /\ job'.gen = job.gen
  BY DEF Kicked
<1>3. ASSUME NEW g \in Gens, NEW h \in Gens, bg'[g] # <<>>, bg'[h] # <<>>
      PROVE  g = h
  BY <1>1, <1>2, <1>3, WorkShrinks DEF OneAtWork
<1>4. ASSUME NEW g \in Gens, job' = NoJob \/ g # job'.gen
      PROVE  \A q \in queues' : Waited(queue'[q], Len(queue'[q]) + 1, g, stand'[g].last, stand'[g])
  <2>1. Awaited(g, stand[g].last) /\ ~(Kicked /\ g = job.gen)
    <3>1. CASE Gone \/ g # job.gen
      BY <1>1, <1>2, <3>1 DEF OneAtWork
    <3>2. CASE ~Gone /\ g = job.gen
      <4>1. job' = NoJob
        BY <1>4, <3>2, JobSteps DEF Built, Kicked, SameJob
      <4>2. ~Kicked
        BY <4>1 DEF Kicked
      <4>3. QED
        BY <3>2, <4>1, <4>2, LetGo
    <3>3. QED
      BY <3>1, <3>2
  <2>2. stand'[g].last = stand[g].last /\ stand[g].last \in Nat
    BY <2>1, LastKept, LastGrows
  <2>3. QED
    BY <2>1, <2>2, AwaitedStays
<1>5. ASSUME job' # NoJob, pc' # "sync", NEW g \in Gens, g # job'.gen, bg'[g] # <<>>
      PROVE  FALSE
  <2>1. ~Gone /\ job'.gen = job.gen
    BY <1>5, JobSteps DEF Built, Kicked, SameJob
  <2>2. bg[g] # <<>>
    BY <1>5, <2>1, WorkShrinks
  <2>3. pc = "sync"
    BY <1>1, <1>5, <2>1, <2>2 DEF OneAtWork
  <2>4. Drained
    BY <1>5, <2>3, SyncLeaves
  <2>5. Awaited(g, stand[g].last)
    BY <1>1, <1>5, <2>1 DEF OneAtWork
  <2>6. QED
    BY <2>2, <2>4, <2>5, OverWhenDrained
<1>6. QED
  BY <1>3, <1>4, <1>5 DEF OneAtWork, Gone, Awaited

LEMMA Begins ==
  BInit => BInv
<1>1. SUFFICES ASSUME BInit PROVE BInv
  OBVIOUS
<1>2. BTypeOK
  <2>1. HostTypes
    BY <1>1 DEF BInit, HostTypes
  <2>0. ThreadTypes
    <3>1. 0 \in 0..MaxGens
      BY BackgroundAssumption
    <3>2. QED
      BY <1>1, <3>1 DEF BInit, ThreadTypes, Burying, Pipeline
  <2>2. QueueTypes /\ \A q \in Queues : queue[q] = <<>>
    <3>1. <<>> \in Seq(Entry)
      OBVIOUS
    <3>2. QED
      BY <1>1, <3>1 DEF BInit, QueueTypes, Queues
  <2>3. GpuTypes
    <3>1. <<>> \in Seq(Pass)
      OBVIOUS
    <3>2. QED
      BY <1>1, <3>1 DEF BInit, GpuTypes
  <2>4. QED
    BY <2>0, <2>1, <2>2, <2>3 DEF BTypeOK
<1>3. Gone /\ open = NoEntry /\ pc = "host" /\ after = "host" /\ mode = "background" /\ made = 0
  BY <1>1 DEF BInit, Gone
<1>4. \A q \in Queues : queue[q] = <<>> /\ Len(queue[q]) = 0
  BY <1>1 DEF BInit, Queues
<1>5. \A g \in Gens : /\ bg[g] = <<>> /\ Len(bg[g]) = 0 /\ fModel[g] = 0 /\ fInputs[g] = 0 /\ copies[g] = 0
                      /\ ~running[g] /\ ~abandoned[g] /\ answer[g] = [i \in 0..1 |-> 0]
  BY <1>1 DEF BInit
<1>6. Passes
  <2>1. SUFFICES ASSUME NEW g \in Gens PROVE PassesOf(g)
    BY DEF Passes
  <2>2. 0 % 2 = 0
    OBVIOUS
  <2>3. QED
    BY <1>5, <2>2 DEF PassesOf
<1>7. ListsPlaced /\ SignalsSent /\ WaitsFollow
  BY <1>4, OtherQueue DEF ListsPlaced, SignalsSent, WaitsFollow
<1>8. OpenPlaced /\ SlotsKept /\ Numbered /\ Pending /\ Known
  <2>1. SlotsApart3
    <3>1. \A g \in Gens : DOMAIN bg[g] = {}
      BY <1>5
    <3>2. QED
      BY <3>1 DEF SlotsApart3
  <2>2. QED
    BY <1>3, <2>1 DEF OpenPlaced, SlotsKept, Numbered, Pending, Known
<1>9. Control
  BY <1>3 DEF Control, Pipeline, Burying
<1>10. OneAtWork
  <2>1. \A g \in Gens : stand[g].last = 0 /\ stand[g].done = 0
    BY <1>2, <1>5, StandNow DEF BTypeOK
  <2>2. \A g \in Gens : Awaited(g, stand[g].last)
    BY <2>1 DEF Awaited, Waited
  <2>3. QED
    BY <1>3, <1>5, <2>2 DEF OneAtWork
<1>11. QED
  BY <1>2, <1>6, <1>7, <1>8, <1>9, <1>10 DEF BInv

LEMMA Stays ==
  BInv /\ [BNext]_bvars => BInv'
<1>1. SUFFICES ASSUME BInv, [BNext]_bvars PROVE BInv'
  OBVIOUS
<1>2. BTypeOK /\ Control /\ Passes
  BY <1>1 DEF BInv
<1>3. QED
  BY <1>1, <1>2, Typed, PassesStay, ListsStayPlaced, SignalsStaySent, WaitsStay, OpenStaysPlaced, SlotsStay,
     NumberedStays, PendingStays, KnownStays, ControlStays, OneAtWorkStays DEF BInv

-----------------------------------------------------------------------------
(* What the invariant says of the lists and the waits.                     *)

\* A list the GPU executes is the first entry of the host's queue.
LEMMA ListsFirst ==
  ASSUME BInv, NEW e \in ListsNow
  PROVE  /\ queue[Main] \in Seq(Entry) /\ e = queue[Main][1] /\ 1 \in 1..Len(queue[Main])
         /\ e \in ListE /\ e.op = "list" /\ ListAt(queue[Main], 1, e, stand)
<1>1. BTypeOK /\ ListsPlaced
  BY DEF BInv
<1>2. PICK q \in queues : queue[q] # <<>> /\ Head(queue[q]).op = "list" /\ e = Head(queue[q])
  BY DEF ListsNow
<1>3. q \in Queues /\ queue[q] \in Seq(Entry)
  BY <1>1, <1>2 DEF BTypeOK, HostTypes, QueueTypes, Queues
<1>4. e = queue[q][1] /\ 1 \in 1..Len(queue[q]) /\ e \in Entry
  BY <1>2, <1>3, Removed
<1>5. q = Main
  BY <1>1, <1>2, <1>3, <1>4, OtherQueue DEF ListsPlaced
<1>6. QED
  BY <1>1, <1>2, <1>3, <1>4, <1>5, EntryKinds DEF ListsPlaced

\* Where it is one of the pipeline's: nothing stands before it.
LEMMA FirstPlaced ==
  ASSUME NEW s \in Seq(Entry), NEW e \in ListE, NEW st \in Standings, Placed(s, 1, e, st)
  PROVE  /\ st.done >= Base(e) /\ st.copied = Base(e)
         /\ st.inputs <= Base(e) + 1
<1>1. \A k \in 1..Len(s) : ~(k < 1)
  OBVIOUS
<1>2. Waited(s, 1, e.gen, Base(e), st) /\ Copied(s, 1, e.gen, Base(e), st) /\ Reach(Base(e), st.inputs, st)
  BY DEF Placed
<1>3. st.done >= Base(e) /\ st.copied = Base(e)
  BY <1>1, <1>2 DEF Waited, Copied
<1>4. st.inputs \in Nat /\ Base(e) \in Nat
  BY BaseType DEF Standings
<1>5. QED
  BY <1>2, <1>3, <1>4 DEF Reach

LEMMA KeepsInputs ==
  BInv => InputsKept
<1>1. SUFFICES ASSUME BInv, NEW g \in Gens, running[g], ~abandoned[g]
               PROVE  /\ copies[g] = Head(bg[g]).job
                      /\ \A e \in ListsNow : e.copy = 0 \/ e.gen # g
  BY DEF InputsKept
<1>2. BTypeOK /\ PassesOf(g)
  BY <1>1 DEF BInv, Passes
<1>3. bg[g] \in Seq(Pass) /\ fModel[g] \in Nat /\ fInputs[g] \in Nat /\ copies[g] \in Nat
  BY <1>2 DEF BTypeOK, GpuTypes
<1>4. Len(bg[g]) > 0 /\ bg[g] # <<>>
  BY <1>1, <1>2, <1>3 DEF PassesOf
<1>5. Head(bg[g]) = bg[g][1] /\ 1 \in 1..Len(bg[g])
  BY <1>3, <1>4, Removed
<1>6. Head(bg[g]).job = fModel[g] + 1
  BY <1>2, <1>5 DEF PassesOf
<1>7. copies[g] = fModel[g] + 1
  BY <1>1, <1>2, <1>3 DEF PassesOf
<1>8. ASSUME NEW e \in ListsNow, e.copy # 0, e.gen = g
      PROVE  FALSE
  <2>1. /\ queue[Main] \in Seq(Entry) /\ e \in ListE /\ ListAt(queue[Main], 1, e, stand)
    BY <1>1, <1>8, ListsFirst
  <2>2. e.gen # 0 /\ e.copy \in Nat
    BY <1>8, <2>1, GensPositive, ListMade
  <2>3. stand[g] \in Standings /\ Placed(queue[Main], 1, e, stand[g])
    BY <1>2, <1>8, <2>1, <2>2, StandNow DEF ListAt, BTypeOK
  <2>4. stand[g].done >= Base(e) /\ stand[g].copied = Base(e)
    BY <2>1, <2>3, FirstPlaced
  <2>5. stand[g].done = fModel[g] /\ stand[g].copied = copies[g]
    BY <1>2, StandNow DEF BTypeOK
  <2>6. QED
    BY <1>3, <1>7, <2>4, <2>5
<1>9. QED
  BY <1>6, <1>7, <1>8

LEMMA ReadsAnswer ==
  BInv => AnswerRead
<1>1. SUFFICES ASSUME BInv, NEW e \in ListsNow, e.adopt # 0
               PROVE  /\ answer[e.gen][e.out] = e.adopt /\ copies[e.gen] = e.adopt
                      /\ running[e.gen] => Head(bg[e.gen]).out # e.out
  BY DEF AnswerRead
<1>2. BTypeOK /\ Passes
  BY <1>1 DEF BInv
<1>3. queue[Main] \in Seq(Entry) /\ e \in ListE /\ ListAt(queue[Main], 1, e, stand)
  BY <1>1, ListsFirst
<1>4. e.gen \in Gens /\ e.adopt \in Nat \ {0} /\ e.out \in 0..1
  <2>1. e.gen # 0 /\ e.gen \in 0..MaxGens /\ e.adopt \in Nat /\ e.out \in 0..1
    BY <1>1, <1>3, ListMade DEF ListAt
  <2>2. QED
    BY <1>1, <2>1, BackgroundAssumption DEF Gens
<1> DEFINE g == e.gen
           a == e.adopt
<1>5. Placed(queue[Main], 1, e, stand[g]) /\ stand[g] \in Standings
  BY <1>2, <1>3, <1>4, GensPositive, StandNow DEF ListAt, BTypeOK
<1>6. a = Base(e) /\ e.out = a % 2
  BY <1>1, <1>5 DEF Placed
<1>7. stand[g].done >= a /\ stand[g].copied = a /\ stand[g].inputs <= a + 1
  BY <1>3, <1>5, <1>6, FirstPlaced
<1>8. stand[g].done = fModel[g] /\ stand[g].copied = copies[g] /\ stand[g].inputs = fInputs[g]
  BY <1>2, <1>4, StandNow DEF BTypeOK
<1>9. PassesOf(g) /\ bg[g] \in Seq(Pass) /\ fModel[g] \in Nat /\ fInputs[g] \in Nat
  BY <1>2, <1>4 DEF Passes, BTypeOK, GpuTypes
<1> HIDE DEF g, a
<1>10. a \in Nat /\ fModel[g] <= fInputs[g]
  BY <1>4, <1>9 DEF PassesOf, a
<1>11. fModel[g] = a \/ (fModel[g] = a + 1 /\ fModel[g] > 0 /\ fModel[g] - 1 = a)
  BY <1>7, <1>8, <1>9, <1>10
<1>12. answer[g][e.out] = a
  BY <1>6, <1>9, <1>11 DEF PassesOf
<1>13. ASSUME running[g] PROVE Head(bg[g]).out # e.out
  <2>1. Len(bg[g]) > 0 /\ fModel[g] < fInputs[g] /\ bg[g] # <<>>
    BY <1>9, <1>13 DEF PassesOf
  <2>2. fModel[g] = a
    BY <1>7, <1>8, <1>9, <1>10, <2>1
  <2>3. Head(bg[g]) = bg[g][1] /\ 1 \in 1..Len(bg[g])
    BY <1>9, <2>1, Removed
  <2>4. Head(bg[g]).out = (a + 1) % 2
    BY <1>9, <2>2, <2>3 DEF PassesOf
  <2>5. QED
    BY <1>6, <1>10, <2>4, Parity
<1>14. QED
  BY <1>7, <1>8, <1>12, <1>13 DEF g, a

LEMMA ServesWaits ==
  BInv => WaitsServed
<1>1. SUFFICES ASSUME BInv, NEW q \in queues, NEW i \in DOMAIN queue[q], queue[q][i].op = "wait"
               PROVE  SignalAhead(queue[q][i].gen, queue[q][i].value)
  BY DEF WaitsServed
<1>2. BTypeOK /\ WaitsFollow /\ SignalsSent /\ q \in Queues /\ Main \in queues /\ Main \in Queues
  BY <1>1 DEF BInv, BTypeOK, HostTypes, Queues
<1>3. queue[q] \in Seq(Entry) /\ queue[Main] \in Seq(Entry) /\ i \in 1..Len(queue[q]) /\ queue[q][i] \in Entry
  BY <1>1, <1>2 DEF BTypeOK, QueueTypes
<1> DEFINE g == queue[q][i].gen
           v == queue[q][i].value
<1>4. g \in Gens /\ v \in Nat \ {0} /\ Signalled(queue[Main], g, v, stand[g])
  BY <1>1, <1>2, <1>3, EntryKinds DEF WaitsFollow
<1>5. stand[g].inputs = fInputs[g]
  BY <1>2, <1>4, StandNow DEF BTypeOK
<1> HIDE DEF g, v
<1>6. CASE stand[g].inputs >= v
  BY <1>5, <1>6 DEF SignalAhead, g, v
<1>7. ASSUME NEW k \in 1..Len(queue[Main]), queue[Main][k] = Signal(g, v)
      PROVE  SignalAhead(g, v)
  <2>1. queue[Main][k].op = "signal" /\ queue[Main][k].gen = g /\ queue[Main][k].value = v
    BY <1>4, <1>7, EntriesMade
  <2>2. Sendable(queue[Main], k, g, v, stand[g])
    BY <1>2, <1>7, <2>1 DEF SignalsSent, SentAt
  <2>3. \A j \in 1..k - 1 : queue[Main][j].op = "wait" => queue[Main][j].value < v \/ queue[Main][j].gen # g
    <3>1. TAKE j \in 1..k - 1
    <3>2. j \in 1..Len(queue[Main]) /\ j < k
      BY <1>3
    <3>3. QED
      BY <2>2, <3>2 DEF Sendable
  <2>4. k \in DOMAIN queue[Main] /\ v >= v
    BY <1>3, <1>4
  <2>5. QED
    BY <1>2, <2>1, <2>3, <2>4 DEF SignalAhead
<1>8. QED
  BY <1>4, <1>6, <1>7 DEF Signalled, g, v

-----------------------------------------------------------------------------
(* The model's lists, where the host stays with lists that the pipeline    *)
(* can record on.                                                          *)

\* A list with the model on it is opened only where there is no job.
LEMMA ModelOpened ==
  ASSUME BInv, ListsChange = FALSE, [BNext]_bvars, open' # NoEntry, open'.model
  PROVE  open' = open \/ Gone
<1>1. BTypeOK /\ Control
  BY DEF BInv
<1>2. CASE HostEvaluate
  BY <1>1, <1>2 DEF HostEvaluate, Control
<1>3. CASE Build
  BY <1>1, <1>3 DEF Build, Control
<1>4. CASE NoKick \/ \E pack \in BOOLEAN : KickListFails(pack) \/ KickFails(pack)
  <2>1. FrameEnds /\ pc = "kick"
    BY <1>1, <1>4, EndEffect DEF NoKick, KickListFails, KickFails
  <2>2. open' = rec /\ ~rec.model
    BY <1>1, <2>1 DEF FrameEnds, Control, RecFits
  <2>3. QED
    BY <2>2
<1>5. CASE \E declined \in BOOLEAN : Kick(declined)
  BY <1>1, <1>5, KickEffect DEF Kicked
<1>6. CASE \/ \E hostReset \in BOOLEAN : Evaluate(hostReset)
           \/ Submit \/ ChangeMode \/ Retire \/ SettleDrain \/ SettleWait \/ Settled \/ Ensure
           \/ StartSync \/ QueueCap \/ CapWait \/ Adopt \/ Gpu \/ UNCHANGED bvars
  BY <1>6 DEF Evaluate, Submit, ChangeMode, Retire, SettleDrain, SettleWait, Settled, Ensure, StartSync, QueueCap,
              CapWait, Adopt, Gpu, HostQueueRuns, PassStarts, PassEnds, bvars
<1>7. QED
  BY <1>2, <1>3, <1>4, <1>5, <1>6 DEF BNext, Thread

\* A job that is not in its first wait was there before, or has just come out of that wait.
LEMMA JobWas ==
  ASSUME BInv, [BNext]_bvars, job' # NoJob, pc' # "sync"
  PROVE  ~Gone /\ (pc = "sync" => queue'[Main] = <<>> /\ Len(queue'[Main]) = 0 /\ open' = NoEntry)
<1>1. ~Gone
  BY JobSteps DEF Built, Kicked
<1>2. ASSUME pc = "sync"
      PROVE  queue'[Main] = <<>> /\ open' = NoEntry
  <2>1. Drained /\ UNCHANGED <<queue, open, queues>>
    BY <1>2, SyncLeaves
  <2>2. Main \in queues /\ open = NoEntry
    BY <1>2 DEF BInv, BTypeOK, HostTypes, Control, Pipeline
  <2>3. QED
    BY <2>1, <2>2 DEF Drained
<1>3. QED
  BY <1>1, <1>2

\* An entry of the host's queue was there before, or is the list that was open.
LEMMA MainEntries ==
  ASSUME BInv, [BNext]_bvars, NEW k \in 1..Len(queue'[Main]), queue'[Main][k].op = "list"
  PROVE  \/ \E i \in 1..Len(queue[Main]) : queue'[Main][k] = queue[Main][i]
         \/ open # NoEntry /\ queue'[Main][k] = open
<1>1. BTypeOK /\ Passes /\ Control
  BY DEF BInv
<1>2. CASE Grows
  <2>1. \/ k \in 1..Len(queue[Main]) /\ queue'[Main][k] = queue[Main][k]
        \/ queue'[Main][k] \in Entry /\ Entered(Main, queue'[Main][k])
    BY <1>2, GrownQueue, OtherQueue
  <2>2. QED
    BY <2>1, EntriesMade DEF Entered
<1>3. ASSUME NEW q \in Queues, Runs(q)
      PROVE  \E i \in 1..Len(queue[Main]) : queue'[Main][k] = queue[Main][i]
  <2>1. CASE q = Main
    BY <1>3, <2>1, RunQueue
  <2>2. CASE q # Main
    BY <1>3, <2>2, OtherQueue DEF Runs
  <2>3. QED
    BY <2>1, <2>2
<1>4. QED
  BY <1>1, <1>2, <1>3, StepShape

\* Where a list with the model stands, the host's queue has awaited every pass.
LEMMA ModelListsAwait ==
  ASSUME BInv, [BNext]_bvars, ModelLists, ~Kicked, NEW g \in Gens,
         open # NoEntry /\ open.model => Awaited(g, stand[g].last),
         NEW k \in 1..Len(queue'[Main]), queue'[Main][k].op = "list", queue'[Main][k].model
  PROVE  Waited(queue'[Main], k, g, stand'[g].last, stand'[g])
<1>1. BTypeOK /\ Passes /\ Control /\ Main \in queues
  BY DEF BInv, BTypeOK, HostTypes
<1>2. stand'[g].last = stand[g].last /\ stand[g].last \in Nat
  BY LastKept, LastGrows
<1> DEFINE v == stand[g].last
<1>3. v \in Nat
  BY <1>2
<1>4. CASE Grows
  <2>1. /\ queue[Main] \in Seq(Entry) /\ queue'[Main] \in Seq(Entry) /\ Extends(queue'[Main], queue[Main])
        /\ stand[g] \in Standings /\ stand'[g] \in Standings /\ Later(stand'[g], stand[g])
        /\ Len(queue[Main]) \in Nat
    BY <1>4, GrownQueue, OtherQueue DEF Grows
  <2>2. ASSUME NEW n \in Nat, n = k, Waited(queue[Main], n, g, v, stand[g])
        PROVE  Waited(queue'[Main], k, g, v, stand'[g])
    <3> DEFINE s == queue[Main]
               t == queue'[Main]
               st == stand[g]
               st2 == stand'[g]
    <3>1. /\ s \in Seq(Entry) /\ t \in Seq(Entry) /\ Extends(t, s) /\ st \in Standings /\ st2 \in Standings
          /\ Later(st2, st) /\ Waited(s, n, g, v, st)
      BY <2>1, <2>2
    <3> HIDE DEF s, t, st, st2, v
    <3>2. Waited(t, n, g, v, st2)
      BY <1>3, <3>1, WaitedLater
    <3>3. QED
      BY <2>2, <3>2 DEF t, st2
  <2>3. CASE k \in 1..Len(queue[Main]) /\ queue'[Main][k] = queue[Main][k]
    <3>1. Waited(queue[Main], k, g, v, stand[g]) /\ k \in Nat
      BY <2>3 DEF ModelLists
    <3>2. QED
      BY <1>2, <2>2, <3>1
  <2>4. CASE k = Len(queue[Main]) + 1 /\ queue'[Main][k] \in Entry /\ Entered(Main, queue'[Main][k])
    <3>1. open # NoEntry /\ open.model
      BY <2>4, EntriesMade DEF Entered
    <3>2. Waited(queue[Main], Len(queue[Main]) + 1, g, v, stand[g])
      BY <1>1, <3>1 DEF Awaited
    <3>3. k \in Nat
      OBVIOUS
    <3>4. QED
      BY <1>2, <2>2, <2>4, <3>2, <3>3
  <2>5. QED
    BY <1>4, <2>3, <2>4, GrownQueue, OtherQueue
<1>5. ASSUME NEW q \in Queues, Runs(q)
      PROVE  Waited(queue'[Main], k, g, v, stand'[g])
  <2>1. stand[g] \in Standings /\ stand'[g] = Ran(queue[q][1], g, stand[g]) /\ queue[q][1] \in Entry
    BY <1>5 DEF Runs
  <2>2. CASE q = Main
    <3> DEFINE s == queue[Main]
               st == stand[g]
    <3>1. /\ s \in Seq(Entry) /\ s # <<>> /\ queue'[Main] = Tail(s) /\ k \in Nat \ {0} /\ k + 1 \in 1..Len(s)
          /\ queue'[Main][k] = s[k + 1]
      BY <1>5, <2>2, RunQueue
    <3>2. Waited(s, k + 1, g, v, st)
      BY <3>1 DEF ModelLists
    <3>3. s[1] = Wait(g, v) => st.done >= v
      <4>1. Wait(g, v).op = "wait" /\ Wait(g, v).gen = g /\ Wait(g, v).value = v
        BY DEF Wait
      <4>2. QED
        BY <1>5, <2>2, <4>1 DEF Runs
    <3>4. st \in Standings /\ stand'[g] = Ran(s[1], g, st)
      BY <2>1, <2>2
    <3> HIDE DEF s, st, v
    <3>5. Waited(Tail(s), k, g, v, Ran(s[1], g, st))
      BY <1>3, <3>1, <3>2, <3>3, <3>4, WaitedRuns
    <3>6. QED
      BY <3>1, <3>4, <3>5
  <2>3. CASE q # Main
    <3>1. queue'[Main] = queue[Main]
      BY <1>5, <2>3, OtherQueue DEF Runs
    <3>2. stand'[g].done = stand[g].done
      BY <2>1, RanFields
    <3>3. Waited(queue[Main], k, g, v, stand[g])
      BY <3>1 DEF ModelLists
    <3>4. QED
      BY <3>1, <3>2, <3>3 DEF Waited
  <2>4. QED
    BY <2>2, <2>3
<1>6. QED
  BY <1>1, <1>2, <1>4, <1>5, StepShape

LEMMA ModelListsStay ==
  ASSUME BInv, ListsChange = FALSE, ModelLists, [BNext]_bvars
  PROVE  ModelLists'
<1>1. BTypeOK /\ Control /\ OneAtWork
  BY DEF BInv
<1>2. ASSUME job' # NoJob, pc' # "sync"
      PROVE  /\ open' # NoEntry => ~open'.model
             /\ \A k \in 1..Len(queue'[Main]) : queue'[Main][k].op = "list" => ~queue'[Main][k].model
  <2>1. ~Gone /\ (pc = "sync" => Len(queue'[Main]) = 0 /\ open' = NoEntry)
    BY <1>2, JobWas
  <2>2. CASE pc = "sync"
    BY <2>1, <2>2
  <2>3. CASE pc # "sync"
    <3>1. /\ open # NoEntry => ~open.model
          /\ \A k \in 1..Len(queue[Main]) : queue[Main][k].op = "list" => ~queue[Main][k].model
      BY <2>1, <2>3 DEF ModelLists
    <3>2. open' # NoEntry => ~open'.model
      BY <2>1, <3>1, ModelOpened
    <3>3. QED
      BY <3>1, <3>2, MainEntries
  <2>4. QED
    BY <2>2, <2>3
<1>3. CASE Kicked
  <2>1. ~Gone /\ pc = "kick" /\ queue' = queue /\ ~open'.model
    BY <1>3 DEF Kicked
  <2>2. \A k \in 1..Len(queue[Main]) : queue[Main][k].op = "list" => ~queue[Main][k].model
    BY <2>1 DEF ModelLists
  <2>3. QED
    BY <1>2, <2>1, <2>2 DEF ModelLists, Gone
<1>4. CASE ~Kicked
  <2>1. ASSUME NEW g \in Gens, open' # NoEntry, open'.model
        PROVE  \A q \in queues' : Waited(queue'[q], Len(queue'[q]) + 1, g, stand'[g].last, stand'[g])
    <3>1. Awaited(g, stand[g].last)
      BY <1>1, <2>1, ModelOpened DEF ModelLists, OneAtWork
    <3>2. stand'[g].last = stand[g].last /\ stand[g].last \in Nat
      BY <1>4, LastKept, LastGrows
    <3>3. QED
      BY <3>1, <3>2, AwaitedStays
  <2>2. ASSUME NEW g \in Gens, NEW k \in 1..Len(queue'[Main]), queue'[Main][k].op = "list", queue'[Main][k].model
        PROVE  Waited(queue'[Main], k, g, stand'[g].last, stand'[g])
    <3>1. open # NoEntry /\ open.model => Awaited(g, stand[g].last)
      BY DEF ModelLists
    <3>2. QED
      BY <1>4, <2>2, <3>1, ModelListsAwait
  <2>3. QED
    BY <1>2, <2>1, <2>2 DEF ModelLists, Awaited, Gone
<1>5. QED
  BY <1>3, <1>4

\* The passes of two jobs never run at once, whatever the lists do.
LEMMA PassesAlone ==
  ASSUME BInv, NEW g \in Gens, running[g]
  PROVE  bg[g] # <<>> /\ \A h \in Gens : running[h] => g = h
<1>1. \A h \in Gens : running[h] => bg[h] # <<>>
  BY DEF BInv, Passes, PassesOf
<1>2. QED
  BY <1>1 DEF BInv, OneAtWork

LEMMA ModelRunsAlone ==
  BInv /\ ModelLists => ModelAlone
<1>1. SUFFICES ASSUME BInv, ModelLists PROVE ModelAlone
  OBVIOUS
<1>2. ASSUME NEW e \in ListsNow, e.model, NEW g \in Gens, running[g]
      PROVE  FALSE
  <2>1. e = queue[Main][1] /\ 1 \in 1..Len(queue[Main]) /\ e.op = "list"
    BY <1>1, <1>2, ListsFirst
  <2>2. Waited(queue[Main], 1, g, stand[g].last, stand[g])
    BY <1>1, <1>2, <2>1 DEF ModelLists
  <2>3. stand[g].done >= stand[g].last
    BY <2>2 DEF Waited
  <2>4. stand[g].done = fModel[g] /\ stand[g].last = fModel[g] + Len(bg[g]) /\ fModel[g] \in Nat /\ Len(bg[g]) \in Nat
    BY <1>1, StandNow DEF BInv, BTypeOK
  <2>5. Len(bg[g]) > 0
    BY <1>1, <1>2 DEF BInv, Passes, PassesOf
  <2>6. QED
    BY <2>3, <2>4, <2>5
<1>3. QED
  BY <1>1, <1>2, PassesAlone DEF ModelAlone

-----------------------------------------------------------------------------
(* The marks between the host's lists.                                     *)

LEMMA MarkedLater ==
  ASSUME NEW s \in Seq(Entry), NEW t \in Seq(Entry), Extends(t, s), NEW i \in 1..Len(s), MarkedAt(s, i)
  PROVE  MarkedAt(t, i)
<1>1. PICK m \in 1..Len(s) : i < m /\ s[m].op = "mark" /\ \A j \in i + 1..m - 1 : s[j].op # "list"
  BY DEF MarkedAt
<1>2. m \in 1..Len(t) /\ t[m] = s[m] /\ \A j \in i + 1..m - 1 : j \in 1..Len(s) /\ t[j] = s[j]
  BY <1>1 DEF Extends
<1>3. QED
  BY <1>1, <1>2 DEF MarkedAt

LEMMA MarkedRuns ==
  ASSUME NEW s \in Seq(Entry), s # <<>>, NEW i \in 1..Len(Tail(s))
  PROVE  /\ MarkedAt(s, i + 1) => MarkedAt(Tail(s), i)
         /\ LastList(s, i + 1) => LastList(Tail(s), i)
<1>1. /\ Len(s) \in Nat /\ Len(Tail(s)) = Len(s) - 1
      /\ \A j \in 1..Len(s) - 1 : Tail(s)[j] = s[j + 1]
  BY Removed
<1>2. ASSUME NEW m \in 1..Len(s), i + 1 < m, s[m].op = "mark", \A j \in i + 2..m - 1 : s[j].op # "list"
      PROVE  MarkedAt(Tail(s), i)
  <2>1. m - 1 \in 1..Len(Tail(s)) /\ i < m - 1 /\ Tail(s)[m - 1] = s[m]
    BY <1>1, <1>2
  <2>2. \A j \in i + 1..(m - 1) - 1 : Tail(s)[j].op # "list"
    <3>1. TAKE j \in i + 1..(m - 1) - 1
    <3>2. j + 1 \in i + 2..m - 1 /\ Tail(s)[j] = s[j + 1]
      BY <1>1
    <3>3. QED
      BY <1>2, <3>2
  <2>3. QED
    BY <1>2, <2>1, <2>2 DEF MarkedAt
<1>3. ASSUME LastList(s, i + 1)
      PROVE  LastList(Tail(s), i)
  <2>1. \A j \in i + 1..Len(Tail(s)) : Tail(s)[j].op # "list"
    <3>1. TAKE j \in i + 1..Len(Tail(s))
    <3>2. j + 1 \in (i + 1) + 1..Len(s) /\ Tail(s)[j] = s[j + 1]
      BY <1>1
    <3>3. QED
      BY <1>3, <3>2 DEF LastList
  <2>2. QED
    BY <2>1 DEF LastList
<1>4. (i + 1) + 1 = i + 2
  OBVIOUS
<1>5. QED
  BY <1>2, <1>3, <1>4 DEF MarkedAt

MarksIn(s) == {i \in DOMAIN s : s[i].op = "mark"}
ListsIn(s) == {i \in DOMAIN s : s[i].op = "list"}

LEMMA MarksFinite ==
  ASSUME NEW s \in Seq(Entry)
  PROVE  IsFiniteSet(MarksIn(s)) /\ IsFiniteSet(ListsIn(s)) /\ Cardinality(MarksIn(s)) \in Nat
         /\ Cardinality(ListsIn(s)) \in Nat
<1>1. IsFiniteSet(1..Len(s)) /\ DOMAIN s = 1..Len(s)
  BY FS_Interval
<1>2. MarksIn(s) \in SUBSET (1..Len(s)) /\ ListsIn(s) \in SUBSET (1..Len(s))
  BY <1>1 DEF MarksIn, ListsIn
<1>3. QED
  BY <1>1, <1>2, FS_Subset, FS_CardinalityType

\* A queue that runs has no more marks.
LEMMA MarksRun ==
  ASSUME NEW s \in Seq(Entry), s # <<>>
  PROVE  Cardinality(MarksIn(Tail(s))) <= Cardinality(MarksIn(s))
<1>1. /\ Tail(s) \in Seq(Entry) /\ Len(s) \in Nat /\ Len(Tail(s)) = Len(s) - 1
      /\ \A j \in 1..Len(s) - 1 : Tail(s)[j] = s[j + 1]
  BY Removed
<1>2. DOMAIN Tail(s) = 1..Len(s) - 1 /\ DOMAIN s = 1..Len(s)
  BY <1>1
<1> DEFINE f == [i \in MarksIn(Tail(s)) |-> i + 1]
<1>3. \A i \in MarksIn(Tail(s)) : i \in Nat /\ i + 1 \in MarksIn(s)
  BY <1>1, <1>2 DEF MarksIn
<1>4. f \in Injection(MarksIn(Tail(s)), MarksIn(s))
  <2>1. f \in [MarksIn(Tail(s)) -> MarksIn(s)]
    BY <1>3
  <2>2. \A i, j \in MarksIn(Tail(s)) : f[i] = f[j] => i = j
    BY <1>3
  <2>3. QED
    BY <2>1, <2>2 DEF Injection, IsInjective
<1>5. QED
  BY <1>4, MarksFinite, FS_Injection

\* No more lists than marks, where each list has a mark of its own.
LEMMA ListsMarked ==
  ASSUME NEW s \in Seq(Entry), \A i \in ListsIn(s) : MarkedAt(s, i)
  PROVE  Cardinality(ListsIn(s)) <= Cardinality(MarksIn(s))
<1>1. DOMAIN s = 1..Len(s) /\ Len(s) \in Nat
  OBVIOUS
<1> DEFINE Own(i, m) == m \in 1..Len(s) /\ i < m /\ s[m].op = "mark" /\ \A j \in i + 1..m - 1 : s[j].op # "list"
           f == [i \in ListsIn(s) |-> CHOOSE m : Own(i, m)]
<1>2. \A i \in ListsIn(s) : Own(i, f[i])
  <2>1. TAKE i \in ListsIn(s)
  <2>2. \E m : Own(i, m)
    BY DEF MarkedAt
  <2>3. QED
    BY <2>2
<1> HIDE DEF f
<1>3. \A i \in ListsIn(s) : f[i] \in MarksIn(s)
  BY <1>1, <1>2 DEF MarksIn
<1>4. ASSUME NEW i \in ListsIn(s), NEW k \in ListsIn(s), f[i] = f[k], i < k
      PROVE  FALSE
  <2>1. i \in Nat /\ k \in Nat /\ s[k].op = "list" /\ f[i] \in Nat
    BY <1>1, <1>2 DEF ListsIn
  <2>2. k < f[k] /\ k \in i + 1..f[i] - 1
    BY <1>2, <1>4, <2>1
  <2>3. QED
    BY <1>2, <2>1, <2>2
<1>5. f \in Injection(ListsIn(s), MarksIn(s))
  <2>1. f \in [ListsIn(s) -> MarksIn(s)]
    BY <1>3 DEF f
  <2>2. \A i, k \in ListsIn(s) : f[i] = f[k] => i = k
    <3>1. \A i \in ListsIn(s) : i \in Nat
      BY <1>1 DEF ListsIn
    <3>2. SUFFICES ASSUME NEW i \in ListsIn(s), NEW k \in ListsIn(s), f[i] = f[k], i # k PROVE FALSE
      OBVIOUS
    <3>3. i < k \/ k < i
      BY <3>1, <3>2
    <3>4. QED
      BY <1>4, <3>2, <3>3
  <2>3. QED
    BY <2>1, <2>2 DEF Injection, IsInjective
<1>6. QED
  BY <1>5, MarksFinite, FS_Injection

\* A list that has no mark behind it gets one before another list is put behind it.
LEMMA LastUntilMarked ==
  ASSUME BInv, ListsChange = FALSE, [BNext]_bvars, ~Gone, open = NoEntry,
         pc \notin {"sync", "capped", "adopt", "kick"}
  PROVE  CapStep \/ (open' = NoEntry /\ pc' \notin {"capped", "adopt", "kick"})
<1>1. BTypeOK /\ Control
  BY DEF BInv
<1>2. pc \notin {"build", "direct"} /\ (pc = "host" => mode # "host") /\ after \notin {"capped", "adopt", "kick"}
  BY <1>1 DEF Control, BTypeOK, ThreadTypes
<1>3. CASE QueueCap
  <2>1. queues \in SUBSET Queues /\ Mark \in Entry
    BY <1>1, EntriesMade DEF BTypeOK, HostTypes, Queues
  <2>2. Put(queues, Mark)
    BY <1>1, <1>3, <2>1, PutOn DEF QueueCap, Put, BTypeOK
  <2>3. QED
    BY <1>3, <2>2 DEF QueueCap, CapStep, hostvars
<1>4. CASE HostEvaluate \/ Build \/ StartSync \/ CapWait \/ Adopt \/ NoKick
  BY <1>2, <1>4 DEF HostEvaluate, Build, StartSync, CapWait, Adopt, NoKick
<1>5. CASE \/ \E pack \in BOOLEAN : KickListFails(pack) \/ KickFails(pack)
           \/ \E declined \in BOOLEAN : Kick(declined)
  BY <1>5 DEF KickListFails, KickFails, Kick
<1>6. CASE \E hostReset \in BOOLEAN : Evaluate(hostReset)
  BY <1>6 DEF Evaluate
<1>7. CASE Submit \/ SettleDrain \/ SettleWait \/ Settled \/ Gpu \/ UNCHANGED bvars
  BY <1>2, <1>7 DEF Submit, SettleDrain, SettleWait, Settled, Gpu, HostQueueRuns, PassStarts, PassEnds, bvars
<1>8. CASE ChangeMode \/ Retire
  BY <1>8 DEF ChangeMode, Retire, Bury
<1>9. CASE Ensure
  BY <1>9 DEF Ensure, Bury
<1>10. QED
  BY <1>3, <1>4, <1>5, <1>6, <1>7, <1>8, <1>9 DEF BNext, Thread

\* What a step that is not the GPU's puts on the host's queue.
LEMMA MainGrows ==
  ASSUME BInv, [BNext]_bvars, queue'[Main] # queue[Main]
  PROVE  \/ \E q \in Queues : Runs(q)
         \/ SubmitStep /\ queue'[Main] = Append(queue[Main], open)
         \/ \E e \in Entry : e.op # "list" /\ queue'[Main] = Append(queue[Main], e)
<1>1. BTypeOK /\ Control /\ Passes /\ Main \in Queues /\ Main \in queues
  BY OtherQueue DEF BInv, BTypeOK, HostTypes
<1>2. CASE Sends
  <2> DEFINE e == Signal(job.gen, job.jobId)
  <2>1. e \in Entry /\ e.op = "signal"
    BY <1>1, <1>2, JobIs, EntriesMade DEF Sends, Control, BTypeOK
  <2>2. queue'[Main] = queue[Main] \/ queue'[Main] = Append(queue[Main], e)
    BY <1>1, <1>2 DEF Sends, Put
  <2>3. QED
    BY <2>1, <2>2
<1>3. CASE AdoptStep
  <2>1. Overdue /\ Put(queues, Wait(job.gen, job.jobId)) /\ ~Gone
    BY <1>3 DEF AdoptStep, Adopts, SameJob
  <2> DEFINE e == Wait(job.gen, job.jobId)
  <2>2. e \in Entry /\ e.op = "wait"
    BY <1>1, <2>1, JobIs, EntriesMade DEF Overdue, Control, BTypeOK
  <2>3. queue'[Main] = Append(queue[Main], e)
    BY <1>1, <2>1 DEF Put
  <2>4. QED
    BY <2>2, <2>3
<1>4. CASE CapStep
  BY <1>1, <1>4, EntriesMade DEF CapStep, Put
<1>5. CASE SubmitStep
  BY <1>1, <1>5 DEF SubmitStep, Submits, Put
<1>6. CASE \E q \in Queues : HostQueueRuns(q)
  BY <1>1, <1>6, RunsEffect
<1>7. CASE UNCHANGED queue
  BY <1>7
<1>8. QED
  BY <1>1, <1>2, <1>3, <1>4, <1>5, <1>6, <1>7, NextKinds DEF Kinds, SendStep, IdleStep, Kicked, PassStarts, PassEnds

\* The lists of a job's frames stay apart by marks.
LEMMA ListsStaySpaced ==
  ASSUME BInv, ListsChange = FALSE, Spaced, [BNext]_bvars, ~Gone, pc # "sync",
         NEW i \in 1..Len(queue'[Main]), queue'[Main][i].op = "list"
  PROVE  \/ MarkedAt(queue'[Main], i)
         \/ pc' \notin {"capped", "adopt", "kick"} /\ open' = NoEntry /\ LastList(queue'[Main], i)
<1>1. BTypeOK /\ Control /\ Passes /\ Main \in Queues /\ Main \in queues /\ queue[Main] \in Seq(Entry)
  BY OtherQueue DEF BInv, BTypeOK, HostTypes, QueueTypes
<1> DEFINE s == queue[Main]
<1>2. \A k \in 1..Len(s) : s[k].op = "list" =>
        \/ MarkedAt(s, k)
        \/ pc \notin {"capped", "adopt", "kick"} /\ open = NoEntry /\ LastList(s, k)
  BY DEF Spaced
<1>3. s \in Seq(Entry) /\ Len(s) \in Nat
  BY <1>1
\* What happens to a list that has no mark, when nothing or no list is put behind it.
<1>4. ASSUME NEW t \in Seq(Entry), queue'[Main] = t, NEW k \in 1..Len(s), k = i, s[k].op = "list", Extends(t, s),
             \A j \in Len(s) + 1..Len(t) : t[j].op # "list", CapStep => \E j \in Len(s) + 1..Len(t) : t[j].op = "mark"
      PROVE  \/ MarkedAt(t, i)
             \/ pc' \notin {"capped", "adopt", "kick"} /\ open' = NoEntry /\ LastList(t, i)
  <2>1. CASE MarkedAt(s, k)
    BY <1>3, <1>4, <2>1, MarkedLater
  <2>2. CASE pc \notin {"capped", "adopt", "kick"} /\ open = NoEntry /\ LastList(s, k)
    <3>1. \A j \in i + 1..Len(t) : t[j].op # "list"
      <4>1. TAKE j \in i + 1..Len(t)
      <4>2. (j \in k + 1..Len(s) /\ j \in 1..Len(s)) \/ j \in Len(s) + 1..Len(t)
        BY <1>3, <1>4
      <4>3. QED
        BY <1>4, <2>2, <4>2 DEF LastList, Extends
    <3>2. CASE CapStep
      <4>1. PICK m \in Len(s) + 1..Len(t) : t[m].op = "mark"
        BY <1>4, <3>2
      <4>2. m \in 1..Len(t) /\ i < m /\ \A j \in i + 1..m - 1 : j \in i + 1..Len(t)
        BY <1>3, <1>4, <4>1
      <4>3. QED
        BY <3>1, <4>1, <4>2 DEF MarkedAt
    <3>3. CASE open' = NoEntry /\ pc' \notin {"capped", "adopt", "kick"}
      BY <3>1, <3>3 DEF LastList
    <3>4. QED
      BY <2>2, <3>2, <3>3, LastUntilMarked
  <2>3. QED
    BY <1>2, <1>4, <2>1, <2>2
<1>5. CASE queue'[Main] = queue[Main]
  <2>1. ~CapStep
    <3>1. ASSUME CapStep PROVE FALSE
      <4>1. s = Append(s, Mark) /\ Mark \in Entry
        BY <1>1, <1>5, <3>1, EntriesMade DEF CapStep, Put
      <4>2. Len(Append(s, Mark)) = Len(s) + 1
        BY <1>3, <4>1, Appended
      <4>3. QED
        BY <1>3, <4>1, <4>2
    <3>2. QED
      BY <3>1
  <2>2. Extends(s, s) /\ \A j \in Len(s) + 1..Len(s) : FALSE
    BY <1>3 DEF Extends
  <2>3. QED
    BY <1>3, <1>4, <1>5, <2>1, <2>2
<1>6. ASSUME NEW q \in Queues, Runs(q)
      PROVE  \/ MarkedAt(queue'[Main], i)
             \/ pc' \notin {"capped", "adopt", "kick"} /\ open' = NoEntry /\ LastList(queue'[Main], i)
  <2>1. CASE q = Main
    <3>1. /\ s # <<>> /\ queue'[Main] = Tail(s) /\ i + 1 \in 1..Len(s) /\ queue'[Main][i] = s[i + 1]
      BY <1>6, <2>1, RunQueue
    <3>2. pc' = pc /\ open' = open
      BY <1>6 DEF Runs
    <3>3. \/ MarkedAt(s, i + 1)
          \/ pc \notin {"capped", "adopt", "kick"} /\ open = NoEntry /\ LastList(s, i + 1)
      BY <1>2, <3>1
    <3>4. i \in 1..Len(Tail(s))
      BY <3>1
    <3> HIDE DEF s
    <3>5. QED
      BY <1>3, <3>1, <3>2, <3>3, <3>4, MarkedRuns
  <2>2. CASE q # Main
    BY <1>1, <1>5, <1>6, <2>2 DEF Runs
  <2>3. QED
    BY <2>1, <2>2
<1>7. CASE SubmitStep /\ queue'[Main] = Append(queue[Main], open)
  <2>1. open \in ListE /\ open # NoEntry /\ open \in Entry /\ pc = "host" /\ open' = NoEntry
    BY <1>7, ListMade DEF SubmitStep, Submits
  <2>2. Len(queue'[Main]) = Len(s) + 1 /\ Extends(queue'[Main], s) /\ queue'[Main] \in Seq(Entry)
    BY <1>3, <1>7, <2>1, Appended DEF Extends
  <2>3. CASE i \in 1..Len(s)
    <3>1. MarkedAt(s, i)
      BY <1>2, <2>1, <2>2, <2>3 DEF Extends
    <3>2. QED
      BY <1>3, <2>2, <2>3, <3>1, MarkedLater
  <2>4. CASE i = Len(s) + 1
    <3>1. pc' \notin {"capped", "adopt", "kick"}
      <4>1. CASE Gpu
        BY <2>1, <4>1 DEF Gpu, HostQueueRuns, PassStarts, PassEnds
      <4>2. CASE Thread
        BY <2>1, <4>2 DEF Thread, SettleDrain, SettleWait, Settled, Ensure, Build, StartSync, QueueCap, CapWait, Adopt,
                          NoKick, Kick, KickListFails, KickFails
      <4>3. CASE \/ \E hostReset \in BOOLEAN : Evaluate(hostReset)
                 \/ HostEvaluate \/ Submit
        BY <2>1, <4>3 DEF Evaluate, HostEvaluate, Submit
      <4>4. CASE ChangeMode \/ Retire \/ UNCHANGED bvars
        BY <2>1, <4>4 DEF ChangeMode, Retire, Bury, bvars
      <4>5. QED
        BY <4>1, <4>2, <4>3, <4>4 DEF BNext
    <3>2. LastList(queue'[Main], i)
      BY <1>3, <2>2, <2>4 DEF LastList
    <3>3. QED
      BY <2>1, <3>1, <3>2
  <2>5. QED
    BY <1>3, <2>2, <2>3, <2>4
<1>8. ASSUME NEW e \in Entry, e.op # "list", queue'[Main] = Append(queue[Main], e)
      PROVE  \/ MarkedAt(queue'[Main], i)
             \/ pc' \notin {"capped", "adopt", "kick"} /\ open' = NoEntry /\ LastList(queue'[Main], i)
  <2> DEFINE t == Append(s, e)
  <2>1. /\ t \in Seq(Entry) /\ Len(t) = Len(s) + 1 /\ t[Len(s) + 1] = e /\ \A k \in 1..Len(s) : t[k] = s[k]
        /\ queue'[Main] = t
    BY <1>3, <1>8, Appended
  <2>2. CapStep => e.op = "mark"
    <3>1. ASSUME CapStep PROVE e = Mark
      <4>1. Append(s, Mark) = Append(s, e) /\ Mark \in Entry
        BY <1>1, <1>8, <3>1, EntriesMade DEF CapStep, Put
      <4>2. Append(s, Mark)[Len(s) + 1] = Mark
        BY <1>3, <4>1, Appended
      <4>3. QED
        BY <2>1, <4>1, <4>2
    <3>2. QED
      BY <3>1, EntriesMade
  <2> HIDE DEF t, s
  <2>3. Extends(t, s) /\ i \in 1..Len(t)
    BY <1>3, <2>1 DEF Extends
  <2>4. i \in 1..Len(s) /\ s[i].op = "list"
    BY <1>3, <1>8, <2>1, <2>3
  <2>5. \A j \in Len(s) + 1..Len(t) : j = Len(s) + 1 /\ t[j] = e
    BY <1>3, <2>1
  <2>6. CapStep => \E j \in Len(s) + 1..Len(t) : t[j].op = "mark"
    BY <1>3, <2>1, <2>2
  <2>7. \A j \in Len(s) + 1..Len(t) : t[j].op # "list"
    BY <1>8, <2>5
  <2>8. QED
    BY <1>4, <2>1, <2>3, <2>4, <2>6, <2>7
<1>9. QED
  BY <1>5, <1>6, <1>7, <1>8, MainGrows

\* How the thread comes to a frame's list.
LEMMA AdoptComes ==
  ASSUME BInv, [BNext]_bvars, pc' = "adopt"
  PROVE  \/ pc = "adopt" /\ (queue' = queue \/ \E q \in Queues : Runs(q)) /\ queues' = queues
         \/ CapWait
         \/ pc = "sync" /\ Drained /\ UNCHANGED <<queue, queues>>
<1>1. BTypeOK /\ Control /\ Passes /\ after # "adopt"
  BY DEF BInv, BTypeOK, ThreadTypes
<1>2. CASE \E q \in Queues : HostQueueRuns(q)
  BY <1>1, <1>2, RunsEffect DEF Runs
<1>3. CASE \E g \in Gens : PassStarts(g) \/ PassEnds(g)
  BY <1>3 DEF PassStarts, PassEnds, hostvars
<1>4. CASE StartSync
  BY <1>4 DEF StartSync, hostvars
<1>5. CASE \/ \E hostReset \in BOOLEAN : Evaluate(hostReset)
           \/ HostEvaluate \/ Submit \/ SettleDrain \/ SettleWait \/ Settled \/ Build \/ QueueCap \/ Adopt \/ NoKick
  BY <1>1, <1>5 DEF Evaluate, HostEvaluate, Submit, SettleDrain, SettleWait, Settled, Build, QueueCap, Adopt, NoKick, Ends
<1>6. CASE \/ \E pack \in BOOLEAN : KickListFails(pack) \/ KickFails(pack)
           \/ \E declined \in BOOLEAN : Kick(declined)
  BY <1>6 DEF KickListFails, KickFails, Kick, Ends
<1>7. CASE ChangeMode \/ Retire \/ Ensure
  BY <1>7 DEF ChangeMode, Retire, Ensure, Bury
<1>8. CASE UNCHANGED bvars
  BY <1>8 DEF bvars, hostvars
<1>9. QED
  BY <1>2, <1>3, <1>4, <1>5, <1>6, <1>7, <1>8 DEF BNext, Thread, Gpu, Queues

LEMMA SpacedStays ==
  ASSUME BInv, ListsChange = FALSE, Spaced, [BNext]_bvars
  PROVE  Spaced'
<1>1. BTypeOK /\ Main \in Queues /\ queue[Main] \in Seq(Entry) /\ Main \in queues
  BY OtherQueue DEF BInv, BTypeOK, QueueTypes, HostTypes
<1>2. ASSUME job' # NoJob, pc' # "sync", NEW i \in 1..Len(queue'[Main]), queue'[Main][i].op = "list"
      PROVE  \/ MarkedAt(queue'[Main], i)
             \/ pc' \notin {"capped", "adopt", "kick"} /\ open' = NoEntry /\ LastList(queue'[Main], i)
  <2>1. ~Gone /\ pc # "sync"
    BY <1>2, JobWas
  <2>2. QED
    BY <1>2, <2>1, ListsStaySpaced
<1>3. ASSUME pc' = "adopt", queues' = {Main}
      PROVE  Cardinality(MarksIn(queue'[Main])) <= MaxQueue
  <2>1. /\ MaxQueue \in Nat
        /\ pc = "adopt" /\ queues = {Main} => Cardinality(MarksIn(queue[Main])) <= MaxQueue
    BY BackgroundAssumption DEF Spaced, Marks, MarksIn
  <2>2. CASE pc = "adopt" /\ queue' = queue /\ queues' = queues
    BY <1>3, <2>1, <2>2
  <2>3. ASSUME NEW q \in Queues, Runs(q), pc = "adopt"
        PROVE  Cardinality(MarksIn(queue'[Main])) <= MaxQueue
    <3>1. q = Main /\ queues = {Main}
      BY <1>3, <2>3 DEF Runs
    <3>2. queue'[Main] = Tail(queue[Main]) /\ queue[Main] # <<>>
      BY <2>3, <3>1 DEF Runs
    <3>3. Tail(queue[Main]) \in Seq(Entry)
      BY <1>1, <3>2, Removed
    <3> DEFINE a == Cardinality(MarksIn(Tail(queue[Main])))
               b == Cardinality(MarksIn(queue[Main]))
    <3>4. a \in Nat /\ b \in Nat /\ a <= b
      BY <1>1, <3>2, <3>3, MarksFinite, MarksRun
    <3>5. b <= MaxQueue
      BY <2>1, <2>3, <3>1
    <3> HIDE DEF a, b
    <3>6. a <= MaxQueue
      BY <2>1, <3>4, <3>5
    <3>7. QED
      BY <3>2, <3>6 DEF a
  <2>4. CASE CapWait
    <3>1. queues = {Main} /\ queue' = queue /\ Marks(Main) <= MaxQueue
      BY <1>3, <2>4 DEF CapWait, hostvars
    <3>2. QED
      BY <3>1 DEF Marks, MarksIn
  <2>5. CASE pc = "sync" /\ Drained /\ UNCHANGED <<queue, queues>>
    <3>1. queue'[Main] = <<>>
      BY <1>1, <2>5 DEF Drained
    <3>2. MarksIn(queue'[Main]) = {}
      BY <3>1 DEF MarksIn
    <3>3. QED
      BY <2>1, <3>2, FS_EmptySet
  <2>6. QED
    BY <1>3, <2>2, <2>3, <2>4, <2>5, AdoptComes
<1>4. QED
  BY <1>2, <1>3 DEF Spaced, Gone, Marks, MarksIn

LEMMA KeepsCap ==
  BInv /\ Spaced => CapKept
<1>1. SUFFICES ASSUME BInv, Spaced, pc = "adopt", queues = {Main}
               PROVE  Lists(Main) <= MaxQueue
  BY DEF CapKept
<1>2. ~Gone /\ queue[Main] \in Seq(Entry) /\ DOMAIN queue[Main] = 1..Len(queue[Main]) /\ MaxQueue \in Nat
  <2>1. queue[Main] \in Seq(Entry)
    BY <1>1, OtherQueue DEF BInv, BTypeOK, QueueTypes
  <2>2. QED
    BY <1>1, <2>1, BackgroundAssumption DEF BInv, Control
<1>3. \A i \in ListsIn(queue[Main]) : MarkedAt(queue[Main], i)
  BY <1>1, <1>2 DEF Spaced, ListsIn
<1> DEFINE a == Cardinality(ListsIn(queue[Main]))
           b == Cardinality(MarksIn(queue[Main]))
<1>4. a \in Nat /\ b \in Nat /\ a <= b
  BY <1>2, <1>3, MarksFinite, ListsMarked
<1>5. b <= MaxQueue
  BY <1>1 DEF Spaced, Marks, MarksIn
<1> HIDE DEF a, b
<1>6. a <= MaxQueue
  BY <1>2, <1>4, <1>5
<1>7. QED
  BY <1>6 DEF Lists, ListsIn, a

-----------------------------------------------------------------------------
(* The theorems.                                                           *)

\* The types of the job, of what stands on the queues and of the fences.
THEOREM BackgroundTyped ==
  BSpec => []BTypeOK
<1>1. BInv => BTypeOK
  BY DEF BInv
<1>2. QED
  BY Begins, Stays, <1>1, PTL DEF BSpec

\* A pass runs on the inputs its own kick copied (the kick's list, AsyncSignalPending, Wait(fInputs)): the
\* next kick's list is not executed before the pass is over or waited for.
THEOREM InputsStayKept ==
  BSpec => []InputsKept
  BY Begins, Stays, KeepsInputs, PTL DEF BSpec

\* The list that adopts a pass reads its answer and its inputs, which no later kick has overwritten
\* (AsyncBody: adoption, the two answers taken in turn, the wait for an overdue pass).
THEOREM AnswersRead ==
  BSpec => []AnswerRead
  BY Begins, Stays, ReadsAnswer, PTL DEF BSpec

\* The ring of allocators: AsyncBody waits for the pass that used an allocator before it resets it.
THEOREM AllocatorsApart ==
  BSpec => []SlotsApart3
<1>1. BInv => SlotsApart3
  BY DEF BInv, SlotsKept
<1>2. QED
  BY Begins, Stays, <1>1, PTL DEF BSpec

\* Where a host queue waits for a pass, the signal for its inputs has been given or stands ahead of every
\* wait for that pass on its queue: a forced wait never hangs on a list the host has not submitted.
THEOREM WaitsAreServed ==
  BSpec => []WaitsServed
  BY Begins, Stays, ServesWaits, PTL DEF BSpec

LEMMA ListsBegin ==
  BInit => BInv /\ ModelLists /\ Spaced
<1>1. SUFFICES ASSUME BInit PROVE ModelLists /\ Spaced
  BY Begins
<1>2. Gone /\ open = NoEntry /\ pc = "host" /\ queue[Main] = <<>>
  BY <1>1 DEF BInit, Gone
<1>3. Len(queue[Main]) = 0
  BY <1>2
<1>4. QED
  BY <1>2, <1>3 DEF ModelLists, Spaced

\* The model never runs in two jobs' passes, nor in a pass beside a list of the host's, whatever the
\* settings do: Settle waits, and StartSync waits for the host's queues. This rests on a host that does
\* not turn to COMPUTE lists in mode 3.
THEOREM ModelStaysAlone ==
  ASSUME ListsChange = FALSE
  PROVE  BSpec => []ModelAlone
<1>1. BInv /\ ModelLists /\ [BNext]_bvars => BInv' /\ ModelLists'
  BY ModelListsStay, Stays
<1>2. QED
  BY ListsBegin, ModelRunsAlone, <1>1, PTL DEF BSpec

\* AsyncQueueCap holds the host to MaxQueue unfinished frames: each of its lists has a mark of its own
\* behind it, and the wait counts marks.
THEOREM CapStaysKept ==
  ASSUME ListsChange = FALSE
  PROVE  BSpec => []CapKept
<1>1. BInv /\ Spaced /\ [BNext]_bvars => BInv' /\ Spaced'
  BY SpacedStays, Stays
<1>2. QED
  BY ListsBegin, KeepsCap, <1>1, PTL DEF BSpec
=============================================================================

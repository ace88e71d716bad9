---------------------------- MODULE BackgroundJob ----------------------------
(***************************************************************************)
(* core/temporal/async_scheduler.{h,cpp}, async_host_sync.cpp and          *)
(* async_entry.cpp: temporal mode 3, the model on a queue of its own.      *)
(*                                                                         *)
(* An evaluate may kick a pass: its list copies the inputs, the background *)
(* queue waits for fInputs, runs the model into one of two answers and     *)
(* signals fModel. A later evaluate finds the pass finished (or makes the  *)
(* host's queues wait for it) and its list reads the copies and the answer.*)
(* Nothing else orders the two queues. The host submits an evaluate's list *)
(* before its next evaluate; the GPU takes its time over everything.       *)
(***************************************************************************)
EXTENDS Naturals, Sequences, FiniteSets

CONSTANTS
  Main, Other,     \* the queue the host submits to, and one it leaves idle
  Slots,           \* AsyncJob::kSlots
  Every, MaxAge, MaxQueue,   \* the settings of mode 3
  MaxJobs, MaxGens,   \* bounds: passes of the first job object; job objects
  MaxSettings,    \* bound: changes of the mode
  HostFrames,      \* bound: the host's frames in flight (its swap chain)
  ListsChange      \* may the host turn to COMPUTE lists (or lose its queues) in mode 3?

ASSUME BackgroundAssumption ==
  /\ Main # Other /\ ListsChange \in BOOLEAN
  /\ Slots \in Nat \ {0} /\ Every \in Nat \ {0} /\ MaxAge \in Nat \ {0} /\ MaxQueue \in Nat \ {0}
  /\ MaxJobs \in Nat /\ MaxGens \in Nat /\ MaxSettings \in Nat /\ HostFrames \in Nat \ {0}

VARIABLES
  queues,     \* the registered graphics queues
  observed,   \* does the shell report the host's submissions?
  mode,       \* "background", "host": where this feature's model runs
  modeChanges,   \* changes of the mode so far
  pc,         \* what the thread that holds the core's mutex does next
  after,      \* what a bury is followed by
  reset,      \* this evaluate's host reset
  job,        \* st.async, or NoJob
  made,       \* job objects built so far
  rec,        \* the host's list of this evaluate, while it is recorded
  open,       \* the same list before the host submits it
  queue,      \* [queue -> entries the GPU has not come to the end of]
  bg,         \* [job object -> its queue's passes that have not finished]
  running,    \* [job object -> has the GPU started the first of them?]
  fInputs, fModel,   \* [job object -> the fence's completed value]
  copies,     \* [job object -> the kick whose inputs the private copies hold]
  answer,     \* [job object -> [index -> the pass whose answer outputBg holds]]
  abandoned   \* [job object -> settled before the host submitted its kick list?]

hostvars == <<queues, observed, mode, modeChanges>>
gpu == <<bg, running, fInputs, fModel, copies, answer>>
bvars == <<hostvars, pc, after, reset, job, made, rec, open, queue, gpu, abandoned>>

Gens == 1..MaxGens
Min2(a, b) == IF a < b THEN a ELSE b
NoJob == [gen |-> 0]
NoEntry == [op |-> "none"]
NewList == [op |-> "list", gen |-> 0, adopt |-> 0, copy |-> 0, out |-> 0, model |-> FALSE]
Signal(g, j) == [op |-> "signal", gen |-> g, value |-> j]
Wait(g, j) == [op |-> "wait", gen |-> g, value |-> j]
Mark == [op |-> "mark"]

OnQueues(S, e) == [q \in {Main, Other} |-> IF q \in S THEN Append(queue[q], e) ELSE queue[q]]
Marks(q) == Cardinality({i \in DOMAIN queue[q] : queue[q][i].op = "mark"})
Lists(q) == Cardinality({i \in DOMAIN queue[q] : queue[q][i].op = "list"})
Drained == \A q \in queues : queue[q] = <<>>

Gone == job = NoJob
Finished(j) == fModel[job.gen] >= j

-----------------------------------------------------------------------------
(* The hand-shake with the host's queue.                                   *)

\* AsyncSignalPending; Settle does the same for a job it retires.
SignalPending ==
  IF Gone \/ ~job.signalPending
  THEN UNCHANGED <<queue, job>>
  ELSE /\ queue' = OnQueues(IF job.submitQueue # Main THEN queues ELSE {Main}, Signal(job.gen, job.jobId))
       /\ job' = [job EXCEPT !.signalPending = FALSE, !.submitQueue = NoEntry]

\* An evaluate in mode 3, up to the entry of AsyncTemporalEvaluate.
Evaluate(hostReset) ==
  /\ pc = "host" /\ mode = "background" /\ open = NoEntry
  /\ Len(queue[Other]) < HostFrames   \* bound
  /\ SignalPending
  /\ pc' = "ensure" /\ reset' = hostReset
  /\ UNCHANGED <<hostvars, after, made, rec, open, gpu, abandoned>>

\* An evaluate of the same feature whose model runs on the host's list.
HostEvaluate ==
  /\ pc = "host" /\ open = NoEntry
  /\ \/ mode = "host"
     \/ ListsChange   \* EffectiveTemporalMode says 1, no warp, so nothing settles the job
  /\ SignalPending
  /\ open' = [NewList EXCEPT !.model = TRUE]
  /\ UNCHANGED <<hostvars, pc, after, reset, made, rec, gpu, abandoned>>

-----------------------------------------------------------------------------
(* BuryAsync: the job is settled and goes to the graveyard.                *)

BuryUnsignalled(next) ==   \* a mutant of Bury: the pass keeps waiting for its inputs
  /\ after' = next
  /\ UNCHANGED <<queue, job, abandoned>>
  /\ pc' = IF ~Gone /\ job.inflight /\ ~Finished(job.jobId) THEN "drain" ELSE "settled"

Bury(next) ==
  /\ after' = next
  /\ SignalPending
  /\ abandoned' = IF ~Gone /\ job.signalPending /\ open # NoEntry
                  THEN [abandoned EXCEPT ![job.gen] = TRUE] ELSE abandoned
  /\ pc' = IF ~Gone /\ job.inflight /\ ~Finished(job.jobId) THEN "drain" ELSE "settled"

\* Settle's WaitForGpu on the host's queues ...
SettleDrain ==
  /\ pc = "drain" /\ Drained
  /\ pc' = "settle"
  /\ UNCHANGED <<hostvars, after, reset, job, made, rec, open, queue, gpu, abandoned>>

SettleEndsAnyhow ==   \* a mutant of SettleWait: the wait on a stale event
  /\ pc = "settle"
  /\ pc' = "settled"
  /\ UNCHANGED <<hostvars, after, reset, job, made, rec, open, queue, gpu, abandoned>>

\* ... and its wait for the pass.
SettleWait ==
  /\ pc = "settle" /\ Finished(job.jobId)
  /\ pc' = "settled"
  /\ UNCHANGED <<hostvars, after, reset, job, made, rec, open, queue, gpu, abandoned>>

Settled ==
  /\ pc = "settled"
  /\ job' = NoJob
  /\ pc' = after /\ after' = "host"
  /\ UNCHANGED <<hostvars, reset, made, rec, open, queue, gpu, abandoned>>

\* ApplyTemporal: the mode changes between two evaluates, maybe before the host submits.
ChangeMode ==
  /\ pc = "host" /\ modeChanges < MaxSettings
  /\ modeChanges' = modeChanges + 1
  /\ mode' = IF mode = "host" THEN "background" ELSE "host"
  /\ IF mode = "background" THEN Bury("host")
     ELSE UNCHANGED <<pc, after, job, queue, abandoned>>
  /\ UNCHANGED <<queues, observed, reset, made, rec, open, gpu>>

\* Feature settings that bury the job and leave the mode (diagnostics, profile, passes, layout).
Retire ==
  /\ pc = "host" /\ mode = "background" /\ ~Gone /\ made < MaxGens
  /\ Bury("host")
  /\ UNCHANGED <<hostvars, reset, made, rec, open, gpu>>

-----------------------------------------------------------------------------
(* EnsureAsync.                                                            *)

NewJob(g, compute) ==
  [gen |-> g, jobId |-> 0, inflight |-> FALSE, discard |-> FALSE, signalPending |-> FALSE,
   submitQueue |-> NoEntry, sinceKick |-> Every, age |-> 0, outIndex |-> 0,
   slotJob |-> [s \in 0..Slots - 1 |-> 0], wantDirect |-> FALSE,
   freshCompute |-> compute,   \* a compute queue, and no failure yet
   warpFailed |-> FALSE]

\* The job fits the frame, a new one is built, or the one there is has to go first (wantDirect, or
\* the host's resources changed). Without a job the frame is not handled here.
Ensure ==
  /\ pc = "ensure"
  /\ \/ /\ ~Gone /\ ~job.wantDirect
        /\ pc' = "cap"
        /\ UNCHANGED <<after, job, made, queue, open, abandoned>>
     \/ /\ ~Gone /\ (job.wantDirect \/ made < MaxGens)
        /\ Bury(IF job.wantDirect THEN "direct" ELSE "build")
        /\ UNCHANGED <<made, open>>
     \/ /\ Gone
        /\ pc' = "build"
        /\ UNCHANGED <<after, job, made, queue, open, abandoned>>
  /\ UNCHANGED <<hostvars, reset, rec, gpu>>

Build ==
  /\ pc \in {"build", "direct"}
  /\ \/ /\ made < MaxGens
        /\ made' = made + 1
        /\ \E compute \in BOOLEAN :
             /\ pc = "direct" => ~compute
             /\ job' = NewJob(made + 1, compute)
        /\ pc' = "sync"
        /\ UNCHANGED open
     \/ /\ open' = [NewList EXCEPT !.model = TRUE]   \* no job: the synchronous route, on the host's list
        /\ pc' = "host"
        /\ UNCHANGED <<made, job>>
  /\ UNCHANGED <<hostvars, after, reset, rec, queue, gpu, abandoned>>

-----------------------------------------------------------------------------
(* AsyncBody.                                                              *)

\* A new job's first frame waits for the host's queues; the cap's first signal is then alone on them.
StartSync ==
  /\ pc = "sync" /\ Drained
  /\ pc' = "adopt"
  /\ rec' = NewList
  /\ UNCHANGED <<hostvars, after, reset, job, made, open, queue, gpu, abandoned>>

\* AsyncQueueCap: fHost is signalled behind the previous evaluate's list ...
QueueCap ==
  /\ pc = "cap"
  /\ queue' = OnQueues(queues, Mark)
  /\ pc' = "capped"
  /\ UNCHANGED <<hostvars, after, reset, job, made, rec, open, gpu, abandoned>>

CapWaitsOneMore ==   \* a mutant of CapWait
  /\ pc = "capped"
  /\ \E q \in queues : Marks(q) <= MaxQueue + 1
  /\ pc' = "adopt"
  /\ rec' = NewList
  /\ UNCHANGED <<hostvars, after, reset, job, made, open, queue, gpu, abandoned>>

\* ... and the evaluate before the last MaxQueue ones has to be over (on the queue that is first).
CapWait ==
  /\ pc = "capped"
  /\ \E q \in queues : Marks(q) <= MaxQueue
  /\ pc' = "adopt"
  /\ rec' = NewList
  /\ UNCHANGED <<hostvars, after, reset, job, made, open, queue, gpu, abandoned>>

Discards(hostReset) == job.discard \/ (hostReset /\ job.inflight)

Overdue == job.inflight /\ ~Finished(job.jobId) /\ job.age >= MaxAge

WaitsForNext == IF Overdue THEN OnQueues(queues, Wait(job.gen, job.jobId + 1)) ELSE queue   \* mutants
NeverWaits == queue                                                                   \* of ForcedWait

\* WaitRegisteredQueues: an overdue pass is waited for on the host's queues.
ForcedWait == IF Overdue THEN OnQueues(queues, Wait(job.gen, job.jobId)) ELSE queue

ReadyLate == job.inflight /\ fModel[job.gen] > job.jobId   \* a mutant of Ready

Ready == job.inflight /\ Finished(job.jobId)

\* Adopt the finished pass, or have the host's queues wait for one that is overdue.
Adopt ==
  /\ pc = "adopt"
  /\ queue' = ForcedWait
  /\ LET ready == Ready \/ Overdue
         taken == ready /\ ~Discards(reset)
     IN /\ rec' = IF taken THEN [rec EXCEPT !.gen = job.gen, !.adopt = job.jobId, !.out = job.outIndex]
                  ELSE rec
        /\ job' = [job EXCEPT !.inflight = job.inflight /\ ~ready,
                              !.discard = Discards(reset) /\ ~ready,
                              !.age = IF taken THEN 0 ELSE job.age]
  /\ pc' = "kick" /\ reset' = FALSE
  /\ UNCHANGED <<hostvars, after, made, open, gpu, abandoned>>

Kicks == /\ ~job.inflight /\ job.sinceKick >= Every
         /\ ~job.wantDirect /\ ~job.warpFailed

\* The tail of AsyncBody: the output, then the counters. A frame without tables does not age.
Ends(j, list) ==
  /\ \E aged \in 0..1 : job' = [j EXCEPT !.sinceKick = Min2(j.sinceKick + 1, Every),
                                         !.age = Min2(j.age + aged, MaxAge)]
  /\ open' = list
  /\ rec' = NoEntry
  /\ pc' = "host"

NoKick ==
  /\ pc = "kick" /\ ~Kicks
  /\ Ends(job, rec)
  /\ UNCHANGED <<hostvars, after, reset, made, queue, gpu, abandoned>>

Next3 == job.jobId + 1
Slot == Next3 % Slots

\* The passes a job object may kick: a later one kicks one, and a second queue costs one.
BoundJobs == IF made > 1 THEN 1 ELSE IF queues = {Main} THEN MaxJobs ELSE MaxJobs - 1

NeverStalls == TRUE   \* a mutant of Unstalled

\* The wait for the pass that used this allocator last.
Unstalled == Finished(job.slotJob[Slot])

\* The pass is queued: the list gets the copies, the answer of the other index is written.
Kick(declined) ==
  /\ pc = "kick" /\ Kicks /\ Next3 <= BoundJobs
  /\ Unstalled
  /\ LET g == job.gen
         next == 1 - job.outIndex
     IN /\ bg' = [bg EXCEPT ![g] = Append(@, [job |-> Next3, out |-> next, slot |-> Slot])]
        /\ Ends([job EXCEPT !.jobId = Next3, !.inflight = TRUE, !.discard = declined,
                            !.outIndex = next, !.signalPending = TRUE, !.sinceKick = 0,
                            !.slotJob[Slot] = Next3],
                [rec EXCEPT !.gen = g, !.copy = Next3])
  /\ UNCHANGED <<hostvars, after, reset, made, queue, running, fInputs, fModel, copies, answer, abandoned>>

\* The list could not be reset, or the pack's descriptors written: the frame ends there.
KickListFails(pack) ==
  /\ pc = "kick" /\ Kicks
  /\ Unstalled
  /\ job' = [job EXCEPT !.warpFailed = pack, !.freshCompute = @ /\ pack]
  /\ open' = rec /\ rec' = NoEntry /\ pc' = "host"
  /\ UNCHANGED <<hostvars, after, reset, made, queue, gpu, abandoned>>

\* The codec, the grid or the model failed (on a compute queue: once), or the warp's pack.
KickFails(pack) ==
  /\ pc = "kick" /\ Kicks
  /\ Unstalled
  /\ Ends([job EXCEPT !.freshCompute = FALSE, !.wantDirect = job.freshCompute, !.warpFailed = pack], rec)
  /\ UNCHANGED <<hostvars, after, reset, made, queue, gpu, abandoned>>

-----------------------------------------------------------------------------
(* The host and the GPU.                                                   *)

SubmitNoted ==   \* a mutant of Submit: the signal goes out with the event, ahead of the list
  /\ pc = "host" /\ open # NoEntry /\ Lists(Main) < HostFrames
  /\ LET kick == ~Gone /\ job.signalPending /\ observed /\ open.gen = job.gen /\ open.copy = job.jobId
         ahead == IF kick THEN <<Signal(job.gen, job.jobId)>> ELSE <<>>
     IN /\ queue' = [queue EXCEPT ![Main] = @ \o ahead \o <<open>>]
        /\ job' = IF kick THEN [job EXCEPT !.signalPending = FALSE] ELSE job
  /\ open' = NoEntry
  /\ UNCHANGED <<hostvars, pc, after, reset, made, rec, gpu, abandoned>>

\* AsyncNoteSubmissions sees the tagged list go by, then the host executes it.
Submit ==
  /\ pc = "host" /\ open # NoEntry /\ Lists(Main) < HostFrames
  /\ queue' = OnQueues({Main}, open)
  /\ open' = NoEntry
  /\ job' = IF ~Gone /\ job.signalPending /\ observed /\ open.gen = job.gen /\ open.copy = job.jobId
            THEN [job EXCEPT !.submitQueue = Main] ELSE job
  /\ UNCHANGED <<hostvars, pc, after, reset, made, rec, gpu, abandoned>>

\* What the end of an entry brings about, and when a wait ends.
Run(e) ==
  \/ /\ e.op = "list"
     /\ copies' = IF e.copy = 0 THEN copies ELSE [copies EXCEPT ![e.gen] = e.copy]
     /\ UNCHANGED fInputs
  \/ /\ e.op = "signal"
     /\ fInputs' = [fInputs EXCEPT ![e.gen] = e.value]
     /\ UNCHANGED copies
  \/ /\ e.op = "wait" /\ fModel[e.gen] >= e.value
     /\ UNCHANGED <<copies, fInputs>>
  \/ /\ e.op = "mark"
     /\ UNCHANGED <<copies, fInputs>>

\* The GPU comes to the end of a queue's next entry.
HostQueueRuns(q) ==
  /\ queue[q] # <<>>
  /\ Run(Head(queue[q]))
  /\ queue' = [queue EXCEPT ![q] = Tail(queue[q])]
  /\ UNCHANGED <<hostvars, pc, after, reset, job, made, rec, open, bg, running, fModel, answer, abandoned>>

PassStarts(g) ==
  /\ bg[g] # <<>> /\ ~running[g]
  /\ fInputs[g] >= Head(bg[g]).job
  /\ running' = [running EXCEPT ![g] = TRUE]
  /\ UNCHANGED <<hostvars, pc, after, reset, job, made, rec, open, queue, bg, fInputs, fModel, copies, answer, abandoned>>

PassEnds(g) ==
  /\ running[g]
  /\ running' = [running EXCEPT ![g] = FALSE]
  /\ bg' = [bg EXCEPT ![g] = Tail(@)]
  /\ answer' = [answer EXCEPT ![g][Head(bg[g]).out] = Head(bg[g]).job]
  /\ fModel' = [fModel EXCEPT ![g] = Head(bg[g]).job]
  /\ UNCHANGED <<hostvars, pc, after, reset, job, made, rec, open, queue, fInputs, copies, abandoned>>

-----------------------------------------------------------------------------
BInit ==
  /\ queues \in {{Main}, {Main, Other}}
  /\ observed \in BOOLEAN /\ (queues # {Main} => observed)
  /\ mode = "background" /\ modeChanges = 0
  /\ pc = "host" /\ after = "host" /\ reset = FALSE
  /\ job = NoJob /\ made = 0
  /\ rec = NoEntry /\ open = NoEntry
  /\ queue = [q \in {Main, Other} |-> <<>>]
  /\ bg = [g \in Gens |-> <<>>]
  /\ running = [g \in Gens |-> FALSE]
  /\ fInputs = [g \in Gens |-> 0] /\ fModel = [g \in Gens |-> 0]
  /\ copies = [g \in Gens |-> 0]
  /\ answer = [g \in Gens |-> [i \in 0..1 |-> 0]]
  /\ abandoned = [g \in Gens |-> FALSE]

\* What the thread inside the core does next, and what the GPU does next.
Thread ==
  \/ SettleDrain \/ SettleWait \/ Settled \/ Ensure \/ Build
  \/ StartSync \/ QueueCap \/ CapWait \/ Adopt \/ NoKick
  \/ \E declined \in BOOLEAN : Kick(declined)
  \/ \E pack \in BOOLEAN : KickListFails(pack) \/ KickFails(pack)

Gpu ==
  \/ \E q \in {Main, Other} : HostQueueRuns(q)
  \/ \E g \in Gens : PassStarts(g) \/ PassEnds(g)

BNext ==
  \/ \E hostReset \in BOOLEAN : Evaluate(hostReset)
  \/ HostEvaluate \/ Submit
  \/ ChangeMode \/ Retire
  \/ Thread \/ Gpu

BSpec == BInit /\ [][BNext]_bvars

\* The thread in the core and the GPU make progress, and the host goes on rendering.
BFairness ==
  /\ WF_bvars(Thread) /\ WF_bvars(Submit)
  /\ WF_bvars(\E hostReset \in BOOLEAN : Evaluate(hostReset))
  /\ \A q \in {Main, Other} : WF_bvars(HostQueueRuns(q))
  /\ \A g \in Gens : WF_bvars(PassStarts(g)) /\ WF_bvars(PassEnds(g))

BFairSpec == BSpec /\ BFairness

-----------------------------------------------------------------------------
(* Properties.                                                             *)

\* The lists the queues may be executing.
ListsNow == {Head(queue[q]) : q \in {r \in queues : queue[r] # <<>> /\ Head(queue[r]).op = "list"}}

\* A pass runs on the inputs its own kick copied: no list that copies runs beside it, an earlier
\* kick's copies are not read in their place. (A pass settled before the host submitted its list is
\* excepted: nobody reads its answer.)
InputsKept ==
  \A g \in Gens : running[g] /\ ~abandoned[g] =>
    /\ copies[g] = Head(bg[g]).job
    /\ \A e \in ListsNow : e.copy = 0 \/ e.gen # g

\* The list that adopts a pass reads that pass's answer and that pass's inputs, and the answer it
\* reads is not being written.
AnswerRead ==
  \A e \in ListsNow : e.adopt # 0 =>
    /\ answer[e.gen][e.out] = e.adopt /\ copies[e.gen] = e.adopt
    /\ running[e.gen] => Head(bg[e.gen]).out # e.out

\* An allocator is not reset under a pass that has not finished.
SlotsApart3 ==
  \A g \in Gens : \A i, k \in DOMAIN bg[g] : i # k => bg[g][i].slot # bg[g][k].slot

\* The feature's model runs in one place at a time: not in the passes of two jobs, not in a pass
\* and a list of the host's.
ModelAlone ==
  /\ \A g, h \in Gens : running[g] /\ running[h] => g = h
  /\ \A e \in ListsNow : e.model => \A g \in Gens : ~running[g]

\* At most MaxQueue frames of the host's are unfinished when the next one is recorded (with no
\* second queue registered; an idle one answers for the busy one).
CapKept == pc = "adopt" /\ queues = {Main} => Lists(Main) <= MaxQueue

SignalAhead(g, v) ==
  \/ fInputs[g] >= v
  \/ \E r \in queues : \E i \in DOMAIN queue[r] :
       /\ queue[r][i].op = "signal" /\ queue[r][i].gen = g /\ queue[r][i].value >= v
       /\ \A k \in 1..i - 1 : queue[r][k].op = "wait" => queue[r][k].value < v \/ queue[r][k].gen # g

\* A host queue never waits for a pass whose inputs nothing ahead of the wait releases.
WaitsServed ==
  \A q \in queues : \A i \in DOMAIN queue[q] :
    queue[q][i].op = "wait" => SignalAhead(queue[q][i].gen, queue[q][i].value)

\* Every call into the core returns, without the help of the time limits on its waits.
CallsReturn == pc # "host" ~> pc = "host"

\* A pass in flight is adopted, dropped or settled in the end.
PassesEnd == (~Gone /\ job.inflight) ~> (Gone \/ ~job.inflight)
=============================================================================

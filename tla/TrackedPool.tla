------------------------------ MODULE TrackedPool ------------------------------
(***************************************************************************)
(* A descriptor pool with the tracker of submissions that is under it: a   *)
(* pass asks HostUsePoint for the list it records into and Acquire, with   *)
(* that point, for a table.  An evaluate does both under the core's mutex; *)
(* the events of queues, the game's submissions and the GPU go on          *)
(* meanwhile, also while an Acquire waits for them.                        *)
(*                                                                         *)
(* DescriptorPool is about any tracker that keeps the promises of GpuUses, *)
(* this module about the one of Submission.                                *)
(***************************************************************************)
EXTENDS SubmissionContract

CONSTANTS Count, PerEvaluate   \* of the pool, see DescriptorPool

ASSUME TableAssumption == Count \in Nat /\ PerEvaluate \in Nat

VARIABLES slots, cursor, ticket, waiting, refused, acquires, readers   \* the pool's

poolVars == <<slots, cursor, ticket, waiting, refused, acquires, readers>>
tvars == <<vars, poolVars>>

\* What a pool sees of the tracker: points, and whether they have passed.
Pool == INSTANCE DescriptorPool WITH
  MaxUses <- MaxRecordings,
  MaxEvals <- MaxEval,
  evals <- evalCounter,
  Deadline <- Expiry,
  inEvaluate <- evaluating # NoList,
  phase <- [t \in Tags |-> PhaseOf(t)],
  fenced <- {t \in Tags : rec[t].fence},
  claimed <- {t \in Tags : rec[t].serial > 0},
  made <- [t \in Tags |-> rec[t].created],
  done <- {t \in Tags : Completed(t)},
  removed <- lost

TInit == Init /\ Pool!PInit

\* A frame begins: nothing was refused it yet.
FrameBegins ==
  /\ \E l \in Lists : EvaluateBegin(l)
  /\ refused' = FALSE /\ acquires' = 0
  /\ UNCHANGED <<slots, cursor, ticket, waiting, readers>>

\* The evaluate goes on when its Acquire has returned.
FrameGoesOn ==
  /\ waiting = Pool!Idle
  /\ EvaluateEnd \/ \E l \in Lists : UsePoint(l) \/ UsePointFails(l)
  /\ UNCHANGED poolVars

\* A table for a use of this evaluate: a slot, a wait for one, or none.
FrameTakes ==
  /\ UNCHANGED vars
  /\ \E t \in Tags, nonBlocking \in BOOLEAN : Pool!Acquire(t, nonBlocking)

\* The wait ends with the fence of the slot's use, or without it.
WaitReturns ==
  /\ UNCHANGED vars
  /\ Pool!WaitEnds \/ Pool!WaitFails

\* Nothing else waits for the frame.
OthersGoOn == (HostOrGpu \/ DeviceRemoved) /\ UNCHANGED poolVars

TNext == FrameBegins \/ FrameGoesOn \/ FrameTakes \/ WaitReturns \/ OthersGoOn

TSpec == TInit /\ [][TNext]_tvars

\* As in Submission, and every wait returns.
TFairness ==
  /\ \A q \in Queues :
       /\ WF_tvars(NativeAfterReport(q) /\ UNCHANGED poolVars) /\ WF_tvars(ReportAfter(q) /\ UNCHANGED poolVars)
       /\ WF_tvars(GpuStep(q) /\ UNCHANGED poolVars)
  /\ WF_tvars(EvaluateEnd /\ FrameGoesOn) /\ WF_tvars(WaitReturns)
  /\ \A first \in BOOLEAN : WF_tvars(Housekeeping(first) /\ UNCHANGED poolVars)

TFairSpec == TSpec /\ TFairness

-----------------------------------------------------------------------------
\* As long as a list with a pass is recorded into, waits for its submission or runs, the table of the pass is
\* what it wrote: no other use and no second pass of its own took the slot (Acquire, UsePoint, Drain).
TablesStand ==
  \A i \in Pool!Slots : \A t, u \in {v \in Tags : readers[i][v] > 0 /\ InFlight(v) /\ ~lost} :
    t = u /\ readers[i][t] = 1

\* Over the tracker a pool is the pool of DescriptorPool (HostUsePoint, Acquire).
PoolKept == Pool!PSpec

\* A pool of Expiry + 1 evaluates' worth of slots refuses nothing to a game whose submissions no event shows
\* (Acquire, Drain).
PoolLasts == Pool!Sized
=============================================================================

-------------------------- MODULE SubmissionContract --------------------------
(***************************************************************************)
(* Submission implements GpuUses: recordings, tags, serials and the        *)
(* queues' signals behind one view, a use whose fence passes after it.     *)
(***************************************************************************)
EXTENDS Submission

\* The evaluate in progress recorded work under the use.
IsOpen(t) == t <= nextTag /\ rec[t].list = evaluating /\ rec[t].created = evalCounter

PhaseOf(t) ==
  IF t > nextTag THEN "unused"
  ELSE IF IsOpen(t) THEN "open"
  ELSE IF InFlight(t) /\ ~lost THEN "flying" ELSE "over"

Promise == INSTANCE GpuUses WITH
  MaxUses <- MaxRecordings,
  MaxEvals <- MaxEval,
  evals <- evalCounter,
  Deadline <- Expiry,
  inEvaluate <- evaluating # NoList,
  phase <- [t \in Tags |-> PhaseOf(t)],
  fenced <- {t \in Tags : rec[t].fence},
  claimed <- {t \in Tags : rec[t].serial > 0},
  made <- [t \in Tags |-> rec[t].created],
  done <- {t \in Tags : Completed(t)},
  removed <- lost

\* Submission keeps the contract the pools rely on: a fence passes only when its use is
\* over, stays passed, and passes in time if nobody ever reports the list.
PromiseKept == Promise!USpec
=============================================================================

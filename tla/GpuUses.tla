-------------------------------- MODULE GpuUses ------------------------------
(***************************************************************************)
(* What the core's submission tracking promises to those who hold GPU      *)
(* objects for a use (descriptor pools, constant rings, graves): the       *)
(* contract that Submission implements and DescriptorPool is built on.     *)
(*                                                                         *)
(* A use is opened by the evaluate that records it, it flies until the GPU *)
(* is through with its list (or the host threw the list away), and its     *)
(* fence passes only after that.  Nothing is said of queues or lists.      *)
(***************************************************************************)
EXTENDS Integers

CONSTANTS Deadline,           \* kDeferredReleaseEvaluates
          MaxUses, MaxEvals   \* bounds of the model

ASSUME UsesAssumption == Deadline \in Nat \ {0} /\ MaxUses \in Nat /\ MaxEvals \in Nat

UseIds == 1 .. MaxUses

VARIABLES
  evals,     \* evalCounter
  inEvaluate,
  phase,     \* [use -> "unused", "open", "flying" or "over"]
  fenced,    \* the uses that got a fence, the others have a deadline
  claimed,   \* the uses whose list was reported submitted
  made,      \* [use -> the evaluate that opened it]
  done,      \* the uses whose fence reads as passed
  removed    \* the device is gone

uvars == <<evals, inEvaluate, phase, fenced, claimed, made, done, removed>>

InPhase(p) == {t \in UseIds : phase[t] = p}

\* A fence passes after its use is over, and stays so while the device is there.
Passes(over) == done' \in SUBSET over /\ done \subseteq done'

UInit ==
  /\ evals = 0 /\ inEvaluate = FALSE
  /\ phase = [t \in UseIds |-> "unused"]
  /\ fenced = {} /\ claimed = {}
  /\ made = [t \in UseIds |-> 0]
  /\ done = {} /\ removed = FALSE

\* Unclaimed uses old enough to be cancelled by the drain of an evaluate.
OverdueLate == {t \in fenced \ claimed : evals - made[t] > Deadline}   \* a mutant of Overdue

Overdue == {t \in fenced \ claimed : evals - made[t] >= Deadline}

\* An evaluate starts: what has no fence, or is unclaimed, is over by its deadline, and
\* what expired by the evaluate before passes.
Begin ==
  /\ ~inEvaluate /\ inEvaluate' = TRUE
  /\ evals < MaxEvals /\ evals' = evals + 1
  /\ removed \/ \A t \in InPhase("flying") \ claimed : evals + 1 - made[t] < Deadline
  /\ Passes(InPhase("over"))
  /\ removed \/ Overdue \subseteq done'
  /\ UNCHANGED <<phase, fenced, claimed, made, removed>>

Open(t, hasFence) ==
  /\ inEvaluate
  /\ phase[t] = "unused" /\ \A u \in 1 .. (t - 1) : phase[u] # "unused"
  /\ phase' = [phase EXCEPT ![t] = "open"]
  /\ fenced' = IF hasFence THEN fenced \cup {t} ELSE fenced
  /\ made' = [made EXCEPT ![t] = evals]
  /\ UNCHANGED <<evals, inEvaluate, claimed, done, removed>>

End ==
  /\ inEvaluate /\ inEvaluate' = FALSE
  /\ phase' = [t \in UseIds |-> IF phase[t] = "open"
                                THEN IF removed THEN "over" ELSE "flying"
                                ELSE phase[t]]
  /\ UNCHANGED <<evals, fenced, claimed, made, done, removed>>

\* The host submits or throws away lists, the GPU works, drains signal, queues go.
Proceed ==
  \E finished \in SUBSET InPhase("flying"), reported \in SUBSET (fenced \ (claimed \cup InPhase("open"))) :
    /\ phase' = [t \in UseIds |-> IF t \in finished THEN "over" ELSE phase[t]]
    /\ claimed' = claimed \cup reported
    /\ Passes(InPhase("over") \cup finished)
    /\ UNCHANGED <<evals, inEvaluate, fenced, made, removed>>

\* A removed device executes nothing and its fences answer UINT64_MAX.
Remove ==
  /\ ~removed /\ removed' = TRUE /\ done' = {}
  /\ phase' = [t \in UseIds |-> IF phase[t] = "flying" THEN "over" ELSE phase[t]]
  /\ UNCHANGED <<evals, inEvaluate, fenced, claimed, made>>

UNext ==
  \/ Begin \/ End \/ Proceed \/ Remove
  \/ \E t \in UseIds, hasFence \in BOOLEAN : Open(t, hasFence)

USpec == UInit /\ [][UNext]_uvars

UsesTypeOK ==
  /\ evals \in Nat /\ inEvaluate \in BOOLEAN /\ removed \in BOOLEAN
  /\ phase \in [UseIds -> {"unused", "open", "flying", "over"}]
  /\ fenced \subseteq UseIds /\ claimed \subseteq fenced /\ done \subseteq UseIds
  /\ made \in [UseIds -> Nat]
=============================================================================

-------------------------------- MODULE MCSafe --------------------------------
(***************************************************************************)
(* Three parts without fairness for TLC: FrameHistory (what a frame may    *)
(* make of which history), MenuPipeline (the model on a menu's frames) and *)
(* CrashGuard (what a session leaves for the next).  They share no state,  *)
(* so one behaviour is of one part and the others stay at their start: the *)
(* sum of three state graphs, not their product.                           *)
(***************************************************************************)
EXTENDS FrameHistory, MenuPipeline, CrashGuard

VARIABLE part   \* "frames", "menu", "guard"

vars == <<part, fvars, mvars, gvars>>

Init ==
  /\ FInit /\ MInit /\ GInit
  /\ part \in {"frames", "menu", "guard"}
  /\ (separate => part = "menu")
  /\ (settings.mode # 1 => part = "frames")

Next ==
  \/ part = "frames" /\ FNext /\ UNCHANGED <<part, mvars, gvars>>
  \/ part = "menu" /\ MNext /\ UNCHANGED <<part, fvars, gvars>>
  \/ part = "guard" /\ GNext /\ UNCHANGED <<part, fvars, mvars>>

Spec == Init /\ [][Next]_vars
=============================================================================

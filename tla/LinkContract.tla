------------------------------ MODULE LinkContract ------------------------------
(***************************************************************************)
(* RemoteLink implements SettingsLink: a publication counts from its first *)
(* increment on (no reader gets past an odd sequence), a read from the     *)
(* comparison of the sequence that lets it through.                        *)
(***************************************************************************)
EXTENDS RemoteLink

Inside == {"first", "second", "close"}   \* of a publication: the sequence is odd
Paper(x, n) == [x |-> x, gen |-> n]

Editing ==
  CASE tab.at = "first"  -> Paper(Payload, edit.y.gen + 1)
    [] tab.at = "second" -> Paper(edit.x, edit.y.gen + 1)
    [] OTHER             -> Paper(edit.x, edit.y.gen)
Answering == IF host.at \in Inside THEN Paper(core, host.seen) ELSE Paper(status.x, status.y.gen)
Taken == Paper(host.last, host.seen)
Got == IF host.at = "read" THEN Paper(hcopy.x, hcopy.y.gen) ELSE Taken
Shown ==
  CASE tab.at = "read"             -> Paper(tcopy.x, tcopy.y.gen)
    [] tab.at # "read" /\ tab.live -> Paper(tab.x, tab.gen)
    [] OTHER                       -> Paper(Nothing, 0)

Link == INSTANCE SettingsLink WITH
  None <- Nothing,
  edit <- Editing, answer <- Answering,
  up <- host.at # "off", running <- core,
  got <- Got, taken <- Taken, heard <- Shown

\* At any interleaving of the accesses of the two processes each sees the other's publications whole, in
\* order and as they stand; an answer names the last edit the host decided about and has the settings of after that
\* decision, those of an edit that was turned away never (ipc.h, ApplyEdit, ApplySettingsEdit, Poll).
LinkKept == Link!SSpec
=============================================================================

------------------------------ MODULE SettingsLink ------------------------------
(***************************************************************************)
(* What the shared block promises the two processes on its sides (the tab  *)
(* in a 32-bit game, the host): each publication and each read is one      *)
(* step.  An edit is a payload with a number, an answer says what the host *)
(* runs with and the number of the last edit it decided about, be it taken *)
(* or turned away.  Nothing is said of sequences, words, copies or         *)
(* attempts.                                                               *)
(***************************************************************************)
EXTENDS Naturals

CONSTANTS Values, None   \* the settings, and what stands for none

VARIABLES
  edit, answer,   \* what stands in the block for the host, and for the tab: [x, gen]
  up, running,    \* is there a host, and what it runs with (its ini keeps that)
  got, taken,     \* the last edit the host read; the last it decided about, with the last payload it compared
  heard           \* the answer the tab shows

svars == <<edit, answer, up, running, got, taken, heard>>

Blank == [x |-> None, gen |-> 0]

SInit ==
  /\ edit = Blank /\ answer = Blank
  /\ up = FALSE /\ running \in Values
  /\ got = Blank /\ taken = Blank /\ heard = Blank

\* The user of the tab edits, which takes a host that was heard.
Edits(x) ==
  /\ heard.x # None
  /\ edit' = [x |-> x, gen |-> edit.gen + 1]
  /\ UNCHANGED <<answer, up, running, got, taken, heard>>

\* A host that starts counts what it finds as taken; it makes the block if nobody else has it.
Starts(fresh) ==
  /\ ~up /\ up' = TRUE
  /\ fresh => heard = Blank
  /\ edit' = IF fresh THEN Blank ELSE edit
  /\ answer' = IF fresh THEN Blank ELSE answer
  /\ got' = edit' /\ taken' = edit'
  /\ UNCHANGED <<running, heard>>

Ends ==
  /\ up /\ up' = FALSE
  /\ got' = Blank /\ taken' = Blank
  /\ UNCHANGED <<edit, answer, running, heard>>

\* The edit as it stands, whole, and never one it has had.
Reads ==
  /\ up /\ got = taken /\ edit.gen > taken.gen
  /\ got' = edit
  /\ UNCHANGED <<edit, answer, up, running, taken, heard>>

\* New settings are run with, unless they are refused.
Takes ==
  /\ up /\ got # taken
  /\ taken' = got
  /\ running' = running \/ (got.x # taken.x /\ running' = got.x)
  /\ UNCHANGED <<edit, answer, up, got, heard>>

\* Not even compared: only the number counts.
Declines ==
  /\ up /\ got # taken
  /\ taken' = [taken EXCEPT !.gen = got.gen] /\ got' = taken'
  /\ UNCHANGED <<edit, answer, up, running, heard>>

\* The host's own overlay.
Changes(x) ==
  /\ up /\ got = taken
  /\ running' = x
  /\ UNCHANGED <<edit, answer, up, got, taken, heard>>

\* An answer names no edit but the last one decided about, with the settings the host has after that.
Answers ==
  /\ up /\ got = taken
  /\ answer' = [x |-> running, gen |-> taken.gen]
  /\ UNCHANGED <<edit, up, running, got, taken, heard>>

Hears ==
  /\ heard' = answer
  /\ UNCHANGED <<edit, answer, up, running, got, taken>>

\* The answer is old or there is none: the tab shows no host.
Forgets ==
  /\ heard' = Blank
  /\ UNCHANGED <<edit, answer, up, running, got, taken>>

SNext ==
  \/ \E x \in Values : Edits(x) \/ Changes(x)
  \/ \E fresh \in BOOLEAN : Starts(fresh)
  \/ Ends \/ Reads \/ Takes \/ Declines \/ Answers \/ Hears \/ Forgets

SSpec == SInit /\ [][SNext]_svars
=============================================================================

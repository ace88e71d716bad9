----------------------------- MODULE RemoteLink -----------------------------
(***************************************************************************)
(* hosts/remote32/{ipc.h,remote_link,remote_ui_source}.cpp (the tab, in    *)
(* the 32-bit game) and hosts/reshade/addon/remote_host.cpp (the 64-bit    *)
(* host): one shared block, a sequence lock in each direction, and nothing *)
(* else between the two processes.                                         *)
(*                                                                         *)
(* The tab publishes edits of the settings, the host what it runs with,    *)
(* the generation of the last edit it decided about (taken or not), and a  *)
(* heartbeat.  The two are interleaved at every access of the block; a     *)
(* payload is two words, both with the settings in them, so that a torn    *)
(* copy shows.  The Feed starts and kills hosts; the block lives as long   *)
(* as one side has it mapped.                                              *)
(*                                                                         *)
(* A host that has nothing new to say publishes only heartbeats: left out  *)
(* until the last one is old.                                              *)
(***************************************************************************)
EXTENDS Naturals, FiniteSets

CONSTANTS
  Values,      \* the settings a user can choose
  MaxEdits, MaxStarts, MaxSilences,   \* bounds: edits, hosts, heartbeats that get old
  Attempts,    \* of a reader (8 in the code)
  Mishaps      \* "kill": a host dies while it publishes; "start": one starts while the tab publishes;
               \* "again": an edit asks for the payload the host compared last, and the host runs with other settings

ASSUME LinkAssumption ==
  /\ Cardinality(Values) >= 2 /\ 0 \notin Values
  /\ MaxEdits \in Nat /\ MaxStarts \in Nat /\ MaxSilences \in Nat /\ Attempts \in Nat \ {0}
  /\ Mishaps \subseteq {"kill", "start", "again"}

VARIABLES
  exists,     \* the block
  edit,       \* the tab's half of it: [odd (the sequence), x (settings), y (the settings again, and settingsGeneration)]
  status,     \* the host's: [odd, x (applied), y (applied again, and appliedSettingsGeneration)]
  silent,     \* the heartbeat in the block is older than kHeartbeatTimeoutMs
  host,       \* [at, seen (seenSettings), last (lastIncoming)]; at "off" when there is none
  core,       \* the host's settings; its ini keeps them
  tab,        \* [at, mapped, live (valid and Connection::Live), x, gen (the snapshot), feeder]
  hcopy, tcopy,   \* a reader's copy: [tries, moved (the sequence did since it was read), x, y]
  ui,         \* [local, pending, gen (pendingGeneration), drawn (since the last poll)]
  edits, starts, silences,
  asked,      \* ghost: the last settings the running host was asked for and did not turn away
  torn        \* ghost: half of one payload was taken with half of another

lvars == <<exists, edit, status, silent, host, core, tab, hcopy, tcopy, ui, edits, starts, silences, asked, torn>>
counters == <<edits, starts, silences>>

Default == CHOOSE v \in Values : TRUE
Nothing == 0      \* a payload nobody wrote: ValidSettings fails
Word(x, n) == [of |-> x, gen |-> n]
Zeroed == [odd |-> FALSE, x |-> Nothing, y |-> Word(Nothing, 0)]
NoCopy == [tries |-> 0, moved |-> FALSE, x |-> Nothing, y |-> Word(Nothing, 0)]
Torn(c) == c.x # c.y.of

-----------------------------------------------------------------------------
(* The sequence lock (ipc.h), one access a step.  Of the sequence a reader *)
(* only asks whether it is odd and whether it moved.                       *)

ClosesNot(b) == b                  \* mutant: the second increment is forgotten
Opened(b) == [b EXCEPT !.odd = ~@]
Closed(b) == [b EXCEPT !.odd = ~@]

\* Publish: odd, the payload, the generation, even.
Writing == {"open", "first", "second", "close"}
WriteStep(at, b, x, y) ==
  CASE at = "open"   -> [b |-> Opened(b), at |-> "first"]
    [] at = "first"  -> [b |-> [b EXCEPT !.x = x], at |-> "second"]
    [] at = "second" -> [b |-> [b EXCEPT !.y = y], at |-> "close"]
    [] at = "close"  -> [b |-> Closed(b), at |-> "idle"]
Moves(at) == at \in {"open", "close"}

\* ReadStable and ReadEdit: an odd sequence, or one that moved, costs an attempt.
StableAnyhow(c, b) == ~b.odd  \* mutant: the sequence before the copy is not compared
Stable(c, b) == ~c.moved
Reading == {"begin", "first copy", "second copy", "check"}
ReadStep(at, c, b) ==
  LET missed == [c |-> [c EXCEPT !.tries = @ + 1], at |-> IF c.tries + 1 = Attempts THEN "failed" ELSE "begin"]
  IN CASE at = "begin"       -> IF b.odd THEN missed ELSE [c |-> [c EXCEPT !.moved = FALSE], at |-> "first copy"]
       [] at = "first copy"  -> [c |-> [c EXCEPT !.x = b.x], at |-> "second copy"]
       [] at = "second copy" -> [c |-> [c EXCEPT !.y = b.y], at |-> "check"]
       [] at = "check"       -> IF Stable(c, b) THEN [c |-> c, at |-> "read"] ELSE missed

-----------------------------------------------------------------------------
(* The host: RemotePublish, once per present.                              *)

NoHost == [at |-> "off", seen |-> 0, last |-> Nothing]

\* EnsureBlock.  A block the tab still has mapped is used as it is, and what is in it counts as taken.
HostStart ==
  LET found == IF exists THEN edit ELSE Zeroed
  IN /\ host.at = "off" /\ starts < MaxStarts
     /\ (tab.at \in Writing => "start" \in Mishaps)
     /\ starts' = starts + 1
     /\ exists' = TRUE /\ edit' = found
     /\ status' = IF exists THEN status ELSE Zeroed
     /\ host' = [at |-> "idle", seen |-> found.y.gen, last |-> found.x]
     /\ asked' = core /\ torn' = (torn \/ Torn(found))
     /\ UNCHANGED <<silent, core, tab, hcopy, tcopy, ui, edits, silences>>

\* The Feed stops the host, or it crashes.
HostKill ==
  /\ host.at # "off"
  /\ (host.at \in Writing => "kill" \in Mishaps)
  /\ host' = NoHost
  /\ exists' = tab.mapped /\ hcopy' = NoCopy
  /\ UNCHANGED <<edit, status, silent, core, tab, tcopy, ui, counters, asked, torn>>

\* ApplyEdit: is there an edit it has not taken?
HostLooks ==
  /\ host.at = "idle" /\ edit.y.gen # host.seen
  /\ host' = [host EXCEPT !.at = "begin"] /\ hcopy' = NoCopy
  /\ UNCHANGED <<exists, edit, status, silent, core, tab, tcopy, ui, counters, asked, torn>>

HostReads ==
  /\ host.at \in Reading
  /\ LET r == ReadStep(host.at, hcopy, edit) IN hcopy' = r.c /\ host' = [host EXCEPT !.at = r.at]
  /\ UNCHANGED <<exists, edit, status, silent, core, tab, tcopy, ui, counters, asked, torn>>

\* ReadEdit gave up, or there was nothing new.
New == host.at = "read" /\ hcopy.y.gen # host.seen
HostPasses ==
  /\ host.at \in {"read", "failed"} /\ ~New
  /\ host' = [host EXCEPT !.at = "open"] /\ hcopy' = NoCopy
  /\ UNCHANGED <<exists, edit, status, silent, core, tab, tcopy, ui, counters, asked, torn>>

\* Turned away before it is looked into: a direct host applies the settings now, or there is no core.  Only the
\* generation is noted, so the next optical-flow edit brings this payload again.
HostDeclines ==
  /\ New
  /\ host' = [host EXCEPT !.at = "open", !.seen = hcopy.y.gen] /\ hcopy' = NoCopy
  /\ asked' = IF edit.y.gen = hcopy.y.gen THEN core ELSE asked
  /\ UNCHANGED <<exists, edit, status, silent, core, tab, tcopy, ui, counters, torn>>

\* A payload it has compared before is that of an optical-flow edit: the settings stay.
NeverTakenBefore(x) == FALSE       \* mutant: every edit applies its payload
TakenBefore(x) == x = host.last
Compared == [at |-> "open", seen |-> hcopy.y.gen, last |-> hcopy.x]
HostTakes ==
  /\ New
  /\ host' = Compared /\ hcopy' = NoCopy
  /\ core' = IF TakenBefore(hcopy.x) THEN core ELSE hcopy.x
  /\ torn' = (torn \/ Torn(hcopy))
  /\ UNCHANGED <<exists, edit, status, silent, tab, tcopy, ui, counters, asked>>

\* ApplySettingsEdit: the core refuses the settings.  Asked for again they pass for those of an optical-flow edit.
AskedAgain(x) == tab.at \in Writing /\ ~tab.feeder /\ ui.local = x
HostRefuses ==
  /\ New /\ ~TakenBefore(hcopy.x)
  /\ (AskedAgain(hcopy.x) => "again" \in Mishaps)
  /\ host' = Compared /\ hcopy' = NoCopy
  /\ torn' = (torn \/ Torn(hcopy))
  /\ asked' = IF edit.y.gen = hcopy.y.gen \/ edit.x = hcopy.x THEN core ELSE asked
  /\ UNCHANGED <<exists, edit, status, silent, core, tab, tcopy, ui, counters>>

\* PublishHostSnapshot.
AnsweredUnread == edit.y.gen       \* mutant: the edit that stands in the block, taken or not
Answered == host.seen
HostSpeaks ==
  /\ host.at = "idle" /\ edit.y.gen = host.seen
  /\ silent \/ status.x # core \/ status.y.gen # Answered
  /\ host' = [host EXCEPT !.at = "open"]
  /\ UNCHANGED <<exists, edit, status, silent, core, tab, hcopy, tcopy, ui, counters, asked, torn>>

HostPublishes ==
  /\ host.at \in Writing
  /\ LET w == WriteStep(host.at, status, core, Word(core, Answered))
     IN status' = w.b /\ host' = [host EXCEPT !.at = w.at]
  /\ tcopy' = [tcopy EXCEPT !.moved = @ \/ (tab.at \in Reading /\ Moves(host.at))]
  /\ silent' = (silent /\ host.at # "first")
  /\ UNCHANGED <<exists, edit, core, tab, hcopy, ui, counters, asked, torn>>

\* The host's own overlay.  An edit that is on its way comes after it.
HostChanges(v) ==
  /\ host.at = "idle" /\ core # v
  /\ (AskedAgain(host.last) => "again" \in Mishaps)
  /\ edits < MaxEdits /\ edits' = edits + 1
  /\ core' = v
  /\ asked' = IF edit.y.gen # host.seen /\ edit.x # host.last THEN asked ELSE v
  /\ UNCHANGED <<exists, edit, status, silent, host, tab, hcopy, tcopy, ui, starts, silences, torn>>

\* Three seconds without a present of the host (a loading screen).
Silence ==
  /\ host.at = "idle" /\ ~silent
  /\ silences < MaxSilences /\ silences' = silences + 1
  /\ silent' = TRUE
  /\ UNCHANGED <<exists, edit, status, host, core, tab, hcopy, tcopy, ui, edits, starts, asked, torn>>

DeadSilence ==
  /\ host.at = "off" /\ exists /\ ~silent
  /\ silent' = TRUE
  /\ UNCHANGED <<exists, edit, status, host, core, tab, hcopy, tcopy, ui, counters, asked, torn>>

-----------------------------------------------------------------------------
(* The tab (remote_link.cpp, remote_ui_source.cpp).                        *)

NoLink == [at |-> "idle", mapped |-> FALSE, live |-> FALSE, x |-> Nothing, gen |-> 0, feeder |-> FALSE]

\* Poll, once per present: OpenBlock when it is not mapped, then a read.
Poll ==
  /\ tab.at = "idle"
  /\ ui' = [ui EXCEPT !.drawn = FALSE]
  /\ tcopy' = NoCopy
  /\ tab' = [tab EXCEPT !.at = IF exists THEN "begin" ELSE "idle", !.mapped = exists]
  /\ UNCHANGED <<exists, edit, status, silent, host, core, hcopy, counters, asked, torn>>

TabReads ==
  /\ tab.at \in Reading
  /\ LET r == ReadStep(tab.at, tcopy, status) IN tcopy' = r.c /\ tab' = [tab EXCEPT !.at = r.at]
  /\ UNCHANGED <<exists, edit, status, silent, host, core, hcopy, ui, counters, asked, torn>>

\* A block without settings or with an old heartbeat is closed; a copy that never was whole is not.
Heard == tcopy.x # Nothing /\ ~silent
TabTakes ==
  /\ tab.at \in {"read", "failed"}
  /\ IF tab.at = "read" /\ Heard
     THEN tab' = [tab EXCEPT !.at = "idle", !.live = TRUE, !.x = tcopy.x, !.gen = tcopy.y.gen]
     ELSE tab' = [NoLink EXCEPT !.mapped = (tab.at = "failed")]
  /\ exists' = (host.at # "off" \/ tab'.mapped)
  /\ torn' = (torn \/ (tab'.live /\ Torn(tcopy)))
  /\ tcopy' = NoCopy
  /\ UNCHANGED <<edit, status, silent, host, core, hcopy, ui, counters, asked>>

\* RemoteUiSource::Snapshot, of a present with the overlay open: that may be every one or none.
UnpendedByAnswer == IF tab.live /\ (~ui.pending \/ tab.gen = ui.gen)   \* mutant: a lost link leaves it pending
                    THEN [ui EXCEPT !.pending = FALSE, !.gen = 0, !.local = tab.x]
                    ELSE ui
Unpended == IF ~tab.live THEN [ui EXCEPT !.pending = FALSE, !.gen = 0]
            ELSE IF ~ui.pending \/ tab.gen = ui.gen THEN [ui EXCEPT !.pending = FALSE, !.gen = 0, !.local = tab.x]
            ELSE ui
Draw ==
  /\ tab.at = "idle" /\ ~ui.drawn
  /\ ui' = [Unpended EXCEPT !.drawn = TRUE]
  /\ UNCHANGED <<exists, edit, status, silent, host, core, tab, hcopy, tcopy, counters, asked, torn>>

\* RemoteUiSource::Commit, then PublishEdit.
Commit(v) ==
  /\ tab.at = "idle" /\ ui.drawn /\ tab.live /\ ui.local # v
  /\ ((v = host.last /\ core # v) => "again" \in Mishaps)
  /\ edits < MaxEdits /\ edits' = edits + 1
  /\ ui' = [ui EXCEPT !.local = v]
  /\ tab' = [tab EXCEPT !.at = "open", !.feeder = FALSE]
  /\ UNCHANGED <<exists, edit, status, silent, host, core, hcopy, tcopy, starts, silences, asked, torn>>

\* CommitFeeder, then PublishFeeder: an optical-flow edit goes out with the settings the block carries.
CommitFeeder ==
  /\ tab.at = "idle" /\ ui.drawn /\ tab.live
  /\ edits < MaxEdits /\ edits' = edits + 1
  /\ tab' = [tab EXCEPT !.at = "open", !.feeder = TRUE]
  /\ UNCHANGED <<exists, edit, status, silent, host, core, hcopy, tcopy, ui, starts, silences, asked, torn>>

Payload == IF ~tab.feeder THEN ui.local ELSE IF edit.x = Nothing THEN tab.x ELSE edit.x
Asks == host.at # "off" /\ tab.at = "second" /\ (tab.feeder => edit.x # host.last)
TabPublishes ==
  /\ tab.at \in Writing
  /\ LET w == WriteStep(tab.at, edit, Payload, Word(edit.x, edit.y.gen + 1))
     IN edit' = w.b /\ tab' = [tab EXCEPT !.at = w.at, !.feeder = @ /\ w.at # "idle"]
  /\ hcopy' = [hcopy EXCEPT !.moved = @ \/ (host.at \in Reading /\ Moves(tab.at))]
  /\ ui' = IF tab.at = "close" THEN [ui EXCEPT !.pending = TRUE, !.gen = edit.y.gen] ELSE ui
  /\ asked' = IF Asks THEN edit.x ELSE asked
  /\ UNCHANGED <<exists, status, silent, host, core, tcopy, counters, torn>>

-----------------------------------------------------------------------------
LInit ==
  /\ exists = FALSE /\ edit = Zeroed /\ status = Zeroed /\ silent = FALSE
  /\ host = NoHost /\ core = Default
  /\ tab = NoLink
  /\ hcopy = NoCopy /\ tcopy = NoCopy
  /\ ui = [local |-> Default, pending |-> FALSE, gen |-> 0, drawn |-> FALSE]
  /\ edits = 0 /\ starts = 0 /\ silences = 0
  /\ asked = Default /\ torn = FALSE

HostSteps ==
  HostLooks \/ HostReads \/ HostPasses \/ HostDeclines \/ HostTakes \/ HostRefuses \/ HostSpeaks \/ HostPublishes
TabSteps == TabReads \/ TabTakes \/ TabPublishes
LNext ==
  \/ HostStart \/ HostKill \/ Silence \/ DeadSilence
  \/ HostSteps \/ TabSteps \/ Poll \/ Draw \/ CommitFeeder
  \/ \E v \in Values : HostChanges(v) \/ Commit(v)

\* Both processes go on presenting; nobody has to start a host, to open the overlay or to edit.
LFairness == WF_lvars(HostSteps) /\ WF_lvars(TabSteps) /\ WF_lvars(Poll) /\ WF_lvars(DeadSilence)
LFairSpec == LInit /\ [][LNext]_lvars /\ LFairness

-----------------------------------------------------------------------------
(* What must hold.                                                         *)

\* Neither side ever uses half of one payload and half of another (ipc.h, "publish the generation and
\* payload under the same sequence to reject mixed frames"): neither a host with an edit nor the tab with a
\* snapshot, at any interleaving of the accesses.
WholePayloads == ~torn

\* A host that runs is heard in the end, whatever blocks, silences and dead hosts came before it
\* (OpenBlock, Close and the retry of Poll).
LinkRecovers == (host.at # "off") ~> (tab.live \/ host.at = "off")

\* In the end a host runs with what it was asked for last and did not turn away, by the tab or by its own overlay,
\* and an optical-flow edit brings back neither settings taken before nor settings the core refused (lastIncoming).
AskedSettles == <>[](host.at # "off" => core = asked)

\* A user who edits, closes the overlay and comes back to it again and again finds no edit pending for ever: the tab
\* shows the host's values in the end, also when that host turned the edit away or has gone.  The exception is what
\* RemoteUiSource::Snapshot does not see: the block was made anew, with smaller numbers, while nothing was drawn.
PendingSettles == []<>ui.drawn => (ui.pending ~> (~ui.pending \/ edit.y.gen < ui.gen))
=============================================================================

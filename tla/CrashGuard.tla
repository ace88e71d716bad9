----------------------------- MODULE CrashGuard -----------------------------
(***************************************************************************)
(* hosts/reshade/addon/crash_guard.cpp (in the Feed's 64-bit host) and     *)
(* hosts/remote32/host_watch.cpp (in the 32-bit game's tab): the session   *)
(* marker that tells a crash of a warping session from a stop.             *)
(*                                                                         *)
(* The Feed runs in the game: it starts hosts one after the other, and     *)
(* ends them by closing the pipe (the host then leaves with code 0) or     *)
(* from outside.  A host that was killed runs nothing more but ends later. *)
(* The grace of 20 s is one bit: a session is old or it is not.            *)
(***************************************************************************)
EXTENDS Naturals

CONSTANTS
  Pids,
  MaxSessions, MaxTabs,     \* bounds: hosts and tabs of a behaviour
  Ways,        \* of a host to leave: "terminate" (TerminateProcess), "exit" (ExitProcess)
  Lapses      \* "hasty": the next host starts before the tab settled the last one's end
               \* "mute": a host whose device was removed is killed from outside
               \* "torn": a host ends inside a write of the marker
               \* "reuse": a host gets the pid an old marker names

ASSUME GuardAssumption ==
  /\ Pids \subseteq Nat \ {0} /\ MaxSessions \in Nat /\ MaxTabs \in Nat
  /\ Ways \subseteq {"terminate", "exit"} /\ Lapses \subseteq {"hasty", "mute", "torn", "reuse"}

VARIABLES
  marker,    \* the file: [pid, old (its seconds reach the grace), removed], or NoMarker
  session,      \* [at, pid, safe, warped (g_crashMarkerWritten), old, recorded (GracePassed), orderly, removed, leaving]
  watcher,       \* [at, watch (a pid or 0), ended, code, delete]
  event,     \* the leaving event: "absent", "clear", "set"
  sessions, tabs,
  mature,    \* ghost: the host presented past its grace
  cause      \* ghost: why a marker is there: "none", "crash", "unseen" (a stop nobody saw)

gvars == <<marker, session, watcher, event, sessions, tabs, mature, cause>>

NoMarker == [pid |-> 0, old |-> FALSE, removed |-> FALSE, there |-> FALSE]
Marker(p, o, r) == [pid |-> p, old |-> o, removed |-> r, there |-> TRUE]
NoSession == [at |-> "off", pid |-> 0, safe |-> FALSE, warped |-> FALSE, old |-> FALSE, recorded |-> FALSE,
           orderly |-> FALSE, removed |-> FALSE, leaving |-> "unknown"]
NoWatch == [at |-> "off", watch |-> 0, ended |-> FALSE, code |-> 0, delete |-> FALSE]

Runs == session.at \in {"runs", "exits"}
Unsettled == watcher.watch # 0 /\ watcher.ended

-----------------------------------------------------------------------------
(* The host.                                                               *)

\* CrashMarkerMeansCrash.
MeansCrash(m) == m.there /\ ~m.old

\* CrashGuardInit, as the add-on is loaded.
SessionStarts(p) ==
  /\ session.at = "off" /\ sessions < MaxSessions /\ sessions' = sessions + 1
  /\ (Unsettled => "hasty" \in Lapses)
  /\ (p \in {marker.pid, watcher.watch} => p # watcher.watch /\ "reuse" \in Lapses)
  /\ session' = [NoSession EXCEPT !.at = "runs", !.pid = p, !.safe = MeansCrash(marker)]
  /\ marker' = IF MeansCrash(marker) THEN marker ELSE NoMarker
  /\ mature' = FALSE
  /\ UNCHANGED <<watcher, event, tabs, cause>>

\* CrashMarkerOnFirstWarped: just before the first warped evaluate.
FirstWarped ==
  /\ Runs /\ ~session.safe /\ ~session.warped /\ ~session.orderly
  /\ marker' = Marker(session.pid, FALSE, FALSE)
  /\ session' = [session EXCEPT !.warped = TRUE, !.old = FALSE, !.recorded = FALSE]
  /\ mature' = FALSE
  /\ UNCHANGED <<watcher, event, sessions, tabs, cause>>

GraceEnds ==
  /\ Runs /\ session.warped /\ ~session.old
  /\ session' = [session EXCEPT !.old = TRUE]
  /\ UNCHANGED <<marker, watcher, event, sessions, tabs, mature, cause>>

NeverCrossed == FALSE          \* mutant: the marker is refreshed by its cadence only
CrossedGrace == ~session.recorded /\ session.old

\* OrderlyStop, once: the session's own marker goes, or says why it stays.
ForgetsAny == ~session.removed    \* mutant: not only this session's own marker
Forgets == session.warped /\ ~session.removed
OrderlyStop ==
  marker' = IF session.orderly THEN marker
            ELSE IF Forgets THEN NoMarker
            ELSE IF session.warped THEN Marker(session.pid, session.recorded, TRUE)
            ELSE marker

\* CrashGuardOnPresent: CrashMarkerWrite, by the cadence (due) or as the grace is crossed ...
PresentRefreshes(due) ==
  /\ Runs /\ ~session.safe /\ session.warped /\ ~session.orderly
  /\ due \/ CrossedGrace
  /\ marker' = Marker(session.pid, session.old, FALSE)
  /\ session' = [session EXCEPT !.recorded = @ \/ CrossedGrace]
  /\ mature' = session.old
  /\ UNCHANGED <<watcher, event, sessions, tabs, cause>>

PresentDoesNot ==
  /\ Runs /\ ~session.safe /\ session.warped /\ ~session.orderly /\ ~CrossedGrace
  /\ mature' = session.old
  /\ UNCHANGED <<marker, session, watcher, event, sessions, tabs, cause>>

\* ... then WatchGameLeaving: the event is opened, seen clear, seen set.
PresentWatches ==
  /\ Runs
  /\ \/ /\ session.leaving = "unknown" /\ event # "absent"
        /\ session' = [session EXCEPT !.leaving = "open"] /\ UNCHANGED marker
     \/ /\ session.leaving = "open" /\ event = "clear"
        /\ session' = [session EXCEPT !.leaving = "clear"] /\ UNCHANGED marker
     \/ /\ session.leaving = "clear" /\ event = "set"
        /\ session' = [session EXCEPT !.leaving = "left", !.orderly = TRUE] /\ OrderlyStop
  /\ UNCHANGED <<watcher, event, sessions, tabs, mature, cause>>

DeviceRemoved ==
  /\ Runs /\ session.warped /\ ~session.removed
  /\ session' = [session EXCEPT !.removed = TRUE]
  /\ UNCHANGED <<marker, watcher, event, sessions, tabs, mature, cause>>

\* CrashGuardRetry, from an overlay.
Retry ==
  /\ Runs /\ session.safe
  /\ session' = [session EXCEPT !.safe = FALSE, !.warped = FALSE, !.recorded = FALSE]
  /\ marker' = NoMarker /\ mature' = FALSE /\ cause' = "none"
  /\ UNCHANGED <<watcher, event, sessions, tabs>>

\* The host leaves with code 0, through its hooks.
HostLeaves ==
  /\ session.at = "runs"
  /\ session' = [session EXCEPT !.at = "exits", !.orderly = TRUE] /\ OrderlyStop
  /\ UNCHANGED <<watcher, event, sessions, tabs, mature, cause>>

\* The Feed kills it from outside, with code 0.
HostKilled ==
  /\ session.at = "runs"
  /\ (session.removed /\ ~session.orderly => "mute" \in Lapses)
  /\ session' = [session EXCEPT !.at = "killed"]
  /\ UNCHANGED <<marker, watcher, event, sessions, tabs, mature, cause>>

\* What a session that is over leaves to be blamed for.
Blame(code) ==
  IF session.safe \/ ~session.warped \/ mature \/ (session.orderly /\ ~marker.removed) THEN cause
  ELSE IF code # 0 \/ marker.removed \/ session.removed THEN "crash"
  ELSE IF watcher.watch = session.pid THEN cause ELSE "unseen"

SessionEnds(code, left) ==
  /\ session' = NoSession
  /\ marker' = left
  /\ watcher' = IF watcher.watch = session.pid THEN [watcher EXCEPT !.ended = TRUE, !.code = code] ELSE watcher
  /\ event' = IF watcher.at = "off" THEN "absent" ELSE event
  /\ mature' = FALSE /\ cause' = Blame(code)
  /\ UNCHANGED <<sessions, tabs>>

\* Ended inside CrashMarkerPut, a host leaves an emptied file: no seconds, no pid.
Leftovers ==
  {marker} \cup (IF "torn" \in Lapses /\ session.warped /\ ~session.safe /\ ~session.orderly
                 THEN {Marker(0, FALSE, FALSE)} ELSE {})

\* ExitProcess tells the add-on that it is unloaded (addon_main.cpp): CrashMarkerClear.
HostEnds ==
  \/ session.at = "killed" /\ \E left \in Leftovers : SessionEnds(0, left)
  \/ session.at = "exits" /\ \E way \in Ways : SessionEnds(0, IF way = "exit" THEN NoMarker ELSE marker)

HostCrashes == Runs /\ \E left \in Leftovers : SessionEnds(1, left)

-----------------------------------------------------------------------------
(* The tab.                                                                *)

\* Its first present: EnsureLeavingEvent.
TabLoads ==
  /\ watcher.at = "off" /\ tabs < MaxTabs /\ tabs' = tabs + 1
  /\ watcher' = [NoWatch EXCEPT !.at = "idle"]
  /\ event' = "clear"
  /\ UNCHANGED <<marker, session, sessions, mature, cause>>

\* WatchHosts, while nothing is watched: Scan.
TabScans ==
  /\ watcher.at = "idle" /\ watcher.watch = 0 /\ session.at # "off"
  /\ watcher' = [watcher EXCEPT !.watch = session.pid, !.ended = FALSE]
  /\ UNCHANGED <<marker, session, event, sessions, tabs, mature, cause>>

\* Settle: its reads, then its DeleteFile.
Settles(m) == watcher.code = 0 /\ m.there /\ m.pid = watcher.watch /\ ~m.removed
TabSettles ==
  /\ watcher.at = "idle" /\ Unsettled
  /\ watcher' = [watcher EXCEPT !.at = "settles", !.delete = Settles(marker)]
  /\ UNCHANGED <<marker, session, event, sessions, tabs, mature, cause>>
TabDeletes ==
  /\ watcher.at = "settles"
  /\ marker' = IF watcher.delete THEN NoMarker ELSE marker
  /\ watcher' = [NoWatch EXCEPT !.at = "idle"]
  /\ UNCHANGED <<session, event, sessions, tabs, mature, cause>>

\* SignalLeaving: what ended is settled, what runs on is told.
TabLeaves ==
  /\ watcher.at = "idle"
  /\ marker' = IF Unsettled /\ Settles(marker) THEN NoMarker ELSE marker
  /\ event' = IF session.at = "off" \/ session.leaving = "unknown" THEN "absent"
              ELSE IF watcher.watch # 0 /\ ~watcher.ended THEN "set" ELSE event
  /\ watcher' = NoWatch
  /\ UNCHANGED <<session, sessions, tabs, mature, cause>>

-----------------------------------------------------------------------------
GInit ==
  /\ marker = NoMarker /\ session = NoSession /\ watcher = NoWatch /\ event = "absent"
  /\ sessions = 0 /\ tabs = 0 /\ mature = FALSE /\ cause = "none"

GNext ==
  \/ \E p \in Pids : SessionStarts(p)
  \/ FirstWarped \/ GraceEnds \/ PresentDoesNot \/ PresentWatches
  \/ \E due \in BOOLEAN : PresentRefreshes(due)
  \/ DeviceRemoved \/ Retry \/ HostLeaves \/ HostKilled \/ HostEnds \/ HostCrashes
  \/ TabLoads \/ TabScans \/ TabSettles \/ TabDeletes \/ TabLeaves

GSpec == GInit /\ [][GNext]_gvars

-----------------------------------------------------------------------------
(* What must hold.                                                         *)

\* A crash in the grace, or a stop with the device removed in it, is remembered until Retry: no stop of a host in
\* safe mode, no tab and no other session's end takes the marker away (crash_guard.cpp, "stays until Retry";
\* host_watch.cpp, "the guard keeps it until Retry"), and no session warps before.
CrashRemembered ==
  cause = "crash" => MeansCrash(marker) /\ (session.at # "off" => session.safe)

\* Safe mode has a reason: a session the game stopped, or one that had presented past its grace when it was
\* ended, however it was, does not turn the next one off.
NoFalseAlarm == session.safe => cause # "none"
=============================================================================

--------------------------- MODULE RemoteHostProofs ---------------------------
(***************************************************************************)
(* Proofs about the 32-bit game's host: the block it shares with the tab   *)
(* (RemoteLink), for any settings and any number of edits and hosts, and   *)
(* the marker of its sessions (CrashGuard), for any number of sessions,    *)
(* tabs and pids.                                                          *)
(***************************************************************************)
EXTENDS LinkContract, CrashGuard, FiniteSetTheorems, TLAPS

-----------------------------------------------------------------------------
(* RemoteLink: the sequence lock gives every reader whole payloads, as     *)
(* long as no host dies inside a publication and none starts inside one of *)
(* the tab's.                                                              *)

Settings == Values \cup {Nothing}
Words == [of : Settings, gen : Nat]
Halves == [odd : BOOLEAN, x : Settings, y : Words]
Copies == [tries : Nat, moved : BOOLEAN, x : Settings, y : Words]
HostAts == {"off", "idle", "begin", "first copy", "second copy", "check", "read", "failed", "open", "first",
            "second", "close"}
TabAts == HostAts \ {"off"}
Hosts == [at : HostAts, seen : Nat, last : Settings]
Tabs == [at : TabAts, mapped : BOOLEAN, live : BOOLEAN, x : Settings, gen : Nat, feeder : BOOLEAN]
Uis == [local : Settings, pending : BOOLEAN, gen : Nat, drawn : BOOLEAN]

LTypeOK ==
  /\ exists \in BOOLEAN /\ silent \in BOOLEAN
  /\ edit \in Halves /\ status \in Halves
  /\ host \in Hosts /\ tab \in Tabs
  /\ core \in Settings /\ asked \in Settings
  /\ hcopy \in Copies /\ tcopy \in Copies
  /\ ui \in Uis
  /\ torn \in BOOLEAN

\* Who holds the block: a tab that has it mapped, a host that runs.
BlockHeld ==
  /\ host.at # "off" \/ tab.mapped => exists
  /\ tab.at # "idle" \/ tab.live => tab.mapped

\* A sequence is odd exactly while its writer is between the two increments ...
StatusLocked == status.odd <=> host.at \in Inside
EditLocked == edit.odd <=> tab.at \in Inside

\* ... and half of a payload is new only between its two words.
StatusWhole == IF host.at = "second" THEN status.x = core ELSE status.x = status.y.of
EditWhole == tab.at # "second" => edit.x = edit.y.of

\* A reader for whom the sequence has not moved copied what stands there.
Copied(at, c, b) ==
  /\ at \in {"first copy", "second copy", "check"} /\ ~c.moved =>
       /\ ~b.odd
       /\ at \in {"second copy", "check"} => c.x = b.x
       /\ at = "check" => c.y = b.y
  /\ at = "read" => ~Torn(c)
HostCopied == Copied(host.at, hcopy, edit)
TabCopied == Copied(tab.at, tcopy, status)

LInv ==
  /\ LTypeOK /\ BlockHeld
  /\ StatusLocked /\ EditLocked /\ StatusWhole /\ EditWhole
  /\ HostCopied /\ TabCopied
  /\ WholePayloads

-----------------------------------------------------------------------------
(* The sequence lock.                                                      *)

\* One step of a read ...
LEMMA ReadTyped ==
  ASSUME NEW at \in Reading, NEW c \in Copies, NEW b \in Halves
  PROVE  ReadStep(at, c, b).c \in Copies /\ ReadStep(at, c, b).at \in Reading \cup {"read", "failed"}
<1> USE DEF ReadStep, Copies, Halves
<1>1. ASSUME b.odd
      PROVE  ReadStep("begin", c, b).c \in Copies /\ ReadStep("begin", c, b).at \in {"begin", "failed"}
  BY <1>1
<1>2. ASSUME ~b.odd
      PROVE  ReadStep("begin", c, b).c \in Copies /\ ReadStep("begin", c, b).at = "first copy"
  BY <1>2
<1>3. ReadStep("first copy", c, b).c \in Copies /\ ReadStep("first copy", c, b).at = "second copy"
  OBVIOUS
<1>4. ReadStep("second copy", c, b).c \in Copies /\ ReadStep("second copy", c, b).at = "check"
  OBVIOUS
<1>5. ASSUME Stable(c, b)
      PROVE  ReadStep("check", c, b).c \in Copies /\ ReadStep("check", c, b).at = "read"
  BY <1>5
<1>6. ASSUME ~Stable(c, b)
      PROVE  ReadStep("check", c, b).c \in Copies /\ ReadStep("check", c, b).at \in {"begin", "failed"}
  BY <1>6
<1> HIDE DEF ReadStep, Copies, Halves
<1>7. QED
  BY <1>1, <1>2, <1>3, <1>4, <1>5, <1>6 DEF Reading

\* ... and of a publication.
LEMMA WriteTyped ==
  ASSUME NEW at \in Writing, NEW b \in Halves, NEW x \in Settings, NEW y \in Words
  PROVE  WriteStep(at, b, x, y).b \in Halves /\ WriteStep(at, b, x, y).at \in Writing \cup {"idle"}
<1> USE DEF Halves
<1>1. CASE at = "open"
  BY <1>1 DEF WriteStep, Opened, Writing
<1>2. CASE at = "first"
  BY <1>2 DEF WriteStep, Writing
<1>3. CASE at = "second"
  BY <1>3 DEF WriteStep, Writing
<1>4. CASE at = "close"
  BY <1>4 DEF WriteStep, Closed
<1>5. QED
  BY <1>1, <1>2, <1>3, <1>4 DEF Writing

-----------------------------------------------------------------------------
(* Every step keeps the invariant.                                         *)

LEMMA HostStartKeeps ==
  ASSUME "kill" \notin Mishaps, "start" \notin Mishaps, LInv, HostStart
  PROVE  LInv'
<1> USE DEF LInv, LTypeOK, HostStart, Zeroed, Word, Writing
<1>1. exists' \in BOOLEAN /\ silent' \in BOOLEAN /\ tab' \in Tabs /\ core' \in Settings /\ asked' \in Settings
     /\ hcopy' \in Copies /\ tcopy' \in Copies /\ ui' \in Uis /\ torn' \in BOOLEAN
  BY DEF Copies, Words, Settings
<1>2. edit' \in Halves
  BY DEF Halves, Words, Settings
<1>3. status' \in Halves
  BY DEF Halves, Words, Settings
<1>4. host' \in Hosts
  BY DEF Hosts, HostAts, Halves, Words, Settings
<1>5. StatusLocked'
  BY DEF StatusLocked, Inside
<1>6. EditLocked'
  BY DEF EditLocked, Inside
<1>7. HostCopied'
  BY DEF HostCopied, Copied
<1>8. TabCopied'
  BY DEF TabCopied, BlockHeld, Copied
<1>9. WholePayloads'
  BY DEF WholePayloads, EditWhole, Torn
<1>10. BlockHeld' /\ StatusWhole' /\ EditWhole'
  BY DEF BlockHeld, StatusWhole, EditWhole
<1>11. QED
  BY <1>1, <1>2, <1>3, <1>4, <1>5, <1>6, <1>7, <1>8, <1>9, <1>10

LEMMA HostKillKeeps ==
  ASSUME "kill" \notin Mishaps, "start" \notin Mishaps, LInv, HostKill
  PROVE  LInv'
<1> USE DEF LInv, LTypeOK, HostKill, NoHost, NoCopy, Word, Writing
<1>1. edit' \in Halves /\ status' \in Halves /\ tab' \in Tabs
  BY DEF Halves, Words, Tabs, TabAts, HostAts
<1>2. core' \in Settings /\ asked' \in Settings /\ tcopy' \in Copies /\ ui' \in Uis /\ torn' \in BOOLEAN
  BY DEF Copies, Words, Uis, Torn
<1>3. exists' \in BOOLEAN /\ silent' \in BOOLEAN
  BY DEF Tabs
<1>4. host' \in Hosts
  BY DEF Hosts, HostAts, Settings
<1>5. hcopy' \in Copies
  BY DEF Copies, Words, Settings
<1>6. StatusLocked'
  BY DEF StatusLocked, Inside
<1>7. HostCopied'
  BY DEF HostCopied, Copied
<1>8. BlockHeld' /\ EditLocked' /\ StatusWhole' /\ EditWhole' /\ TabCopied' /\ WholePayloads'
  BY DEF BlockHeld, EditLocked, StatusWhole, EditWhole, TabCopied, WholePayloads
<1>9. QED
  BY <1>1, <1>2, <1>3, <1>4, <1>5, <1>6, <1>7, <1>8

LEMMA HostLooksKeeps ==
  ASSUME "kill" \notin Mishaps, "start" \notin Mishaps, LInv, HostLooks
  PROVE  LInv'
<1> USE DEF LInv, LTypeOK, HostLooks, NoCopy, Word
<1>1. exists' \in BOOLEAN /\ silent' \in BOOLEAN /\ edit' \in Halves /\ status' \in Halves /\ host' \in Hosts
  BY DEF Halves, Words, Hosts, HostAts
<1>2. tab' \in Tabs /\ core' \in Settings /\ asked' \in Settings /\ tcopy' \in Copies /\ ui' \in Uis /\ torn'
     \in BOOLEAN
  OBVIOUS
<1>3. hcopy' \in Copies
  BY DEF Copies, Words, Settings
<1>4. StatusLocked'
  BY DEF StatusLocked, Inside
<1>5. HostCopied'
  BY DEF HostCopied, Copied
<1>6. BlockHeld' /\ EditLocked' /\ StatusWhole' /\ EditWhole' /\ TabCopied' /\ WholePayloads'
  BY DEF BlockHeld, EditLocked, StatusWhole, EditWhole, TabCopied, WholePayloads
<1>7. QED
  BY <1>1, <1>2, <1>3, <1>4, <1>5, <1>6

LEMMA HostReadsKeeps ==
  ASSUME "kill" \notin Mishaps, "start" \notin Mishaps, LInv, HostReads
  PROVE  LInv'
<1> USE DEF LInv, LTypeOK, HostReads
<1>1. exists' \in BOOLEAN /\ silent' \in BOOLEAN
  BY DEF ReadStep, Stable, Reading
<1>2. edit' \in Halves
  BY DEF Halves, Words
<1>3. status' \in Halves
  BY DEF Halves, Words, ReadStep, Stable, Reading
<1>4. host' \in Hosts
  BY ReadTyped DEF Hosts, HostAts, Reading
<1>5. tab' \in Tabs
  BY DEF Tabs, TabAts, HostAts
<1>6. core' \in Settings /\ asked' \in Settings
  BY DEF ReadStep, Stable, Reading
<1>7. hcopy' \in Copies
  BY ReadTyped
<1>8. tcopy' \in Copies
  BY DEF Copies, Words, ReadStep, Stable, Reading
<1>9. ui' \in Uis
  BY DEF Uis, ReadStep, Stable, Reading
<1>10. torn' \in BOOLEAN
  BY DEF Torn, ReadStep, Stable, Reading
<1>11. StatusLocked'
  BY DEF StatusLocked, ReadStep, Stable, Reading, Hosts, Inside
<1>12. StatusWhole'
  BY DEF StatusWhole, ReadStep, Stable, Reading, Hosts
<1>13. HostCopied'
  BY DEF HostCopied, ReadStep, Stable, Reading, EditLocked, EditWhole, Copied, Torn, Copies, Hosts, Inside
<1>14. BlockHeld' /\ EditLocked' /\ EditWhole' /\ TabCopied' /\ WholePayloads'
  BY DEF BlockHeld, ReadStep, Stable, Reading, EditLocked, EditWhole, TabCopied, WholePayloads
<1>15. QED
  BY <1>1, <1>2, <1>3, <1>4, <1>5, <1>6, <1>7, <1>8, <1>9, <1>10, <1>11, <1>12, <1>13, <1>14

LEMMA TakesEditKeeps ==
  ASSUME "kill" \notin Mishaps, "start" \notin Mishaps, LInv, host.at = "read",
         host' = Compared, core' \in {core, hcopy.x}, asked' \in {asked, core},
         torn' = (torn \/ Torn(hcopy)), hcopy' = NoCopy,
         UNCHANGED <<exists, edit, status, silent, tab, tcopy, ui, counters>>
  PROVE  LInv'
<1> USE DEF LInv, LTypeOK, NoCopy, Word, Compared
<1>1. exists' \in BOOLEAN /\ silent' \in BOOLEAN /\ edit' \in Halves /\ status' \in Halves
  BY DEF Halves, Words
<1>2. tab' \in Tabs /\ tcopy' \in Copies /\ ui' \in Uis /\ torn' \in BOOLEAN
  BY DEF Tabs, TabAts, HostAts, Copies, Words, Uis, Torn
<1>3. host' \in Hosts
  BY DEF Hosts, HostAts, Words, Copies
<1>4. core' \in Settings /\ asked' \in Settings
  BY DEF Copies
<1>5. hcopy' \in Copies
  BY DEF Copies, Words, Settings
<1>6. StatusLocked'
  BY DEF StatusLocked, Inside
<1>7. HostCopied'
  BY DEF HostCopied, Copied
<1>8. WholePayloads'
  BY DEF WholePayloads, Copied, HostCopied
<1>9. BlockHeld' /\ EditLocked' /\ StatusWhole' /\ EditWhole' /\ TabCopied'
  BY DEF BlockHeld, EditLocked, StatusWhole, EditWhole, TabCopied
<1>10. QED
  BY <1>1, <1>2, <1>3, <1>4, <1>5, <1>6, <1>7, <1>8, <1>9

LEMMA TakesNoneKeeps ==
  ASSUME "kill" \notin Mishaps, "start" \notin Mishaps, LInv, host.at \in {"read", "failed"},
         host'.at = "open", host' \in Hosts, asked' \in {asked, core}, hcopy' = NoCopy,
         UNCHANGED <<exists, edit, status, silent, core, tab, tcopy, ui, counters, torn>>
  PROVE  LInv'
<1> USE DEF LInv, LTypeOK, NoCopy, Word
<1>1. exists' \in BOOLEAN /\ silent' \in BOOLEAN /\ edit' \in Halves /\ status' \in Halves /\ host' \in Hosts
  BY DEF Halves, Words, Hosts, HostAts
<1>2. tab' \in Tabs /\ core' \in Settings /\ asked' \in Settings /\ tcopy' \in Copies /\ ui' \in Uis /\ torn'
     \in BOOLEAN
  OBVIOUS
<1>3. hcopy' \in Copies
  BY DEF Copies, Words, Settings
<1>4. StatusLocked'
  BY DEF StatusLocked, Inside
<1>5. HostCopied'
  BY DEF HostCopied, Hosts, Copied
<1>6. BlockHeld' /\ EditLocked' /\ StatusWhole' /\ EditWhole' /\ TabCopied' /\ WholePayloads'
  BY DEF BlockHeld, EditLocked, StatusWhole, EditWhole, TabCopied, WholePayloads
<1>7. QED
  BY <1>1, <1>2, <1>3, <1>4, <1>5, <1>6

LEMMA HostSpeaksKeeps ==
  ASSUME "kill" \notin Mishaps, "start" \notin Mishaps, LInv, HostSpeaks
  PROVE  LInv'
<1> USE DEF LInv, LTypeOK, HostSpeaks
<1>1. exists' \in BOOLEAN /\ silent' \in BOOLEAN /\ edit' \in Halves /\ status' \in Halves /\ host' \in Hosts /\
     tab' \in Tabs
  BY DEF Halves, Words, Hosts, HostAts, Tabs, TabAts
<1>2. core' \in Settings /\ asked' \in Settings /\ hcopy' \in Copies /\ tcopy' \in Copies /\ ui' \in Uis /\
     torn' \in BOOLEAN
  BY DEF Copies, Words, Uis, Torn
<1>3. StatusLocked'
  BY DEF StatusLocked, Inside
<1>4. HostCopied'
  BY DEF HostCopied, Copied
<1>5. BlockHeld' /\ EditLocked' /\ StatusWhole' /\ EditWhole' /\ TabCopied' /\ WholePayloads'
  BY DEF BlockHeld, EditLocked, StatusWhole, EditWhole, TabCopied, WholePayloads
<1>6. QED
  BY <1>1, <1>2, <1>3, <1>4, <1>5

LEMMA HostPublishesKeeps ==
  ASSUME "kill" \notin Mishaps, "start" \notin Mishaps, LInv, HostPublishes
  PROVE  LInv'
<1> USE DEF LInv, LTypeOK, HostPublishes, Answered
<1>1. exists' \in BOOLEAN /\ silent' \in BOOLEAN /\ edit' \in Halves /\ host' \in Hosts /\ tab' \in Tabs
  BY DEF WriteStep, Opened, Closed, Word, Moves, Writing, Reading, Halves, Words, Hosts, HostAts, Tabs, TabAts
<1>2. core' \in Settings /\ asked' \in Settings /\ hcopy' \in Copies /\ tcopy' \in Copies /\ ui' \in Uis /\
     torn' \in BOOLEAN
  BY DEF WriteStep, Opened, Closed, Word, Moves, Writing, Reading, Copies, Words, Uis, Torn
<1>3. status' \in Halves
  BY DEF Halves, Words, WriteStep, Opened, Closed, Word, Moves, Writing, Reading, Hosts
<1>4. StatusLocked'
  BY DEF StatusLocked, WriteStep, Opened, Closed, Word, Moves, Writing, Reading, Halves, Hosts, Inside
<1>5. StatusWhole'
  BY DEF StatusWhole, WriteStep, Opened, Closed, Word, Moves, Writing, Reading, Halves, Hosts
<1>6. HostCopied'
  BY DEF HostCopied, WriteStep, Opened, Closed, Word, Moves, Writing, Reading, Hosts, Copied
<1>7. TabCopied'
  BY DEF TabCopied, WriteStep, Opened, Closed, Word, Moves, Writing, Reading, Copies, Inside, Copied, Torn,
       StatusLocked
<1>8. BlockHeld' /\ EditLocked' /\ EditWhole' /\ WholePayloads'
  BY DEF BlockHeld, WriteStep, Opened, Closed, Word, Moves, Writing, Reading, EditLocked, EditWhole,
       WholePayloads
<1>9. QED
  BY <1>1, <1>2, <1>3, <1>4, <1>5, <1>6, <1>7, <1>8

LEMMA HostChangesKeeps ==
  ASSUME "kill" \notin Mishaps, "start" \notin Mishaps, LInv, NEW v \in Values, HostChanges(v)
  PROVE  LInv'
<1> USE DEF LInv, LTypeOK, HostChanges
<1>1. exists' \in BOOLEAN /\ silent' \in BOOLEAN /\ edit' \in Halves /\ status' \in Halves /\ host' \in Hosts
  BY DEF Halves, Words, Hosts, HostAts
<1>2. tab' \in Tabs /\ hcopy' \in Copies /\ tcopy' \in Copies /\ ui' \in Uis /\ torn' \in BOOLEAN
  OBVIOUS
<1>3. core' \in Settings /\ asked' \in Settings
  BY DEF Settings
<1>4. BlockHeld' /\ StatusLocked' /\ EditLocked' /\ StatusWhole' /\ EditWhole' /\ HostCopied' /\ TabCopied' /\
     WholePayloads'
  BY DEF BlockHeld, StatusLocked, EditLocked, StatusWhole, EditWhole, HostCopied, TabCopied, WholePayloads
<1>5. QED
  BY <1>1, <1>2, <1>3, <1>4

LEMMA SilenceKeeps ==
  ASSUME "kill" \notin Mishaps, "start" \notin Mishaps, LInv, Silence
  PROVE  LInv'
<1> USE DEF LInv, LTypeOK, Silence
<1>1. exists' \in BOOLEAN /\ silent' \in BOOLEAN /\ edit' \in Halves /\ status' \in Halves /\ host' \in Hosts /\
     tab' \in Tabs
  BY DEF Halves, Words, Hosts, HostAts, Tabs, TabAts
<1>2. core' \in Settings /\ asked' \in Settings /\ hcopy' \in Copies /\ tcopy' \in Copies /\ ui' \in Uis /\
     torn' \in BOOLEAN
  BY DEF Copies, Words, Uis, Torn
<1>3. BlockHeld' /\ StatusLocked' /\ EditLocked' /\ StatusWhole' /\ EditWhole' /\ HostCopied' /\ TabCopied' /\
     WholePayloads'
  BY DEF BlockHeld, StatusLocked, EditLocked, StatusWhole, EditWhole, HostCopied, TabCopied, WholePayloads
<1>4. QED
  BY <1>1, <1>2, <1>3

LEMMA DeadSilenceKeeps ==
  ASSUME "kill" \notin Mishaps, "start" \notin Mishaps, LInv, DeadSilence
  PROVE  LInv'
<1> USE DEF LInv, LTypeOK, DeadSilence
<1>1. exists' \in BOOLEAN /\ silent' \in BOOLEAN /\ edit' \in Halves /\ status' \in Halves /\ host' \in Hosts /\
     tab' \in Tabs
  BY DEF Halves, Words, Hosts, HostAts, Tabs, TabAts
<1>2. core' \in Settings /\ asked' \in Settings /\ hcopy' \in Copies /\ tcopy' \in Copies /\ ui' \in Uis /\
     torn' \in BOOLEAN
  BY DEF Copies, Words, Uis, Torn
<1>3. BlockHeld' /\ StatusLocked' /\ EditLocked' /\ StatusWhole' /\ EditWhole' /\ HostCopied' /\ TabCopied' /\
     WholePayloads'
  BY DEF BlockHeld, StatusLocked, EditLocked, StatusWhole, EditWhole, HostCopied, TabCopied, WholePayloads
<1>4. QED
  BY <1>1, <1>2, <1>3

LEMMA PollKeeps ==
  ASSUME "kill" \notin Mishaps, "start" \notin Mishaps, LInv, Poll
  PROVE  LInv'
<1> USE DEF LInv, LTypeOK, Poll, NoCopy, Word
<1>1. exists' \in BOOLEAN /\ silent' \in BOOLEAN /\ edit' \in Halves /\ status' \in Halves /\ host' \in Hosts
  BY DEF Halves, Words, Hosts, HostAts
<1>2. tab' \in Tabs /\ core' \in Settings /\ asked' \in Settings /\ hcopy' \in Copies /\ ui' \in Uis /\ torn'
     \in BOOLEAN
  BY DEF Tabs, TabAts, HostAts, Copies, Words, Uis, Torn
<1>3. tcopy' \in Copies
  BY DEF Copies, Words, Settings
<1>4. EditLocked'
  BY DEF EditLocked, Inside
<1>5. TabCopied'
  BY DEF TabCopied, Copied
<1>6. BlockHeld' /\ StatusLocked' /\ StatusWhole' /\ EditWhole' /\ HostCopied' /\ WholePayloads'
  BY DEF BlockHeld, StatusLocked, StatusWhole, EditWhole, HostCopied, WholePayloads
<1>7. QED
  BY <1>1, <1>2, <1>3, <1>4, <1>5, <1>6

LEMMA TabReadsKeeps ==
  ASSUME "kill" \notin Mishaps, "start" \notin Mishaps, LInv, TabReads
  PROVE  LInv'
<1> USE DEF LInv, LTypeOK, TabReads
<1>1. ReadStep(tab.at, tcopy, status).at \in TabAts
  BY ReadTyped DEF Reading, TabAts, HostAts
<1>2. exists' \in BOOLEAN /\ silent' \in BOOLEAN
  BY DEF ReadStep, Stable, Reading
<1>3. edit' \in Halves
  BY DEF Halves, Words
<1>4. status' \in Halves
  BY DEF Halves, Words, ReadStep, Stable, Reading
<1>5. host' \in Hosts
  BY DEF Hosts, HostAts, ReadStep, Stable, Reading
<1>6. tab' \in Tabs
  BY <1>1 DEF Tabs
<1>7. core' \in Settings /\ asked' \in Settings
  BY DEF ReadStep, Stable, Reading
<1>8. hcopy' \in Copies
  BY DEF Copies, Words, ReadStep, Stable, Reading
<1>9. tcopy' \in Copies
  BY ReadTyped
<1>10. ui' \in Uis
  BY DEF Uis, ReadStep, Stable, Reading
<1>11. torn' \in BOOLEAN
  BY DEF Torn, ReadStep, Stable, Reading
<1>12. BlockHeld'
  BY DEF BlockHeld, ReadStep, Stable, Reading, Tabs
<1>13. EditLocked'
  BY DEF EditLocked, ReadStep, Stable, Reading, Tabs, Inside
<1>14. TabCopied'
  BY DEF TabCopied, ReadStep, Stable, Reading, StatusLocked, EditLocked, StatusWhole, Copied, Torn, Copies,
       Tabs, Inside
<1>15. StatusLocked' /\ StatusWhole' /\ EditWhole' /\ HostCopied' /\ WholePayloads'
  BY DEF StatusLocked, ReadStep, Stable, Reading, StatusWhole, EditWhole, HostCopied, WholePayloads
<1>16. QED
  BY <1>1, <1>2, <1>3, <1>4, <1>5, <1>6, <1>7, <1>8, <1>9, <1>10, <1>11, <1>12, <1>13, <1>14, <1>15

LEMMA TakesNewsKeeps ==
  ASSUME "kill" \notin Mishaps, "start" \notin Mishaps, LInv, tab.at = "read",
         tab' = [tab EXCEPT !.at = "idle", !.live = TRUE, !.x = tcopy.x, !.gen = tcopy.y.gen],
         exists' = (host.at # "off" \/ tab.mapped), torn' = (torn \/ Torn(tcopy)), tcopy' = NoCopy,
         UNCHANGED <<edit, status, silent, host, core, hcopy, ui, counters, asked>>
  PROVE  LInv'
<1> USE DEF LInv, LTypeOK, NoCopy, Word
<1>1. exists' \in BOOLEAN /\ silent' \in BOOLEAN /\ edit' \in Halves /\ status' \in Halves /\ host' \in Hosts /\
     core' \in Settings /\ asked' \in Settings /\ hcopy' \in Copies /\ ui' \in Uis /\ torn' \in BOOLEAN
  BY DEF Halves, Words, Hosts, HostAts, Copies, Uis, Torn
<1>2. tab' \in Tabs
  BY DEF Tabs, TabAts, HostAts, Words, Copies
<1>3. tcopy' \in Copies
  BY DEF Copies, Words, Settings
<1>4. EditLocked'
  BY DEF EditLocked, Inside
<1>5. TabCopied'
  BY DEF TabCopied, Copied
<1>6. WholePayloads'
  BY DEF WholePayloads, Copied, TabCopied
<1>7. BlockHeld' /\ StatusLocked' /\ StatusWhole' /\ EditWhole' /\ HostCopied'
  BY DEF BlockHeld, StatusLocked, StatusWhole, EditWhole, HostCopied
<1>8. QED
  BY <1>1, <1>2, <1>3, <1>4, <1>5, <1>6, <1>7

LEMMA TakesNothingKeeps ==
  ASSUME "kill" \notin Mishaps, "start" \notin Mishaps, LInv, tab.at \in {"read", "failed"},
         tab' = [NoLink EXCEPT !.mapped = (tab.at = "failed")],
         exists' = (host.at # "off" \/ tab'.mapped), torn' = torn, tcopy' = NoCopy,
         UNCHANGED <<edit, status, silent, host, core, hcopy, ui, counters, asked>>
  PROVE  LInv'
<1> USE DEF LInv, LTypeOK, NoLink, NoCopy, Word
<1>1. exists' \in BOOLEAN /\ silent' \in BOOLEAN /\ edit' \in Halves /\ status' \in Halves /\ host' \in Hosts
  BY DEF Halves, Words, Hosts, HostAts
<1>2. tab' \in Tabs /\ core' \in Settings /\ asked' \in Settings /\ hcopy' \in Copies /\ ui' \in Uis /\ torn' \in BOOLEAN
  <2>1. core' \in Settings /\ asked' \in Settings /\ hcopy' \in Copies /\ ui' \in Uis /\ torn' \in BOOLEAN
    OBVIOUS
  <2>2. [at |-> "idle", mapped |-> FALSE, live |-> FALSE, x |-> Nothing, gen |-> 0, feeder |-> FALSE] \in Tabs
    <3>1. "idle" \in TabAts
      BY DEF TabAts, HostAts
    <3>2. QED
      BY <3>1 DEF Tabs, Settings, Nothing
  <2>3. (tab.at = "failed") \in BOOLEAN
    OBVIOUS
  <2>4. \A t \in Tabs, m \in BOOLEAN : [t EXCEPT !.mapped = m] \in Tabs
    BY DEF Tabs
  <2>5. QED
    BY <2>1, <2>2, <2>3, <2>4
<1>3. tcopy' \in Copies
  BY DEF Copies, Words, Settings
<1>4. EditLocked'
  BY DEF EditLocked, Inside
<1>5. TabCopied'
  BY DEF TabCopied, Copied
<1>6. BlockHeld' /\ StatusLocked' /\ StatusWhole' /\ EditWhole' /\ HostCopied' /\ WholePayloads'
  BY DEF BlockHeld, StatusLocked, StatusWhole, EditWhole, HostCopied, WholePayloads
<1>7. QED
  BY <1>1, <1>2, <1>3, <1>4, <1>5, <1>6

LEMMA DrawKeeps ==
  ASSUME "kill" \notin Mishaps, "start" \notin Mishaps, LInv, Draw
  PROVE  LInv'
<1> USE DEF LInv, LTypeOK, Draw, Unpended
<1>1. exists' \in BOOLEAN /\ silent' \in BOOLEAN /\ edit' \in Halves /\ status' \in Halves /\ host' \in Hosts
  BY DEF Halves, Words, Hosts, HostAts
<1>2. tab' \in Tabs /\ core' \in Settings /\ asked' \in Settings /\ hcopy' \in Copies /\ tcopy' \in Copies /\
     torn' \in BOOLEAN
  BY DEF Tabs, TabAts, HostAts, Copies, Words, Torn
<1>3. ui' \in Uis
  BY DEF Uis, Tabs
<1>4. BlockHeld' /\ StatusLocked' /\ EditLocked' /\ StatusWhole' /\ EditWhole' /\ HostCopied' /\ TabCopied' /\
     WholePayloads'
  BY DEF BlockHeld, StatusLocked, EditLocked, StatusWhole, EditWhole, HostCopied, TabCopied, WholePayloads
<1>5. QED
  BY <1>1, <1>2, <1>3, <1>4

LEMMA CommitKeeps ==
  ASSUME "kill" \notin Mishaps, "start" \notin Mishaps, LInv, NEW v \in Values, Commit(v)
  PROVE  LInv'
<1> USE DEF LInv, LTypeOK, Commit
<1>1. exists' \in BOOLEAN /\ silent' \in BOOLEAN /\ edit' \in Halves /\ status' \in Halves /\ host' \in Hosts
  BY DEF Halves, Words, Hosts, HostAts
<1>2. tab' \in Tabs /\ core' \in Settings /\ asked' \in Settings /\ hcopy' \in Copies /\ tcopy' \in Copies /\
     torn' \in BOOLEAN
  BY DEF Tabs, TabAts, HostAts, Copies, Words, Torn
<1>3. ui' \in Uis
  BY DEF Uis, Settings
<1>4. EditLocked'
  BY DEF EditLocked, Inside
<1>5. TabCopied'
  BY DEF TabCopied, Copied
<1>6. BlockHeld' /\ StatusLocked' /\ StatusWhole' /\ EditWhole' /\ HostCopied' /\ WholePayloads'
  BY DEF BlockHeld, StatusLocked, StatusWhole, EditWhole, HostCopied, WholePayloads
<1>7. QED
  BY <1>1, <1>2, <1>3, <1>4, <1>5, <1>6

LEMMA CommitFeederKeeps ==
  ASSUME "kill" \notin Mishaps, "start" \notin Mishaps, LInv, CommitFeeder
  PROVE  LInv'
<1> USE DEF LInv, LTypeOK, CommitFeeder
<1>1. exists' \in BOOLEAN /\ silent' \in BOOLEAN /\ edit' \in Halves /\ status' \in Halves /\ host' \in Hosts /\
     tab' \in Tabs
  BY DEF Halves, Words, Hosts, HostAts, Tabs, TabAts
<1>2. core' \in Settings /\ asked' \in Settings /\ hcopy' \in Copies /\ tcopy' \in Copies /\ ui' \in Uis /\
     torn' \in BOOLEAN
  BY DEF Copies, Words, Uis, Torn
<1>3. EditLocked'
  BY DEF EditLocked, Inside
<1>4. TabCopied'
  BY DEF TabCopied, Copied
<1>5. BlockHeld' /\ StatusLocked' /\ StatusWhole' /\ EditWhole' /\ HostCopied' /\ WholePayloads'
  BY DEF BlockHeld, StatusLocked, StatusWhole, EditWhole, HostCopied, WholePayloads
<1>6. QED
  BY <1>1, <1>2, <1>3, <1>4, <1>5

LEMMA TabPublishesKeeps ==
  ASSUME "kill" \notin Mishaps, "start" \notin Mishaps, LInv, TabPublishes
  PROVE  LInv'
<1> USE DEF LInv, LTypeOK, TabPublishes, Asks
<1>1. Payload \in Settings
  BY DEF Payload, Tabs, Uis, Halves
<1>2. Word(edit.x, edit.y.gen + 1) \in Words
  BY DEF Word, Words, Halves
<1>3. LET w == WriteStep(tab.at, edit, Payload, Word(edit.x, edit.y.gen + 1)) IN w.b \in Halves /\ w.at \in
     Writing \cup {"idle"}
  BY <1>1, <1>2, WriteTyped
<1>4. exists' \in BOOLEAN /\ silent' \in BOOLEAN
  BY DEF Payload, WriteStep, Opened, Closed, Word, Moves, Writing, Reading
<1>5. edit' \in Halves
  BY <1>3
<1>6. status' \in Halves
  BY DEF Halves, Words, Payload, WriteStep, Opened, Closed, Word, Moves, Writing, Reading
<1>7. host' \in Hosts
  BY DEF Hosts, HostAts, Payload, WriteStep, Opened, Closed, Word, Moves, Writing, Reading
<1>8. tab' \in Tabs
  BY <1>3 DEF Tabs, TabAts, HostAts, Writing
<1>9. core' \in Settings /\ asked' \in Settings
  BY DEF Payload, WriteStep, Opened, Closed, Word, Moves, Writing, Reading, Halves
<1>10. hcopy' \in Copies
  BY DEF Copies, Words, Payload, WriteStep, Opened, Closed, Word, Moves, Writing, Reading
<1>11. tcopy' \in Copies
  BY DEF Copies, Words, Payload, WriteStep, Opened, Closed, Word, Moves, Writing, Reading
<1>12. ui' \in Uis
  BY DEF Uis, Payload, WriteStep, Opened, Closed, Word, Moves, Writing, Reading, Halves, Words
<1>13. torn' \in BOOLEAN
  BY DEF Torn, Payload, WriteStep, Opened, Closed, Word, Moves, Writing, Reading
<1>14. BlockHeld'
  BY DEF BlockHeld, Payload, WriteStep, Opened, Closed, Word, Moves, Writing, Reading, Tabs
<1>15. EditLocked'
  BY DEF EditLocked, Payload, WriteStep, Opened, Closed, Word, Moves, Writing, Reading, Halves, Tabs, Inside
<1>16. EditWhole'
  BY DEF EditWhole, Payload, WriteStep, Opened, Closed, Word, Moves, Writing, Reading, Halves, Tabs
<1>17. HostCopied'
  BY DEF HostCopied, Payload, WriteStep, Opened, Closed, Word, Moves, Writing, Reading, Copies, Inside, Copied,
       Torn, EditLocked
<1>18. TabCopied'
  BY DEF TabCopied, Payload, WriteStep, Opened, Closed, Word, Moves, Writing, Reading, Tabs, Copied
<1>19. StatusLocked' /\ StatusWhole' /\ WholePayloads'
  BY DEF StatusLocked, Payload, WriteStep, Opened, Closed, Word, Moves, Writing, Reading, StatusWhole,
       WholePayloads
<1>20. QED
  BY <1>1, <1>2, <1>3, <1>4, <1>5, <1>6, <1>7, <1>8, <1>9, <1>10, <1>11, <1>12, <1>13, <1>14, <1>15, <1>16,
     <1>17, <1>18, <1>19

LEMMA HostTakesKeeps ==
  ASSUME "kill" \notin Mishaps, "start" \notin Mishaps, LInv, HostTakes \/ HostRefuses
  PROVE  LInv'
<1>1. core' \in {core, hcopy.x} /\ asked' \in {asked, core}
  BY DEF HostTakes, HostRefuses
<1>2. QED
  BY <1>1, TakesEditKeeps DEF HostTakes, HostRefuses, New

LEMMA HostPassesKeeps ==
  ASSUME "kill" \notin Mishaps, "start" \notin Mishaps, LInv, HostPasses \/ HostDeclines
  PROVE  LInv'
<1>0. host \in Hosts /\ hcopy \in Copies
  BY DEF LInv, LTypeOK
<1>1. hcopy.y.gen \in Nat
  BY <1>0 DEF Copies, Words
<1>2. host'.at = "open" /\ host' \in Hosts
  BY <1>0, <1>1 DEF HostPasses, HostDeclines, Hosts, HostAts
<1>3. asked' \in {asked, core}
  BY DEF HostPasses, HostDeclines
<1>4. QED
  BY <1>2, <1>3, TakesNoneKeeps DEF HostPasses, HostDeclines, New

LEMMA TabTakesKeeps ==
  ASSUME "kill" \notin Mishaps, "start" \notin Mishaps, LInv, TabTakes
  PROVE  LInv'
<1>1. tab \in Tabs /\ torn \in BOOLEAN
  BY DEF LInv, LTypeOK
<1>2. CASE tab.at = "read" /\ Heard
  <2>1. tab' = [tab EXCEPT !.at = "idle", !.live = TRUE, !.x = tcopy.x, !.gen = tcopy.y.gen]
    BY <1>2 DEF TabTakes
  <2>2. tab'.live = TRUE /\ tab'.mapped = tab.mapped
    BY <1>1, <2>1 DEF Tabs
  <2>3. exists' = (host.at # "off" \/ tab.mapped) /\ torn' = (torn \/ Torn(tcopy))
    BY <2>2 DEF TabTakes
  <2>4. QED
    BY <1>2, <2>1, <2>3, TakesNewsKeeps DEF TabTakes
<1>3. CASE ~(tab.at = "read" /\ Heard)
  <2>1. tab' = [NoLink EXCEPT !.mapped = (tab.at = "failed")]
    BY <1>3 DEF TabTakes
  <2>2. tab'.live = FALSE
    BY <2>1 DEF NoLink
  <2>3. torn' = torn
    BY <1>1, <2>2 DEF TabTakes
  <2>4. QED
    BY <2>1, <2>3, TakesNothingKeeps DEF TabTakes
<1>4. QED
  BY <1>2, <1>3

LEMMA StepKeeps ==
  ASSUME "kill" \notin Mishaps, "start" \notin Mishaps, LInv, [LNext]_lvars
  PROVE  LInv'
<1>1. CASE HostStart \/ HostKill \/ Silence \/ DeadSilence
  BY <1>1, HostStartKeeps, HostKillKeeps, SilenceKeeps, DeadSilenceKeeps
<1>2. CASE HostSteps
  BY <1>2, HostLooksKeeps, HostReadsKeeps, HostPassesKeeps, HostTakesKeeps, HostSpeaksKeeps, HostPublishesKeeps
     DEF HostSteps
<1>3. CASE TabSteps
  BY <1>3, TabReadsKeeps, TabTakesKeeps, TabPublishesKeeps DEF TabSteps
<1>4. CASE Poll \/ Draw \/ CommitFeeder
  BY <1>4, PollKeeps, DrawKeeps, CommitFeederKeeps
<1>5. CASE \E v \in Values : HostChanges(v) \/ Commit(v)
  BY <1>5, HostChangesKeeps, CommitKeeps
<1>6. CASE UNCHANGED lvars
  <2>1. /\ exists' = exists /\ edit' = edit /\ status' = status /\ silent' = silent /\ host' = host
        /\ core' = core /\ tab' = tab /\ hcopy' = hcopy /\ tcopy' = tcopy /\ ui' = ui
        /\ asked' = asked /\ torn' = torn
    BY <1>6 DEF lvars
  <2>2. QED
    BY <2>1 DEF LInv, LTypeOK, BlockHeld, StatusLocked, EditLocked, StatusWhole, EditWhole, HostCopied, TabCopied,
       WholePayloads
<1>7. QED
  BY <1>1, <1>2, <1>3, <1>4, <1>5, <1>6 DEF LNext

LEMMA DefaultValue == Default \in Settings
<1>1. Values # {}
  BY LinkAssumption, FS_EmptySet
<1>2. QED
  BY <1>1 DEF Default, Settings

LEMMA InitKeeps == LInit => LInv
<1> SUFFICES ASSUME LInit PROVE LInv
  OBVIOUS
<1> USE DEF LInit
<1>1. exists \in BOOLEAN /\ silent \in BOOLEAN /\ torn \in BOOLEAN
  OBVIOUS
<1>2. edit \in Halves /\ status \in Halves /\ hcopy \in Copies /\ tcopy \in Copies
  BY DEF Zeroed, NoCopy, Word, Halves, Copies, Words, Settings
<1>3. host \in Hosts /\ tab \in Tabs
  BY DEF NoHost, NoLink, Hosts, Tabs, HostAts, TabAts, Settings
<1>4. core \in Settings /\ asked \in Settings /\ ui \in Uis
  BY DefaultValue DEF Uis
<1>5. LTypeOK
  BY <1>1, <1>2, <1>3, <1>4 DEF LTypeOK
<1>6. BlockHeld /\ StatusLocked /\ EditLocked /\ StatusWhole /\ EditWhole
  BY DEF BlockHeld, StatusLocked, EditLocked, StatusWhole, EditWhole, Inside, NoHost, NoLink, Zeroed, Word
<1>7. HostCopied /\ TabCopied /\ WholePayloads
  BY DEF HostCopied, TabCopied, Copied, WholePayloads, NoHost, NoLink
<1>8. QED
  BY <1>5, <1>6, <1>7 DEF LInv

-----------------------------------------------------------------------------
\* Neither process ever uses half of one payload with half of another, at any interleaving of their
\* accesses, over any number of edits, of hosts that start and are killed, and of attempts of a reader.
THEOREM NeverTorn ==
  ASSUME "kill" \notin Mishaps, "start" \notin Mishaps
  PROVE  LFairSpec => []WholePayloads
<1>1. LInv => WholePayloads
  BY DEF LInv
<1>2. LInv /\ [LNext]_lvars => LInv'
  BY StepKeeps
<1>3. QED
  BY <1>1, <1>2, InitKeeps, PTL DEF LFairSpec
-----------------------------------------------------------------------------
(* The contract.  What each side knows of the other's half, at every point *)
(* of a read or a publication: numbers of edits only grow, so what a host  *)
(* read is ahead of what it took and never of what stands in the block.    *)

HostKnows ==
  /\ host.at = "off" => host = NoHost
  /\ host.at # "off" => host.seen <= edit.y.gen
  /\ host.at \in Reading => host.seen < edit.y.gen
  /\ host.at = "read" => host.seen < hcopy.y.gen /\ hcopy.y.gen <= edit.y.gen
  /\ host.at = "close" => status.x = core /\ status.y.gen = host.seen
TabKnows ==
  /\ tab.at \in Writing => tab.live
  /\ tab.live => tab.x \in Values
  /\ ui.local \in Values
KInv == LInv /\ HostKnows /\ TabKnows

\* The fields of a typed state.
LEMMA Fields ==
  ASSUME LInv
  PROVE  /\ edit.y.gen \in Nat /\ edit.x \in Settings /\ edit.odd \in BOOLEAN
         /\ status.y.gen \in Nat /\ status.x \in Settings /\ status.odd \in BOOLEAN
         /\ host.seen \in Nat /\ host.last \in Settings /\ host.at \in HostAts
         /\ hcopy.x \in Settings /\ hcopy.y.gen \in Nat
         /\ tcopy.x \in Settings /\ tcopy.y.gen \in Nat
         /\ tab.at \in TabAts /\ tab.live \in BOOLEAN /\ tab.x \in Settings /\ tab.gen \in Nat
         /\ ui.local \in Settings
<1> USE DEF LInv, LTypeOK
<1>1. edit.y \in Words /\ status.y \in Words /\ hcopy.y \in Words /\ tcopy.y \in Words
  BY DEF Halves, Copies
<1>2. edit.y.gen \in Nat /\ status.y.gen \in Nat /\ hcopy.y.gen \in Nat /\ tcopy.y.gen \in Nat
  BY <1>1 DEF Words
<1>3. edit.x \in Settings /\ status.x \in Settings /\ edit.odd \in BOOLEAN /\ status.odd \in BOOLEAN
  BY DEF Halves
<1>4. hcopy.x \in Settings /\ tcopy.x \in Settings
  BY DEF Copies
<1>5. host.seen \in Nat /\ host.last \in Settings /\ host.at \in HostAts
  BY DEF Hosts
<1>6. tab.at \in TabAts /\ tab.live \in BOOLEAN /\ tab.x \in Settings /\ tab.gen \in Nat
  BY DEF Tabs
<1>7. ui.local \in Settings
  BY DEF Uis
<1>8. QED
  BY <1>2, <1>3, <1>4, <1>5, <1>6, <1>7

\* What a step leaves alone, the contract's variables do not see.
LEMMA Unseen ==
  /\ UNCHANGED <<tab, ui, edit>> => UNCHANGED Editing
  /\ UNCHANGED <<host, core, status>> => UNCHANGED Answering
  /\ UNCHANGED <<host, hcopy>> => UNCHANGED <<Got, Taken>>
  /\ UNCHANGED <<tab, tcopy>> => UNCHANGED Shown
  BY DEF Editing, Answering, Got, Taken, Shown, Payload, Paper

\* A read that the sequence let through holds what stands in the block.
LEMMA HostRead ==
  ASSUME LInv, HostReads, host'.at = "read"
  PROVE  /\ host.at = "check" /\ hcopy' = hcopy /\ hcopy.x = edit.x /\ hcopy.y = edit.y
         /\ tab.at \notin Inside
<1>1. host' = [host EXCEPT !.at = ReadStep(host.at, hcopy, edit).at] /\ hcopy' = ReadStep(host.at, hcopy, edit).c
  BY DEF HostReads
<1>2. host \in Hosts /\ host.at \in Reading
  BY DEF HostReads, LInv, LTypeOK
<1>3. ReadStep(host.at, hcopy, edit).at = "read"
  BY <1>1, <1>2 DEF Hosts
<1>4. host.at = "check" /\ Stable(hcopy, edit)
  BY <1>2, <1>3 DEF ReadStep, Reading
<1>5. hcopy' = hcopy
  BY <1>1, <1>4 DEF ReadStep
<1>6. QED
  BY <1>4, <1>5 DEF LInv, HostCopied, Copied, Stable, EditLocked

LEMMA TabRead ==
  ASSUME LInv, TabReads, tab'.at = "read"
  PROVE  /\ tab.at = "check" /\ tcopy' = tcopy /\ tcopy.x = status.x /\ tcopy.y = status.y
         /\ host.at \notin Inside
<1>1. tab' = [tab EXCEPT !.at = ReadStep(tab.at, tcopy, status).at] /\ tcopy' = ReadStep(tab.at, tcopy, status).c
  BY DEF TabReads
<1>2. tab \in Tabs /\ tab.at \in Reading
  BY DEF TabReads, LInv, LTypeOK
<1>3. ReadStep(tab.at, tcopy, status).at = "read"
  BY <1>1, <1>2 DEF Tabs
<1>4. tab.at = "check" /\ Stable(tcopy, status)
  BY <1>2, <1>3 DEF ReadStep, Reading
<1>5. tcopy' = tcopy
  BY <1>1, <1>4 DEF ReadStep
<1>6. QED
  BY <1>4, <1>5 DEF LInv, TabCopied, Copied, Stable, StatusLocked

\* The tab edits what it shows, so what it writes are settings.
LEMMA TabKnowsStep ==
  ASSUME LInv, TabKnows, LNext
  PROVE  TabKnows'
<1> USE DEF TabKnows
<1>0. tab \in Tabs /\ ui \in Uis /\ tcopy.x \in Settings
  BY Fields DEF LInv, LTypeOK
<1>1. CASE UNCHANGED <<tab, ui>>
  BY <1>1
<1>2. CASE Poll
  <2>1. /\ tab'.at \in {"begin", "idle"} /\ tab'.live = tab.live /\ tab'.x = tab.x
        /\ ui'.local = ui.local
    BY <1>0, <1>2 DEF Poll, Tabs, Uis
  <2>2. QED
    BY <2>1 DEF Writing
<1>3. CASE TabReads
  <2>1. ReadStep(tab.at, tcopy, status).at \in Reading \cup {"read", "failed"}
    BY <1>3, ReadTyped DEF TabReads, LInv, LTypeOK
  <2>2. tab' = [tab EXCEPT !.at = ReadStep(tab.at, tcopy, status).at] /\ ui' = ui
    BY <1>3 DEF TabReads
  <2>3. tab'.at \in Reading \cup {"read", "failed"} /\ tab'.live = tab.live /\ tab'.x = tab.x
    BY <1>0, <2>1, <2>2 DEF Tabs
  <2>4. QED
    BY <2>2, <2>3 DEF Writing, Reading
<1>4. CASE TabTakes
  <2>1. ui' = ui
    BY <1>4 DEF TabTakes
  <2>2. CASE tab.at = "read" /\ Heard
    <3>1. tab' = [tab EXCEPT !.at = "idle", !.live = TRUE, !.x = tcopy.x, !.gen = tcopy.y.gen]
      BY <1>4, <2>2 DEF TabTakes
    <3>2. tab'.at = "idle" /\ tab'.x = tcopy.x /\ tcopy.x \in Values
      BY <1>0, <2>2, <3>1 DEF Tabs, Heard, Settings
    <3>3. QED
      BY <2>1, <3>2 DEF Writing
  <2>3. CASE ~(tab.at = "read" /\ Heard)
    <3>1. tab' = [NoLink EXCEPT !.mapped = (tab.at = "failed")]
      BY <1>4, <2>3 DEF TabTakes
    <3>2. tab'.at = "idle" /\ tab'.live = FALSE
      BY <3>1 DEF NoLink
    <3>3. QED
      BY <2>1, <3>2 DEF Writing
  <2>4. QED
    BY <2>2, <2>3
<1>5. CASE Draw
  <2>1. tab' = tab /\ (ui'.local = ui.local \/ (tab.live /\ ui'.local = tab.x))
    BY <1>0, <1>5 DEF Draw, Unpended, Uis
  <2>2. QED
    BY <2>1
<1>6. ASSUME NEW v \in Values, Commit(v)
      PROVE  TabKnows'
  <2>1. tab.live /\ tab'.live = tab.live /\ tab'.x = tab.x /\ ui'.local = v
    BY <1>0, <1>6 DEF Commit, Tabs, Uis
  <2>2. QED
    BY <2>1
<1>7. CASE CommitFeeder
  <2>1. tab.live /\ tab'.live = tab.live /\ tab'.x = tab.x /\ ui' = ui
    BY <1>0, <1>7 DEF CommitFeeder, Tabs
  <2>2. QED
    BY <2>1
<1>8. CASE TabPublishes
  <2>1. tab.at \in Writing /\ tab'.live = tab.live /\ tab'.x = tab.x /\ ui'.local = ui.local
    BY <1>0, <1>8 DEF TabPublishes, Tabs, Uis
  <2>2. QED
    BY <2>1
<1>9. CASE HostStart \/ HostKill \/ Silence \/ DeadSilence \/ HostSteps \/ \E v \in Values : HostChanges(v)
  BY <1>1, <1>9 DEF HostStart, HostKill, Silence, DeadSilence, HostSteps, HostLooks, HostReads, HostPasses,
     HostDeclines, HostTakes, HostRefuses, HostSpeaks, HostPublishes, HostChanges
<1>10. QED
  BY <1>2, <1>3, <1>4, <1>5, <1>6, <1>7, <1>8, <1>9 DEF LNext, TabSteps

\* Between the tab's steps a host's view is kept ...
LEMMA HostViewKept ==
  ASSUME LInv, HostKnows, UNCHANGED <<edit, status, host, core, hcopy>>
  PROVE  HostKnows'
  BY DEF HostKnows

\* ... and an edit that is published only grows the number that stands in the block.
LEMMA HostBehind ==
  ASSUME LInv, HostKnows, TabPublishes
  PROVE  HostKnows'
<1>1. edit'.y.gen \in {edit.y.gen, edit.y.gen + 1}
  <2>1. edit \in Halves /\ tab.at \in Writing
    BY DEF TabPublishes, LInv, LTypeOK
  <2>2. edit' = WriteStep(tab.at, edit, Payload, Word(edit.x, edit.y.gen + 1)).b
    BY DEF TabPublishes
  <2>3. CASE tab.at = "open"
    BY <2>1, <2>2, <2>3 DEF WriteStep, Opened, Halves
  <2>4. CASE tab.at = "first"
    BY <2>1, <2>2, <2>4 DEF WriteStep, Halves
  <2>5. CASE tab.at = "second"
    BY <2>1, <2>2, <2>5 DEF WriteStep, Halves, Word
  <2>6. CASE tab.at = "close"
    BY <2>1, <2>2, <2>6 DEF WriteStep, Closed, Halves
  <2>7. QED
    BY <2>1, <2>3, <2>4, <2>5, <2>6 DEF Writing
<1>2. UNCHANGED <<host, status, core>> /\ hcopy'.y = hcopy.y
  BY DEF TabPublishes, LInv, LTypeOK, Copies
<1>3. edit.y.gen \in Nat /\ host.seen \in Nat /\ hcopy.y.gen \in Nat
  BY Fields
<1>4. QED
  BY <1>1, <1>2, <1>3 DEF HostKnows

\* A decision about an edit, or that there was none to read, ends the read.
LEMMA HostDecides ==
  ASSUME LInv, HostPasses \/ HostDeclines \/ HostTakes \/ HostRefuses
  PROVE  /\ host.at \in {"read", "failed"} /\ host'.at = "open"
         /\ host'.seen \in {host.seen, hcopy.y.gen} /\ (host'.seen # host.seen => host.at = "read")
         /\ UNCHANGED <<edit, status, tab, tcopy, ui>>
<1>0. host \in Hosts
  BY DEF LInv, LTypeOK
<1>1. CASE HostPasses
  BY <1>0, <1>1 DEF HostPasses, Hosts
<1>2. CASE HostDeclines
  BY <1>0, <1>2 DEF HostDeclines, New, Hosts
<1>3. CASE HostTakes
  BY <1>3 DEF HostTakes, New, Compared
<1>4. CASE HostRefuses
  BY <1>4 DEF HostRefuses, New, Compared
<1>5. QED
  BY <1>1, <1>2, <1>3, <1>4

LEMMA HostKnowsStep ==
  ASSUME LInv, HostKnows, LNext, "kill" \notin Mishaps
  PROVE  HostKnows'
<1>0. /\ host \in Hosts /\ hcopy \in Copies /\ edit \in Halves /\ status \in Halves
      /\ edit.y.gen \in Nat /\ host.seen \in Nat /\ hcopy.y.gen \in Nat
  BY Fields DEF LInv, LTypeOK
<1>1. CASE HostStart
  <2>1. host'.at = "idle" /\ host'.seen = edit'.y.gen /\ edit'.y.gen \in Nat
    BY <1>0, <1>1 DEF HostStart, Zeroed, Word
  <2>2. host'.seen <= edit'.y.gen
    BY <2>1
  <2>3. host'.at \notin Reading /\ host'.at \notin {"off", "read", "close"}
    BY <2>1 DEF Reading
  <2>4. QED
    BY <2>2, <2>3, Zenon DEF HostKnows
<1>2. CASE HostKill
  BY <1>2 DEF HostKill, HostKnows, NoHost, Reading
<1>3. CASE HostLooks
  <2>1. /\ host.at = "idle" /\ edit.y.gen # host.seen /\ edit' = edit
        /\ host'.at = "begin" /\ host'.seen = host.seen
    BY <1>0, <1>3 DEF HostLooks, Hosts
  <2>2. host.seen < edit.y.gen
    BY <1>0, <2>1 DEF HostKnows
  <2>3. QED
    BY <1>0, <2>1, <2>2 DEF HostKnows, Reading
<1>4. CASE HostReads
  <2>1. host' = [host EXCEPT !.at = ReadStep(host.at, hcopy, edit).at] /\ edit' = edit /\ host.at \in Reading
    BY <1>4 DEF HostReads
  <2>2. ReadStep(host.at, hcopy, edit).at \in Reading \cup {"read", "failed"}
    BY <1>0, <2>1, ReadTyped
  <2>3. host'.at \in Reading \cup {"read", "failed"} /\ host'.seen = host.seen
    BY <1>0, <2>1, <2>2 DEF Hosts
  <2>4. host.seen < edit.y.gen
    BY <2>1 DEF HostKnows
  <2>5. host'.at = "read" => hcopy'.y = edit.y
    BY <1>4, HostRead
  <2>6. host'.at = "read" => host'.seen < hcopy'.y.gen /\ hcopy'.y.gen <= edit'.y.gen
    BY <1>0, <2>1, <2>3, <2>4, <2>5
  <2>7. host'.seen < edit'.y.gen /\ host'.seen <= edit'.y.gen
    BY <1>0, <2>1, <2>3, <2>4
  <2>8. host'.at \notin {"off", "close"}
    BY <2>3 DEF Reading
  <2>9. QED
    BY <2>6, <2>7, <2>8, Zenon DEF HostKnows
<1>5. CASE HostPasses \/ HostDeclines \/ HostTakes \/ HostRefuses
  <2>1. host'.at = "open" /\ edit' = edit /\ host'.seen \in {host.seen, hcopy.y.gen}
        /\ (host'.seen # host.seen => host.at = "read") /\ host.at \in {"read", "failed"}
    BY <1>5, HostDecides
  <2>2. host'.seen <= edit.y.gen
    BY <1>0, <2>1 DEF HostKnows
  <2>3. QED
    BY <2>1, <2>2 DEF HostKnows, Reading
<1>6. CASE HostSpeaks
  <2>1. host.at = "idle" /\ host'.at = "open" /\ host'.seen = host.seen /\ edit' = edit
    BY <1>0, <1>6 DEF HostSpeaks, Hosts
  <2>2. QED
    BY <2>1 DEF HostKnows, Reading
<1>7. CASE HostPublishes
  <2>1. /\ host.at \in Writing /\ edit' = edit /\ core' = core
        /\ status' = WriteStep(host.at, status, core, Word(core, host.seen)).b
        /\ host' = [host EXCEPT !.at = WriteStep(host.at, status, core, Word(core, host.seen)).at]
    BY <1>7 DEF HostPublishes, Answered
  <2>2. host.seen <= edit.y.gen /\ host'.seen = host.seen
    BY <1>0, <2>1 DEF HostKnows, Hosts, Writing
  <2>3. CASE host.at = "second"
    <3>1. host'.at = "close" /\ status'.y = Word(core, host.seen) /\ status'.x = status.x
      BY <1>0, <2>1, <2>3 DEF WriteStep, Hosts, Halves
    <3>2. status.x = core
      BY <2>3 DEF LInv, StatusWhole
    <3>3. status'.x = core' /\ status'.y.gen = host'.seen
      BY <2>1, <2>2, <3>1, <3>2 DEF Word
    <3>4. host'.seen <= edit'.y.gen
      BY <2>1, <2>2
    <3>5. host'.at \notin Reading /\ host'.at \notin {"off", "read"}
      BY <3>1 DEF Reading
    <3>6. QED
      BY <3>3, <3>4, <3>5, Zenon DEF HostKnows
  <2>4. CASE host.at \in {"open", "first", "close"}
    <3>1. host'.at \in {"first", "second", "idle"}
      BY <1>0, <2>1, <2>4 DEF WriteStep, Hosts
    <3>2. QED
      BY <2>1, <2>2, <3>1 DEF HostKnows, Reading
  <2>5. QED
    BY <2>1, <2>3, <2>4 DEF Writing
<1>8. ASSUME NEW v \in Values, HostChanges(v)
      PROVE  HostKnows'
  BY <1>8 DEF HostChanges, HostKnows, Reading
<1>9. CASE TabPublishes
  BY <1>9, HostBehind
<1>10. CASE Silence \/ DeadSilence \/ TabReads \/ TabTakes \/ Poll \/ Draw \/ CommitFeeder \/ \E v \in Values : Commit(v)
  BY <1>10, HostViewKept DEF Silence, DeadSilence, TabReads, TabTakes, Poll, Draw, CommitFeeder, Commit
<1>11. QED
  BY <1>1, <1>2, <1>3, <1>4, <1>5, <1>6, <1>7, <1>8, <1>9, <1>10 DEF LNext, HostSteps, TabSteps

-----------------------------------------------------------------------------
(* Every step of the two processes is a step of the contract, or none.     *)

Stutters == UNCHANGED <<Editing, Answering, host.at # "off", core, Got, Taken, Shown>>
Forward == [Link!SNext]_(Link!svars)

LEMMA StutterForward == Stutters => Forward
  BY DEF Stutters, Forward, Link!svars

LEMMA StartForward ==
  ASSUME KInv, HostStart, "start" \notin Mishaps
  PROVE  Forward
<1>0. LInv /\ host.at = "off" /\ tab.at \notin Writing
  BY DEF KInv, HostStart
<1>1. host' = [at |-> "idle", seen |-> edit'.y.gen, last |-> edit'.x] /\ UNCHANGED <<core, tab, tcopy>>
  BY DEF HostStart
<1>2. host'.at = "idle" /\ host'.seen = edit'.y.gen /\ host'.last = edit'.x
  BY <1>1
<1>3. Editing = Paper(edit.x, edit.y.gen) /\ Editing' = Paper(edit'.x, edit'.y.gen)
  BY <1>0, <1>1 DEF Editing, Writing
<1>4. Answering = Paper(status.x, status.y.gen) /\ Answering' = Paper(status'.x, status'.y.gen)
  BY <1>0, <1>2 DEF Answering, Inside
<1>5. Got' = Editing' /\ Taken' = Editing'
  BY <1>2, <1>3 DEF Got, Taken
<1>6. Shown' = Shown
  BY <1>1, Unseen
<1>7. CASE exists
  <2>1. edit' = edit /\ status' = status
    BY <1>7 DEF HostStart
  <2>2. Editing' = Editing /\ Answering' = Answering
    BY <1>3, <1>4, <2>1
  <2>3. Link!Starts(FALSE)
    BY <1>0, <1>1, <1>2, <1>5, <1>6, <2>2 DEF Link!Starts
  <2>4. QED
    BY <2>3 DEF Forward, Link!SNext
<1>8. CASE ~exists
  <2>1. edit' = Zeroed /\ status' = Zeroed
    BY <1>8 DEF HostStart
  <2>2. Editing' = Link!Blank /\ Answering' = Link!Blank
    BY <1>3, <1>4, <2>1 DEF Zeroed, Word, Paper, Link!Blank
  <2>3. tab.at = "idle" /\ tab.live = FALSE
    BY <1>0, <1>8, Fields DEF LInv, LTypeOK, BlockHeld, Tabs
  <2>4. Shown = Link!Blank
    BY <2>3 DEF Shown, Paper, Link!Blank
  <2>5. Link!Starts(TRUE)
    BY <1>0, <1>1, <1>2, <1>5, <1>6, <2>2, <2>4 DEF Link!Starts
  <2>6. QED
    BY <2>5 DEF Forward, Link!SNext
<1>9. QED
  BY <1>7, <1>8

LEMMA KillForward ==
  ASSUME KInv, HostKill, "kill" \notin Mishaps
  PROVE  Forward
<1>1. host.at # "off" /\ host.at \notin Writing /\ host' = NoHost /\ UNCHANGED <<edit, status, core, tab, tcopy, ui>>
  BY DEF HostKill
<1>2. Editing' = Editing /\ Shown' = Shown
  BY <1>1, Unseen
<1>3. host'.at = "off" /\ Got' = Link!Blank /\ Taken' = Link!Blank
  BY <1>1 DEF NoHost, Got, Taken, Paper, Link!Blank
<1>4. Answering' = Answering
  BY <1>1, <1>3 DEF Answering, Inside, Writing
<1>5. Link!Ends
  BY <1>1, <1>2, <1>3, <1>4 DEF Link!Ends
<1>6. QED
  BY <1>5 DEF Forward, Link!SNext

LEMMA HostReadsForward ==
  ASSUME KInv, HostReads
  PROVE  Forward
<1>0. LInv /\ host \in Hosts /\ host.at \in Reading
  BY DEF KInv, LInv, LTypeOK, HostReads
<1>1. UNCHANGED <<edit, status, core, tab, tcopy, ui>>
  BY DEF HostReads
<1>2. host' = [host EXCEPT !.at = ReadStep(host.at, hcopy, edit).at]
  BY DEF HostReads
<1>3. ReadStep(host.at, hcopy, edit).at \in Reading \cup {"read", "failed"}
  BY <1>0, ReadTyped DEF LInv, LTypeOK
<1>4. /\ host'.at \in Reading \cup {"read", "failed"} /\ host'.seen = host.seen /\ host'.last = host.last
  BY <1>0, <1>2, <1>3 DEF Hosts
<1>5. Editing' = Editing /\ Shown' = Shown
  BY <1>1, Unseen
<1>6. host.at # "off" /\ host'.at # "off" /\ Answering' = Answering
  BY <1>0, <1>1, <1>4 DEF Answering, Inside, Reading
<1>7. Taken' = Taken /\ Got = Taken
  BY <1>0, <1>4 DEF Taken, Got, Reading
<1>8. CASE host'.at = "read"
  <2>1. hcopy' = hcopy /\ hcopy.x = edit.x /\ hcopy.y = edit.y /\ tab.at \notin Inside
    BY <1>0, <1>8, HostRead
  <2>2. Got' = Editing
    BY <1>8, <2>1 DEF Got, Editing, Inside
  <2>3. Editing.gen > Taken.gen
    <3>1. Editing.gen = edit.y.gen /\ Taken.gen = host.seen
      BY <2>1 DEF Editing, Taken, Paper, Inside
    <3>2. host.seen < edit.y.gen /\ host.seen \in Nat /\ edit.y.gen \in Nat
      BY <1>0, Fields DEF KInv, HostKnows
    <3>3. QED
      BY <3>1, <3>2
  <2>4. Link!Reads
    BY <1>1, <1>5, <1>6, <1>7, <2>2, <2>3 DEF Link!Reads
  <2>5. QED
    BY <2>4 DEF Forward, Link!SNext
<1>9. CASE host'.at # "read"
  <2>1. Got' = Got
    BY <1>7, <1>9 DEF Got
  <2>2. QED
    BY <1>1, <1>5, <1>6, <1>7, <2>1, StutterForward DEF Stutters
<1>10. QED
  BY <1>8, <1>9

\* What host and tab have said stands through every decision about an edit.
LEMMA DecidesAside ==
  ASSUME KInv, HostPasses \/ HostDeclines \/ HostTakes \/ HostRefuses
  PROVE  /\ UNCHANGED <<Editing, Shown, Answering>>
         /\ host.at \in {"read", "failed"} /\ host'.at = "open" /\ Got' = Taken'
  BY HostDecides, Unseen DEF KInv, Answering, Inside, Got

\* A new edit is one the host has not had.
LEMMA NewAhead ==
  ASSUME KInv, New
  PROVE  /\ host.at = "read" /\ Got = Paper(hcopy.x, hcopy.y.gen)
         /\ Got.x = hcopy.x /\ Got.gen = hcopy.y.gen /\ Taken.x = host.last /\ Got # Taken
<1>1. host.at = "read" /\ hcopy.y.gen # host.seen
  BY DEF New
<1>2. Got = Paper(hcopy.x, hcopy.y.gen) /\ Taken = Paper(host.last, host.seen)
  BY <1>1 DEF Got, Taken
<1>3. Got.x = hcopy.x /\ Got.gen = hcopy.y.gen /\ Taken.x = host.last /\ Taken.gen = host.seen
  BY <1>2 DEF Paper
<1>4. QED
  BY <1>1, <1>2, <1>3

LEMMA HostTakesForward ==
  ASSUME KInv, HostTakes \/ HostRefuses
  PROVE  Forward
<1>1. New /\ host' = Compared
  BY DEF HostTakes, HostRefuses
<1>2. core' = core \/ (hcopy.x # host.last /\ core' = hcopy.x)
  BY DEF HostTakes, HostRefuses, TakenBefore
<1>3. Taken' = Paper(hcopy.x, hcopy.y.gen)
  BY <1>1 DEF Taken, Compared
<1>4. Link!Takes
  BY <1>1, <1>2, <1>3, NewAhead, DecidesAside DEF Link!Takes
<1>5. QED
  BY <1>4 DEF Forward, Link!SNext

LEMMA HostDeclinesForward ==
  ASSUME KInv, HostDeclines
  PROVE  Forward
<1>0. host \in Hosts
  BY DEF KInv, LInv, LTypeOK
<1>1. New /\ core' = core /\ host'.seen = hcopy.y.gen /\ host'.last = host.last
  BY <1>0 DEF HostDeclines, Hosts
<1>2. Taken' = [Taken EXCEPT !.gen = Got.gen]
  BY <1>1, NewAhead DEF Taken, Paper
<1>3. Link!Declines
  BY <1>1, <1>2, NewAhead, DecidesAside DEF Link!Declines
<1>4. QED
  BY <1>3 DEF Forward, Link!SNext

LEMMA HostPassesForward ==
  ASSUME KInv, HostPasses
  PROVE  Forward
<1>0. LInv /\ host \in Hosts
  BY DEF KInv, LInv, LTypeOK
<1>1. host'.seen = host.seen /\ host'.last = host.last /\ core' = core
  BY <1>0 DEF HostPasses, Hosts
<1>2. host.at = "failed"
  <2>1. host.at = "read" => host.seen < hcopy.y.gen /\ host.seen \in Nat /\ hcopy.y.gen \in Nat
    BY <1>0, Fields DEF KInv, HostKnows
  <2>2. QED
    BY <2>1 DEF HostPasses, New
<1>3. Taken' = Taken /\ Got = Taken
  BY <1>1, <1>2 DEF Got, Taken
<1>4. QED
  BY <1>1, <1>2, <1>3, DecidesAside, StutterForward DEF Stutters

LEMMA HostPublishesForward ==
  ASSUME KInv, HostPublishes
  PROVE  Forward
<1>0. LInv /\ host \in Hosts /\ host.at \in Writing /\ status \in Halves /\ tcopy \in Copies
  BY DEF KInv, LInv, LTypeOK, HostPublishes
<1>1. UNCHANGED <<edit, core, tab, ui>>
  BY DEF HostPublishes
<1>2. /\ status' = WriteStep(host.at, status, core, Word(core, host.seen)).b
      /\ host' = [host EXCEPT !.at = WriteStep(host.at, status, core, Word(core, host.seen)).at]
  BY DEF HostPublishes, Answered
<1>3. tcopy'.x = tcopy.x /\ tcopy'.y = tcopy.y
  BY <1>0 DEF HostPublishes, Copies
<1>4. Editing' = Editing /\ Shown' = Shown
  BY <1>1, <1>3, Unseen DEF Shown
<1>5. host'.seen = host.seen /\ host'.last = host.last
  BY <1>0, <1>2 DEF Hosts
<1>6. host.at # "off" /\ host.at # "read"
  BY <1>0 DEF Writing
<1>7. ASSUME NEW at \in {"first", "second", "close", "idle"}, host'.at = at
      PROVE  host'.at # "off" /\ Got = Taken /\ Got' = Got /\ Taken' = Taken
  BY <1>5, <1>6, <1>7 DEF Got, Taken
<1>8. CASE host.at = "open"
  <2>1. host'.at = "first"
    BY <1>0, <1>2, <1>8 DEF WriteStep, Hosts
  <2>2. Answering' = Paper(core, host.seen)
    BY <1>1, <1>5, <2>1 DEF Answering, Inside
  <2>3. Answering' = [x |-> core, gen |-> Taken.gen]
    BY <2>2 DEF Taken, Paper
  <2>4. Link!Answers
    BY <1>1, <1>4, <1>6, <1>7, <2>1, <2>3 DEF Link!Answers
  <2>5. QED
    BY <2>4 DEF Forward, Link!SNext
<1>9. CASE host.at \in {"first", "second"}
  <2>1. host'.at \in {"second", "close"}
    BY <1>0, <1>2, <1>9 DEF WriteStep, Hosts
  <2>2. Answering' = Answering
    BY <1>1, <1>5, <1>9, <2>1 DEF Answering, Inside
  <2>3. QED
    BY <1>1, <1>4, <1>6, <1>7, <2>1, <2>2, StutterForward DEF Stutters
<1>10. CASE host.at = "close"
  <2>1. host'.at = "idle" /\ status'.x = status.x /\ status'.y = status.y
    BY <1>0, <1>2, <1>10 DEF WriteStep, Hosts, Halves, Closed
  <2>2. status.x = core /\ status.y.gen = host.seen
    BY <1>10 DEF KInv, HostKnows
  <2>3. Answering' = Answering
    BY <1>10, <2>1, <2>2 DEF Answering, Inside
  <2>4. QED
    BY <1>1, <1>4, <1>6, <1>7, <2>1, <2>3, StutterForward DEF Stutters
<1>11. QED
  BY <1>0, <1>8, <1>9, <1>10 DEF Writing

LEMMA HostWaitsForward ==
  ASSUME KInv, HostLooks \/ HostSpeaks
  PROVE  Forward
<1>0. host \in Hosts
  BY DEF KInv, LInv, LTypeOK
<1>1. host.at = "idle" /\ UNCHANGED <<edit, status, core, tab, tcopy, ui>>
  BY DEF HostLooks, HostSpeaks
<1>2. host'.at \in {"begin", "open"} /\ host'.seen = host.seen /\ host'.last = host.last
  BY <1>0 DEF HostLooks, HostSpeaks, Hosts
<1>3. Editing' = Editing /\ Shown' = Shown
  BY <1>1, Unseen
<1>4. Answering' = Answering /\ Got' = Got /\ Taken' = Taken /\ host.at # "off" /\ host'.at # "off"
  BY <1>1, <1>2 DEF Answering, Inside, Got, Taken
<1>5. QED
  BY <1>1, <1>3, <1>4, StutterForward DEF Stutters

LEMMA HostChangesForward ==
  ASSUME KInv, NEW v \in Values, HostChanges(v)
  PROVE  Forward
<1>1. host.at = "idle" /\ core' = v /\ UNCHANGED <<edit, status, host, hcopy, tab, tcopy, ui>>
  BY DEF HostChanges
<1>2. UNCHANGED <<Editing, Shown, Got, Taken>> /\ Got = Taken
  BY <1>1, Unseen DEF Got
<1>3. Answering' = Answering
  BY <1>1 DEF Answering, Inside
<1>4. Link!Changes(v)
  BY <1>1, <1>2, <1>3 DEF Link!Changes
<1>5. QED
  BY <1>4 DEF Forward, Link!SNext

LEMMA SilencesForward ==
  ASSUME Silence \/ DeadSilence
  PROVE  Forward
<1>1. UNCHANGED <<edit, status, host, core, hcopy, tab, tcopy, ui>>
  BY DEF Silence, DeadSilence
<1>2. QED
  BY <1>1, Unseen, StutterForward DEF Stutters

\* What the tab does between its publications and reads, the host's half does not see.
LEMMA TabAlone ==
  ASSUME UNCHANGED <<status, host, core, hcopy>>
  PROVE  UNCHANGED <<Answering, host.at # "off", core, Got, Taken>>
  BY Unseen

LEMMA TabWaitsForward ==
  ASSUME KInv, Poll \/ Draw \/ CommitFeeder \/ \E v \in Values : Commit(v)
  PROVE  Forward
<1>0. tab \in Tabs
  BY DEF KInv, LInv, LTypeOK
<1>1. tab.at = "idle" /\ UNCHANGED <<edit, status, host, core, hcopy>>
  BY DEF Poll, Draw, CommitFeeder, Commit
<1>2. tab'.at \in {"idle", "begin", "open"} /\ tab'.live = tab.live /\ tab'.x = tab.x /\ tab'.gen = tab.gen
  BY <1>0, <1>1 DEF Poll, Draw, CommitFeeder, Commit, Tabs
<1>3. Editing' = Editing
  BY <1>1, <1>2 DEF Editing
<1>4. Shown' = Shown
  BY <1>1, <1>2 DEF Shown
<1>5. QED
  BY <1>1, <1>3, <1>4, TabAlone, StutterForward DEF Stutters

LEMMA TabReadsForward ==
  ASSUME KInv, TabReads
  PROVE  Forward
<1>0. LInv /\ tab \in Tabs /\ tab.at \in Reading
  BY DEF KInv, LInv, LTypeOK, TabReads
<1>1. UNCHANGED <<edit, status, host, core, hcopy, ui>>
  BY DEF TabReads
<1>2. tab' = [tab EXCEPT !.at = ReadStep(tab.at, tcopy, status).at]
  BY DEF TabReads
<1>3. ReadStep(tab.at, tcopy, status).at \in Reading \cup {"read", "failed"}
  BY <1>0, ReadTyped DEF LInv, LTypeOK
<1>4. /\ tab'.at \in Reading \cup {"read", "failed"}
      /\ tab'.live = tab.live /\ tab'.x = tab.x /\ tab'.gen = tab.gen
  BY <1>0, <1>2, <1>3 DEF Tabs
<1>5. Editing' = Editing
  BY <1>0, <1>1, <1>4 DEF Editing, Reading
<1>6. UNCHANGED <<Answering, host.at # "off", core, Got, Taken>>
  BY <1>1, TabAlone
<1>7. CASE tab'.at = "read"
  <2>1. tcopy' = tcopy /\ tcopy.x = status.x /\ tcopy.y = status.y /\ host.at \notin Inside
    BY <1>0, <1>7, TabRead
  <2>2. Shown' = Answering
    BY <1>7, <2>1 DEF Shown, Answering
  <2>3. Link!Hears
    BY <1>5, <1>6, <2>2 DEF Link!Hears
  <2>4. QED
    BY <2>3 DEF Forward, Link!SNext
<1>8. CASE tab'.at # "read"
  <2>1. Shown' = Shown
    BY <1>0, <1>4, <1>8 DEF Shown, Reading
  <2>2. QED
    BY <1>5, <1>6, <2>1, StutterForward DEF Stutters
<1>9. QED
  BY <1>7, <1>8

LEMMA TabTakesForward ==
  ASSUME KInv, TabTakes
  PROVE  Forward
<1>0. tab \in Tabs /\ tab.at \in {"read", "failed"}
  BY DEF KInv, LInv, LTypeOK, TabTakes
<1>1. UNCHANGED <<edit, status, host, core, hcopy, ui>>
  BY DEF TabTakes
<1>2. UNCHANGED <<Answering, host.at # "off", core, Got, Taken>>
  BY <1>1, TabAlone
<1>3. CASE tab.at = "read" /\ Heard
  <2>1. tab' = [tab EXCEPT !.at = "idle", !.live = TRUE, !.x = tcopy.x, !.gen = tcopy.y.gen]
    BY <1>3 DEF TabTakes
  <2>2. tab'.at = "idle" /\ tab'.live = TRUE /\ tab'.x = tcopy.x /\ tab'.gen = tcopy.y.gen
    BY <1>0, <2>1 DEF Tabs
  <2>3. Editing' = Editing
    BY <1>1, <1>3, <2>2 DEF Editing
  <2>4. Shown' = Shown
    BY <1>3, <2>2 DEF Shown
  <2>5. QED
    BY <1>2, <2>3, <2>4, StutterForward DEF Stutters
<1>4. CASE ~(tab.at = "read" /\ Heard)
  <2>1. tab' = [NoLink EXCEPT !.mapped = (tab.at = "failed")]
    BY <1>4 DEF TabTakes
  <2>2. tab'.at = "idle" /\ tab'.live = FALSE
    BY <2>1 DEF NoLink
  <2>3. Editing' = Editing
    BY <1>0, <1>1, <2>2 DEF Editing
  <2>4. Shown' = Link!Blank
    BY <2>2 DEF Shown, Paper, Link!Blank
  <2>5. Link!Forgets
    BY <1>2, <2>3, <2>4 DEF Link!Forgets
  <2>6. QED
    BY <2>5 DEF Forward, Link!SNext
<1>5. QED
  BY <1>3, <1>4

LEMMA TabPublishesForward ==
  ASSUME KInv, TabPublishes
  PROVE  Forward
<1>0. LInv /\ tab \in Tabs /\ tab.at \in Writing /\ edit \in Halves /\ hcopy \in Copies /\ ui \in Uis
  BY DEF KInv, LInv, LTypeOK, TabPublishes
<1>1. UNCHANGED <<status, host, core, tcopy>>
  BY DEF TabPublishes
<1>2. /\ edit' = WriteStep(tab.at, edit, Payload, Word(edit.x, edit.y.gen + 1)).b
      /\ tab' = [tab EXCEPT !.at = WriteStep(tab.at, edit, Payload, Word(edit.x, edit.y.gen + 1)).at,
                            !.feeder = @ /\ WriteStep(tab.at, edit, Payload, Word(edit.x, edit.y.gen + 1)).at # "idle"]
  BY DEF TabPublishes
<1>3. hcopy'.x = hcopy.x /\ hcopy'.y = hcopy.y
  BY <1>0 DEF TabPublishes, Copies
<1>4. Got' = Got /\ Taken' = Taken /\ UNCHANGED <<Answering, host.at # "off", core>>
  BY <1>1, <1>3, Unseen DEF Got, Taken
<1>5. tab'.live = tab.live /\ tab'.x = tab.x /\ tab'.gen = tab.gen /\ tab.live /\ tab.x \in Values
  BY <1>0, <1>2 DEF Tabs, KInv, TabKnows
<1>6. ASSUME NEW at \in {"first", "second", "close", "idle"}, tab'.at = at
      PROVE  Shown' = Shown
  BY <1>0, <1>1, <1>5, <1>6 DEF Shown, Writing
<1>7. CASE tab.at = "open"
  <2>1. tab'.at = "first" /\ tab'.feeder = tab.feeder /\ edit'.x = edit.x /\ edit'.y = edit.y /\ ui' = ui
    <3>1. WriteStep(tab.at, edit, Payload, Word(edit.x, edit.y.gen + 1)) = [b |-> Opened(edit), at |-> "first"]
      BY <1>7 DEF WriteStep
    <3>2. tab'.at = "first" /\ tab'.feeder = tab.feeder
      BY <1>0, <1>2, <3>1 DEF Tabs
    <3>3. edit'.x = edit.x /\ edit'.y = edit.y
      BY <1>0, <1>2, <3>1 DEF Opened, Halves
    <3>4. QED
      BY <1>7, <3>2, <3>3 DEF TabPublishes
  <2>2. Payload' = Payload
    BY <1>5, <2>1 DEF Payload
  <2>3. Payload \in Values
    <3>1. edit.x \in Values \cup {Nothing} /\ ui.local \in Values
      BY <1>0, Fields DEF Settings, KInv, TabKnows
    <3>2. QED
      BY <1>5, <3>1 DEF Payload
  <2>4. Editing.gen = edit.y.gen /\ Editing' = Paper(Payload, edit.y.gen + 1)
    BY <1>7, <2>1, <2>2 DEF Editing, Paper
  <2>5. Editing' = [x |-> Payload, gen |-> Editing.gen + 1]
    BY <2>4 DEF Paper
  <2>6. Shown.x # Nothing
    <3>1. Shown.x = tab.x
      BY <1>5, <1>7 DEF Shown, Paper
    <3>2. Nothing \notin Values
      BY LinkAssumption DEF Nothing
    <3>3. QED
      BY <1>5, <3>1, <3>2
  <2>7. Link!Edits(Payload)
    BY <1>4, <1>6, <2>1, <2>5, <2>6 DEF Link!Edits
  <2>8. QED
    BY <2>3, <2>7 DEF Forward, Link!SNext
<1>8. CASE tab.at = "first"
  <2>1. WriteStep(tab.at, edit, Payload, Word(edit.x, edit.y.gen + 1)) = [b |-> [edit EXCEPT !.x = Payload], at |-> "second"]
    BY <1>8 DEF WriteStep
  <2>2. tab'.at = "second" /\ edit'.x = Payload /\ edit'.y = edit.y
    BY <1>0, <1>2, <2>1 DEF Tabs, Halves
  <2>3. Editing' = Editing
    BY <1>8, <2>2 DEF Editing
  <2>4. QED
    BY <1>4, <1>6, <2>2, <2>3, StutterForward DEF Stutters
<1>9. CASE tab.at = "second"
  <2>1. WriteStep(tab.at, edit, Payload, Word(edit.x, edit.y.gen + 1))
          = [b |-> [edit EXCEPT !.y = Word(edit.x, edit.y.gen + 1)], at |-> "close"]
    BY <1>9 DEF WriteStep
  <2>2. tab'.at = "close" /\ edit'.x = edit.x /\ edit'.y.gen = edit.y.gen + 1
    BY <1>0, <1>2, <2>1 DEF Tabs, Halves, Word
  <2>3. Editing' = Editing
    BY <1>9, <2>2 DEF Editing
  <2>4. QED
    BY <1>4, <1>6, <2>2, <2>3, StutterForward DEF Stutters
<1>10. CASE tab.at = "close"
  <2>1. WriteStep(tab.at, edit, Payload, Word(edit.x, edit.y.gen + 1)) = [b |-> Closed(edit), at |-> "idle"]
    BY <1>10 DEF WriteStep
  <2>2. tab'.at = "idle" /\ edit'.x = edit.x /\ edit'.y = edit.y
    BY <1>0, <1>2, <2>1 DEF Tabs, Halves, Closed
  <2>3. Editing' = Editing
    BY <1>10, <2>2 DEF Editing
  <2>4. QED
    BY <1>4, <1>6, <2>2, <2>3, StutterForward DEF Stutters
<1>11. QED
  BY <1>0, <1>7, <1>8, <1>9, <1>10 DEF Writing

LEMMA StepForward ==
  ASSUME KInv, [LNext]_lvars, "kill" \notin Mishaps, "start" \notin Mishaps
  PROVE  Forward
<1>1. CASE HostStart \/ HostKill \/ Silence \/ DeadSilence
  BY <1>1, StartForward, KillForward, SilencesForward
<1>2. CASE HostSteps
  BY <1>2, HostWaitsForward, HostReadsForward, HostPassesForward, HostDeclinesForward, HostTakesForward,
     HostPublishesForward DEF HostSteps
<1>3. CASE TabSteps
  BY <1>3, TabReadsForward, TabTakesForward, TabPublishesForward DEF TabSteps
<1>4. CASE Poll \/ Draw \/ CommitFeeder \/ \E v \in Values : Commit(v)
  BY <1>4, TabWaitsForward
<1>5. CASE \E v \in Values : HostChanges(v)
  BY <1>5, HostChangesForward
<1>6. CASE UNCHANGED lvars
  <2>1. UNCHANGED <<edit, status, host, core, hcopy, tab, tcopy, ui>>
    BY <1>6 DEF lvars
  <2>2. QED
    BY <2>1, Unseen, StutterForward DEF Stutters
<1>7. QED
  BY <1>1, <1>2, <1>3, <1>4, <1>5, <1>6 DEF LNext

LEMMA KnowledgeKept ==
  ASSUME KInv, [LNext]_lvars, "kill" \notin Mishaps, "start" \notin Mishaps
  PROVE  KInv'
<1>1. LInv'
  BY StepKeeps DEF KInv
<1>2. CASE LNext
  BY <1>1, <1>2, HostKnowsStep, TabKnowsStep DEF KInv
<1>3. CASE UNCHANGED lvars
  BY <1>1, <1>3 DEF lvars, KInv, HostKnows, TabKnows
<1>4. QED
  BY <1>2, <1>3

LEMMA InitKnows == LInit => KInv /\ Link!SInit
<1> SUFFICES ASSUME LInit PROVE KInv /\ Link!SInit
  OBVIOUS
<1>0. Default \in Values
  <2>1. Values # {}
    BY LinkAssumption, FS_EmptySet
  <2>2. QED
    BY <2>1 DEF Default
<1>1. /\ host.at = "off" /\ host = NoHost /\ host.seen = 0 /\ host.last = Nothing
      /\ tab.at = "idle" /\ tab.live = FALSE /\ ui.local = Default
      /\ edit.x = Nothing /\ edit.y.gen = 0 /\ status.x = Nothing /\ status.y.gen = 0 /\ core = Default
  BY DEF LInit, NoHost, NoLink, Zeroed, Word
<1>2. HostKnows
  BY <1>1 DEF HostKnows, Reading
<1>3. TabKnows
  BY <1>0, <1>1 DEF TabKnows, Writing
<1>4. /\ Editing = Link!Blank /\ Answering = Link!Blank /\ Got = Link!Blank /\ Taken = Link!Blank
      /\ Shown = Link!Blank
  BY <1>1 DEF Editing, Answering, Got, Taken, Shown, Inside, Paper, Link!Blank
<1>5. QED
  BY <1>0, <1>1, <1>2, <1>3, <1>4, InitKeeps DEF KInv, Link!SInit

\* The block is an atomic register in each direction: at any interleaving of the accesses each process reads
\* the other's last publication, whole and in order, no host decides about an edit twice, and an answer names
\* the last edit decided about and has the settings of after the decision (those of before if the edit was turned
\* away); any number of edits, hosts and attempts, as long as no host dies inside a
\* publication and none starts inside one of the tab's.
THEOREM BlockIsAtomic ==
  ASSUME "kill" \notin Mishaps, "start" \notin Mishaps
  PROVE  LFairSpec => LinkKept
<1>1. KInv /\ [LNext]_lvars => [Link!SNext]_(Link!svars)
  BY StepForward DEF Forward
<1>2. KInv /\ [LNext]_lvars => KInv'
  BY KnowledgeKept
<1>3. QED
  BY <1>1, <1>2, InitKnows, PTL DEF LFairSpec, LinkKept, Link!SSpec

-----------------------------------------------------------------------------
(* CrashGuard: a crash is remembered, and nothing else is, when hosts end  *)
(* by TerminateProcess and none of the lapses happens.                     *)

Markers == [pid : Nat, old : BOOLEAN, removed : BOOLEAN, there : BOOLEAN]
Sessions ==
  [at : {"off", "runs", "exits", "killed"}, pid : Nat, safe : BOOLEAN, warped : BOOLEAN, old : BOOLEAN,
   recorded : BOOLEAN, orderly : BOOLEAN, removed : BOOLEAN, leaving : {"unknown", "open", "clear", "left"}]
Watchers ==
  [at : {"off", "idle", "settles"}, watch : Nat, ended : BOOLEAN, code : {0, 1}, delete : BOOLEAN]

GTypeOK ==
  /\ marker \in Markers /\ session \in Sessions /\ watcher \in Watchers
  /\ event \in {"absent", "clear", "set"}
  /\ sessions \in Nat /\ tabs \in Nat /\ mature \in BOOLEAN
  /\ cause \in {"none", "crash", "unseen"}

\* A tab watches the host that runs, or one that ended and that no other has followed.
WatchesOne ==
  /\ watcher.at = "off" => watcher.watch = 0
  /\ watcher.at = "settles" => watcher.watch # 0
  /\ watcher.watch # 0 => IF watcher.ended THEN session.at = "off"
                          ELSE watcher.at = "idle" /\ session.at # "off" /\ watcher.watch = session.pid

\* A session has a pid, and between sessions nothing of the last one is left.
OffBlank == IF session.at = "off" THEN session = NoSession ELSE session.pid # 0

\* A session that has not warped left no marker.
ColdLeavesNone == session.at # "off" /\ ~session.safe /\ ~session.warped => ~marker.there

\* A safe session did not warp, and the marker it keeps is another's.
SafeKeeps == session.safe => ~session.warped /\ marker.pid # session.pid

\* What a warping session recorded of its age is what its marker says, and the marker is its own.
AgeRecorded == session.warped => mature = session.recorded /\ (session.recorded => session.old)
OwnMark == session.warped /\ marker.there => marker.pid = session.pid /\ marker.old = session.recorded

\* It is there until the orderly end, and after it only to say that the device was removed.
MarkStands == session.warped /\ ~session.orderly => marker.there /\ ~marker.removed
MarkExplains == session.warped /\ session.orderly /\ marker.there => marker.removed
EndsInOrder ==
  /\ session.at = "exits" => session.orderly
  /\ session.at = "killed" /\ session.removed => session.orderly

NoneIsBlank == ~marker.there => ~marker.removed

\* What a settled end takes away is not the mark of a crash ...
CrashNotSettled ==
  cause = "crash" /\ Unsettled => ~Settles(marker) /\ (watcher.at = "settles" => ~watcher.delete)

\* ... and a marker without a cause is one that is going to be settled.
CauselessSettled ==
  session.at = "off" /\ MeansCrash(marker) /\ cause = "none" =>
    Unsettled /\ Settles(marker) /\ (watcher.at = "settles" => watcher.delete)

GInv ==
  /\ GTypeOK /\ WatchesOne /\ OffBlank /\ ColdLeavesNone /\ SafeKeeps /\ NoneIsBlank
  /\ AgeRecorded /\ OwnMark /\ MarkStands /\ MarkExplains /\ EndsInOrder
  /\ CrashNotSettled /\ CauselessSettled
  /\ CrashRemembered /\ NoFalseAlarm

-----------------------------------------------------------------------------
(* Every step keeps it.                                                    *)

LEMMA SessionStartsKeeps ==
  ASSUME Lapses = {}, GInv, NEW p \in Pids, SessionStarts(p)
  PROVE  GInv'
<1> USE GuardAssumption DEF GInv, GTypeOK, Runs, SessionStarts
<1>1. marker' \in Markers
  BY DEF Markers, NoMarker
<1>2. session' \in Sessions
  BY DEF Sessions, Markers, NoSession, MeansCrash
<1>3. watcher' \in Watchers
  BY DEF Watchers
<1>4. sessions' \in Nat /\ tabs' \in Nat
  OBVIOUS
<1>5. event' \in {"absent", "clear", "set"} /\ mature' \in BOOLEAN /\ cause' \in {"none", "crash", "unseen"}
  OBVIOUS
<1>6. OffBlank' /\ EndsInOrder' /\ CauselessSettled' /\ CrashRemembered'
  BY DEF OffBlank, EndsInOrder, CauselessSettled, CrashRemembered
<1>7. WatchesOne' /\ CrashNotSettled'
  BY DEF WatchesOne, CrashNotSettled, Unsettled, Settles
<1>8. ColdLeavesNone' /\ SafeKeeps' /\ NoneIsBlank' /\ AgeRecorded' /\ OwnMark' /\ MarkStands' /\ MarkExplains'
  BY DEF ColdLeavesNone, SafeKeeps, NoneIsBlank, AgeRecorded, OwnMark, MarkStands, MarkExplains, NoSession,
       NoMarker
<1>9. NoFalseAlarm'
  BY DEF NoFalseAlarm, CrashNotSettled, CauselessSettled
<1>10. QED
  BY <1>1, <1>2, <1>3, <1>4, <1>5, <1>6, <1>7, <1>8, <1>9

LEMMA FirstWarpedKeeps ==
  ASSUME Lapses = {}, GInv, FirstWarped
  PROVE  GInv'
<1> USE GuardAssumption DEF GInv, GTypeOK, Runs, FirstWarped, Marker
<1>1. marker' \in Markers
  BY DEF Markers, NoMarker, Sessions
<1>2. session' \in Sessions
  BY DEF Sessions
<1>3. watcher' \in Watchers
  BY DEF Watchers
<1>4. sessions' \in Nat /\ tabs' \in Nat /\ event' \in {"absent", "clear", "set"} /\ mature' \in BOOLEAN /\
     cause' \in {"none", "crash", "unseen"}
  OBVIOUS
<1>5. WatchesOne' /\ OffBlank' /\ ColdLeavesNone' /\ SafeKeeps' /\ NoneIsBlank' /\ OwnMark' /\ MarkStands' /\
     MarkExplains' /\ EndsInOrder' /\ CauselessSettled' /\ CrashRemembered' /\ NoFalseAlarm'
  BY DEF WatchesOne, OffBlank, ColdLeavesNone, SafeKeeps, NoneIsBlank, OwnMark, MarkStands, MarkExplains,
       EndsInOrder, CauselessSettled, CrashRemembered, NoFalseAlarm
<1>6. AgeRecorded'
  BY DEF AgeRecorded, Markers, Sessions
<1>7. CrashNotSettled'
  BY DEF CrashNotSettled, CauselessSettled, CrashRemembered
<1>8. QED
  BY <1>1, <1>2, <1>3, <1>4, <1>5, <1>6, <1>7

LEMMA GraceEndsKeeps ==
  ASSUME Lapses = {}, GInv, GraceEnds
  PROVE  GInv'
<1> USE GuardAssumption DEF GInv, GTypeOK, Runs, GraceEnds
<1>1. marker' \in Markers
  BY DEF Markers, NoMarker
<1>2. session' \in Sessions
  BY DEF Sessions
<1>3. watcher' \in Watchers
  BY DEF Watchers
<1>4. sessions' \in Nat /\ tabs' \in Nat /\ event' \in {"absent", "clear", "set"} /\ mature' \in BOOLEAN /\
     cause' \in {"none", "crash", "unseen"}
  OBVIOUS
<1>5. WatchesOne' /\ OffBlank' /\ ColdLeavesNone' /\ SafeKeeps' /\ NoneIsBlank' /\ AgeRecorded' /\ OwnMark' /\
     MarkStands' /\ MarkExplains' /\ EndsInOrder' /\ CauselessSettled' /\ CrashRemembered' /\ NoFalseAlarm'
  BY DEF WatchesOne, OffBlank, ColdLeavesNone, SafeKeeps, NoneIsBlank, AgeRecorded, OwnMark, MarkStands,
       MarkExplains, EndsInOrder, CauselessSettled, CrashRemembered, NoFalseAlarm
<1>6. CrashNotSettled'
  BY DEF CrashNotSettled, Unsettled, Settles
<1>7. QED
  BY <1>1, <1>2, <1>3, <1>4, <1>5, <1>6

LEMMA PresentRefreshesKeeps ==
  ASSUME Lapses = {}, GInv, NEW due \in BOOLEAN, PresentRefreshes(due)
  PROVE  GInv'
<1> USE GuardAssumption DEF GInv, GTypeOK, Runs, PresentRefreshes, CrossedGrace, Marker
<1>1. marker' \in Markers
  BY DEF Markers, NoMarker, Sessions
<1>2. session' \in Sessions
  BY DEF Sessions
<1>3. watcher' \in Watchers
  BY DEF Watchers
<1>4. sessions' \in Nat /\ tabs' \in Nat
  OBVIOUS
<1>5. event' \in {"absent", "clear", "set"} /\ mature' \in BOOLEAN /\ cause' \in {"none", "crash", "unseen"}
  BY DEF Sessions
<1>6. WatchesOne' /\ OffBlank' /\ ColdLeavesNone' /\ SafeKeeps' /\ NoneIsBlank' /\ MarkStands' /\ MarkExplains'
     /\ EndsInOrder' /\ CauselessSettled' /\ CrashRemembered' /\ NoFalseAlarm'
  BY DEF WatchesOne, OffBlank, ColdLeavesNone, SafeKeeps, NoneIsBlank, MarkStands, MarkExplains, EndsInOrder,
       CauselessSettled, CrashRemembered, NoFalseAlarm
<1>7. AgeRecorded'
  BY DEF AgeRecorded, Markers, Sessions
<1>8. OwnMark'
  BY DEF OwnMark, WatchesOne, OffBlank, ColdLeavesNone, SafeKeeps, NoneIsBlank, AgeRecorded, MarkStands,
       MarkExplains, EndsInOrder, CrashNotSettled, CauselessSettled, CrashRemembered, NoFalseAlarm, MeansCrash,
       Unsettled, Settles, NoSession, NoMarker, Markers, Sessions, Watchers
<1>9. CrashNotSettled'
  BY DEF CrashNotSettled, CauselessSettled, CrashRemembered
<1>10. QED
  BY <1>1, <1>2, <1>3, <1>4, <1>5, <1>6, <1>7, <1>8, <1>9

LEMMA PresentDoesNotKeeps ==
  ASSUME Lapses = {}, GInv, PresentDoesNot
  PROVE  GInv'
<1> USE GuardAssumption DEF GInv, GTypeOK, Runs, PresentDoesNot, CrossedGrace
<1>1. marker' \in Markers
  BY DEF Markers, NoMarker
<1>2. session' \in Sessions
  BY DEF Sessions
<1>3. watcher' \in Watchers
  BY DEF Watchers
<1>4. sessions' \in Nat /\ tabs' \in Nat
  OBVIOUS
<1>5. event' \in {"absent", "clear", "set"} /\ mature' \in BOOLEAN /\ cause' \in {"none", "crash", "unseen"}
  BY DEF Sessions
<1>6. WatchesOne' /\ OffBlank' /\ ColdLeavesNone' /\ SafeKeeps' /\ NoneIsBlank' /\ OwnMark' /\ MarkStands' /\
     MarkExplains' /\ EndsInOrder' /\ CauselessSettled' /\ CrashRemembered' /\ NoFalseAlarm'
  BY DEF WatchesOne, OffBlank, ColdLeavesNone, SafeKeeps, NoneIsBlank, OwnMark, MarkStands, MarkExplains,
       EndsInOrder, CauselessSettled, CrashRemembered, NoFalseAlarm
<1>7. AgeRecorded'
  BY DEF AgeRecorded, Markers, Sessions
<1>8. CrashNotSettled'
  BY DEF CrashNotSettled, Unsettled, Settles
<1>9. QED
  BY <1>1, <1>2, <1>3, <1>4, <1>5, <1>6, <1>7, <1>8

LEMMA LooksKeeps ==
  ASSUME Lapses = {}, GInv, Runs, NEW l \in {"open", "clear"},
         session' = [session EXCEPT !.leaving = l], UNCHANGED marker,
         UNCHANGED <<watcher, event, sessions, tabs, mature, cause>>
  PROVE  GInv'
<1> USE GuardAssumption DEF GInv, GTypeOK, Runs
<1>1. marker' \in Markers
  BY DEF Markers, NoMarker
<1>2. session' \in Sessions
  BY DEF Sessions
<1>3. watcher' \in Watchers
  BY DEF Watchers
<1>4. sessions' \in Nat /\ tabs' \in Nat /\ event' \in {"absent", "clear", "set"} /\ mature' \in BOOLEAN /\
     cause' \in {"none", "crash", "unseen"}
  OBVIOUS
<1>5. WatchesOne' /\ OffBlank' /\ ColdLeavesNone' /\ SafeKeeps' /\ NoneIsBlank' /\ AgeRecorded' /\ OwnMark' /\
     MarkStands' /\ MarkExplains' /\ EndsInOrder' /\ CauselessSettled' /\ CrashRemembered' /\ NoFalseAlarm'
  BY DEF WatchesOne, OffBlank, ColdLeavesNone, SafeKeeps, NoneIsBlank, AgeRecorded, OwnMark, MarkStands,
       MarkExplains, EndsInOrder, CauselessSettled, CrashRemembered, NoFalseAlarm
<1>6. CrashNotSettled'
  BY DEF CrashNotSettled, Unsettled, Settles
<1>7. QED
  BY <1>1, <1>2, <1>3, <1>4, <1>5, <1>6

LEMMA GoneStopsKeeps ==
  ASSUME Lapses = {}, GInv, Runs, ~session.orderly,
         session' = [session EXCEPT !.leaving = "left", !.orderly = TRUE], OrderlyStop,
         UNCHANGED <<watcher, event, sessions, tabs, mature, cause>>
  PROVE  GInv'
<1> USE GuardAssumption DEF GInv, GTypeOK, Runs, OrderlyStop, Forgets, Marker
<1>1. marker' \in Markers
  BY DEF Markers, NoMarker, Sessions
<1>2. session' \in Sessions
  BY DEF Sessions
<1>3. watcher' \in Watchers
  BY DEF Watchers
<1>4. sessions' \in Nat /\ tabs' \in Nat /\ event' \in {"absent", "clear", "set"} /\ mature' \in BOOLEAN /\
     cause' \in {"none", "crash", "unseen"}
  OBVIOUS
<1>5. WatchesOne' /\ OffBlank' /\ ColdLeavesNone' /\ SafeKeeps' /\ AgeRecorded' /\ MarkStands' /\ EndsInOrder'
     /\ CauselessSettled' /\ NoFalseAlarm'
  BY DEF WatchesOne, OffBlank, ColdLeavesNone, SafeKeeps, AgeRecorded, MarkStands, EndsInOrder,
       CauselessSettled, NoFalseAlarm
<1>6. NoneIsBlank' /\ MarkExplains'
  BY DEF NoneIsBlank, MarkExplains, NoSession, NoMarker
<1>7. OwnMark'
  BY DEF OwnMark, NoSession, NoMarker, Markers, Sessions
<1>8. CrashNotSettled'
  BY DEF CrashNotSettled, Unsettled, Settles, NoSession, NoMarker
<1>9. CrashRemembered'
  BY DEF CrashRemembered, ColdLeavesNone, SafeKeeps
<1>10. QED
  BY <1>1, <1>2, <1>3, <1>4, <1>5, <1>6, <1>7, <1>8, <1>9

LEMMA GoneAgainKeeps ==
  ASSUME Lapses = {}, GInv, Runs, session.orderly,
         session' = [session EXCEPT !.leaving = "left", !.orderly = TRUE], OrderlyStop,
         UNCHANGED <<watcher, event, sessions, tabs, mature, cause>>
  PROVE  GInv'
<1> USE GuardAssumption DEF GInv, GTypeOK, Runs, OrderlyStop
<1>1. marker' \in Markers
  BY DEF Markers, NoMarker
<1>2. session' \in Sessions
  BY DEF Sessions
<1>3. watcher' \in Watchers
  BY DEF Watchers
<1>4. sessions' \in Nat /\ tabs' \in Nat /\ event' \in {"absent", "clear", "set"} /\ mature' \in BOOLEAN /\
     cause' \in {"none", "crash", "unseen"}
  OBVIOUS
<1>5. WatchesOne' /\ OffBlank' /\ ColdLeavesNone' /\ SafeKeeps' /\ NoneIsBlank' /\ AgeRecorded' /\ OwnMark' /\
     MarkStands' /\ MarkExplains' /\ EndsInOrder' /\ CauselessSettled' /\ CrashRemembered' /\ NoFalseAlarm'
  BY DEF WatchesOne, OffBlank, ColdLeavesNone, SafeKeeps, NoneIsBlank, AgeRecorded, OwnMark, MarkStands,
       MarkExplains, EndsInOrder, CauselessSettled, CrashRemembered, NoFalseAlarm
<1>6. CrashNotSettled'
  BY DEF CrashNotSettled, Unsettled, Settles
<1>7. QED
  BY <1>1, <1>2, <1>3, <1>4, <1>5, <1>6

LEMMA DeviceRemovedKeeps ==
  ASSUME Lapses = {}, GInv, DeviceRemoved
  PROVE  GInv'
<1> USE GuardAssumption DEF GInv, GTypeOK, Runs, DeviceRemoved
<1>1. marker' \in Markers
  BY DEF Markers, NoMarker
<1>2. session' \in Sessions
  BY DEF Sessions
<1>3. watcher' \in Watchers
  BY DEF Watchers
<1>4. sessions' \in Nat /\ tabs' \in Nat /\ event' \in {"absent", "clear", "set"} /\ mature' \in BOOLEAN /\
     cause' \in {"none", "crash", "unseen"}
  OBVIOUS
<1>5. WatchesOne' /\ OffBlank' /\ ColdLeavesNone' /\ SafeKeeps' /\ NoneIsBlank' /\ AgeRecorded' /\ OwnMark' /\
     MarkStands' /\ MarkExplains' /\ EndsInOrder' /\ CauselessSettled' /\ CrashRemembered' /\ NoFalseAlarm'
  BY DEF WatchesOne, OffBlank, ColdLeavesNone, SafeKeeps, NoneIsBlank, AgeRecorded, OwnMark, MarkStands,
       MarkExplains, EndsInOrder, CauselessSettled, CrashRemembered, NoFalseAlarm
<1>6. CrashNotSettled'
  BY DEF CrashNotSettled, Unsettled, Settles
<1>7. QED
  BY <1>1, <1>2, <1>3, <1>4, <1>5, <1>6

LEMMA RetryKeeps ==
  ASSUME Lapses = {}, GInv, Retry
  PROVE  GInv'
<1> USE GuardAssumption DEF GInv, GTypeOK, Runs, Retry
<1>1. marker' \in Markers
  BY DEF Markers, NoMarker
<1>2. session' \in Sessions
  BY DEF Sessions
<1>3. watcher' \in Watchers
  BY DEF Watchers
<1>4. sessions' \in Nat /\ tabs' \in Nat /\ event' \in {"absent", "clear", "set"} /\ mature' \in BOOLEAN /\
     cause' \in {"none", "crash", "unseen"}
  OBVIOUS
<1>5. WatchesOne' /\ OffBlank' /\ SafeKeeps' /\ AgeRecorded' /\ OwnMark' /\ MarkStands' /\ MarkExplains' /\
     EndsInOrder' /\ CrashNotSettled' /\ CauselessSettled' /\ CrashRemembered' /\ NoFalseAlarm'
  BY DEF WatchesOne, OffBlank, SafeKeeps, AgeRecorded, OwnMark, MarkStands, MarkExplains, EndsInOrder,
       CrashNotSettled, CauselessSettled, CrashRemembered, NoFalseAlarm
<1>6. ColdLeavesNone' /\ NoneIsBlank'
  BY DEF ColdLeavesNone, NoneIsBlank, NoSession, NoMarker
<1>7. QED
  BY <1>1, <1>2, <1>3, <1>4, <1>5, <1>6

LEMMA HostLeavesKeeps ==
  ASSUME Lapses = {}, GInv, HostLeaves
  PROVE  GInv'
<1> USE GuardAssumption DEF GInv, GTypeOK, Runs, HostLeaves, OrderlyStop, Forgets, Marker
<1>1. marker' \in Markers
  BY DEF Markers, NoMarker, Sessions
<1>2. session' \in Sessions
  BY DEF Sessions
<1>3. watcher' \in Watchers
  BY DEF Watchers
<1>4. sessions' \in Nat /\ tabs' \in Nat /\ event' \in {"absent", "clear", "set"} /\ mature' \in BOOLEAN /\
     cause' \in {"none", "crash", "unseen"}
  OBVIOUS
<1>5. WatchesOne' /\ OffBlank' /\ ColdLeavesNone' /\ SafeKeeps' /\ AgeRecorded' /\ MarkStands' /\ EndsInOrder'
     /\ CauselessSettled' /\ NoFalseAlarm'
  BY DEF WatchesOne, OffBlank, ColdLeavesNone, SafeKeeps, AgeRecorded, MarkStands, EndsInOrder,
       CauselessSettled, NoFalseAlarm
<1>6. NoneIsBlank' /\ MarkExplains'
  BY DEF NoneIsBlank, MarkExplains, NoSession, NoMarker
<1>7. OwnMark'
  BY DEF OwnMark, NoSession, NoMarker, Markers, Sessions
<1>8. CrashNotSettled'
  BY DEF CrashNotSettled, Unsettled, Settles, NoSession, NoMarker
<1>9. CrashRemembered'
  BY DEF CrashRemembered, ColdLeavesNone, SafeKeeps
<1>10. QED
  BY <1>1, <1>2, <1>3, <1>4, <1>5, <1>6, <1>7, <1>8, <1>9

LEMMA HostKilledKeeps ==
  ASSUME Lapses = {}, GInv, HostKilled
  PROVE  GInv'
<1> USE GuardAssumption DEF GInv, GTypeOK, Runs, HostKilled
<1>1. marker' \in Markers
  BY DEF Markers, NoMarker
<1>2. session' \in Sessions
  BY DEF Sessions
<1>3. watcher' \in Watchers
  BY DEF Watchers
<1>4. sessions' \in Nat /\ tabs' \in Nat /\ event' \in {"absent", "clear", "set"} /\ mature' \in BOOLEAN /\
     cause' \in {"none", "crash", "unseen"}
  OBVIOUS
<1>5. WatchesOne' /\ OffBlank' /\ ColdLeavesNone' /\ SafeKeeps' /\ NoneIsBlank' /\ AgeRecorded' /\ OwnMark' /\
     MarkStands' /\ MarkExplains' /\ EndsInOrder' /\ CauselessSettled' /\ CrashRemembered' /\ NoFalseAlarm'
  BY DEF WatchesOne, OffBlank, ColdLeavesNone, SafeKeeps, NoneIsBlank, AgeRecorded, OwnMark, MarkStands,
       MarkExplains, EndsInOrder, CauselessSettled, CrashRemembered, NoFalseAlarm
<1>6. CrashNotSettled'
  BY DEF CrashNotSettled, Unsettled, Settles
<1>7. QED
  BY <1>1, <1>2, <1>3, <1>4, <1>5, <1>6

LEMMA SessionEndsKeeps ==
  ASSUME Lapses = {}, GInv, NEW code \in {0, 1}, SessionEnds(code, marker), session.at # "off",
         code = 0 => session.at \in {"killed", "exits"}, code = 1 => Runs
  PROVE  GInv'
<1> USE GuardAssumption DEF GInv, GTypeOK, Runs, SessionEnds, Blame
<1>1. marker' \in Markers
  BY DEF Markers, NoMarker
<1>2. session' \in Sessions
  BY DEF Sessions, Markers, NoSession
<1>3. watcher' \in Watchers
  BY DEF Watchers
<1>4. sessions' \in Nat /\ tabs' \in Nat /\ event' \in {"absent", "clear", "set"} /\ mature' \in BOOLEAN /\
     cause' \in {"none", "crash", "unseen"}
  OBVIOUS
<1>5. NoneIsBlank'
  BY DEF NoneIsBlank
<1>6. WatchesOne' /\ OffBlank' /\ ColdLeavesNone' /\ SafeKeeps' /\ AgeRecorded' /\ OwnMark' /\ MarkStands' /\
     MarkExplains' /\ EndsInOrder' /\ NoFalseAlarm'
  BY DEF WatchesOne, OffBlank, ColdLeavesNone, SafeKeeps, AgeRecorded, OwnMark, MarkStands, MarkExplains,
       EndsInOrder, NoFalseAlarm, NoSession, NoMarker
<1>7. CrashNotSettled'
  BY DEF CrashNotSettled, WatchesOne, OffBlank, ColdLeavesNone, SafeKeeps, NoneIsBlank, AgeRecorded, OwnMark,
       MarkStands, MarkExplains, EndsInOrder, CauselessSettled, CrashRemembered, NoFalseAlarm, MeansCrash,
       Unsettled, Settles, NoSession, NoMarker, Markers, Sessions, Watchers
<1>8. CauselessSettled'
  BY DEF CauselessSettled, WatchesOne, OffBlank, ColdLeavesNone, SafeKeeps, NoneIsBlank, AgeRecorded, OwnMark,
       MarkStands, MarkExplains, EndsInOrder, CrashNotSettled, CrashRemembered, NoFalseAlarm, MeansCrash,
       Unsettled, Settles, NoSession, NoMarker, Markers, Sessions, Watchers
<1>9. CrashRemembered'
  BY DEF CrashRemembered, NoneIsBlank, AgeRecorded, OwnMark, MarkStands, NoFalseAlarm, MeansCrash, NoSession,
       NoMarker, Markers, Sessions
<1>10. QED
  BY <1>1, <1>2, <1>3, <1>4, <1>5, <1>6, <1>7, <1>8, <1>9

LEMMA TabLoadsKeeps ==
  ASSUME Lapses = {}, GInv, TabLoads
  PROVE  GInv'
<1> USE GuardAssumption DEF GInv, GTypeOK, Runs, TabLoads, NoWatch
<1>1. marker' \in Markers
  BY DEF Markers, NoMarker
<1>2. session' \in Sessions
  BY DEF Sessions
<1>3. watcher' \in Watchers
  BY DEF Watchers
<1>4. sessions' \in Nat /\ tabs' \in Nat /\ event' \in {"absent", "clear", "set"} /\ mature' \in BOOLEAN /\
     cause' \in {"none", "crash", "unseen"}
  OBVIOUS
<1>5. WatchesOne' /\ OffBlank' /\ ColdLeavesNone' /\ SafeKeeps' /\ NoneIsBlank' /\ AgeRecorded' /\ OwnMark' /\
     MarkStands' /\ MarkExplains' /\ EndsInOrder' /\ CrashRemembered' /\ NoFalseAlarm'
  BY DEF WatchesOne, OffBlank, ColdLeavesNone, SafeKeeps, NoneIsBlank, AgeRecorded, OwnMark, MarkStands,
       MarkExplains, EndsInOrder, CrashRemembered, NoFalseAlarm
<1>6. CrashNotSettled'
  BY DEF CrashNotSettled, Unsettled, Settles
<1>7. CauselessSettled'
  BY DEF CauselessSettled, WatchesOne, OffBlank, ColdLeavesNone, SafeKeeps, NoneIsBlank, AgeRecorded, OwnMark,
       MarkStands, MarkExplains, EndsInOrder, CrashNotSettled, CrashRemembered, NoFalseAlarm, MeansCrash,
       Unsettled, Settles, NoSession, NoMarker, Markers, Sessions, Watchers
<1>8. QED
  BY <1>1, <1>2, <1>3, <1>4, <1>5, <1>6, <1>7

LEMMA TabScansKeeps ==
  ASSUME Lapses = {}, GInv, TabScans
  PROVE  GInv'
<1> USE GuardAssumption DEF GInv, GTypeOK, Runs, TabScans
<1>1. marker' \in Markers
  BY DEF Markers, NoMarker
<1>2. session' \in Sessions
  BY DEF Sessions
<1>3. watcher' \in Watchers
  BY DEF Watchers, Sessions, Markers
<1>4. sessions' \in Nat /\ tabs' \in Nat /\ event' \in {"absent", "clear", "set"} /\ mature' \in BOOLEAN /\
     cause' \in {"none", "crash", "unseen"}
  OBVIOUS
<1>5. WatchesOne' /\ OffBlank' /\ ColdLeavesNone' /\ SafeKeeps' /\ NoneIsBlank' /\ AgeRecorded' /\ OwnMark' /\
     MarkStands' /\ MarkExplains' /\ EndsInOrder' /\ CauselessSettled' /\ CrashRemembered' /\ NoFalseAlarm'
  BY DEF WatchesOne, OffBlank, ColdLeavesNone, SafeKeeps, NoneIsBlank, AgeRecorded, OwnMark, MarkStands,
       MarkExplains, EndsInOrder, CauselessSettled, CrashRemembered, NoFalseAlarm
<1>6. CrashNotSettled'
  BY DEF CrashNotSettled, Unsettled, Settles
<1>7. QED
  BY <1>1, <1>2, <1>3, <1>4, <1>5, <1>6

LEMMA TabSettlesKeeps ==
  ASSUME Lapses = {}, GInv, TabSettles
  PROVE  GInv'
<1> USE GuardAssumption DEF GInv, GTypeOK, Runs, TabSettles
<1>1. marker' \in Markers
  BY DEF Markers, NoMarker
<1>2. session' \in Sessions
  BY DEF Sessions
<1>3. watcher' \in Watchers
  BY DEF Watchers, Settles
<1>4. sessions' \in Nat /\ tabs' \in Nat /\ event' \in {"absent", "clear", "set"} /\ mature' \in BOOLEAN /\
     cause' \in {"none", "crash", "unseen"}
  OBVIOUS
<1>5. OffBlank' /\ ColdLeavesNone' /\ SafeKeeps' /\ NoneIsBlank' /\ AgeRecorded' /\ OwnMark' /\ MarkStands' /\
     MarkExplains' /\ EndsInOrder' /\ CrashRemembered' /\ NoFalseAlarm'
  BY DEF OffBlank, ColdLeavesNone, SafeKeeps, NoneIsBlank, AgeRecorded, OwnMark, MarkStands, MarkExplains,
       EndsInOrder, CrashRemembered, NoFalseAlarm
<1>6. WatchesOne'
  BY DEF WatchesOne, Unsettled, Settles
<1>7. CrashNotSettled' /\ CauselessSettled'
  BY DEF CrashNotSettled, CauselessSettled, Unsettled, Settles, Watchers
<1>8. QED
  BY <1>1, <1>2, <1>3, <1>4, <1>5, <1>6, <1>7

LEMMA TabDeletesKeeps ==
  ASSUME Lapses = {}, GInv, TabDeletes
  PROVE  GInv'
<1> USE GuardAssumption DEF GInv, GTypeOK, Runs, TabDeletes, NoWatch
<1>1. marker' \in Markers
  BY DEF Markers, NoMarker
<1>2. session' \in Sessions
  BY DEF Sessions
<1>3. watcher' \in Watchers
  BY DEF Watchers
<1>4. sessions' \in Nat /\ tabs' \in Nat /\ event' \in {"absent", "clear", "set"} /\ mature' \in BOOLEAN /\
     cause' \in {"none", "crash", "unseen"}
  OBVIOUS
<1>5. WatchesOne' /\ OffBlank' /\ AgeRecorded' /\ EndsInOrder' /\ NoFalseAlarm'
  BY DEF WatchesOne, OffBlank, AgeRecorded, EndsInOrder, NoFalseAlarm
<1>6. ColdLeavesNone' /\ NoneIsBlank' /\ OwnMark' /\ MarkExplains'
  BY DEF ColdLeavesNone, NoneIsBlank, OwnMark, MarkExplains, NoSession, NoMarker
<1>7. SafeKeeps' /\ MarkStands'
  BY DEF SafeKeeps, MarkStands, WatchesOne, OffBlank, NoSession, NoMarker
<1>8. CrashNotSettled'
  BY DEF CrashNotSettled, Unsettled, Settles
<1>9. CauselessSettled'
  BY DEF CauselessSettled, NoFalseAlarm, MeansCrash, NoSession, NoMarker
<1>10. CrashRemembered'
  BY DEF CrashRemembered, WatchesOne, OffBlank, ColdLeavesNone, SafeKeeps, NoneIsBlank, AgeRecorded, OwnMark,
       MarkStands, MarkExplains, EndsInOrder, CrashNotSettled, CauselessSettled, NoFalseAlarm, MeansCrash,
       Unsettled, Settles, NoSession, NoMarker, Markers, Sessions, Watchers
<1>11. QED
  BY <1>1, <1>2, <1>3, <1>4, <1>5, <1>6, <1>7, <1>8, <1>9, <1>10

LEMMA TabLeavesKeeps ==
  ASSUME Lapses = {}, GInv, TabLeaves
  PROVE  GInv'
<1> USE GuardAssumption DEF GInv, GTypeOK, Runs, TabLeaves, NoWatch
<1>1. marker' \in Markers
  BY DEF Markers, NoMarker
<1>2. session' \in Sessions
  BY DEF Sessions
<1>3. watcher' \in Watchers
  BY DEF Watchers
<1>4. sessions' \in Nat /\ tabs' \in Nat /\ event' \in {"absent", "clear", "set"} /\ mature' \in BOOLEAN /\
     cause' \in {"none", "crash", "unseen"}
  OBVIOUS
<1>5. WatchesOne' /\ OffBlank' /\ AgeRecorded' /\ EndsInOrder' /\ NoFalseAlarm'
  BY DEF WatchesOne, OffBlank, AgeRecorded, EndsInOrder, NoFalseAlarm
<1>6. ColdLeavesNone' /\ NoneIsBlank' /\ OwnMark' /\ MarkExplains'
  BY DEF ColdLeavesNone, NoneIsBlank, OwnMark, MarkExplains, NoSession, NoMarker
<1>7. SafeKeeps'
  BY DEF SafeKeeps, WatchesOne, OffBlank, NoSession, NoMarker
<1>8. MarkStands'
  BY DEF MarkStands, WatchesOne, OffBlank, ColdLeavesNone, SafeKeeps, NoneIsBlank, AgeRecorded, OwnMark,
       MarkExplains, EndsInOrder, CrashNotSettled, CauselessSettled, CrashRemembered, NoFalseAlarm, MeansCrash,
       Unsettled, Settles, NoSession, NoMarker, Markers, Sessions, Watchers
<1>9. CrashNotSettled'
  BY DEF CrashNotSettled, Unsettled, Settles
<1>10. CauselessSettled'
  BY DEF CauselessSettled, NoFalseAlarm, MeansCrash, NoSession, NoMarker
<1>11. CrashRemembered'
  BY DEF CrashRemembered, CrashNotSettled, CauselessSettled
<1>12. QED
  BY <1>1, <1>2, <1>3, <1>4, <1>5, <1>6, <1>7, <1>8, <1>9, <1>10, <1>11

LEMMA PresentWatchesKeeps ==
  ASSUME Lapses = {}, GInv, PresentWatches
  PROVE  GInv'
<1>1. ASSUME NEW l \in {"open", "clear"},
         session' = [session EXCEPT !.leaving = l], UNCHANGED marker
      PROVE  GInv'
  BY <1>1, LooksKeeps DEF PresentWatches
<1>2. CASE session' = [session EXCEPT !.leaving = "left", !.orderly = TRUE] /\ OrderlyStop
  <2>1. CASE session.orderly
    BY <1>2, <2>1, GoneAgainKeeps DEF PresentWatches
  <2>2. CASE ~session.orderly
    BY <1>2, <2>2, GoneStopsKeeps DEF PresentWatches
  <2>3. QED
    BY <2>1, <2>2
<1>3. QED
  BY <1>1, <1>2 DEF PresentWatches

\* Where nothing is cut short, a host that ends leaves the marker as it was.
LEMMA EndsKeep ==
  ASSUME "exit" \notin Ways, Lapses = {}, GInv, HostEnds \/ HostCrashes
  PROVE  GInv'
<1>1. Leftovers = {marker}
  BY DEF Leftovers
<1>2. CASE HostEnds /\ session.at = "killed"
  <2>1. SessionEnds(0, marker)
    BY <1>1, <1>2 DEF HostEnds
  <2>2. QED
    BY <1>2, <2>1, SessionEndsKeeps
<1>3. CASE HostEnds /\ session.at = "exits"
  <2>1. SessionEnds(0, marker)
    BY <1>3 DEF HostEnds
  <2>2. QED
    BY <1>3, <2>1, SessionEndsKeeps
<1>4. CASE HostCrashes
  <2>1. SessionEnds(1, marker) /\ Runs
    BY <1>1, <1>4 DEF HostCrashes
  <2>2. session.at # "off"
    BY <2>1 DEF Runs
  <2>3. QED
    BY <2>1, <2>2, SessionEndsKeeps
<1>5. QED
  BY <1>2, <1>3, <1>4 DEF HostEnds

LEMMA GuardStepKeeps ==
  ASSUME "exit" \notin Ways, Lapses = {}, GInv, [GNext]_gvars
  PROVE  GInv'
<1>1. CASE \E p \in Pids : SessionStarts(p)
  BY <1>1, SessionStartsKeeps
<1>2. CASE FirstWarped \/ GraceEnds \/ PresentDoesNot \/ PresentWatches
  BY <1>2, FirstWarpedKeeps, GraceEndsKeeps, PresentDoesNotKeeps, PresentWatchesKeeps
<1>3. CASE \E due \in BOOLEAN : PresentRefreshes(due)
  BY <1>3, PresentRefreshesKeeps
<1>4. CASE DeviceRemoved \/ Retry \/ HostLeaves \/ HostKilled
  BY <1>4, DeviceRemovedKeeps, RetryKeeps, HostLeavesKeeps, HostKilledKeeps
<1>5. CASE HostEnds \/ HostCrashes
  BY <1>5, EndsKeep
<1>6. CASE TabLoads \/ TabScans \/ TabSettles \/ TabDeletes \/ TabLeaves
  BY <1>6, TabLoadsKeeps, TabScansKeeps, TabSettlesKeeps, TabDeletesKeeps, TabLeavesKeeps
<1>7. CASE UNCHANGED gvars
  <2>1. /\ marker' = marker /\ session' = session /\ watcher' = watcher /\ event' = event
        /\ sessions' = sessions /\ tabs' = tabs /\ mature' = mature /\ cause' = cause
    BY <1>7 DEF gvars
  <2>2. QED
    BY <2>1 DEF GInv, GTypeOK, WatchesOne, OffBlank, ColdLeavesNone, SafeKeeps, NoneIsBlank, AgeRecorded, OwnMark,
       MarkStands, MarkExplains, EndsInOrder, CrashNotSettled, CauselessSettled, CrashRemembered, NoFalseAlarm,
       Unsettled, Settles
<1>8. QED
  BY <1>1, <1>2, <1>3, <1>4, <1>5, <1>6, <1>7 DEF GNext

LEMMA GuardInitKeeps == GInit => GInv
<1> SUFFICES ASSUME GInit PROVE GInv
  OBVIOUS
<1> USE DEF GInit, NoMarker, NoSession, NoWatch
<1>1. GTypeOK
  BY DEF GTypeOK, Markers, Sessions, Watchers
<1>2. WatchesOne /\ OffBlank /\ ColdLeavesNone /\ SafeKeeps /\ NoneIsBlank
  BY DEF WatchesOne, OffBlank, ColdLeavesNone, SafeKeeps, NoneIsBlank
<1>3. AgeRecorded /\ OwnMark /\ MarkStands /\ MarkExplains /\ EndsInOrder
  BY DEF AgeRecorded, OwnMark, MarkStands, MarkExplains, EndsInOrder
<1>4. CrashNotSettled /\ CauselessSettled /\ CrashRemembered /\ NoFalseAlarm
  BY DEF CrashNotSettled, CauselessSettled, CrashRemembered, NoFalseAlarm, MeansCrash
<1>5. QED
  BY <1>1, <1>2, <1>3, <1>4 DEF GInv

-----------------------------------------------------------------------------
\* A crash of a warping session, or a stop of one whose device was removed, is remembered until
\* Retry: however many hosts, tabs and safe sessions follow, in whatever order they end.
THEOREM Remembered ==
  ASSUME "exit" \notin Ways, Lapses = {}
  PROVE  GSpec => []CrashRemembered
<1>1. GInv => CrashRemembered
  BY DEF GInv
<1>2. GInv /\ [GNext]_gvars => GInv'
  BY GuardStepKeeps
<1>3. QED
  BY <1>1, <1>2, GuardInitKeeps, PTL DEF GSpec

\* Safe mode always has a reason: a marker that a stop of the game's left is gone, or settled by
\* the tab, before the next session reads it.
THEOREM Reasoned ==
  ASSUME "exit" \notin Ways, Lapses = {}
  PROVE  GSpec => []NoFalseAlarm
<1>1. GInv => NoFalseAlarm
  BY DEF GInv
<1>2. GInv /\ [GNext]_gvars => GInv'
  BY GuardStepKeeps
<1>3. QED
  BY <1>1, <1>2, GuardInitKeeps, PTL DEF GSpec
=============================================================================

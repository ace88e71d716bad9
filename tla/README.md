# Optimizer FPS: TLA+ models and proofs

Optimizer FPS sits between a game (the *host*) and a neural rendering model (NGX): it packs the
game's frame, runs the model at a smaller size or not at all on some frames, and gives the game a
picture made of the model's last answers. Everything it does on the GPU is recorded into command
lists that belong to the game, which submits them where and when it likes. The hard question of the
program is therefore not what it computes but **when it may touch, reuse or free what a list it does
not own is still going to read**. That part is modelled first, and proved. On it stand the parts that decide *which*
answer a frame is made from, and the three that speak with somebody else: the menu that runs the model on its own
queue, the 32-bit game's tab and the next session. The rest of the system is inventoried below.

Paths are relative to the repository.

## 1. The system

### 1.1 Components

| component | state | operations | correct when |
|---|---|---|---|
| **Submission tracking** `src/core/gpu/submission*`, reported by `addon/queue_events.cpp`, `queue_submit_hook.cpp` | per queue: serials pushed / settled / signalled and a serial fence; recordings (a fence per use); a ring of reports; the list's private tag | `Track`, `Untrack`, `Push`, `Drain(All / Settled)`, `UsePoint`, `PendingGate` | a use's fence completes only after the GPU is through with the use; it does complete; reports are complete and ordered |
| **Retirement** `gpu/graveyard.*`, `gpu/queues.*`, `core_impl.cpp`, `core_feature.cpp`, `frame/feature_state.cpp`, `frame/lifecycle.cpp` | graves, each with a gate (a set of fences) and a deadline; features waiting for their release event | `RetireResource`, rebuilds, `Feature::Release`, `Graveyard::Drain`, `DrainReleased` | nothing is freed while a list may read it; `FEATURE_RELEASED` is last; graves do get freed |
| **Descriptor pools, constant ring** `gpu/descriptor_pool.*`, `gpu/constant_ring.*` | a ring of slots tagged with a use | `Acquire`, `Reset` | a slot is never rewritten under a list; a pool of the documented size never runs dry for a silent host |
| **Background job** `temporal/async_*`, `temporal/background.cpp` | a job with two fences, slots in flight, what was seen submitted | kick, note submissions, signal, adopt, discard, force, settle | a pass starts after its inputs are copied; its answer belongs to the job that asked; nobody waits for itself |
| **Temporal machine** `temporal/machine.*`, `controller.cpp`, `history.cpp`, `carry_chain.cpp`, ... | two accumulation chains, residual, validity flags | accumulate, promote, invalidate, plan of a frame | a chain handed to the model or the picture starts where its consumer thinks it does |
| **Frame dispatch, model passes, spread** `frame/dispatch*`, `model_passes.cpp`, `spread_*`, `lifecycle.cpp`, `model_grid*` | pass handles, bands of a spread call | create, replace, retire, run a pass or a band | a pass gets the history of the frame it saw last; replaced handles are buried |
| **Host shape and inputs** `frame/host_shape.cpp`, `frame_inputs.cpp` | the latched verdict on the host's buffers | judge, latch, report | a frame that does not fit never reaches the pack path; each change is reported once |
| **Core API** `api/ofps_core.h`, `core_impl.cpp`, `context.cpp`, `core_status.cpp`, `core_settings.cpp` | the core's mutex, the callback guard, deferred retirements | the public interface | no call re-enters the core from a callback |
| **Optical flow** `core/flow`, `temporal/flow.cpp` | sessions, registrations, frame state | acquire, register, execute, reset | two frames given to the engine are consecutive |
| **Settings, configuration** `core/settings`, `addon/config_store.cpp`, `ini_*` | values, a debounced save | clamp, migrate, save | a migrated file reads as the values it had |
| **Warp passes, GPU helpers, shaders** `core/warp`, `core/gpu/barriers.cpp`, `core/shaders` | textures, pipelines | record GPU work | floating point; outside TLC's reach |
| **ReShade shell** `hosts/reshade` (NGX interception, queue events, crash guard, overlay) | hooks, host tables, the crash marker | translate calls and events | two drains per present; a crash is told from a clean exit |
| **Menu pipeline, readable guides** `hosts/reshade/menu_*`, `readable_guides.cpp` | own lists, fences, outstanding work, copies of guides | step, submit, wait for a present | own lists are reused only when executed; a guide is not stale when used |
| **Remote host** `hosts/remote32`, `addon/remote_host.cpp` | a shared-memory mailbox, a watch on the host process | post, poll, watch, settle | either side may die at any point |
| **SDK layout mathematics, adapters** `src/sdk` | none | build a layout, record | pure; mostly floating point |
| **Diagnostics, tools, tests, third party** | | | not part of the frame's correctness |

`PROJECT.json` lists the same components with their files and status.

### 1.2 How they interact

* **Threads.** The render thread calls `Feature::Evaluate` (under the core's mutex, recursive calls from
  callbacks refused). Submit threads run the queue events: they take only the tracker's own mutex, so a
  report, a queue's creation or destruction falls between any two statements of an evaluate. The present
  thread runs `Housekeeping`, which returns at once when the core's mutex is taken.
* **Reports.** ReShade's `execute_command_list` event fires *before* the native call; the
  `ExecuteCommandLists` hook reports *after* it returned; a host's own ring on an unhooked queue is never
  reported. `Push` counts a serial and claims the list's recordings.
* **Drains.** `Evaluate` drains with `Signal::All` (every report's native call was made), `Housekeeping`
  with `Signal::Settled` (only what the previous drain had already seen), and a present runs two of them
  (`addon_main.cpp:103-105`).
* **Who waits for uses.** Pools tag a slot with the use's fence, graves keep the fences of all pending
  recordings, the serial fences and a signal of their own; both free when these passed.
* **Deadlines.** A use whose fence could not be made, and a recording nobody claims, are given up
  `kDeferredReleaseEvaluates` = 16 evaluates later (`queues.h:36`).

### 1.3 What is hard

The order of a signal against the list it stands for; a list recorded by several evaluates before it is
submitted once; a list that is never reported; queues that go while gates hold their fences; the two
halves of a gate taken while the queues run; retirement from inside a callback; an event that was left
signalled by an older wait; a pool that wraps onto slots in flight; device removal, when fences answer
`UINT64_MAX`. A background pass that is kicked, abandoned and adopted while the host's lists are in flight; a
history that several frames, failures and changes of mode lie behind; a model that two queues could run at once; a
block two processes write and read without a lock; a marker file that outlives the process. `PROJECT.json` "hazards" lists each at its line with the property that watches it.

## 2. The modules

```
GpuUses  <--implements--  Submission  <--composes--  Retirement
   ^                        ^      ^                    ^
   |                        |      `- SubmissionContract (refinement mapping)
DescriptorPool              SubmissionProofs  <--  RetirementProofs
   ^                                ^
DescriptorPoolProofs  <--  TrackedPoolProofs  -->  TrackedPool = DescriptorPool over Submission

SettingsLink  <--implements--  RemoteLink   (refinement mapping: LinkContract)

BackgroundJob       LinkContract       FrameHistory       MenuPipeline       CrashGuard
                                               `------------- MCSafe -------------'

Retirement  DescriptorPool
         `- MCHolders -'

BackgroundJobProofs   FrameHistoryProofs   MenuPipelineProofs   RemoteHostProofs (LinkContract, CrashGuard)
```

`MCSubmission`, `MCTracked` and `MCRetirement` give the constants of a run their values (model values for queues,
lists and objects, functions for their devices and owners); `DescriptorPool` needs numbers only.
`MCHolders` and `MCSafe` check modules that share no state in one run each: a behaviour is of one part (`part`) and the
others stay at their start, so the run explores the sum of their state graphs and not their product. `BackgroundJob` and
`LinkContract`, whose liveness is checked, need numbers and two names only and are run as they are.

### 2.1 Submission

State: `tracked`, `pushed`, `settled`, `signalled` are the `Tracked` entries; `rec`, `nextTag`, `listTag`
the recordings, `nextTag_` and the list's private data; `ring` the ring; `evalCounter` the context's.
The host and the GPU are the other half: `content` (uses recorded in a list), `call` (a submission between
its report and its native call, either order), and D3D12 queues, which execute in order.

*A queue is a depth.* Instead of a queue of operations the model keeps how many operations a queue has
yet to finish, and for each operation it follows how many steps of its queue finish it (`sig` for a use's
fence, `exec` for the list with the use, `serialAt`, `fenceAt` for submissions and serial fences): `NotYet`
= not enqueued, 0 = finished. "Enqueued behind" is then a comparison of two numbers, which is what every
property here is about, and the state space stays small.

| action | code |
|---|---|
| `Track`, `Untrack` | `Submission::Track`, `Untrack` through `RegisterQueue`, `UnregisterQueue` |
| `EvaluateBegin` | `Feature::Evaluate`: `Drain(All)`, then `++evalCounter` |
| `UsePoint`, `UsePointFails` | `Submission::UsePoint`: this evaluate's recording, a new one chained to an unclaimed older one, or a deadline when a fence or the tag could not be made |
| `Housekeeping(first)` | one of the two drains of a present, none while an evaluate holds the mutex |
| `ReportBefore`, `NativeAfterReport` | ReShade's event, then the native call |
| `NativeHooked`, `ReportAfter` | the hook: the native call, then the report |
| `SubmitUnseen`, `Discard`, `OtherWork` | what the host does without telling |
| `GpuStep`, `DeviceRemoved` | the GPU |

`Push` claims over `previousTag` until a link is not an unclaimed recording: `Claims` is that walk as the
least set closed under it. The signals one drain gives one queue are enqueued back to back and share a
step. The recordings a drain *erases* matter to gates only, so they are `kept` in Retirement.
Not in the model: statistics (`dropped_`, snapshots), `CurrentTag` and `NextFence` (which only name a point for the flow engine).

Assumptions on the host, in the guards that make them:

* `OnTime`: a use that has no report by then has run, or was thrown away, within `Expiry` evaluates. This
  is the window the code itself relies on for uses without a fence and abandoned recordings.
* `EvaluateBegin` finds no submission between its event and its native call: the assumption `Signal::All`
  rests on (`core_feature.cpp:27`; `queues.cpp:150` says why the settled policy exists).
* With `PresentOverlaps = FALSE` a present finds none either. The code does not ensure it, see finding 1.
* A list is not handed to another queue while an earlier submission of it runs; when the last queue of a
  device goes, its lists are gone with it and nothing unreported of them still runs.

### 2.2 GpuUses and SubmissionContract

`GpuUses` is the abstract specification: a use is opened by an evaluate, flies, and is over; its fence passes
only when it is over, stays passed until the device is removed, and passes at the latest in the evaluate
after its deadline when nobody claims it. No queue, list, serial or ring is mentioned.
`SubmissionContract` gives the mapping (`PhaseOf` reads the phase off `content`, `exec` and the open use) and
states `PromiseKept == Promise!USpec`, which TLC checks of Submission.

### 2.3 Retirement

Extends Submission; every action is one of Submission's together with what it means for graves, or a step
of the graveyard. `obj` is where a thing stands (live, deferred, gating, buried, freed). A gate is the fences
of recordings (`fences`), serials of serial fences (`serials`), signals of its own (`own`) and the host's
fence (`extra`). The two halves of a gate, `SignalGateAll` and `PendingGateAll`, are two steps (`Gate`, `Bury`)
with the mutex held in between, as in `feature_state.cpp:26` and `core_impl.cpp:185`, so submissions and
queue events fall between them. `holder` orders what the mutex orders. `kept` is `recordings_`: only a
drain erases, also what `Untrack` signalled. A queue's serial fence outlives its entry in the gates that hold
it: at `RUntrack` the module replaces the serial by the place of that fence's next signal (`SerialSignal`). A destroyed queue
runs nothing, which D3D12 asks of its caller. `uses` is history: what was recorded while the object was live.
`DrainGraveyard` is `Graveyard::Drain(false)`, `DrainReleased` and the flush its events cause; empty gates are
gated again at their deadline, as `graveyard.cpp:16` does.

Not in the model: `Core::Release`'s drain of everything with its waits, the background job's fence in
`RetirementGate` (that `Settle` makes it pass is `CallsReturn` and `PassesEnd` of BackgroundJob), gates over several devices
and device aliases (`KeysFor`).

### 2.4 DescriptorPool

Extends `GpuUses`: the pool sees of the GPU what that promises, in any order it allows, which is more than
Submission does. `Acquire` is the scan from the cursor, and three outcomes: a slot, a wait for the oldest
fenced slot, a refusal (non-blocking scope, or nothing to wait for). A wait keeps the core's mutex: uses go
on meanwhile, evaluates do not. `WaitEnds` and `WaitFails` are the two answers of `WaitFenceValue`, which reads the
fence again after every wake. A refusal ends the frame's requests (`Resources::exhausted`, the host picture).
`readers` is history: which uses' lists may read a slot, and how often each took it.
Not in the model: `Reset` of a pool in use (its callers bury the heap it numbers, `model_grid.cpp:40`,
`feature_state.cpp:239`), the offset `SetRing` adds, the miss counter, and what is written into a slot.

`TrackedPool` is the same pool over Submission instead of over its contract. A frame begins (`FrameBegins`), asks for a point or ends
(`FrameGoesOn`), takes a table with a point (`FrameTakes`), and the thread may stand in an `Acquire` (`WaitReturns`) while queue events, submissions and
the GPU go on (`OthersGoOn`): a drain does not, since the evaluate has the mutex. What the pool reads, whether a fence has passed, is what
Submission's signals and cancellations have made of it, through the mapping of `SubmissionContract`.

### 2.5 BackgroundJob

Mode 3: the model runs on a queue of its own. `pc` is where the thread inside the core stands, with a step wherever
the other queue, the submit thread or the GPU may come in between: `Evaluate` (the head of the frame with
`SignalPending`), the bury in its three steps (`SettleDrain`, `SettleWait`, `Settled`), `Ensure` / `Build`, `StartSync`, `QueueCap` /
`CapWait`, `Adopt`, `Kick`. `Submit` is `AsyncNoteSubmissions` and the native call. The queues are real queues here, of lists,
signals and waits, because a wait in a host queue that nothing ahead of it serves is one of the hazards. `copies` and `answer` say
which kick's inputs and which pass's answer a private texture holds; a list says what it copies, adopts and writes. `made` counts job
objects: a second one shows what a settled job leaves behind.

Assumptions: the host submits an evaluate's list before its next evaluate (the code's own: `async_host_sync.cpp:53`); its lists go to
one registered queue while a second one idles; with one queue only, submissions are observed or not; waits have no time limit
(`CallsReturn` shows that none is needed); `ListsChange = FALSE`, see section 4. Not in the model: an exception inside
`AsyncBody`, which leaves `recording` set and a gate that never opens (`feature_state.cpp:36`); the warped path.

### 2.6 FrameHistory

What a frame may make of which history. Vectors and chains are the **set of frames** whose motion they sum, so "reaches back to" is an equation
between sets; `histories` is what each pass's feature remembers, `temporal` and `spread.hidden` the machines with their residual and
their two chains, `async` what the background job does to them. An evaluate is a few steps: `EvaluateFrame`, `ApplyLayout`,
`PrepareModelPasses`, then a route: `RunPlainModelPath`, `CarriedFrame`, `FullFrame`, `SpreadEvaluate`, `Background` or none of them (`MissedFrame`).
Between evaluates the four setters, another feature's evaluate, host resets. `frames`, `resets`, `missed`, `runs` and `shown` are history.

What may fail: the model (any pass of it), the codec before the model and after it, the creation of a model now or in a later frame, the second pass's
resources, the machine's descriptors (`exhausted`, which the code answers with an invalidation), the base a carried frame is unpacked on (`unpacked`). Three
failures leave by returning between a frame's plan and its link of the chain, with the residual standing and nothing invalidated: no snapshot of
an in-place host's colour (`controller.cpp:320-323`), no pack set on the warped route (`dispatch_body.cpp:255-260`), a full frame's codec
(`controller.cpp:348-353`). They are `MissedFrame`: the machine never has that frame's vectors, and the chain that goes on has a gap which its consumers cannot
see. `HistoryReachesBack` and `CarriedFollows` say that those gaps are the only ones; section 4 has what the documentation says instead.

Assumptions: a cadence of two frames or more; GPU waits succeed; `debugSingleFrameMotion` off; queues are not lost. The warped
and the native form of a full and of a carried frame record the same things and are one action each; of the two extra passes
one is modelled. `DropsMidPass` and `LosesReset` are FALSE in the run, see section 4; `HistoryReachesBack` and `CarriedFollows` need both,
`ResetHonoured` and `NoGhosts` need only the second. Not in the model: frames without a colour, depth, motion or output texture and lists of a kind the
route does not take (they run the model plainly or switch the warp off), a temporal machine or spread schedule that cannot be built, exceptions,
the disabled warp, the unfit path, adoption of a host's feature, and hosts that ask for another model resolution before the route.

### 2.7 MenuPipeline

While the game shows a menu it does not evaluate; the pipeline then runs the model on a private queue at presents, and has to
have left the model alone when the game's next evaluate, or the release of its feature, comes. The three fences are sequences of
entries: `f1` (the private queue waits for the present queue), `f2` (a pass is over), `entry` and the exit order between the game's queue
and the passes. The threads interleave at their locks: a present (`PresentBegins`, then one outcome of the pass), an
evaluate in the steps of `MenuHostEvaluate` and `HookEvaluate` (`evaluate.at`), a release (`release.at`), a drain. `held` and `last`
are `MenuOutstandingPass`, `seen` is `MenuHostQueue`, `machine` the state machine, `watch` who is remembered.

Assumptions: one bound D3D12 swap chain, one watched feature, one thread that evaluates, one game queue; a list is submitted
before the next evaluate; 150 ms without an evaluate is a Boolean (`time`), the other conditions of entry another (`blocker`). `Faults` are calls that fail,
`Surprises` interleavings that break a property (section 4); the safe run has all faults and no surprise, and the theorems of section 5 say
which property needs which surprise away. Not in the model: the D3D11 bridge, guides, dumps, the
submit hook and a game that changes its queue in a run.

### 2.8 RemoteLink and CrashGuard

`RemoteLink` is the block between the 64-bit host and the tab in the 32-bit game, step by step: a publication is four
accesses, a read takes its copy in two and compares. A payload is two words of the same settings, so a mixed one shows. The host starts, dies, changes its
settings by its own overlay. Each edit it reads it *takes* (`HostTakes`), *declines* before looking into it (`HostDeclines`: a direct host, no core or an invalid
payload, `remote_host.cpp:80-86`) or, after comparing it, sees *refused* by the core (`HostRefuses`, `remote_host.cpp:95-101`); which is left open. In all three
the generation counts as answered. A declined payload is not compared (`last` stays), a refused one is: so an optical-flow edit, which repeats the payload
in the block, brings a declined one back but not a refused one. The tab polls at every present; it draws (`Draw`) at the presents its overlay is open, which may be
all, some or none; it loses the block, edits. `asked` and `torn` are history. `CrashGuard` is the marker file over several sessions:
`session` and `watcher` are the process and the tab that live now, `marker` and `event` what outlives them; `cause` is why a session
ended. `Ways`, `Lapses` and `Mishaps` name what the processes and the system may do beyond the plain case, all outside
the passing runs, see section 4.

`SettingsLink` is the abstract specification of the block: a publication and a read are one step each, an answer carries the
number of the last edit the host decided about. Sequences, words and copies are not mentioned. `LinkContract` states `LinkKept == Link!SSpec`, with
the mapping: a publication counts from its first increment on, since no reader gets past an odd sequence, and names what is being
written (`Editing`, `Answering`); a read counts from the comparison that lets it through (`Got`, `Shown`), so its two copies and what
it throws away are stutters. `Taken` is the number `ApplyEdit` last decided about, which is what the host answers with, and the payload it last compared. The contract says of
settings that they change in a decision to take, or by the host's own overlay, never otherwise.

Not in the model: while a direct host is active, the tab is shown that host's values; without a core, those of the shell's state; the text of a
rejected edit (`editError`), the retry event, the feeder's file.

## 3. Properties and runs

| property | what it says |
|---|---|
| `TypeOK` | types, and `previousTag` leads to older recordings only, so `Push` ends |
| `ReleaseSafe` | a use's fence has completed only if the use is in no list and not running |
| `SerialBehindWork` | a serial fence reaches a value only behind every submission counted up to it, `Untrack`'s terminal signal included |
| `ClaimsWholeList` | a report claims every recording the list carries: the chain has no hole |
| `RingSound` | the ring names tracked queues only, in order, at most `RingSize` of them |
| `AbandonedWindow` | a recording nobody claims is at most `Expiry` evaluates old |
| `ClaimedCompletes` | what was claimed completes, with presents alone |
| `PromiseKept` | Submission implements `GpuUses` |
| `FreedSafe` | nothing freed is used by a list that can still run, or still wanted by the host's fence |
| `AnnouncedLast` | `FEATURE_RELEASED` only after everything of the feature was freed |
| `GateOpens` | a grave whose recordings were claimed or completed is freed, with presents alone |
| `SlotsApart` | two lists the GPU may still read share no slot, and no list gets a slot twice |
| `Sized` | a pool of (`Deadline` + 1) evaluates' worth of slots never refuses a host nobody reports |
| `InputsKept` | a background pass reads its own kick's inputs, while nobody copies new ones |
| `AnswerRead` | the list that adopts a pass reads that pass's answer, complete |
| `SlotsApart3` | a list is reset only when the pass that ran from its slot is over |
| `ModelAlone` | the feature's model runs in one place at a time, over job objects and host lists |
| `CapKept` | at most `maxQueue` of the host's frames are unfinished when the next is recorded |
| `WaitsServed` | a host queue waits only for a pass whose inputs are released ahead of the wait |
| `CallsReturn` | every call into the core returns, without its time limits |
| `PassesEnd` | a pass in flight is adopted, dropped or settled |
| `TablesStand` | over the tracker: the table of a pass is what it wrote until its list has run or was thrown away |
| `FTypeOK` | types of FrameHistory |
| `HistoryReachesBack` | a model that keeps its history gets the vectors of every frame since that the machine has had, and of no other |
| `ResetHonoured` | a host reset reaches every pass, over frames that ran no model |
| `CarriedFollows` | a carried frame moves its residual along every frame since but the missed ones |
| `NoGhosts` | nothing from before a reset is shown after it |
| `ModelKept` | no model is freed while a private pass that uses it may still run |
| `NoOverlap` | the GPU never has a private pass and a list of the game's on the same model |
| `GameVectors` | the core never evaluates the game's frame with the menu's motion source |
| `HistoryReset` | the history of a menu never meets the game's next frame: the first successful call after a pass resets it |
| `CrashRemembered` | a crash in the grace, or a removed device, is remembered until Retry, whatever safe hosts, tabs and later sessions do |
| `NoFalseAlarm` | safe mode has a reason: a session the game stopped, or one past its grace, does not cause it |
| `WholePayloads` | neither process takes half of one payload and half of another |
| `LinkKept` | RemoteLink implements `SettingsLink`: publications are seen whole, in order and as they stand; no edit is decided about twice; an answer names the last edit decided about, with the settings of after that decision |
| `LinkRecovers` | a running host is heard in the end |
| `AskedSettles` | a host ends up with what it was asked for last and did not turn away |
| `PendingSettles` | no edit stays pending in a tab that is drawn again and again, taken or not, unless the block was made anew while nothing was drawn |

| run | instance | states | what happens in it |
|---|---|---|---|
| `submission_one_queue` | 1 event queue, 2 lists, 3 evaluates, 2 recordings, window 2, ring 1, 1 piece of other work | 1.5 M | chains over evaluates, other work on the queue, both drains, unseen submissions, a full ring, a queue destroyed and re-created |
| `submission_two_queues` | event queue + hooked queue of one device, a list of theirs and one of another device, removal | 1.2 M | both orders of report and call, whose destruction cancels what, expiry |
| `submission_overlap` | `PresentOverlaps = TRUE` | violation | finding 1 |
| `holders_safe` | Retirement: a host's resource and a feature's model, 1 event queue. DescriptorPool: 4 slots, 2 per evaluate, 4 evaluates, 3 uses, window 1 | 1.56 M | every way to retire, inside and outside callbacks, drains in between; wrap-around, waits, refusals, deadlines, removal |
| `retirement_two_queues` | a model, event + hooked queue that come and go | 1.9 M | gates over several queues, orphaned serial fences |
| `retirement_live` | a host's resource, 2 evaluates, fenceless uses, removal, fair | 0.54 M | liveness of a gate taken outside and inside a callback, with and without a fence of the host's |
| `retirement_fenceless` | uses without a fence | violation | finding 2 |
| `tracked_live` | TrackedPool: 1 slot, 2 tables per evaluate; 1 queue, 1 list, 3 evaluates, 2 recordings, removal, fair | 0.53 M | a second table waits for the first one's list, or is refused; liveness and the refinement of `GpuUses` |
| `job_live` | BackgroundJob: 2 slots, 3 passes of the first job object, 2 objects, 1 change of mode; fair | 0.31 M | adoption before and after the wait, stalls, settling mid-pass |
| `link_live` | LinkContract: 2 settings, 2 edits, 2 hosts, 1 silence, 2 attempts; fair | 0.52 M | reads that meet writers, restarts, edits taken, declined, refused and repeated, overlays drawn and not, the refinement of `SettingsLink` |
| `safe` | FrameHistory: 4 evaluates, 1 change, 1 reset, 1 missed frame, modes 1 and 3. MenuPipeline: 2 passes, ring 2, 1 trouble. CrashGuard: 4 sessions, 2 tabs, 2 pids | 1.4 M | every route with failures; passes around evaluates, releases and drains with failures; stops, kills, crashes, pids that return |
| `menu_reenter` | MenuPipeline with the surprise `reenter` | violation | finding 3 |

**Bounds.** `MaxEval`, `MaxRecordings`, `MaxSubmits` (and `MaxEvals`, `MaxUses`) stop the counters; `MaxOps`, `OtherOps` the depth of
a queue. The hazards need: a list recorded in two evaluates before its submission (2 recordings), one more
evaluate than the window (`MaxEval` > `Expiry`), a drain that finds a report of the previous drain and a new one (2
submissions), a gate behind work and in front of work (2 operations), a second queue. Each instance has those of its question; every
property is violated by a small change of the code it is about (the mutants next to the definitions), so the
instances do reach the states that matter. The proofs need none of the bounds.
`Expiry` (`Deadline` in GpuUses and DescriptorPool) 1 or 2 stands for 16 and `RingSize` 1 or 2 for 256: nothing but comparisons depends on them.
The two lists of `submission_one_queue` are interchangeable (same device, no other mention), hence its symmetry;
the liveness runs have none. Deadlock is checked in every run but `job_live`, `link_live`, `safe` and `menu_reenter`, where the bounds end every behaviour.
In `tracked_live` one slot is what makes a second table wait; the wrap-around of larger pools is in `holders_safe`.
In `job_live`, `Slots` = 2 (3 in the code) makes the ring return to a slot in the third pass. In `link_live`, `Attempts` = 2 (8 in the code) makes a reader try again
once and then give up, which more attempts only make rarer; two edits are a first one and a second that repeats, replaces or follows it. An instance with three edits and one
attempt (1.4 M states, ten minutes) holds as well and is not among the runs. In `safe`, four evaluates are enough to kick, doubt, adopt and kick again, and to go
once around a spread cycle and into the next (`SpreadEvery` = 3, with a frame that runs no stage), and nothing changes after the last of them; mode 2 differs from mode 1 in arithmetic only;
two private passes are one that is held and one that is last; four sessions are a crash, the safe session that finds it, a good one, and another.

**Fairness.** GPU steps are weakly fair (a queue with work makes progress while the device is there), so are the native call that
follows an event and the report that follows a hooked call (the same thread, straight-line code) and the end of an evaluate. The game keeps
presenting: each of the two `Housekeeping` calls is weakly fair in Submission. A wait for a slot returns (`WaitReturns`: it has a time limit). In Retirement a present is
kept away by a call in progress and by the holder of the mutex, again and again, and is still made in the end:
strong fairness. `Bury` and `DrainGraveyard` are straight-line code under the mutex. Nothing is assumed of evaluates, submissions,
retirements or queue events: they may all stop. In BackgroundJob the thread inside the core goes on, the queues run, and
the game goes on rendering: it evaluates and submits what it recorded (`PassesEnd` is about passes of a game that renders). In
RemoteLink both processes go on presenting (`Poll`, the steps of a publication and of a read) and a heartbeat nobody renews gets
old; nobody has to start a host, to open the overlay or to edit: `Draw` is not fair, and `PendingSettles` says itself that it is about a tab that is drawn infinitely often. The parts of MCSafe assume nothing.

## 4. Findings

1. **A present between the event and the native call** (`submission_overlap`). The settled policy gives a reported
   submission one drain of grace for its native call. `OnPresent` runs two settled drains
   (`addon_main.cpp:103` and `105`), so a present on another thread spends that grace alone: its second drain signals the
   recording's fence ahead of the list. `docs/RESHADE_ADDON.md:294` says nothing is released while the GPU can still read it.
   All other runs and the theorems on safety assume it does not happen (`PresentOverlaps = FALSE`).
2. **A use without a fence holds no gate** (`retirement_fenceless`). When `CreateFence` or `SetPrivateData` fails, the use's slots
   wait for an evaluate count, but a grave buried afterwards has no trace of the use: its gate is not empty (the registered queue's
   signal is in it), so the evaluate count of `graveyard.cpp:16` is not consulted, and it is freed while the list has not run.
3. **A menu entered again while a pass is held** (`menu_reenter`). A pass that was too slow once is *held*, and the evaluate withheld.
   The game goes back to its menu; nothing in `Blocker` (`menu_pipeline_step.cpp:218`) asks whether a pass is held, so a new pass is submitted. `ProofFor`
   (`menu_outstanding.cpp:58`) names the held pass only, and an expired one takes the `heldSlow` path (`menu_pipeline_host.cpp:255-258`), which
   proves once: when the held pass completes, the core is called while the later pass may still run the model. `menu_pipeline_host.cpp:251-252`
   promises "the model runs only once the pass is proven complete on the CPU". The safe run keeps a held pipeline out of its menu.

Divergences that have no run of their own; each constant below turns one on, and TLC then violates the property named:

* `ListsChange` (BackgroundJob, `ModelAlone`): a host that goes over to COMPUTE lists in mode 3 gets its model on its own list while a pass
  is in flight; only the spread path settles first (`spread_passes.cpp:124`, `mode_select.cpp:53`).
* `DropsMidPass` (FrameHistory, `HistoryReachesBack`): a change of motion source, or exhausted descriptors, invalidates the chains with a pass in flight;
  its history is then adopted with vectors that start later (`core_settings.cpp:140`, against `model_passes.cpp:110-112`).
* `LosesReset` (FrameHistory, `NoGhosts` and `ResetHonoured`): a frame with a host reset that finds no pack set returns as presented
  (`dispatch_body.cpp:257-259`) after its plan, which invalidates the machine, and before `AsyncBody`, which would doubt the pass in flight
  (`async_scheduler.cpp:56-59`). The pass, kicked before the reset, is then adopted, and what is shown next is from before the cut.
* `MaxMissed` > 0 (FrameHistory): a missed frame is in the run, and the two properties about chains exclude it by name. That a chain has a link for *every* frame, as
  `docs/TEMPORAL_MODES.md:183` puts it ("one link per frame"), is false from one missed frame on: evaluate 1 is full, 2 is a carried frame whose snapshot fails
  (`controller.cpp:323` returns; the residual stands), 3 is carried along its own vectors only, and the model run after it is told that its vectors reach back to 1
  (`SetMotionAnchor`, `controller.cpp:378`), so it keeps a history that is one frame further away than they say.
* `Surprises` of MenuPipeline: `overlap` with the fault `f2` replaces the recovery fence by another pass's (`ModelKept`,
  `menu_outstanding.cpp:45-51` against `menu_submit.cpp:52-53`); `late`, a native submission that comes a present after its event (`NoOverlap`,
  `menu_host_queue.cpp:133-138`); `straddle`, the checkbox is cleared, and a present follows it, inside an evaluate that began with it set. The
  present withdraws the snapshot (`menu_pipeline_step.cpp:138-142`), then the evaluate's end publishes one again, as nothing asks for the
  checkbox there (`menu_pipeline_host.cpp:278-310`). The next evaluate begins with the checkbox clear, so its list is not noted
  (`if (!candidate_) return;`, line 287) and the host queue still says "observed" of the older one; with the checkbox set again a run may enter
  at once, and its pass meets the list nobody noted (`NoOverlap`, with three troubles).
* `Mishaps` of RemoteLink: `kill`, a host that dies inside a publication leaves the sequence odd or the halves mixed (`WholePayloads`,
  `LinkRecovers`, `ipc.h:104`); `start`, a host that starts inside one copies half of it as taken (`remote_host.cpp:60-62`); `again`, an edit
  that asks for the payload the host compared last, while the host runs with other settings, passes for an optical-flow edit and is ignored: after the
  host's own change, or because the core refused that payload before (`AskedSettles`, `remote_host.cpp:87-91`).
* `Ways = {"exit"}` of CrashGuard (`CrashRemembered`): a clean unload clears the marker whatever the session found or did
  (`addon_main.cpp:238`), also the one a safe session was to keep and one that notes a removed device (`crash_guard.cpp:110-112`, `119-120`).
  `Lapses`: a host killed inside a write leaves an emptied file (`torn`), one started before the tab settled the last one's end sees its marker
  (`hasty`; both `NoFalseAlarm`); a host killed from outside after its device was removed could not write the note (`mute`), and a marker whose pid
  returns is taken for the new host's (`reuse`; both `CrashRemembered`).

`PendingSettles` has its exception from the code as well: `RemoteUiSource::Snapshot` gives up waiting only while it draws (`remote_ui_source.cpp:19-22`). A user
who edits, closes the overlay, has the host and the block replaced, and comes back waits for a number the new block has not reached, and is shown the old values
until the next edit or the next loss of the link.

Two were met and not modelled. In mode 3 with a colour format other than the output's and no residual, the fallback never clears the forced reset
(`dispatch.cpp:30`), so every job is doubted and every frame falls back (`warp_recorder.cpp:137`, `async_scheduler.cpp:432`). A queue that is lost
and comes back in mode 3 leaves a gap in the chains between the background frames before and after.

## 5. Proofs

Checked by TLAPS for every set of queues, lists, devices and objects and every value of the bounds.

| theorem | statement |
|---|---|
| `SubmissionProofs!Typed` | `Spec => []TypeOK` |
| `SubmissionProofs!Released` | `PresentOverlaps = FALSE` gives `Spec => []ReleaseSafe` |
| `SubmissionProofs!CancelledInTime` | `Spec => []AbandonedWindow` |
| `SubmissionProofs!ClaimedWhole` | `PresentOverlaps = FALSE` gives `Spec => []ClaimsWholeList` |
| `SubmissionProofs!SerialsBehindWork` | `PresentOverlaps = FALSE` gives `Spec => []SerialBehindWork` |
| `SubmissionProofs!RingStaysSound` | `Spec => []RingSound` |
| `SubmissionProofs!ContractKept` | `PresentOverlaps = FALSE` gives `Spec => PromiseKept`: the tracker implements `GpuUses` |
| `RetirementProofs!Composed` | `RSpec => Spec`: the composition is a restriction, so Submission's theorems hold in it |
| `RetirementProofs!GraveTyped` | `RSpec => []GraveTypeOK` |
| `RetirementProofs!ReleasedLast` | `RSpec => []AnnouncedLast` |
| `RetirementProofs!NothingFreedEarly` | `PresentOverlaps = FALSE` and `FenceFails = FALSE` give `RSpec => []FreedSafe` |
| `DescriptorPoolProofs!PoolTyped` | `PSpec => []PoolTypeOK`, no run checks it |
| `DescriptorPoolProofs!NeverRewritten` | `PSpec => []SlotsApart` |
| `DescriptorPoolProofs!NeverDry` | `PSpec => []Sized` |
| `TrackedPoolProofs!TrackerGoesOn` | `TSpec => Spec`: what is proved of Submission holds with a pool on it |
| `TrackedPoolProofs!TrackerCarriesPool` | `PresentOverlaps = FALSE` gives `TSpec => PoolKept`: the pool over the tracker implements DescriptorPool |
| `TrackedPoolProofs!TablesAreKept` | the same gives `TSpec => []TablesStand` |
| `TrackedPoolProofs!TablesLast` | the same gives `TSpec => []PoolLasts`, `Sized` of that pool |
| `BackgroundJobProofs!BackgroundTyped` | `BSpec => []BTypeOK` |
| `BackgroundJobProofs!InputsStayKept` | `BSpec => []InputsKept` |
| `BackgroundJobProofs!AnswersRead` | `BSpec => []AnswerRead` |
| `BackgroundJobProofs!AllocatorsApart` | `BSpec => []SlotsApart3` |
| `BackgroundJobProofs!WaitsAreServed` | `BSpec => []WaitsServed` |
| `BackgroundJobProofs!ModelStaysAlone` | `ListsChange = FALSE` gives `BSpec => []ModelAlone` |
| `BackgroundJobProofs!CapStaysKept` | the same gives `BSpec => []CapKept` |
| `FrameHistoryProofs!FeatureTyped` | `FSpec => []FTypeOK` |
| `FrameHistoryProofs!HistoryFollowed` | `DropsMidPass = FALSE` and `LosesReset = FALSE` give `FSpec => []HistoryReachesBack` |
| `FrameHistoryProofs!CarriedAlong` | the same give `FSpec => []CarriedFollows` |
| `FrameHistoryProofs!ResetReaches` | `LosesReset = FALSE` gives `FSpec => []ResetHonoured` |
| `FrameHistoryProofs!NoGhostShown` | the same gives `FSpec => []NoGhosts` |
| `MenuPipelineProofs!GamesOwnVectors` | `MSpec => []GameVectors` |
| `MenuPipelineProofs!HistoryMeetsReset` | `MSpec => HistoryReset` |
| `MenuPipelineProofs!NoModelFreed` | `"reenter"` and `"overlap"` not in `Surprises` give `MSpec => []ModelKept` |
| `MenuPipelineProofs!ProvenFirst` | the same give `MSpec => []ProvenBeforeCall`, what finding 3 violates |
| `MenuPipelineProofs!NeverTogether` | `Surprises = {}` gives `MSpec => []NoOverlap` |
| `RemoteHostProofs!Remembered` | `"exit" \notin Ways` and `Lapses = {}` give `GSpec => []CrashRemembered` |
| `RemoteHostProofs!Reasoned` | the same give `GSpec => []NoFalseAlarm` |
| `RemoteHostProofs!NeverTorn` | `"kill"` and `"start"` not in `Mishaps` give `LFairSpec => []WholePayloads` |
| `RemoteHostProofs!BlockIsAtomic` | the same give `LFairSpec => LinkKept`: the block of words implements `SettingsLink`, refused edits included |

**Released.** `ReleaseSafe` is not inductive: that a fence completed says nothing of what is still enqueued. `IInv` adds why a
signal cannot come too early, in three groups. *What a list may contain*: a use still in a list was never executed and its fence never
touched (`InListFresh`); a claimed one is in the one call whose event fired (`ClaimedInCall`, `CallsApart`). *Drains*: between
the two drains of a present the target of the second is older than every call whose event fired (`SettledBehindCalls`), where
`PresentOverlaps = FALSE` is used. *Queues*: a claimed use runs on the queue that claimed it and in front of its signal (`OnItsQueue`,
`InDepth`, `SignalBehindWork`); cancelled uses are over because unclaimed work is younger than the window (`Young`, `CancelledOver`).
One lemma per action shows it kept. `CancelledInTime` needs the types only: every evaluate begins with the drain that cancels.

**ClaimedWhole** adds `ChainWhole`: a use in a list that waits for its claim is the list's tag, or the link of another such use. A
submission claims along `previousTag` from the list's tag, so what it does not reach is claimed already; a use without a fence starts a new chain,
and is in nobody's claim. **SerialsBehindWork** adds what a number of a serial means in a queue of operations: a counted serial without a place in
the queue is the one whose call is between its event and its native call (`CountedRan`), and until that call is made the serial fence of its
queue has been signalled for older serials only (`FenceCounted`), which is where the drains' grace and `PresentOverlaps = FALSE` come in.

**NothingFreedEarly.** `GInv` rests on one idea: a use in flight is always *held by something a new gate would see*, a
recording still in `recordings_`, or the tail of a registered queue it runs on (`KeptCovers`). `GatingCovered` is the same for a gate whose
own signals exist and whose recordings are about to be read; `BuriedCovered` for a complete gate. The step from the first
to the second is `Bury`, and the reason it is sound is that a drain, which alone erases recordings, needs the mutex the
half-taken gate holds (`GatingHeld`). `FenceFails = FALSE` is needed: finding 2 is its failure.

**ReleasedLast** needs `AllRetired`: a released feature has nothing live left, and rebuilds of it are over.

**NeverRewritten** uses of the GPU only what `GpuUses` promises (`UsesInv`: passed fences are of uses that are over, what has a deadline
is over by it), and `LastReads`: the only use that may still read a slot is the one in its tag. `LeastBy` proves that the
`CHOOSE` of the scan and of the oldest ticket choose (the least-number principle by well-foundedness of `<`).

**NeverDry** is a counting argument. A refused Acquire met `Count` slots held by uses whose fences have not passed; unclaimed ones are at most
`Deadline` evaluates old (`ExpiredPasses`), so the slots held for unclaimed uses belong to `Deadline + 1` evaluates, and no evaluate took
more than its `PerEvaluate` (`TakenBounded`). If no slot is held by a claimed use, that is fewer than `Count`; the proof adds up the classes of
slots by induction over the window, a least counterexample being used in place of the induction rule.

**ContractKept** maps a use to its phase, so a step of Submission opens, ends or passes uses according to what became of
`content`, `exec` and `sig`. `IInv` and `ReleaseSafe` say that what passes is over; `CInv` adds what the phases need: the evaluate's own use
is open only inside it (`Opened`), an unmade use is nowhere (`Unmade`), an unsignalled one has not passed (`Unsignalled`). `Forward` says that every step leaves
a use in its phase or moves it on; one lemma per action then names the abstract step.

**TrackerCarriesPool, TablesAreKept, TablesLast** carry the pools' theorems over to the tracker that is really there. A step of Submission is the step of
`GpuUses` that `ContractKept` found for it, and with a frame beside it a step of DescriptorPool, also while the frame waits for a slot; `NeverRewritten` and
`NeverDry` are then cited under the mapping, and "not over" is read back as a list that is recorded into, waits for its submission, or runs. Nothing about pools
is proved twice.

**RingStaysSound.** A report drops the head of the ring only when it is full and goes to its end, with a serial above every earlier one of its queue; a
drain empties the ring. What needs an argument is `Untrack`, which closes the gaps a queue leaves: an entry that stays goes to the place its rank among
those that stay gives (`Ranked`). Ranks count (`RankCounts`), so the map from new places to old ones is increasing and keeps the order (`ForgetKeepsOrder`).

**Remembered, Reasoned.** That a crash is remembered depends on two processes and a file that outlives both. The invariant
relates the file to the session that wrote it (`OwnMark`, `AgeRecorded`: its marker carries its pid and the age it recorded last;
`MarkStands`, `MarkExplains`: it is there until the orderly end, afterwards only because of a removed device) and to the tab that is about to
settle it: a tab decides to delete in one step and deletes in another, so the decision itself is in the invariant
(`CrashNotSettled`: never for a crash; `CauselessSettled`: always for what must not alarm).

**NeverTorn.** The sequence is odd exactly inside a publication (`StatusLocked`, `EditLocked`), a block whose sequence is even holds
two equal halves (`StatusWhole`, `EditWhole`), and a reader whose sequence has not moved has copied what stands there (`HostCopied`,
`TabCopied`). One lemma per access of either process shows it kept; the two divergences `kill` and `start` are exactly what breaks the first.

**BlockIsAtomic** builds on that. A step of a publication that is not its first, and a step of a read that is not its comparison, has to be a stutter of
`SettingsLink`; the comparison has to be a read of what stands *now*, not of what stood when the copy began. `LInv` gives that the copy is what stands.
`HostKnows` adds what the numbers mean: the numbers of edits only grow, what the host has copied is never ahead of what stands, and what it has let through is
ahead of what it decided about, by which `ApplyEdit` cannot skip or repeat one (`HostDecides`, `NewAhead`), whether it takes, declines or refuses it; `TabKnows` is the same for the tab, which edits only a host it heard. There is one lemma per access.

**InputsStayKept, AnswersRead, AllocatorsApart, WaitsAreServed.** A pass leaves traces in three places: the queue it runs on, the entries still on the
host's queues, and the job that kicked it. `BInv` relates them. Of a job object the host's queues only need to know its *standing* `stand`: the
pass it has finished, the inputs signalled, the copies made, the pass kicked last, and whether it was left by its job. `Placed` says of a list at a position
of the queue that the pass it follows on (`Base`) is over or waited for before that position, that the copies it finds are of that pass, and that no signal or copy before
it is of a later one; `Sendable` says the same of a signal. Both survive whatever is put behind them (`Later`) and the GPU's coming to the
end of the first entry (`Ran`), so an action owes a proof only for the entries it adds, and has it from what the job knows of the ends of the queues: the
last pass is waited for once it is adopted (`Awaited`), its copies stand there or are in the open list (`CopiedFor`, `Known`), and nothing has been sent for a
signal that is pending (`Pending`). There is one exception: `Settle` signals a pass whose list the host has not submitted, ahead of that list. `Late` admits it for
the last pass of a job that is on its way out, and `InputsKept` is about the passes of jobs that are not. What a finished pass has not yet handed on is
followed on the other side by `Passes`: jobs in order, the two answers taken in turn, inputs at most one ahead of the model.

**ModelStaysAlone, CapStaysKept.** `OneAtWork`: only one job object has passes, and what an earlier one did is waited for on every queue, except between the making of a
new job and `StartSync`. `ModelLists` adds that a list with the model stands behind a wait for every pass, and that none is left where a job stands; with `ListsChange`
the host records such a list beside a job nobody settled. `Spaced` says that a mark stands behind each list of a job's frames, and no list between them. At
`adopt` the marks are at most `MaxQueue` (the wait of `AsyncQueueCap`), and the lists map into the marks behind them one to one, so they are no more.

**HistoryFollowed, CarriedAlong, ResetReaches, NoGhostShown.** The chain of a machine is to hold exactly the frames since its residual
(`FollowsOn`), the pending chain those since its start, and a pass in flight those since its kick (`PendingOn`, `InflightOn`). None of this is
invariant as it stands: an evaluate that runs no model, creates one, fails, or changes the layout breaks it, and the code repairs it a frame
later. What is invariant is that each break leaves a mark which the next route reads first: a reset that is forced or a pass that has none of its history
(`Stale`), a background machine without its job (`Unbuilt`), a setting that will drop the pass in flight (`Doomed`). `FInv` says that chains are
whole, but for the missed frames, while there is no mark, `FClear` the same of resets. A missed frame is no break of `FInv`: it joins `missed` in the step that leaves it
out of the chain. What leaves no mark are a machine dropped alone (`DropsMidPass`, of chains only) and a reset that is missed with a pass in flight (`LosesReset`): `FInv` needs both away,
`FClear` the second. The lemmas are per operation of a machine (advance, accumulate, promote, invalidate), then per route, and the steps
of the evaluate combine them.

**GamesOwnVectors, HistoryMeetsReset, NoModelFreed, ProvenFirst, NeverTogether.** The invariant of the menu pipeline has three layers, each
assuming what the one before proved. *Base*, without assumptions: numbers of passes, lists and models are of the past (`Numbered`, `Queued`), the
places of the threads go together with the lease and the watched feature (`Watched`), the flow is off from an evaluate's constructor to its call (`NoFlow`),
and a model with a menu's frames in its history has its reset owed, or taken by the evaluate in progress (`Owed`). *Cover*: while a pass uses the
feature's model, the pipeline knows a pass that is not over before it, because passes end in order and it is the last submitted one that is known
(`LastKnown`, `Known`); the evaluate and the release take that as their proof and carry it to the call (`Proves`, `Covers`). This is where `reenter` and
`overlap` have to be away: both submit a pass behind the known one. *Order*: with every list of the game's still on its way the run's entry waits
(`EntryKnows`, from `Checked`: no snapshot of a withdrawn checkbox is used), so a pass is submitted behind every list of its model that is on a queue, and what it
waits for is behind them too (`Captured`, `Gated`); a list that comes later is of another model, as its evaluate proved all passes over (`Apart`). Here the flags of
the host queue have to mean what they say: `Surprises = {}`.

Only model-checked: liveness (`ClaimedCompletes`, `GateOpens`, `CallsReturn`, `PassesEnd`, `LinkRecovers`, `AskedSettles`, `PendingSettles`), which is
out of the prover's reach.

## 6. What is left

Next, in this order: **Flow** (`core/flow`: registrations, execute, the two frames given to the engine are consecutive), **ReadableGuides** (copies of buffers
the host wrote, and when they are stale), the D3D11 bridge of the menu pipeline, the unfit path and adoption in FrameHistory, the background fence as part
of a gate in Retirement. Pure functions: warp path selection, the integer part of the layout.

Every invariant, step property and refinement of the passing runs is a theorem. Proofs worth adding are those of the modules to come, and a contract of
BackgroundJob (a kick is answered once, with its own inputs) that FrameHistory could be composed with, as `SubmissionContract` is for the pools.

**Not modelled**, with the reasons in `PROJECT.json`: floating-point passes and shaders, the recording of GPU commands, formats and sizes (host shape, warp
path, SDK layout), settings values and INI files, user interface and logs, statistics, installer and tools, vendored headers. Of 49 thousand lines
most are of these kinds.

## 7. Running

In this directory, `tlc -workers 2 -config <run>.cfg <module>.tla` for the runs named in `PROJECT.json` and
`tlapm <module>.tla` for the proof modules `SubmissionProofs`, `RetirementProofs`, `DescriptorPoolProofs`,
`TrackedPoolProofs`, `FrameHistoryProofs`, `MenuPipelineProofs`, `RemoteHostProofs` and `BackgroundJobProofs`. The three violation runs are expected to end with a counterexample.

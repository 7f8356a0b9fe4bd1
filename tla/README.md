# Verification of ping-app

ping-app pings a list of hosts, detects outages, keeps samples and events in
SQLite and shows everything live in browsers. The server is one asyncio process
(`src/src/netping/`), the client is plain JavaScript (`src/static/js/`). Paths
below are relative to the repository, `pinger.py` standing for
`src/src/netping/pinger.py`, `store.js` for `src/static/js/store.js` and so on.

This directory holds TLA+ models of the parts that keep state and run
concurrently, TLC configurations that check them on small instances, and proofs
checked by TLAPS for every value of the constants. `PROJECT.json` relates every
definition to the lines it models.

    tlc -workers 2 -config SchedSafety.cfg MCPingScheduler.tla
    tlapm PingScheduler_proof.tla

Contents: [1 inventory](#1-the-system) · [2 modules](#2-modules) ·
[3 runs](#3-runs-bounds-and-what-they-show) · [4 fairness](#4-fairness) ·
[5 proofs](#5-proofs) · [6 divergences](#6-where-code-and-documentation-disagree) ·
[7 abstractions](#7-abstractions) · [8 not modelled](#8-not-modelled) ·
[9 plan](#9-plan)

## 1 The system

| component | code | state | operations |
|---|---|---|---|
| ping scheduler | `pinger.py` | `_tasks`, `_semaphore`, `_outage`, `_started`, `_stop`, config signatures | `start`, `stop`, `reconcile`, `_host_loop`, `do_ping` |
| buffered writer | `store.py` | `_sample_buf`, `_event_buf`, `_flush_failures`, `_stop` | `enqueue_sample`, `enqueue_event`, `_writer_loop`, `_flush`, `_insert_skipping_violations`, `close` |
| monitoring controller | `monitoring.py` | `_active`, `_run_id`, mode, packet targets and counts, auto-stop task, counting tasks | `start`, `stop`, `note_sample`, `reconcile_packet_targets`, `_auto_stop`, `shutdown` |
| registry | `store.py`, `api.py` | tables hosts, groups, group_cidrs, dismissed_suggestions | create, patch and delete of hosts, groups and CIDRs, accept and dismiss of suggestions |
| live synchronisation | `ws.py`, `app.py`, `api.py`, `ws.js`, `app.js`, `store.js` | hub's client set; the browser's maps of hosts and groups | `connect`, `broadcast`, snapshot, bootstrap, refetch, reconnect |
| panel and tile | `monitoring.js`, `dashboard.js`, `store.js` | shown monitoring state, frozen percentage, one window of samples per host | `onToggle`, `resync`, `onWsState`, `addSample`, `deriveStatus` |
| choice of the interface | `network-interface.js`, `api.py`, `app.py`, `pinger.py` | the setting, the scheduler's binding, the menu | choose, store, bind, load, restart |
| rendering | `dashboard.js`, `app.js`, `store.js` | `Store`, the pending frame, the sections and cards that stand, marks, tooltip | notify, `render`, `renderLive`, `setView`, group toggle, tooltip |
| full-screen view | `drilldown.js` | `currentHostId`, its subscription, the chart, the address | open, close, follow |
| pages | `design-examples.js` | the page shown, the armed push of the wheel and its timer | buttons, keys, wheel |
| bubbles | `dashboard.js`, `bubble-physics.js` | the grid; layouts due, the loop of frames, targets, the focus scroll | pack, lay out, animate, hover |
| dialogs | `editor.js`, `group-settings.js`, `ping-settings.js` | which host or group is edited, requests in flight | open, save, delete, close, change, commit |
| inbox | `suggestions.js`, `app.js` | the suggestions shown, the debounce timer | refresh, accept, dismiss |
| parser, interface list, configuration | `parser.py`, `network.py`, `config.py` | none | pure functions and reads of the operating system |

How they interact:

- `app.py` builds one of each and wires them in its lifespan; at shutdown it
  ends the purge, then the controller (which stops the scheduler), then the store.
- The controller starts and stops the scheduler under its own `_lock`. Every
  edit request of `api.py` commits, reads the rows again and calls
  `scheduler.reconcile` and `reconcile_packet_targets` under another lock,
  `reconcile_lock`. Neither lock excludes the other.
- A host loop enqueues samples and events into the writer, awaits the
  broadcaster (the hub) and tells the controller of every sample; the controller
  counts it in a task of its own and may stop the scheduler from there, that is,
  from a task the loop created.
- Requests broadcast what they changed through the hub. A browser gets a snapshot
  when it connects, messages afterwards, and the answers of its own requests on
  other connections.

What is hard here, and hardly reached by the unit tests, is in `PROJECT.json`
under "hazards", each at its line. In short: every `await` is a point where a
cancellation, a second request or a restart of the same host's loop may come in
between; the two locks protect different halves of one invariant; every `Store`
method opens a connection of its own, so a check and the statement it guards are
two transactions; a flush is three transactions long and its rows may lose their
host half-way; and the browser learns of one change over two or three channels
that are not ordered with each other.

What makes each component correct:

- scheduler: never two loops for a host, no slot lost, nothing pings after
  `stop()`, one outage open exactly while the last failures say so, however often
  the loop was replaced;
- writer: every row is stored once, in order, or is accounted for by a named
  reason; it never gets stuck;
- controller: what the user is told is what the scheduler does; a count, a timer
  and a stop belong to the run they were made for; no deadlock of the two locks;
- registry: references hold, ids are never reused, a pause survives everything
  that is not an update of the group;
- synchronisation: no change of a host that is announced is skipped by a connected
  browser, and it is known which ones are not announced;
- panel and tile: the result is frozen exactly at the end of a run, and "offline"
  means what the server calls an outage;
- interface: what is stored, pinged with and shown agrees in the end, whichever
  choice failed and whenever the server was stopped;
- rendering and full-screen view: once nothing is due the page is a picture of the
  Store, though most changes only write new values into what stands;
- pages: the wheel turns a page only when that was meant;
- bubbles: no overlap in the grid, none unplaced or outside, one loop at a time and
  its attribute true;
- dialogs: a change goes to what the dialog shows, however late answers come;
- inbox: current whenever it is quiet, unless something nobody announced has changed.

## 2 Modules

Four abstract specifications say what a component promises without the means by
which it keeps it, and the detailed module is shown to implement each:
`PingScheduler` implements `OutageLog`, `StoreWriter` implements `RowLog`,
`Monitoring` implements `MonitoringRun`, `Dashboard` implements `HostStatus`.
`Monitoring` contains the scheduler as seen from its lock (the set of hosts with a
live loop) and the requests that reconcile it, which `PingScheduler` has in detail;
`LoopsAreAsAsked` of `PingScheduler` is what that view rests on: the hosts that have a
loop after each call are those `Monitoring` says. `Page` puts the ten modules of the page side by side (see below).
`MC*` modules add symmetry and a set of records only. `*_proof` modules extend a
module with its theorems.

**PingScheduler** (`pinger.py`). A step is the code between two suspension
points. `pc[<<h, g>>]` is the await at which generation g of the task of host h is
suspended; `cancelled` holds tasks that were cancelled and have not been resumed
yet, which is the gap between `task.cancel()` and the `CancelledError`. `Begin`,
`Acquire`, `SampleUp`, `SampleDown`, `OutageStarts`, `OutageEnds`,
`IterationFails`, `StartAnnounced`, `EndAnnounced`, `SampleAnnounced`, `SleepOver`
and `Unwind` are `_host_loop`; `StartBegin`, `StartEnd`, `StartFails`,
`StopBegin`, `StopEnd` and `Reconcile` are the calls of the same names, and
`DeleteHost` is the row's deletion, which the loop survives until the reconcile
that follows. `trail` (failures at the end of the stored samples), `balance`
(outage_start minus outage_end events) and `torn` (the host lost a task inside an
announcement) exist only for the properties.

**OutageLog**. What outage detection promises, without tasks: each sample is
judged when it is recorded, and the log has an open outage exactly while the last
`Threshold` samples failed.

**StoreWriter** (`store.py`). `buf` are the two lists, `batch` what the flush in
progress took, `pc` whether that flush is before its batched insert or its
row-by-row fallback, `flusher` whether the writer task or `close()` runs it.
`FlushTakes`, `InsertCommits`, `InsertViolates`, `FallbackCommits` and
`FlushFails` are one flush; `FlushFails` is `_on_flush_failure` with the re-queue,
the shared failure counter and the drop. `DeleteHost` cascades, `Crash` loses the
memory and reopens the database. `fate` says why each row left.

**RowLog**. What the store promises, without buffers, batches and retries: rows wait;
all those older than some instant, of both kinds, stop waiting at once, and are
stored if their host exists, or are all given up. So the database never holds an
event while the samples that led to it wait.

**Monitoring** (`monitoring.py`, with `api.py`, `app.py` and the outer half of
`pinger.py`). `mon` is the holder of the controller's lock and the await it is at.
`StartPackets`/`StartUnlimited` to `StartSpawn` are `start()` with its three reads;
`Stop`, `Stopped`, `TimerExpires`, `AutoStop`, `NoteSample` and
`ReconcileTargets` are every way a run ends; `Edit`, `ReconcileReads`,
`ReconcileLoops`, `ReconcileTargets` and `ReconcileFails` are one request;
`ShutdownBegin`/`ShutdownEnd` do not take the lock, as in the code. `run` is
`_run_id`; `attempts` counts samples recorded in the current run, `behind` marks a
reconcile that failed and `half` a `start()` that failed inside the scheduler.

**MonitoringRun**. What the controller promises of a run, without locks, counting tasks
and timers: hosts are pinged only while a run is on or starting, or after a start that
failed half-way; a run of packets ends by itself when every target had its share in
this very run, a timed one when its time is over; otherwise a run ends because it
was asked to or the server shuts down. `Phase`, `RunKind` and `RunTargets` map the
controller to it.

**LiveSync** (`ws.py`, `app.py`, `api.py`; `ws.js`, `app.js`, `store.js`). A host is
represented by its version number, negative once deleted, with the group that each
version names; a group by whether it has a row. A request commits, reads its record
back on another connection, which may fail, and then broadcasts. `ListMembers`,
`DeleteGroup` and the broadcasts are `delete_group`: the ids that are announced are
listed before the transaction that deletes, so hosts may join and leave the group in
between. The endpoint joins the hub, reads the snapshot, and sends it; the page loads,
connects, refetches the groups after a reconnect, and applies messages as
`onWsMessage` does. `seen`, `missed` and `unsaid` (the latest change of a host that no
request announces) are history.

**Registry** (`store.py`, `api.py`). The four tables as functions and sets, with
`INSERT OR IGNORE`, upsert, foreign keys and cascades written as what they do.
A handler that checks before it acts is two or three steps of a job.

**Dashboard** (`monitoring.js`, `dashboard.js`, `app.js`, `store.js`, with the
server side of `monitoring.py` and `pinger.py` reduced to what the page can tell).
The panel learns from its click's answer, from `resync` and from messages; the tile
keeps a window of samples. **HostStatus** is the abstract tile, which follows from
all samples ever sent.

**The page.** Ten modules, one for each part that keeps state, and **Page**, which
extends them all. They share no variables: a part takes what another does to it as an
input that may come at any time (a render rebuilds the sections under
`BubbleMotion`, `TurnTo` is the page being set, `StoreSample` is `addSample` as the
full-screen view hears of it), which admits every interleaving of the real page and more.
`Page` therefore lets one part move in a behaviour, the choice being its variable
`part`, rather than multiply the states of parts that cannot tell each other apart.

- **BubblePacking** (`packBubbleGroups`): one round of the placement loop is a step.
  Candidates are the preferred slots and then the offered rows; `height` is the length
  of the sparse `occupied` array, on which the fallback depends.
- **Deck** (`design-examples.js`): the clock is the three phases it is compared with
  (waiting, ready, late). `pushed` and `turned` are history.
- **Rendering** (`store.js`, the subscription in `app.js`, `dashboard.js`): `dom` is what
  a render builds as far as a user can tell it apart: sections with their settings and
  counts, cards with group and status. `Rebuild` is `render`, `UpdateHostCards` is
  `renderLive`, `Notify` the coalescing. Toggles by right-click are requests in
  flight; `fresh` tells whether the section clicked still stands.
- **BubbleMotion** (`bubble-physics.js`): `layout` is the one pending layout frame,
  `frames` the pending frames of loops that still have an effect, `handle` what
  `cancelAnimationFrame` would cancel, `physicsItems` whether the bubbles that are animated
  are those on the page. One bubble is followed on one axis; forces and collisions
  move it anywhere and the walls are exact.
- **DrillDown** (`drilldown.js`): `listeners` are the hosts captured by the
  subscriptions; `chart` is what was drawn last.
- **GroupSettings**, **Editor** (`group-settings.js`, `editor.js`): requests in flight
  are records; the answer acts on the dialog as it is by then. `crossed` and
  `written` are history.
- **PingSettings** (`ping-settings.js`, with the server and the messages behind it):
  `batches` are `Promise.all`s with the requests they have left, `known` the Store, `wire`
  the messages it has not had yet. `OthersUpdateHost` is every other writer of an interval:
  the editor (`editor.js:121-128`), another browser, a client of the API. `committed`,
  `apart` (the hosts the last commit left out, or something else has written since) and
  `failed` are history.
- **NetworkInterface** (`network-interface.js`, `api.py:180-195`, `app.py:90-93`,
  `pinger.py:204-208`): a request, of this page or of another browser, goes from station
  to station (save, bind, answer). The loops read the binding at every ping
  (`pinger.py:271-276`), so it is what they ping through. `raced` and `unshown` are history.
- **Suggestions** (`suggestions.js`, `app.js:76-87`, `142-151`, `220`): the truth on the
  server is the number of its changes; a fetch is served at one moment and shown at
  another. The bootstrap fetches first and connects afterwards, and the first connection
  fetches nothing (`Connect`); `HubDrops` is a connection that the hub has given up and
  the page has not; `ChangesSilently` is a change that nobody announces. `missed` and
  `unheard` are history.

## 3 Runs, bounds and what they show

| run | instance | what it shows |
|---|---|---|
| SchedSafety | 2 hosts, 2 generations each, threshold 2, 1 slot, broadcaster, 3 calls | `LoopsMatchTasks`: `_tasks` and the loops that go on are the same, one a host, none when stopped; `LoopsAreAsAsked`: each call leaves just the loops it asks for; `SlotsConserved`, `OutageLogExact`; under every interleaving of start, failing start, stop, reconcile and deletion with the loops |
| SchedLog | the same without a broadcaster, fair | the loops implement `OutageLog`; `NobodyStarves`: hosts with a loop are pinged again and again, and `stop()` returns |
| SchedPaired | 1 host, threshold 3, broadcaster | **violated**: a task cancelled inside an announcement leads to unpaired events |
| Writer | 2 hosts, 3 rows of both kinds, 1 crash, fair | `RowsInPlace`: every row in exactly one place, in order across re-queues, none waiting behind a newer one; `ImplementsRowLog`; `LossesJustified`: only rows of deleted hosts are skipped, a drop needs three failures, `close()` loses rows only to a failed flush; `WriterGetsDone`: no flush ever needs to succeed for the writer to go on and for `close()` to return |
| MonSafety | 2 hosts, 2 requests, packet limit 1, 2 edits, 3 operator calls, 1 fault | `NoLoopBehindItsBack`: told state and scheduler agree, and there is silence after shutdown; `NothingOutlivesItsRun`: counts and timer belong to their run; `RunConverges`: targets and loops converge, and a host pinged in vain comes from `start()`'s rows only; `ImplementsRun`: no run ends early or pings on |
| MonLive | 2 hosts, 2 requests, 2 operator calls, 1 fault, fair | requests return (no deadlock of the two locks); `LimitedRunsEnd`: packet-limited and timed runs end |
| MonExcluded | 1 host, no fault | **violated**: `start()` spawns a host that was disabled, and reconciled, during its reads |
| Sync | 1 host, 2 groups, 2 requests, 3 changes, 1 fault, fair | `NoHostChangeMissed`: no change of a host that a request announces is skipped; `CatchesUp`: a standing connection that the hub has not dropped catches up |
| SyncStale | as Sync | **violated**: a browser may be left on an older state |
| Registry | 2 groups, 1 CIDR, 2 requests, cap 1, 3 ids | references intact, ids retired, cap passed by no more than the racing requests; `GroupsChangeAsAsked`: pauses kept, no host left behind by its group, none taken that had left it |
| Dashboard | window 2, threshold 2, 3 changes, 2 messages in flight | the page hears of the newest state, the result is frozen exactly at the end of a run, offline agrees with the outage log, the window yields the status of the whole history |
| Page | see below | `PageShowsStore`, `WellPacked`, `MotionIsTruthful`, `PlacedOrDue`, `DialogsActOnTheirOwn`, `QuietMeansCurrent`, `DeliberateTurns` |

Why the bounds are enough. Hosts interact only through the slot (one slot and two
hosts contend for it) and through the stop at the limit (two hosts: one reached it,
one did not). Two generations per host are the most that can be alive: a task
waiting to unwind and its successor; `NewGen` needs a free one, and a third would
have to be created while two tasks of the host unwind, which differs from the second
in nothing. Three calls allow start, reconcile and stop, or start, stop, start. Threshold 2 separates
"one failure", "the failure that opens" and "one more"; the streak is not counted
past threshold + 1. Three rows let a re-queued batch meet a newer row, of the same
list or the other. Failures per row are counted to 4 (`TriesSeen`), one above the
code's limit. In `Monitoring` a run that is stopped, started and stopped again
needs three calls, stamps from two earlier runs included. In `LiveSync` two requests
and a connection are what can overtake each other; browsers do not interact; two groups
let the host leave the one that is deleted, or join it. In
`Registry` two requests are a check and the statement that invalidates it; three ids
are one above the two hosts that a cap of 1 lets in. In `Dashboard` the window is
as long as the threshold, the shortest the code's constants would still allow.

The instance of `Page`: four groups of 0, 1, 2 or 4 hosts, so that all three spans
occur, and one offered row, so that the preferred slots, the rows and the fallback
below everything are all used; 2 hosts and 2 groups to render, with the default
record and one that differs in both fields, so that a group can be emptied, refilled and
changed back, and one toggle in flight; canvas widths 4, 5 and 8 for radii 2 and 3: an
expanded bubble fits into the last only, and the second is the narrowest in which a bubble
is sure to lie within the canvas;
2 hosts to show, edit or set, 2 requests, lists, changes of ranges or batches in flight, which
is what it takes to cross; intervals 1 and 2 with what is typed one beyond each; messages
lagging by 2; 3 interfaces, so that two choices may differ from each other and from the
one in force; 4 changes of the suggestions, the first of them before the page is loaded,
against 2 fetches. The symmetry of hosts and groups
of the rendering is sound, as no property names one and `DeliberateTurns`, the only
action property, is about other variables.

Runs set `CHECK_DEADLOCK FALSE` because every instance ends when its bounds
are used up or the process has exited; that nobody waits for ever is what the
liveness properties say.

## 4 Fairness

- The event loop resumes every task that is ready and every sleep or timed wait
  ends: weak fairness of each loop step, of unwinding, of a flush step and of the
  controller's own steps. `do_ping` is bounded by its own timeout and kill.
- `asyncio.Semaphore` and `asyncio.Lock` serve their waiters in order. The models
  keep no queue, so taking a slot or a lock that is free again and again is
  strongly fair.
- A database call answers, well or badly. No success is assumed: in
  `StoreWriter` the flush as a whole is weakly fair and may always choose to fail.
- In `LiveSync` the server works off what it began and the browser handles what
  it was sent and reconnects. Nobody has to make a request.
- Nothing is assumed of operators: no start, stop, edit or shutdown must happen.

## 5 Proofs

All proofs are machine-checked to the last leaf, for any sets of hosts, groups,
requests, any threshold, number of slots, cap, window and bounds, under the named
`ASSUME`s of each module (constants are numbers or finite sets, `None` is none of
the values it is distinguished from, `LiveSync` allows at least one change).

**PingScheduler_proof**
- `TypeCorrect`, `SlotsAreConserved`. The slots need a count: free slots plus the
  tasks at "pinging" is `MaxConcurrent`. `TypeAndSlots` is inductive; each step moves
  at most one task in or out of the set of pinging tasks, and a cancelled waiter,
  which holds no slot, must give none back.
- `AlwaysLoopInv`: the inductive invariant `LoopInv`. `OneLoopPerHost` alone is not
  inductive: it has to be known that an uncancelled task is the one `_tasks` names,
  that a loop past its jitter has an outage state (`StateHeld`), that every loop is
  cancelled unless `_started` is set (`QuietUnlessStarted`), and that `_started` is off
  from the first line of `stop()` on (`CtlMatchesStarted`). The converse, that no entry
  of `_tasks` stands for a dead loop (`NoDeadTask`), is what start() and reconcile()
  take for granted when they skip a host that has one. It needs that the stop event is
  set exactly while stop() gathers (`FlagMatchesCtl`), so that a loop never ends by
  itself; that nothing is left of a stop that has returned (`StoppedIsEmpty`); and that
  only a task that exists is marked as cancelled (`CancelledExist`), so that a new one
  in its place is not.
- `LoopsAreUnique`, `TasksTellLoops` follow, and `LoopsFollowCalls`: after a reconcile
  just the desired hosts have a loop, after start() the wanted ones too, after the
  first step of stop() none, and no loop begins or ends to go on by itself. The crux is
  `Respawn`: what is live after old loops were cancelled and new ones spawned, whatever
  awaits they were at.
- `StopIsNear`: every loop stop() waits for was cancelled, a step of one takes it off
  the list and nobody adds one. It is the part of `StopReturns` that is not fairness.
- `OutageLogIsExact` adds `AllJudged`: at each await the stored samples, the streak
  and the event log of a host relate as that point of the code says (one sample ahead
  inside an announcement), unless the host is `torn`.

**Registry_proof**
- `TypeCorrect`, `ReferencesIntact`, `IdsStayRetired` from `IInv` = typed, references
  intact, ids not reused and never ahead of the AUTOINCREMENT counter.
- `CapHolds`: the bound of the cap by the number of hosts plus the requests between
  their check and their insert, over the cardinality theorems of the library.
- `GroupsAsAsked`: `NoHostStays`, `PausesKept` and `LeaversAreKept`, three action
  properties; the first two from one lemma on what a step does to the groups
  (`StepsOnGroups`).

**Dashboard_proof**
- `TypeCorrect`; `FrozenResult` from `FInv`.
- `PanelInformed` from `NInv`: the newest state of the server was seen by the page,
  or is on its way to it (in the channel, in the pending broadcast, in the answer to a
  GET that is still to come), or the page knows that it missed something. This is the
  strengthening: "seen when quiescent" says nothing of states with messages in flight.
- `TileIsFaithful` is the refinement of `HostStatus`. The mapped state is the number
  of failures at the end of the window. `PushedFailure` is the crux: when the oldest
  sample is shifted out, it is a failure, or a success with so many failures behind it
  that the tile is offline anyway (`Threshold <= Window`).
- `TileAgrees` from `TileInv`: there is a sequence of streaks, one for each message
  under way, that starts at the tile's, ends at the server's and takes one judgement per
  message. The witness grows at one end with a ping and shrinks at the other with
  a delivery, which spares an induction over the channel.

**Page_proof**, for any sizes of all ten parts. `StepsOfParts` says that a step of the
page is a step of one part and leaves the others alone, so each part has an invariant
of its own, proved from its own actions, and a theorem for the page.
- `PageIsCurrent` from `RenderInv` and `DrillFollowsHost`. "The picture is right when
  nothing is due" is not inductive: it has to be known that while only a live update is
  due the sections and cards that stand are the right ones (`Skeleton`), which is what
  a structural reason that got lost would break; `LiveCompletes` shows that a live
  update then completes the picture.
- `DialogsKeepToTheirOwn` from `SettingsInv` (a dialog not crossed has its title,
  its name and, if shown, its list, or the answer that will show it, in common) and
  `SavesItsHost`, which is inductive.
- `PackingIsTight` from `PackInv`: every cell of a placed bubble is in `occupied` and no
  taken cell lies at or below row `height`, so that the fallback row is free.
- `BubblesArePlaced` from `MotionInv`: what is animated, if it is on the page, was
  laid out for a width that lasts until a layout is due. The widths are any, bubbles wider
  than the canvas included: a wall on the left and one on the right are resolved in that
  order, so a bubble lies within the canvas if its two radii have room there together,
  which is the condition in `PlacedOrDue`.
- `TurnsAreDeliberate` from `DeckInv`: an armed direction is the direction of the last
  push, and a phase later than waiting means that the pause has passed.

**PageQuiet_proof**
- `MotionTruthful` from `LoopInv` and `GlideInv`: at most one frame is outstanding, a
  frame asked for by an earlier loop finds nothing to do, and the bubble glides exactly
  while the handle of the glide is held. Without the first part a second loop might run
  beside the first one and the attribute could be cleared under it.
- `QuietIsCurrent` from `ChoiceInv`, `IntervalInv` and `InboxInv`: each says where the
  newest value is on its way (in the request, in the batch, in the timer, in the fetch)
  while it is not yet shown, or which history variable tells that it will not be. The
  theorem says what the three properties say: `ChoiceHolds`, `IntervalsHold` and
  `InboxCurrent` name, one by one, the accidents after which a quiet page may be behind,
  and section 6 lists them as what the code does.
- `TypeCorrect`, the types of all ten parts, is not inductive either: a frame that is
  live keeps the sections that stand, and that they stand for groups (`SectionsTyped`)
  follows from `RenderInv`; a frame has an identifier because one at most is pending
  (`LoopInv`); and the messages of the inbox are no more than the changes made.

**Monitoring_proof**
- `TypeCorrect`; `NoLoopHidden` from `CtlInv`: who holds the lock, at which line, and
  what `_active`, the loops and the timer are at that line (`StartHolds`, `StartedHolds`,
  `StopHolds`, `TimerHolds`).
- `RunsKeepApart` from `CountInv`: a counting task of a past run can only find a run
  number that differs from its own (`NotesOfPast`), and what was counted was pinged in
  this run (`CountsCovered`). `LimitStops` follows from it.
- `RunsConverge` from `TableInv`: where rows, loops or targets differ from the table, a
  reconcile is still to come that will read the table again. Its last part is stronger
  than what it shows: while the lock is held or no run is on, no loop is left over at
  all, so that one that is can only come from the rows start() spawned from.
- `LimitIsNear` from `DueInv`: a run of packets whose lock is free has a target below the
  limit, so none goes on past it, whether a count, an edit or a deletion made the
  last one; counts of targets that stay never fall, and each counting task of the run
  raises one. It is the part of `LimitedRunsEnd` that is not fairness.
- `RunIsImplemented`: every step maps to one of `MonitoringRun` or to none. `CtlInv` gives
  the phase (whoever pings is on, starting or failed: `PingsWhenOn`), `CountInv` that the
  limit stop is due by the abstract count of pings.

**LiveSync_proof**
- `TypeCorrect`, which needs that no object changed more often than anything did
  (`DbCounted`), so that the next change stays within `MaxChanges`.
- `NothingMissed` from `NotAhead` (nothing under way is newer than the tables) and
  `Covered`: a browser that is connected and was not failed by a fetch is informed of
  each host, that is, it has seen the newest state, or that is promised by a request
  not yet read back or broadcast, in the channel, in a fetch, or in the snapshot that is
  being read, or it is the change `unsaid` has. `RequestDoes` is the part about the
  requests: of the hosts a deletion takes, those that `delete_group` had listed are
  promised by its messages, and only the others become `unsaid`.
- `ShowsWhatWas`: a browser may be taken back to an older state, which `SyncStale` shows,
  but is never shown a version that was not committed (`NothingInvented`). What can be
  false is a deletion that is announced of a host that had left its group; the browser
  then shows no host where there is one, and the number 0 of that message says so.

**StoreWriter_proof**. The filter `About` is a recursive function; that it exists, what
it keeps and that it keeps the order (`AboutIs`) is shown with a smallest
counterexample, where an induction would need an operator as a parameter.
- `TypeCorrect` with `PhaseInv`: what the phases of a flush and of close() say about
  the lists, e.g. that nothing waits while the final flush runs.
- `OrderKept` and `OnePlaceEach` from `RowInv`: each list ascends, what is stored is
  below what is being flushed, that below what waits, the kinds have no row in common,
  and the rows in the lists are those that were not given up. `ExactlyOnePlace` alone says
  nothing of the order, and `OrderPreserved` alone nothing of a row in two kinds.
- `LossesHaveReasons` from `TryInv` too: no row in memory has failed more often than the
  writer has in a row, some row just as often, and rows enqueued during a flush not
  at all. This is what ties `_flush_failures`, a count of flushes, to the rows.
- `RowsStayInPlace` adds `NewerWait`, from `CutInv`: the batch was taken at one instant, so
  every row of it, of either kind, is older than every row that waits.
- `RowLogIsImplemented`: what waits are the rows of the batch and the buffers, what is
  stored those of the tables. Only a commit, a drop, an exit and a crash change
  what waits, and `CutInv` provides the instant at which they cut.
- `CloseIsNear` and `MemoryIsEmptied` are the parts of `WriterGetsDone` that are not
  fairness: a measure that each step of a flush lowers, however the database answers.
  close() is at most six steps of the flush away; a row in memory leaves it within nine.

`PingScheduler_proof` also holds the refinement of `OutageLog`: `LogIsImplemented`, from
`LoopInv`, `AllJudged` and `Unannounced` (without a broadcaster nobody is suspended in an
announcement, so no host is `torn`): each step is an `Up`, `Down` or `Delete` of
`OutageLog` or leaves the log alone.

Only model-checked:
- liveness under fairness (`NobodyStarves`, `WriterGetsDone`, `RequestsReturn`,
  `LimitedRunsEnd`, `CatchesUp`), which needs ENABLED, which the prover does not
  handle. `StopIsNear`, `CloseIsNear`, `MemoryIsEmptied` and `LimitIsNear` prove for
  every instance what these rest on beside fairness: that each step that fairness
  grants is progress, and that nothing takes progress back.

Every invariant and every safety action property of the passing runs that is not in
this list is a theorem.

## 6 Where code and documentation disagree

With a run that shows it:

1. `SchedPaired`: `pinger.py:163-166` says that a restart cannot emit unpaired or
   duplicate outage events. The event is enqueued before the broadcaster is awaited
   and the flag is set after it, so a cancellation there repeats the event.
2. `MonExcluded`: the README says that disabled hosts and paused groups are
   excluded from the active run. `start()` spawns from the rows it read; a host that is
   disabled and reconciled after that read is pinged until the next edit.
3. `SyncStale`: `api.py:3-4` says that broadcasts keep all browsers in sync. A snapshot
   overtaken by a broadcast, or two requests that broadcast in the other order, leave
   a browser on the older state until something else changes. More that leads there is
   in the model, and listed below under `delete_group` and the read-backs.

Met while modelling, without a run of their own.

On the server: `pinger.py:169-170` says that reconcile is a no-op while inactive, but
a read that raises inside `start()` leaves `_started` set under an inactive
controller, and the next edit of a paused server starts pinging (the variable `half` of
`Monitoring`, which `NoLoopBehindItsBack` excepts); `flush_max_batch` is stored
(`store.py:217`) and read nowhere, so no batch size triggers a flush; the failure
counter is shared by everything merged into a batch, so a row may be dropped at its
own first failure (hence "some row" in `LossesJustified`); a cancelled
`do_ping` leaves its subprocess to itself (`pinger.py:114`), outside the cap that
`pinger.py:5` promises; `delete_group` lists the ids it will announce before the
transaction that deletes (`store.py:431-438`, `api.py:348-353`), so a host that joins the
group in between is deleted without a message, and its own `host_created` may come after
`group_deleted` and stay on the page as a host that does not exist, while one that leaves
in between, or whose group is renamed, is announced as deleted and lives on; a request
whose read-back raises (`store.py:295-304`, `384`, `424`) answers 500 with its change
committed and never broadcast (both are `unsaid` in `LiveSync`); a client whose send took
too long is dropped by the hub while its connection stays open (`ws.py:46-54`), and
neither side notices; `HOST_CAP` can be passed by requests in flight (`CapBounded`
states by how many); `ws.py:5-6` says that broadcasts are serialised on a single task,
while every caller broadcasts on its own; groups are fetched before the first
connection and not again when it opens (`app.js:132-135`), so a group changed in
between is missed until a reconnect; the answer to a click may overwrite a newer state
that a message brought (`monitoring.js:54`); the page ignores the "event" messages of
`pinger.py:338`; and a sample for a host that was just deleted creates a buffer in the page that nobody removes
(`store.js:74`).

On the page, each found as a state that a property had to except or that a guard
admits:

- `group-settings.js`: an answer that comes after the dialog was closed shows it again
  without a group, and its changes go to "null"; answers that cross, or a list that fails,
  leave another group's ranges under the title (`crossed`).
- `editor.js`: a late answer closes the dialog of another host, and Save pressed twice
  creates two hosts.
- `ping-settings.js`: a commit compares with the Store, which lags behind the server or
  is disconnected from it, and then skips hosts; and the editor, other browsers and other
  clients give a host an interval of its own, which the field does not show (both are
  `apart`). After a failed batch its other requests go on and may overwrite a later one
  (`failed`).
- `api.py:180-195`: two overlapping choices may leave the stored interface, the bound one
  and the shown one different, and one that breaks off the stored and the bound one
  (`raced`); other browsers are not told of a choice (`unshown`).
- `suggestions.js`: an older answer may displace a newer one (`newest`). What changes
  between the fetch of the bootstrap (`app.js:220`) and the first connection, which
  fetches nothing (`app.js:146`), a dismissal in another browser (`api.py:414-423`), a
  change whose request failed before its announcement, and whatever changes while the
  hub has dropped the page, is not shown before the next fetch (`unheard`). A bootstrap
  that throws before its fetch connects all the same, without an inbox (`missed`).
- `design-examples.js:93`: the direction of the wheel is forward if either component is
  positive, so scrolling up with a slight drift to the right pushes forward.
- `dashboard.js`: only a rebuild that draws groups hides the tooltip, so it outlives
  its section in the list of addresses and on the empty page; a sample of another
  host takes away the mark of a toggle that is still under way; a rebuild destroys a
  rename in progress; a host renamed while it is shown keeps its old title in the
  full-screen view.
- `bubble-physics.js`: a layout after a resize resets the target of a bubble that
  is still marked as expanded; hovering starts the loop even where reduced motion
  is preferred.

## 7 Abstractions

- A host's and its group's `enabled` are one flag, `pingable`, in `Monitoring`; the
  reads of hosts and disabled groups are one step there, as both are made under the
  same lock and an edit between them is an edit before or after either.
- Interval, interface and timeout of a host are one thing: "its signature changed".
- One SQLite transaction is one step. Rows are numbers, records are versions.
- `LiveSync` has one GET of each kind in flight; the capture of the
  client list and the send are one step of `Broadcast`. The two reads of `delete_group`
  are one: a group whose row goes between them, while hosts join it without one, is left
  out. Its DELETEs, one transaction, are one. The list of groups that the page shows
  is left out; so are a `_reconcile` that raises between `group_renamed` and
  `group_updated`, which only keeps back the latter, and a rename to the same name.
- In `Dashboard` `n`, `seen`, `ran`, `gap` and `blind` are history; a restart of the
  server drops what was asked of it.
- The timing of timers is left out: a timer may expire whenever it is armed.
- `BubbleMotion`: a frame of a loop that was overtaken by a new run does nothing and is
  left out. That a bubble lies within the canvas is stated for canvases at least as wide
  as its two radii together; the code makes wider ones (`bubble-physics.js:147-149`, `170`,
  `196-201`), whose walls push them out of one side or the other. There `PlacedOrDue` says
  that they are placed for the present width and no more.
- `PingSettings`: a message is under way from the moment of the write, and the messages
  of a host arrive in that order. Another order, which `LiveSync` has, could only make the
  Store wrong about a host, and a commit that relies on it is one of those in `apart`.
  A host that is created later is one whose interval others write.
- `NetworkInterface`: the set of interfaces is fixed; one that vanishes is bound to
  nothing by `network.py`. The interface is the binding; its source address goes with it.
  The reconcile at the end of a choice, with its lock and its reads, is that of
  `Monitoring`, and here no more than one of the ways in which a choice fails.
- `Suggestions`: what is suggested is the number of changes that led to it. The answer to
  a fetch is computed from three reads (`api.py:280-282`); it is taken to be as new as the
  first of them, so it may be newer than the model says and never older. One choice of
  the user is under way at a time.
- Timed waits of `asyncio.wait_for` are modelled as in Python 3.11 and later, where a
  cancellation that races the result is not lost.

## 8 Not modelled

- `parser.py`, the matching of CIDRs for suggestions, and the ring geometry: pure
  computations on text and numbers with no state.
- `network.py`: reads the interfaces and addresses of the operating system.
- Retention purge and history queries: the purge deletes old rows in chunks and
  touches no memory of the writer; a flush that waits too long for it is one of the
  failures of `FlushFails`. Queries only read.
- `config.py`, the wiring of `app.py`, CSRF, CORS and origin checks: environment
  and predicates on headers; start and shutdown order are in Monitoring and
  StoreWriter.
- Of the page: headline numbers and charts (read from the Store when drawn), the
  forces between bubbles, the rename and delete buttons of a section (one request
  each, whose effect is in Registry and LiveSync), translations, the decoration of
  `motion.js`, styles. Installers and deployment run outside the program.
  `undismiss_suggestion` has no caller.

Hazards of this code that no property covers, beside those of `PROJECT.json`: the
buffers of the writer have no bound (`store.py:217`); a cancelled ping leaves its
subprocess (`pinger.py:114`); groups are not reloaded when the first connection opens
(`app.js:215`); the answer to a click may overwrite newer state (`monitoring.js:54`);
a sample of a deleted host leaves a buffer (`store.js:74`). Each is a property that the
code does not have, told in section 6, rather than one it could lose.

## 9 Plan

Order of work, most important first:

1. *(done)* PingScheduler, OutageLog; type, slots, loops and outage log proved.
2. *(done)* StoreWriter; Monitoring; LiveSync; Registry; Dashboard and HostStatus; all of
   them proved, both refinements with them.
3. *(done)* The page: rendering, full-screen view, pages, bubbles, dialogs, interval,
   interface and inbox; eight theorems.
4. *(done)* RowLog and MonitoringRun, and that the store and the controller implement
   them; the contract between `Monitoring` and the scheduler; measures for `stop()`, the
   writer and the packet limit.
5. Prove next: a measure for `CatchesUp` and one for `RequestsReturn`; an abstract
   catalogue that `Registry` implements; that a browser which is behind goes ahead of no
   deletion.
6. Model next: the classification of ping output and the sample statistics as functions
   over abstract inputs, checked against reference definitions; the retention purge
   beside the writer's busy timeout; which hosts are suggested for which group.

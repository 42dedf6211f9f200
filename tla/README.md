# Route Tool: a TLA+ verification of the bypass gateway service

Route Tool switches a Windows machine to a bypass gateway and back. A core
service does the switching, watches the gateway and falls back to the direct
connection when it stops answering; a user interface talks to the service over
a named pipe. This directory holds TLA+ specifications of the parts that decide
what becomes of the user's network, the TLC configurations that check them, and
proofs about the health monitor, the controller, both switch strategies, the state
store, the IPC connection and the window. Paths below are relative to `src/crates/`
unless they start with `src/`.

1. [The system](#the-system)
2. [Modules and code](#modules-and-code)
3. [What the runs check](#what-the-runs-check)
4. [Where the properties stop holding](#where-the-properties-stop-holding)
5. [Fairness](#fairness)
6. [What is proved](#what-is-proved)
7. [Abstractions and bounds](#abstractions-and-bounds)
8. [Not modelled](#not-modelled)
9. [Plan](#plan)

## The system

### Components

**Controller** (`core-bin/src/controller.rs`). Keeps the configuration, the
runtime state (`is_enabled`, `current_mode`, `health`), the switch handle, the
generation counter of the health loops and the sender that cancels the current
one. Operations: `update_config`, `enable`, `disable`, `reconcile_on_startup`.
No lock spans an operation; each connection runs its requests as a task of its
own. Correct when at most one loop drives the strategy, an enabled bypass is
watched with the present configuration, a disabled one is gone, the user's own
adapter configuration is never lost, and memory and files agree.

**Health monitor** (`core-lib/src/health_monitor.rs`). One task per loop:
Healthy, Degraded or Fallback, with a failure counter and a cooldown. Every tick
pings the gateway, and then falls back, repairs a lost bypass or takes a
dropped one up again. Shares handle, runtime state and generation with the
controller. Correct when fallback is earned by `threshold` unanswered probes in a
row, happens when they occur, leaves the machine direct, is undone only if
`auto_reenable` says so, and a retired loop ends.

**Switch strategies** (`core-lib/src/switch_engine.rs`,
`core-win/src/route_overlay.rs`, `core-win/src/adapter_reconfig.rs`,
`core-win/src/netsh.rs`). `RouteOverlay` keeps two /1 routes in the route table;
`AdapterReconfig` writes a static address, gateway and DNS with `netsh` and
restores the adapter from a snapshot. Each has several steps that fail one by
one. Correct when `disable` leaves nothing behind and gives the user's
configuration back, a failed `enable` takes back what it did, and the handle that
is kept knows every route that was made.

**State store** (`core-lib/src/state_store.rs`). Three JSON files, each
written to a hidden temporary file, synced and renamed. Correct when a reader
always finds one whole value, crash or power failure included.

**IPC server** (`core-bin/src/ipc_server.rs`) and **protocol types**
(`ipc-protocol/src/lib.rs`). JSON-RPC lines over a named pipe, requests
dispatched one by one per connection, health events broadcast to subscribers.
Neither end compares ids and nothing limits the wait for an answer. Correct when
every answer belongs to its request, every request ends, a subscriber that lags
still gets to the latest event, and a stop is heeded.

**Core process** (`core-bin/src/main.rs`, `service_host.rs`, `state.rs`). Start
up in the order load, reconcile, serve; stops by being killed or asked to.

**UI** (`ui-bin/src/`). One window: toggle, save, restore, a poll every second, a
tray icon, notifications, autostart, single instance. Keeps a copy of what the
core last answered, and a list of adapters in which it looks ids and indices up.
Correct when the copy converges to the core's state, no action is sent on the
strength of a stale one, and the page never names another adapter than the core's.

**Windows access** (`core-win/src/adapters.rs`, `dhcp.rs`, `icmp.rs`,
`inspector.rs`), **log pruning**, **build and installer**: stateless wrappers
and tooling.

### Interactions

UI → IPC server → Controller are request and answer. The controller starts a
health loop with `start_health_monitor` and retires it with
`stop_health_monitor` (increment the generation, then send on the `watch`
channel). Controller and loop both call the strategies, both write the shared
handle and runtime state, and both write `runtime_state.json`. The loop
broadcasts events, which the IPC server forwards.

### What is hard

* **Interleaving.** A tick awaits a ping, a strategy and two locks; a request
  may run in each gap. The generation is tested in two places of a tick, and
  the strategy call it guards comes after an await.
* **Failure in the middle.** Two routes, two or more netsh commands, a file and
  then a lock: every operation is a series of effects any of which may fail.
* **Restart.** The process dies between any two effects. The start-up has to
  guess from the files what was under way.
* **Order over time.** Fallback consumes the snapshot that a second fallback
  would need; a mode change has to undo what the *old* configuration did.
* **Liveness.** A loop has to notice an outage and a recovery, and has to end.

`PROJECT.json` lists the hazards line by line with the properties aimed at each.

## Modules and code

```
SwitchEngine ── HealthMonitor ── Controller ── MCController
                     │
                     ├─ HealthMonitorRefinement (Contract == INSTANCE HealthContract)
                     │        └─ HealthMonitorInv ── MCHealthMonitor
                     │                  └─ HealthMonitorProofs
StateStore (Atomic == INSTANCE AtomicFile) ── MCStateStore
                                                       └─ StateStoreProofs
RouteOverlay (Engine == INSTANCE SwitchEngine) ── MCRouteOverlay
     └─ RouteOverlayProofs
AdapterReconfig ── MCAdapterReconfig
     └─ AdapterReconfigProofs
Ipc ── MCIpc
  └─ IpcProofs
Ui ── MCUi
  └─ UiProofs
```

`ControllerProofs` extends `Controller` and `HealthMonitorProofs`, and
`ControllerSerialProofs` extends `ControllerProofs`.

**SwitchEngine** has no behaviour of its own. It says what one call of
`enable`, `disable`, `is_active`, `can_rebuild` may do to the *machine*: a record
of the overlay routes, each adapter's gateway (or `Direct`) and the snapshot
file. `EnableOutcomes` and `DisableOutcomes` are sets of results, one for every
way the call may end; `Faults` names the system calls that may fail unprovoked.
Its `"refuse"` is no system call: the adapter strategy refuses an adapter without
an address and a gateway of another subnet (`adapter_reconfig.rs:158`, `:193`),
which depends on data that only `AdapterReconfig` has. `HM_tick` includes it; in
`C_serial` and `C_restart` configurations fit their adapter.

**HealthMonitor** is `run_loop`. A loop's `pc` says between which two await points
it is; an action is the code from one to the next:

| `pc` | action | code in `health_monitor.rs` |
|---|---|---|
| `wait` | `TickStart`, `Exit` | the `select!` of `run_loop`, the generation test of `tick` |
| `ping` | `Ping` (`OnAnswer`, `OnSilence`) | `try_ping`, `handle_success`, `handle_failure` |
| `active`, `rebuild` | `CheckActive`, `DecideRebuild` | `ensure_active` |
| `recheck` … `resave` | `Reenable*` | `reenable`: test, strategy, handle, runtime state, file |
| `fbcheck` … `fbsave` | `Fallback*` | `fallback`: test, strategy, handle, runtime state, file |
| `report` | `Report` | `update_runtime_health` |

`lost` and `age` in a loop's record are not in the code; they record the probes
really lost and the time since the last replay, which the properties compare
with the code's own counter and cooldown. `HMSpec` is one loop in an
environment that changes the link, removes routes and may retire the loop
between any two steps; `HMFairSpec` adds that a loop that can go on does.

**HealthContract** is the abstract specification: a bypass that is kept, dropped
after `threshold` misses in a row, taken up again only if the terms say so,
and nothing after retirement. **HealthMonitorRefinement** maps a loop to it:
*kept* is `is_enabled`, and the misses are the probes really lost.
**HealthMonitorInv** is the inductive invariant, **HealthMonitorProofs** the
theorems.

**Controller** adds the requests, the start-up and the crash to the loops. A
client's `pc` is its place in `update_config` (`save` … `drop`), `enable`
(`read` … `mark`), `disable` (`halt` … `unmark`) or
`start_health_monitor` (`rehalt`, `load`, `spawn`); an operation called by
another continues in the same record (`then`). `BumpGeneration` and `SendCancel`
are the two halves of `stop_health_monitor`, for `disable` and for
`start_health_monitor` alike. `Boot` is `Controller::new` and
`reconcile_on_startup`, which run before anything else does. A first start has no
configuration: it cleans up through the gateway of `AppConfig::default`, 0.0.0.0
(`CleanupGateway`), which removes none of the tool's routes; what else it may
remove is in `RouteOverlay`. `Crash` stands for
a kill and for a service stop, which does not disable the bypass either.
**ControllerProofs** holds the theorems about one connection,
**ControllerSerialProofs** those about requests and ticks that take turns.

**StateStore** is one file of the store at the level of names, inodes and what has
reached the disk; one action per system call of `atomic_write_text` and
`clear_snapshot`. **AtomicFile** is what it promises: a change a reader sees is
the whole effect of one call. **StateStoreProofs** shows it for one writer.

**RouteOverlay** takes the overlay strategy apart, call by call of the IP Helper
API, on the rows of the route table. A row has a destination (/0 or one of the
two /1 halves), an interface, a next hop, a byte order (version 0.1.7 wrote the
next hop swapped), a lifetime and a protocol; creations refuse a key that is
there, deletions one that is not. `call` is the strategy call under way:

| `call.at` | action | code in `route_overlay.rs` |
|---|---|---|
| `resolve` | `Resolve` | `resolve_interface_for` |
| `scan`, `sweep` | `Scan`, `Sweep`, `Swept` | `cleanup_routes_via`, before `enable` and in its rollback |
| `create`, `replace`, `retry` | `AddRoute`, `ReplaceRoute`, `RetryRoute` | `add_route`: create, or delete and create again |
| `main`, `extra` | `DeleteMain`, `DeleteExtra` | `disable` |
| `return` | `Returns` | what the callers do with the handle |

A next hop is a bypass gateway, another router, or `Unset`: 0.0.0.0, which is both
the next hop of an on-link row and the gateway of the default configuration that a
first start cleans up by (`CleanupCalled`). `neat` is not in the code: it records
that the handle is that of an `enable` which could read the table and delete what
it found, as every later one could; a handle adopted at the start is not.

The contract is not a module of its own: it is `SwitchEngine`, instantiated as
`Engine`, whose one-step outcomes the controller and the health monitor are built
on. `CallsKeepContract` says that what a call has done when it returns is one of
them. So the two levels at which the strategy is modelled are shown to agree.
`HandleKnowsAll` is about `disable`, which goes by the handle alone: the handle has
to name every row of the tool. **RouteOverlayProofs** holds the theorems about its
rows and the proof of `CallsKeepContract`.

**Ipc** is the named pipe: `accept` is where the process and the loop of `serve`
are (`boot`, `create`, `listen`, `sleep`), `task[c]` is `handle_connection` with
the line read so far and the next event of its receiver, `up[c]` and `down[c]` are
the two directions of the pipe, `client[c]` is `send_request` at the other end. A
request is its text and then its newline, which may be two writes and two reads.
In `EventWins` the `select!` takes an event and drops the `read_line` under way.
What a request does to the core is `Controller`; here it takes a while.
**IpcProofs** holds the theorems.

**AdapterReconfig** takes the adapter strategy apart, netsh command by netsh
command, on a full IPv4 configuration (addresses, gateways, DNS servers, DHCP).
`doing` is the operation whose commands (`todo`) are running, `bypass` whether there
is a handle (`on`), the loop has given it up (`fallen`), or neither (`off`):

| action | code |
|---|---|
| `Enable` | `Controller::enable`: the backup, the snapshot, `AdapterReconfigStrategy::enable` |
| `Disable`, `Fallback`, with `Undo` | `Controller::disable` and `fallback` of `health_monitor.rs`, both the strategy's `disable`: the restore, or nothing without a snapshot |
| `Reenable` | `reenable` of `health_monitor.rs`, of a bypass that is lost or has fallen back: `enable` without a backup |
| `RunNetsh`, `NetshFails` | `run_netsh` |
| `Finish` | the snapshot is cleared, or the handle kept |

Its `Effects` is netsh itself, external to the repository; a disconnected DHCP
adapter may ignore a static address, as the comment at `adapter_reconfig.rs:139`
reports. `Restorable` says which adapters a snapshot can describe, and `unbacked`,
which is not in the code, records that the loop has re-enabled a bypass when there
was no snapshot. **AdapterReconfigProofs** holds the theorems.

**Ui** is the window and its tasks, against a core that is no more than its
configuration, whether the bypass is on and whether it has fallen back, and a
machine whose adapters come and go (`plugged`). `st` is `Mutex<UiState>`, `app`
the window's properties; an action is one critical section of a task, together
with the closure it hands to the UI thread. An adapter is shown as the code finds
it in its list (`Found`): `entry` is what the list box has selected, `info` the
adapter the home page describes, and one that is not in the list is neither (index
-1, "--"). A choice is an index into the list of the moment (`PickSends`). The
poll has a `pc` for its sections (`PollStatus`, `PollTells` … `PollReports`), a
click starts a task with a `pc` of its own (`ToggleReads`, `ToggleSends`, …), and
the core dies, restarts, falls back and recovers in between. A request may be
refused (`Acceptable` is `validate_config`), or fail before or after it took
effect. The variable `astray` is not in the code: it records that one of five
mishaps has happened, which are listed
[below](#where-the-properties-stop-holding). **UiProofs** holds the theorems.

## What the runs check

| run | instance | properties |
|---|---|---|
| `HM_tick` | one loop, 8 configurations (both modes, `auto_reenable` on and off, threshold 1 and 3), every strategy fault, retirement between any two steps, fair | `HMInv`, `FallbackEarned`, `LoopAgreesWithRuntime`, `SavedAgreesWithRuntime`, `ReplaysSpaced`, `RetiredLoopExits`, `KeepsContract` |
| `C_interleaved` | one connection, both modes, a crash, failing saves, a gateway that never answers, each request step interleaved with each tick step | `TypeOK`, `OneCurrentLoop`, `NoOrphanLoop`, `ConfigDurable` |
| `C_serial` | two overlay gateways and the adapter mode, no request overlaps a tick | `WatchedAsConfigured`, `DisabledIsDirect`, `DisabledIsIdle`, `SnapshotIsOriginal` |
| `C_restart` | overlay, `auto_reenable` off with threshold 1 and on with threshold 2, no request overlaps a tick, a crash between any two steps, creation fails, fair | `EnabledIsWatched`, `DisabledIsDirect`, `RuntimeDurable`, `HealthConverges`, `OutageIsNoticed`, `RecoveryIsTried` |
| `RO_calls` | two interfaces, one gateway, residue of a crash and of two earlier versions, a default route and a tunnel of the user, clean-ups by gateway and by 0.0.0.0, creations, deletions and queries that fail, rows that vanish, the process dying between two calls | `CallsKeepContract`, `NoResidue`, `HandleKnowsAll` |
| `AR_cycle` | eight kinds of adapter, eight targets, fallbacks, a failing re-enable, edits by hand, lease renewals, the cable in and out | `RestoredCompletely`, `UndoIsPossible`, `BypassLeavesAdapter` |
| `SS_alone` | one writer, two values of different length, I/O errors, crashes, power failures | `FileIsWhole`, `IsAtomicFile` |
| `IPC_serve` | the UI and a subscriber, pipe instances that fail at will, a stop or a death, fair | `IpcTypeOK`, `AnswersMatch`, `RequestsEnd`, `LatestEventArrives`, `StopIsHeeded` |
| `UI_sync` | two adapters, the configured one missing at first, one task beside the poll, two clicks, one outage or fallback of the core or change of the adapters, fair | `TypeOK`, `SavingIsShown`, `CopyIsCores`, `PageShowsCore`, `StatusConverges`, `RestartRepairs` |
| `C_disable_undone` | overlay with `auto_reenable`, interleaved | finds `DisableIsFinal` violated |
| `HM_second_fallback` | adapter mode with `auto_reenable` | finds `FallbackIsDirect` violated |
| `UI_loss` | no clicks, the core dies once, fair | finds `LossIsShown` violated |

What they show:

* *Fallback is earned and kept.* Under every interleaving with a retirement and
  every failure of a strategy, a loop falls back after exactly `threshold`
  unanswered probes in a row and re-enables only if `auto_reenable` says so
  (`FallbackEarned`, `KeepsContract`). Between ticks loop, runtime state, handle
  and file tell one story (`LoopAgreesWithRuntime`, `SavedAgreesWithRuntime`).
* *Loops.* With one connection at most one loop passes the generation test, and
  none escapes cancellation, whatever fails and wherever the process dies
  (`OneCurrentLoop`, `NoOrphanLoop`). A retired loop ends, wherever in a tick it
  was caught (`RetiredLoopExits`), and one that has fallen back tries again when
  it is told to (`RecoveryIsTried`).
* *Bypass on, bypass off.* As long as requests and ticks take turns, an enabled
  bypass is watched with the configuration in force and a disabled one is gone
  from the machine; that also holds over a crash, for one overlay target, and
  the health shown settles on what the network does for good.
* *Routes.* Whatever way its system calls go, and whatever an earlier version or
  a crash left, a call of the overlay strategy does one of the things `SwitchEngine`
  says (`CallsKeepContract`). An `enable` that fails leaves no half behind
  (`NoResidue`), and wherever the best route has moved between two of them, the
  handle kept knows every route there is of the tool (`HandleKnowsAll`).
* *Files and adapters.* One writer of a file is an atomic file. An adapter the
  snapshot can describe comes back as it was after any number of cycles, by a
  `disable` or a fallback, and the snapshot could undo every state in between,
  down to single netsh commands (`RestoredCompletely`, `UndoIsPossible`). Any
  other adapter at least leaves the bypass (`BypassLeavesAdapter`). All three hold
  until the loop re-enables a bypass that has fallen back, which takes no
  backup: that is `HM_second_fallback`.
* *The pipe.* Although neither end compares ids, the line the UI reads is the
  answer to its request (`AnswersMatch`); a request ends, by its answer or by the
  loss of the connection; a subscriber that lags loses events but not the last
  one; and a stop is heeded, unless from some moment on no pipe instance can be
  created (`StopIsHeeded` has that as its premise).
* *The window.* The save button is busy exactly while a save is. The status shown
  settles on the core's, and a restart of the core sets the UI's copy of the
  configuration and its page right. Without one of the five mishaps below, copy
  and page are the core's whenever nothing is under way: the mode, and the adapter
  where the UI's list has it, or else none, but never another.

The three violation runs show disagreements between code and documentation:

* `C_disable_undone`: `reenable` tests the generation
  (`core-lib/src/health_monitor.rs:306`) and then awaits the strategy. A
  `disable` that runs in between is undone: routes, handle and `is_enabled` come
  back, with no loop left to watch them. `src/README.md:282` and
  `controller.rs:457` say the generation counter prevents this.
* `HM_second_fallback`: fallback consumes the snapshot, the automatic re-enable
  takes no new one, so the second fallback leaves the adapter on the dead
  gateway. `core-win/src/adapter_reconfig.rs:3-5` promises the restore for the
  automatic fallback.
* `UI_loss`: the window takes the service for running as long as it holds a client
  (`ui-bin/src/main.rs:1063`), dead or alive. Once the core has gone, each poll
  fails to reconnect and returns (`main.rs:1096`) before anything clears the
  client, so the warning never comes. `main.rs:1058-1060` says the indicator
  follows the connection and that a disconnection sets `service-lost`.

## Where the properties stop holding

A passing run stays inside the conditions under which its property holds. The
conditions are not conveniences of the model: leave one, by the change of
constants named here, and TLC shows what the code does.

| cfg | change | then fails | why |
|---|---|---|---|
| `HM_tick` | `ReplaysSpaced` for configurations with `auto_reenable` too | `ReplaysSpaced` | re-enable after recovery ignores the cooldown (`health_monitor.rs:151`) |
| `C_restart` | `Faults` with `"vanish"` | `DisabledIsDirect`, `EnabledIsWatched` | the main half already gone, `RouteOverlay` returns before it deletes the other (`route_overlay.rs:370`) |
| `C_restart` | `Faults` with `"delete"` | `DisabledIsDirect`, `EnabledIsWatched` | the strategy's `disable` fails; fallback only logs it (`health_monitor.rs:227`), a request gives the handle away first (`controller.rs:376`) |
| `C_serial` | `Interleaved = TRUE` | `DisabledIsIdle` | a tick in flight writes its health over the Idle of `disable` (`health_monitor.rs:326`) |
| `C_restart` | `Interleaved = TRUE` | `RuntimeDurable`, `DisabledIsDirect` | the loop saves a copy after it released the lock (`health_monitor.rs:240`); the first is also what `C_disable_undone` shows |
| `C_restart` | `Interleaved = TRUE`, `OneOverlay`, `MaxGen = 3`, `MaxCrashes = 0` | `HealthConverges` | `C_disable_undone` again, seen by the user |
| `C_interleaved` | `Clients = {c1, c2}`, no symmetry | `NoOrphanLoop`, `OneCurrentLoop`, `ConfigDurable` | two `start_health_monitor` at once: one sender replaces the other (`controller.rs:451`); two `update_config` at once: file and memory are written in different orders (`:117`) |
| `C_serial` | `MaxCrashes = 1` | `SnapshotIsOriginal` | crash after netsh, before `mark_enabled`: the snapshot is dropped at start-up, the next backup is of the bypass (`controller.rs:307`, `:348`) |
| `C_restart` | `Configs <- OneReconfig` | `DisabledIsDirect` | the same crash leaves the adapter on the bypass |
| `C_restart` | `TwoOverlays`, two gateways | `DisabledIsDirect` | crash after the new gateway was saved: the start-up looks only for its routes (`controller.rs:118`) |
| `C_restart` | `Links` with `"unplugged"` | `DisabledIsDirect` | no handle is made for routes on an interface that is down (`controller.rs:203`) |
| `C_restart` | `Faults` with `"save"` | `EnabledIsWatched` | `mark_enabled` fails after the bypass is up; no monitor is started (`controller.rs:364`) |
| `C_serial` | `Links` with `"unplugged"`, or `Faults = {"create"}` | `WatchedAsConfigured` | a mode change whose `enable` fails stays marked enabled and watched for the old mode (`controller.rs:145`) |
| `C_serial` | `Faults = {"netsh"}` | `DisabledIsDirect`, `EnabledIsWatched` | the second netsh command of `enable` fails and the snapshot goes (`controller.rs:356`); a `disable` that fails has given the handle away (`:379`) |
| `C_serial` | `Faults = {"save"}` | `EnabledIsWatched` | as for `C_restart`, in both modes |
| `SS_alone` | two writers, four inodes | `FileIsWhole` | every writer uses the same temporary name (`state_store.rs:139`) |
| `AR_cycle` | `Backed` without `Restorable(original)` | `RestoredCompletely` | of the adapters in `AllKinds`, three servers come back with the further ones all inserted at index 2 (`netsh.rs:154`), one without a gateway with DHCP, a DHCP one without its own servers, two addresses as the first only (`adapter_reconfig.rs:66-79`) |
| `AR_cycle` | `Backed`, `BypassLeavesAdapter` without `~unbacked` | all three | a fallback uses the snapshot up and the re-enable takes none (`health_monitor.rs:310`), so the next fallback or `disable` leaves the adapter on the bypass (`adapter_reconfig.rs:227`) |
| `AR_cycle` | `Failing` with `"enable"`, `"disable"` or `"fallback"` | `RestoredCompletely`, `UndoIsPossible` | a failed `enable` drops the snapshot after half its commands; after half a restore the handle is gone, and the next `enable` overwrites the snapshot |
| `RO_calls` | `Tables <- SwappedTables` | `CallsKeepContract` | halves version 0.1.7 left with a lifetime are taken for the overlay (`route_overlay.rs:144`, `:294`), though they forward elsewhere |
| `RO_calls` | `HandleKnowsAll` without `neat` | `HandleKnowsAll` | a handle adopted at the start names one interface, whatever rows there are on another (`route_overlay.rs:139`); a row whose deletion failed stays on the old interface (`route_overlay.rs:181`) |
| `IPC_serve` | `StopIsHeeded` without its premise | `StopIsHeeded` | a `serve` that cannot create an instance sleeps and tries again without looking at the signal (`ipc_server.rs:42-54`) |
| `IPC_serve` | `Split = {ui, watcher}` | `RequestsEnd` | an event drops the first half of a request that arrives in two (`ipc_server.rs:90`), and nobody answers the rest |
| `UI_sync` | `Tolerated = {"draft"}` | `CopyIsCores`, `PageShowsCore` | a toggle sends the form as it stands, unsaved edits included; a disable stores that form as its copy though it sent none (`main.rs:762`), an enable leaves the mode card on the old mode |
| `UI_sync` | `Tolerated = {"late"}` | `CopyIsCores`, `PageShowsCore` | a request that took effect and then failed, such as a save whose re-enable fails, leaves the old copy (`main.rs:863`) |
| `UI_sync` | `Tolerated = {"refused"}` | `CopyIsCores`, `PageShowsCore` | the choice of an adapter is stored before the core is asked and stays when it refuses (`main.rs:663`) |
| `UI_sync` | `Tolerated = {"overlap"}` | `CopyIsCores`, `PageShowsCore` | a click while another task, the start-up or a reconnecting poll is between reading a configuration and storing it (`main.rs:738`, `:1103`, `:301`) |
| `UI_sync` | `Tolerated = {"unlisted"}` | `PageShowsCore` | a start-up whose `list_adapters` failed shows no adapter on the home page (`main.rs:638`), over the list that a poll has fetched meanwhile |

Of the five mishaps the first three need one click, `overlap` needs two tasks and
`unlisted` no user at all. None of the first four is repaired before the core
restarts (`RestartRepairs`), the toggle succeeds or the user saves again, since the
poll fetches the configuration only when it reconnects; the last goes with the next
list that is shown.

Three more are outside these properties. *A clean-up* takes for the tool's
whatever its own rule matches: a /0 or /1 route entered by hand or by a program
whose next hop is the bypass gateway (`route_overlay.rs:284-301`). On a first
start, with the default gateway 0.0.0.0, that is every on-link row of the kind,
such as the halves of a tunnel (`controller.rs:293`). `RouteOverlay` has these
rows and this call, and `RO_calls` a tunnel's half; that they survive is nowhere
promised and not so. *Restore* is refused always: `AppConfig::default()` has the
gateway 0.0.0.0 (`ipc-protocol/src/lib.rs:168`), which `validate_config` rejects
(`controller.rs:81`), so `RestoreSends` never takes its branch for success. And
a configuration changed *during* a fallback does not reach the loop, since
`update_config` sees neither a handle nor `is_enabled` (`controller.rs:124`);
the loop later re-enables by the old target and the old switch.

## Fairness

`FairSpec` of `Controller` assumes weak fairness of each loop's steps, each
client's steps and the start-up. `FairSpec` of `Ui` assumes it of the tasks, the
poll and the label's timer, `HMFairSpec` of `HealthMonitor` of each loop's steps
and of the signal that follows a new generation. That is tokio's promise: a task
that can run is polled eventually, a ping and a netsh call time out or return, a
timer fires.

`FairSpec` of `Ipc` assumes the same of the accept loop, the forwarding of the
stop, each connection's task and each client's reads. There is one strong
fairness, of `HeedStop`: `serve` waits in a `select!` for a client or the stop, and
tokio takes one of the ready branches at random, so a stop that is ready again
and again is not passed over for ever. With weak fairness a client that connects
whenever the loop listens would hold it off. Nothing is assumed of the creation of
pipe instances and of connections: they may fail any number of times, and
`StopIsHeeded` says itself what it needs of them, that the loop gets to listen
again and again.

Nothing is assumed of the network, the user or the machine: `LinkChanges`,
`RoutesVanish`, `TimePasses`, `Send`, `Crash`, a click, a request of a client, an
event, a stop, the core's death and its start may never happen. So the liveness
properties are conditional on the network settling (`<>[](link = "reachable"
...)`) and on requests ending. `HealthConverges` needs in addition what all of
`C_restart` has: requests that fall into no tick. `C_restart` lets the creation of
routes fail at will, which its properties survive: a loop that cannot install the
bypass falls back all the same, and `RecoveryIsTried` asks for the attempt and not
for its success, for the code promises nothing else. In `Ui` a core that is up
accepts connections and answers `get_status`; without that no poll could show
anything. `RequestsEnd` of `Ipc` is what that rests on.

## What is proved

Eight modules hold theorems. None fixes a bound: they hold for every set of
adapters, gateways, configurations, leases, loops, clients, tasks, interfaces,
route tables, values or inodes, every threshold, capacity and limit, and every set
of faults. They rest on the named assumptions of the modules they extend (types of
the constants; `Direct` is no gateway; `None` and `Nothing` are nothing else; a
file's text is not empty), which TLC evaluates in every run that extends them, and
on the premises named here. Every invariant that a passing run checks is one of
them, except `BypassLeavesAdapter`.

| module | theorem | states | premise |
|---|---|---|---|
| `HealthMonitorProofs` | `InvHolds` | `HMSpec => []HMInv` | |
| | `TypesHold` | `HMSpec => []HMTypeOK` | |
| | `FallbackIsEarned` | `HMSpec => []FallbackEarned` | |
| | `LoopAndRuntimeAgree` | `HMSpec => []LoopAgreesWithRuntime` | |
| | `ContractKept` | `HMSpec => KeepsContract`, the refinement of `HealthContract` | |
| | `ReplaysAreSpaced` | `HMSpec => ReplaysSpaced` | |
| | `RuntimeReachesFile` | `HMSpec => []SavedAgreesWithRuntime` | saving never fails |
| `ControllerProofs` | `RequestsAreConfigured` | `Spec => []TypeInv` | |
| | `ServiceTypesHold` | `Spec => []TypeOK` | |
| | `LoopsHold` | `Spec => []LoopsSound` | one connection |
| | `OneLoopIsCurrent` | `Spec => []OneCurrentLoop` | one connection |
| | `NoLoopIsOrphaned` | `Spec => []NoOrphanLoop` | one connection |
| | `ConfigIsDurable` | `Spec => []ConfigDurable` | one connection |
| `ControllerSerialProofs` | `TicksKeepApart` | `Spec => []ServiceInv` | serial |
| | `DisabledShowsIdle` | `Spec => []DisabledIsIdle` | serial |
| | `RuntimeStaysDurable` | `Spec => []RuntimeDurable` | serial, saving never fails |
| | `EnabledStaysWatched` | `Spec => []EnabledIsWatched` | serial, untroubled |
| | `RestartCleansUp` | `Spec => []DisabledIsDirect` | serial, untroubled, one bypass, links up |
| | `MachineIsExact` | `Spec => [](ServiceInv /\ ExactInv)` | serial, ideal |
| | `DisableCleansUp` | `Spec => []DisabledIsDirect` | serial, ideal |
| | `WatcherFollowsConfiguration` | `Spec => []WatchedAsConfigured` | serial, ideal |
| | `SnapshotStaysOriginal` | `Spec => []SnapshotIsOriginal` | serial, ideal |
| `RouteOverlayProofs` | `ROInvHolds` | `Spec => []ROInv` | |
| | `NoResidueStays` | `Spec => []NoResidue` | |
| | `HandleStaysComplete` | `Spec => []HandleKnowsAll` | |
| | `CallsKeepTheContract` | `Spec => []CallsKeepContract` | one row per key; rows to a bypass gateway are the tool's, those of version 0.1.7 without a lifetime |
| `AdapterReconfigProofs` | `AdapterInvHolds` | `ARSpec => []ARInv` | shaped adapters |
| | `AdapterComesBack` | `ARSpec => []RestoredCompletely` | shaped adapters |
| | `AdapterCanComeBack` | `ARSpec => []UndoIsPossible` | shaped adapters |
| `StateStoreProofs` | `StoreInvHolds` | `SSSpec => []SSInv` | one writer |
| | `FileStaysWhole` | `SSSpec => []FileIsWhole` | one writer |
| | `StoreIsAtomic` | `SSSpec => IsAtomicFile`, the refinement of `AtomicFile` | one writer |
| `IpcProofs` | `ExchangesHold` | `Spec => []IpcInv` | |
| | `AnswersAreTheRequests` | `Spec => []AnswersMatch` | |
| | `PipesStayBounded` | `Spec => []IpcTypeOK` | |
| `UiProofs` | `UiTyped` | `Spec => []TypeOK` | |
| | `SavingAlwaysShown` | `Spec => []SavingIsShown` | |
| | `InFlightAgrees` | `Spec => []SyncInv` | no mishap tolerated |
| | `CopyAlwaysCores` | `Spec => []CopyIsCores` | no mishap tolerated |
| | `PageAlwaysCores` | `Spec => []PageShowsCore` | no mishap tolerated |

The premises that have a name:

* *serial* (`Serial`): one connection, and requests and ticks take turns.
* *untroubled* (`Untroubled`): of the faults at most creations of routes that fail,
  and those only where no link is unplugged. Crashes are not excluded.
* *ideal* (`Ideal`): nothing fails, no link is unplugged, the process lives, and no
  configuration has `auto_reenable`.
* *one bypass* (`OneBypass`): every configuration is an overlay to one gateway.
* *shaped adapters* (`AdaptersShaped`): the adapters are records of the fields an
  adapter has, the first address of a static one, if any, an address and a prefix,
  and only a re-enable fails half way. Which adapters are promised anything, and
  until when, the properties say themselves (`Backed`): those a snapshot can
  describe, while no bypass has been re-enabled without one.
* *no mishap tolerated*: `Tolerated = {}`.

They are the constants of the runs that check the same properties: `C_serial` is
serial and ideal, `C_restart` serial, untroubled and one bypass, `AR_cycle` has
shaped adapters (TLC evaluates `Restorable` on four of them, and its negation on
the four that the table above is about), `UI_sync` tolerates no mishap. And they
are not ornaments: [above](#where-the-properties-stop-holding) TLC shows the
conclusions fail without them. One part of *ideal* is not in that table. With
`auto_reenable` a loop that has fallen back keeps the configuration it had when
another one comes into force, and re-enables by it, which `WatchedAsConfigured`
forbids; and an adapter it has changed again has no snapshot, so that a `disable`
leaves it as it is.

*Health monitor.* The properties speak of a few places of a tick
(`FallbackEarned` of the fallback steps, `LoopAgreesWithRuntime` of `wait`), and
a step from anywhere else could break them. `HMInv` says what holds at *every*
place, in four parts: types; `OneLoop` (`HMSpec` has one live loop, of generation
1); `CountingSound` (the loop's counter never runs ahead of the probes really
lost, and a rebuild has none lost) and `PlaceSound` (which of Healthy, Degraded,
Fallback goes with which place); and `AgreementSound` (loop and runtime state
agree except in the few steps that bring them together again, such as
`fbclear`, `fbmark`, `revive`). A loop that has been retired is bound only up to
its next generation test, which is what makes the invariant hold under
interleaving and is exactly where the code protects itself. For the
refinement, a step of the watched loop is the abstract step named by its place
(`fbmark` is `Drop`, `revive` of a dropped bypass is `TakeUp`, a ping is `Answered`
or `Unanswered`, `Exit` is `ContractRetire`), every other step stutters. For the
spacing of replays `SpacingInv` has the time since the last one and what is left
of the cooldown, which together are never less than `Cooldown`; a rebuild of an
adapter is decided on only when nothing is left.

*Controller.* `TypeInv` adds to the types that a request works on a configuration
at every place where the code reads one, and that nothing is enabled, live or
saved as enabled before something was configured. `LoopsSound` relates three
things while `stop_health_monitor` and `start_health_monitor` are half done: the
counter, the loop whose sender `health_cancel` holds, and what the request has
seen. After the increment every live loop is stale; after the send none is left
that can only be stopped by a signal; the loop that is spawned has a generation
no other one has. `ConfigSound` is the file and the memory in the middle of
`update_config`: the file is ahead, never behind.

*The service at rest.* `SerialInv` turns the guards that make requests and ticks
take turns into facts: only the current loop is ever inside a tick, no request
finds one there, and a loop that was told to stop is stale. So a step of a loop or
of a request can be looked at alone, and each property gets an invariant that
says what holds *inside* either. `IdleSound`: a bypass that is off shows `Idle` as
soon as no loop is current, but for the three steps of a `disable`; a handle means
that the bypass is marked enabled, or about to be. `DurableInv`: the file is behind
the memory only in the tick that is about to write it. `WatchSound`: an enabled
bypass has its loop but where a request is about to retire or to spawn one; a
`disable` finds the routes of the handle it takes, so it gets as far as its mark,
which is where a fault would strand it. `ExactInv`: routes, adapters and snapshot
are at every step the function `Holding` of the handle, with the differences of
the few places at which a handle has gone and its effects have not, or the other
way round; from it the three properties of `C_serial` follow at once.
`RoutesSound` is what of this survives crashes and failing creations for one
overlay: after a crash the handle is gone and the routes are not, but the start-up
adopts or removes those to the one gateway there is.

*Adapter strategy.* A restore is at most three commands, and `LeftToRestore` says
for each rest of them what the adapter is already: after the address it has the
addresses and gateways of old, after the first server that one. `RestoreStep` is
one command of it, on any adapter. `SnapshotSound` has the two cases there are: at
rest with the bypass off or given up the adapter is the user's own, and a backup of
it is as good as the first one, leases apart; else the snapshot is such a backup.
All of it is under `Backed`, which no step but an unbacked re-enable ends: from
there on there is no snapshot, and nothing is claimed. Hence a
`disable` or a fallback that ends leaves the user's own (`AdapterComesBack`), and
from any state between two commands, by the same steps, the restore would
(`AdapterCanComeBack`).
`After`, which runs a list of commands, is a recursive function; the lists are
short, so it is unfolded by hand.

*Route overlay.* `ROInv` says what the table holds at each place of a call: during
a sweep, no route of the tool's but those still to be deleted; while adding, none
but the halves already added; and that a sweep that takes back is that of a failed
`enable`. While an `enable` adds, the rows to its gateway are on the one interface
it resolved, or a deletion has failed; at the return they are those of the new
handle, and in between calls nothing adds any (`HandleStaysComplete`).
`ContractInv` follows the halves that forward through the gateway, compared with
those the call found: an `enable` adds at most the main half before it is sure of
both, a `disable` of a handle that covers all routes loses one half and then the
other, a `cleanup` only loses some; a row that stays or cannot be added has a
fault that explains it. That needs the rows, not only the halves: a deletion
succeeds or fails by key, so keys must be unique, and a row of the old byte order
must not forward. At the return the halves left are those of one of
`SwitchEngine`'s outcomes, and the rest of the table is as the call found it.

*State store.* `SSInv` follows the one writer: the temporary inode is never one
that a reader or the journal knows, holds the value from `sync` on, and is on the
disk from `rename` on. The refinement maps `rename`, the removal, and an `exists`
that finds nothing to `TakeEffect`; what precedes them stutters.

*IPC.* `IpcInv` gives the whole state of a connection that does not subscribe,
at each place a request passes: half written, written, in hand, answered, or cut
by a death of the service. Ids carry none of the proof, as they carry none in the
code. `PipeInv` adds, of every connection, that what is written fits the pipe and
that no receiver is ahead of the channel, which starts again from nothing when the
process does: a process that is down serves nobody. Taking a line off a pipe takes
the first newline, the least of a set of naturals.

*Window.* `TypeInv` says what each place of a task has made certain, `SaveInv` that
a save in flight is alone. `SyncInv` is what everything in flight agrees with while
no mishap has happened: a toggle sends the configuration that the copy holds, since
a draft would be a mishap; what replaces the configuration is alone; what the
start-up or the poll is about to store is the core's; a live client means that
the copy is the core's, but for a poll that has connected and not stored yet; and
the adapter shown is the one that the copy's id finds in the list of the moment,
which is replaced together with what it shows. A death of the core breaks none of
these, for the configuration survives in its file.

*Layout.* Lemmas about operators come first, then one lemma per group of actions
with a step per action, then the theorems. TLC checks `HMInv` in `HM_tick`, and
the properties of the table in the runs above.

*Model-checked only.* The liveness properties (`HealthConverges`,
`OutageIsNoticed`, `RecoveryIsTried`, `RetiredLoopExits`, `RequestsEnd`,
`LatestEventArrives`, `StopIsHeeded`, `StatusConverges`, `RestartRepairs`) are
beyond the prover: they rest on fairness and so on `ENABLED`.
`BypassLeavesAdapter` is not proved yet. The three violations are counterexamples,
which need no proof.

## Abstractions and bounds

* A strategy call is one atomic step in `HealthMonitor` and `Controller`. The
  monitor holds the handle's lock over `disable` and `is_active`; two calls that
  really overlap would touch the same routes or adapter through Windows, one
  after the other. `AdapterReconfig` and `RouteOverlay` take the calls apart, one at
  a time; `CallsKeepContract`, which is proved, ties the second to the one step.
* `Config` keeps mode, adapter, gateway, `auto_reenable` and the threshold. A
  configuration `validate_config` refuses changes nothing and is no step. The
  probe interval is `TimePasses`, which happens between ticks only: one step of
  time is long against a tick. `Cooldown = 2` steps tells "inside" from
  "outside"; the `Controller` runs use 0, since none of their properties is
  about time.
* In `SwitchEngine` routes are a half and a gateway, and `OverlayInPlace` needs the
  link to be up, as `existing_handle_for` needs the interface. Interfaces,
  lifetimes and byte order are in `RouteOverlay`; metrics are not, for no branch
  reads one. There `CallsKeepContract` speaks of overlays on one interface
  (`Covers`, `OnlyOn`): when residue on another interface could not be read or
  deleted, `SwitchEngine`, which knows no interfaces, sees more of it than a
  `disable` on one interface removes.
* `RO_calls`: two interfaces let the best route move between two calls, and leave
  rows on one that a handle of the other does not name; one gateway, for a call
  works with one. The tables found are those with nothing of the tool's, one half
  (a crash), both halves without a lifetime (early versions) and swapped ones
  (0.1.7).
* `InspectChange` reads handle and runtime state in one step: the code holds the
  handle's lock while it reads the runtime state. `SendCancel` also loads the
  generation for the new loop; nothing of the loop exists yet that could tell
  the two apart.
* `Interleaved = FALSE` means a request is sent only when no loop is in a tick and
  no other request is running, and no tick starts during one.
* `Loops` are slots; two are enough for a retired loop still in a tick beside its
  successor (`SpawnLoop` waits for a free slot, so a third loop overlapping both
  is not explored). `MaxGen` bounds the requests that start or stop a monitor:
  6 and 5 in the serial runs (enable, change, disable and round again), 2 in
  `C_interleaved` (a start and a stop, or a restart of the monitor, around one
  tick), whose properties are proved without the bound. A disabled service with
  no request left and no loop rests there, hence its `CHECK_DEADLOCK FALSE`.
  `MaxCrashes = 1`: a crash during a recovery is a second crash and is not
  explored by TLC.
* `StateStore`: a power failure keeps what was synced, any prefix or nothing of
  what was not, and the name the journal last wrote. On Windows the directory is
  not synced, so a rename may be lost: `AtomicFile` allows falling back to the
  value before. Three inodes are all that one writer can have in use.
* `AR_cycle`: four adapters the snapshot can describe (DHCP; static with no, one and
  two DNS servers, /24 and /16) and four it cannot (three servers; no gateway; DHCP
  with servers of its own; two addresses), two leases, eight targets (own or
  configured address, prefix and DNS servers). Only a re-enable fails half way; the
  table above has the others.
* `IPC_serve`: a pipe that holds one line and a channel that keeps one event are
  full, and lag, at once; two events make a lag that can be missed, two requests a
  stale answer that could be taken for the next. Creations and connections of an
  instance fail without a bound. One start: a second one finds the same state but
  for clients that have not noticed yet (`Cut`), which the proof covers. After its
  one start the service may rest, hence `CHECK_DEADLOCK FALSE`. That a client
  answers to no timeout is the code's: `send_request` has none.
* `Ui`: a configuration keeps its mode, its adapter and whether a gateway is
  given: every other field of the form takes the gateway's way. A critical section
  is one step, since every other task waits for its lock; a closure runs with the
  section that posted it, for the event loop runs them in order and no section
  reads the window. One poll runs at a time: a poll that waits a second for the
  lock could be followed by another, which would queue behind it. The core has
  been configured once (`Stored`), so the form always validates. `MaxTasks = 1` is
  one task of the user beside start-up and poll, and every overlap with two tasks
  is a mishap already. `MaxClicks = 2` lets a label outlive its save into the next
  one, and a draft be chosen before the toggle; `MaxTurns = 1` is one death or one
  fallback of the core, with the restart or recovery after it, or one change of
  the adapters. These are first without the configured one (`AtFirst`) and then,
  or not, all there, in an order in which it comes first (`Lists`), so that an
  index of the old list names another adapter in the new one. `Lists` also has the
  empty one, which `list_adapters` may answer.
* Elsewhere the machine may keep changing links for ever, so TLC's deadlock check
  says little; the liveness properties take its place.

## Not modelled

* *Of the UI*: notifications, the tray icon and the clipboard are output to the
  Windows shell that nothing reads back; the log page shows a file. Autostart
  keeps a registry value and a settings file, which the start-up makes agree; no
  other component reads either. Single instance is a mutex and an event: a second
  start in the moment between their creations (`single_instance.rs:52`) finds the
  one without the other and ends without showing the window, which costs a click.
  The formatting of the pages is not modelled, so `main.rs:268`, where the mask
  shown for a prefix shorter than 24 is computed by a subtraction that underflows,
  is listed as a hazard without a property; what is shown there goes nowhere.
* *Of the protocol*: the serialization of the JSON lines (`serde`), of which a line
  that does not parse is kept; the security descriptor of the pipe, which is
  configuration.
* *Of the core process*: the installation of the service and the states it reports
  to the service control manager; the one-time migration of the old data
  directory and the pruning of logs, which run once before anything else does.
* *Windows access* (`adapters.rs`, `dhcp.rs`, `icmp.rs`, `inspector.rs`): stateless
  wrappers whose answers are inputs of the models.
* *Build, installer and scripts* are not part of the running system.

`PROJECT.json` gives the status of each component.

## Plan

The order of the work so far was: health monitor, controller, store and adapter
strategy, their first proofs, the window; then the route overlay call by call and
the pipe; then the proofs about all of them, until every action property and every
invariant but one that a passing run checks was a theorem; then the fallback and
the re-enable in the adapter strategy, the list of adapters in the window, and
failures of the pipe without a bound. What is left, most useful first:

1. `DisabledIsDirect` for several overlay gateways as long as the process lives,
   with creations that fail: between `RestartCleansUp` and `DisableCleansUp`.
2. `BypassLeavesAdapter` for any targets: that no restore sets a gateway of theirs.
3. `CallsKeepContract` for the adapter strategy: that `AdapterReconfig`, command by
   command, does one of the things `SwitchEngine` says.
4. **Ui**, extended: the tray and the notification of a fallback, polls that
   overlap behind the lock, the first run without a configuration.
5. Pure helpers: masks and prefixes of `netsh.rs` and the UI, subnet tests.

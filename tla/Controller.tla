----------------------------- MODULE Controller -----------------------------
(***************************************************************************)
(* The core service: the controller's operations, called by IPC clients    *)
(* and at start-up, together with the health loops they start and stop.    *)
(* Every connection is a task of its own and no lock spans an operation,   *)
(* so each step below is what happens between two await points and any     *)
(* other task may run in between.                                          *)
(***************************************************************************)
EXTENDS HealthMonitor

CONSTANTS
    Clients,      \* IPC connections, each with one request at a time
    MaxGen,       \* bound: no request is sent once gen reached it
    MaxCrashes,   \* bound: how often the service process dies
    Interleaved   \* FALSE: no request overlaps a tick or another request

ASSUME ControllerAssumption ==
    /\ Clients # {}
    /\ None \notin Configs
    /\ MaxGen \in Nat
    /\ MaxCrashes \in Nat
    /\ Interleaved \in BOOLEAN

VARIABLES
    config,       \* Arc<RwLock<AppConfig>>; None is the invalid default
    savedConfig,  \* config.json
    cancel,       \* health_cancel: the loop its sender belongs to
    client,       \* where each connection's request is
    phase,        \* "boot" until reconcile_on_startup is over
    crashes

coreVars == <<config, savedConfig, cancel, client, phase, crashes>>
vars == <<hmVars, coreVars>>

configs == <<config, savedConfig>>
life == <<phase, crashes>>

UpdatePc == {"save", "swap", "inspect", "cleanup", "drop"}
EnablePc == {"read", "check", "backup", "install", "keep", "mark"}
DisablePc == {"halt", "cancel", "take", "restore", "unmark"}
MonitorPc == {"rehalt", "load", "spawn"}
ClientPc == {"idle"} \cup UpdatePc \cup EnablePc \cup DisablePc \cup MonitorPc

(* cfg and old are the locals of update_config and enable, held the handle *)
(* disable has taken, seen the generation start_health_monitor has loaded, *)
(* then what follows a disable.                                            *)
ClientState == [pc: ClientPc,
                cfg: Configs \cup {None}, old: Configs \cup {None},
                held: Handle, seen: Nat, then: {"reply", "backup"}]

Resting == [pc |-> "idle", cfg |-> None, old |-> None, held |-> None,
            seen |-> 0, then |-> "reply"]

On(c, p) == client[c].pc = p
Step(c, p) == client' = [client EXCEPT ![c].pc = p]
Answer(c) == client' = [client EXCEPT ![c] = Resting]     \* Ok and Err alike

Settled == /\ phase = "serve"
           /\ \A c \in Clients : On(c, "idle")
           /\ \A l \in Loops : ~MidTick(l)

-----------------------------------------------------------------------------
(* dispatch; an update that does not pass validate_config changes nothing. *)
Send(c) ==
    /\ phase = "serve" /\ On(c, "idle") /\ gen < MaxGen
    /\ Interleaved \/ Settled
    /\ \/ client' = [client EXCEPT
             ![c] = [Resting EXCEPT !.pc = "read"]]
       \/ client' = [client EXCEPT
             ![c] = [Resting EXCEPT !.pc = "halt"]]
       \/ \E new \in Configs :
             client' = [client EXCEPT
                ![c] = [Resting EXCEPT !.pc = "save",
                                                    !.cfg = new]]
    /\ Quiet /\ UNCHANGED <<gen, loop, shared, link, configs, cancel, life>>

(* Mutant: a configuration that could not be saved is used all the same.   *)
SaveConfigUnsafe(c) ==
    /\ On(c, "save")
    /\ \/ savedConfig' = client[c].cfg
       \/ UNCHANGED savedConfig
    /\ Step(c, "swap")
    /\ Quiet /\ UNCHANGED <<gen, loop, shared, link, config, cancel, life>>

(* update_config                                                           *)
SaveConfig(c) ==
    /\ On(c, "save")
    /\ \/ savedConfig' = client[c].cfg /\ Step(c, "swap")
       \/ "save" \in Faults /\ UNCHANGED savedConfig /\ Answer(c)
    /\ Quiet /\ UNCHANGED <<gen, loop, shared, link, config, cancel, life>>

SwapConfig(c) ==
    /\ On(c, "swap")
    /\ config' = client[c].cfg
    /\ client' = [client EXCEPT ![c].pc = "inspect", ![c].old = config]
    /\ Quiet /\ UNCHANGED <<gen, loop, shared, link, savedConfig, cancel, life>>

Enabled == handle # None \/ runtime.enabled
SamePlace(old, new) ==
    old # None /\ old.mode = new.mode /\ old.adapter = new.adapter
SameTarget(old, new) == old # None /\ TargetOf(old) = TargetOf(new)

(* Mutant: a new configuration waits for the next enable.                  *)
InspectNothing(c) ==
    /\ On(c, "inspect")
    /\ Answer(c)
    /\ Quiet /\ UNCHANGED <<gen, loop, shared, link, configs, cancel, life>>

InspectChange(c) ==
    /\ On(c, "inspect")
    /\ LET old == client[c].old
           new == client[c].cfg
       IN \/ ~Enabled /\ Answer(c)
          \/ Enabled /\ ~SamePlace(old, new) /\ Step(c, "cleanup")
          \/ /\ Enabled /\ SamePlace(old, new) /\ ~SameTarget(old, new)
             /\ Step(c, "read")
          \/ Enabled /\ SameTarget(old, new) /\ Step(c, "rehalt")
    /\ Quiet /\ UNCHANGED <<gen, loop, shared, link, configs, cancel, life>>

(* Mutant: the previous mode is left in place.                             *)
CleanupNothing(c) ==
    /\ On(c, "cleanup")
    /\ Step(c, "drop")
    /\ Quiet /\ UNCHANGED <<gen, loop, shared, link, configs, cancel, life>>

(* cleanup_previous_mode: failures are only logged.                        *)
CleanupPreviousMode(c) ==
    /\ On(c, "cleanup")
    /\ LET old == client[c].old IN
       \/ old = None /\ UNCHANGED machine
       \/ /\ old # None /\ old.mode = Overlay
          /\ machine' \in Cleanup(machine, old.gw)
       \/ /\ old # None /\ old.mode = Reconfig
          /\ \E o \in ReconfigDisable(machine) : machine' = o.m
    /\ Step(c, "drop")
    /\ Quiet
    /\ UNCHANGED <<gen, loop, handle, runtime, saved, link, configs, cancel, life>>

DropHandle(c) ==
    /\ On(c, "drop")
    /\ handle' = None
    /\ Step(c, "read")
    /\ Quiet
    /\ UNCHANGED <<gen, loop, runtime, saved, machine, link, configs, cancel, life>>

-----------------------------------------------------------------------------
(* enable                                                                  *)
ReadConfig(c) ==
    /\ On(c, "read")
    /\ \/ config = None /\ Answer(c)
       \/ /\ config # None
          /\ client' = [client EXCEPT ![c].pc = "check", ![c].cfg = config]
    /\ Quiet /\ UNCHANGED <<gen, loop, shared, link, configs, cancel, life>>

(* Mutant: enable does not disable first.                                  *)
CheckNoHandle(c) ==
    /\ On(c, "check")
    /\ client' = [client EXCEPT ![c].pc = "backup", ![c].then = "backup"]
    /\ Quiet /\ UNCHANGED <<gen, loop, shared, link, configs, cancel, life>>

CheckHandle(c) ==
    /\ On(c, "check")
    /\ client' = [client EXCEPT
          ![c].pc = IF handle # None THEN "halt" ELSE "backup",
          ![c].then = "backup"]
    /\ Quiet /\ UNCHANGED <<gen, loop, shared, link, configs, cancel, life>>

(* backup_adapter and save_snapshot                                        *)
Backup(c) ==
    /\ On(c, "backup")
    /\ LET a == client[c].cfg.adapter IN
       \/ /\ client[c].cfg.mode = Overlay
          /\ Step(c, "install") /\ UNCHANGED machine
       \/ /\ client[c].cfg.mode = Reconfig
          /\ machine' = [machine EXCEPT
                !.snap = [adapter |-> a, conf |-> machine.conf[a]]]
          /\ Step(c, "install")
       \/ /\ client[c].cfg.mode = Reconfig
          /\ {"save", "query"} \cap Faults # {}
          /\ Answer(c) /\ UNCHANGED machine
    /\ Quiet
    /\ UNCHANGED <<gen, loop, handle, runtime, saved, link, configs, cancel, life>>

(* A failed enable of the adapter strategy removes the snapshot.           *)
Install(c) ==
    /\ On(c, "install")
    /\ \E o \in EnableOutcomes(machine, TargetOf(client[c].cfg), link) :
          \/ o.ok /\ machine' = o.m /\ Step(c, "keep")
          \/ /\ ~o.ok
             /\ machine' \in IF client[c].cfg.mode = Reconfig
                             THEN {[o.m EXCEPT !.snap = None]}
                                  \cup MayFail({"save"}, {o.m})
                             ELSE {o.m}
             /\ Answer(c)
    /\ Quiet
    /\ UNCHANGED <<gen, loop, handle, runtime, saved, link, configs, cancel, life>>

Keep(c) ==
    /\ On(c, "keep")
    /\ handle' = TargetOf(client[c].cfg)
    /\ Step(c, "mark")
    /\ Quiet
    /\ UNCHANGED <<gen, loop, runtime, saved, machine, link, configs, cancel, life>>

(* mark_enabled and mark_disabled keep the runtime state's write lock      *)
(* while they save; the change in memory stays when the file fails.        *)
MarkedEnabled(mode) == [runtime EXCEPT !.enabled = TRUE, !.mode = mode]
(* Mutant: the health shown stays what it was.                             *)
MarkedDisabledStale == [runtime EXCEPT !.enabled = FALSE, !.mode = None]
MarkedDisabled == [enabled |-> FALSE, mode |-> None, health |-> "Idle"]

(* Mutant: the runtime state is not written.                               *)
MarkInMemory(rs, ok) == ok /\ runtime' = rs /\ UNCHANGED saved

Mark(rs, ok) ==
    /\ ok \/ "save" \in Faults
    /\ runtime' = rs
    /\ saved' = IF ok THEN rs ELSE saved

MarkEnabled(c) ==
    /\ On(c, "mark")
    /\ \E ok \in BOOLEAN :
          /\ Mark(MarkedEnabled(client[c].cfg.mode), ok)
          /\ IF ok THEN Step(c, "rehalt") ELSE Answer(c)
    /\ Quiet
    /\ UNCHANGED <<gen, loop, handle, machine, link, configs, cancel, life>>

-----------------------------------------------------------------------------
(* disable                                                                 *)
(* Mutant: disable drops the handle it has taken.                          *)
TakeAndForget(c) ==
    /\ On(c, "take")
    /\ handle' = None
    /\ Step(c, "unmark")
    /\ Quiet
    /\ UNCHANGED <<gen, loop, runtime, saved, machine, link, configs, cancel, life>>

TakeHandle(c) ==
    /\ On(c, "take")
    /\ handle' = None
    /\ client' = [client EXCEPT
          ![c].pc = IF handle # None THEN "restore" ELSE "unmark",
          ![c].held = handle]
    /\ Quiet
    /\ UNCHANGED <<gen, loop, runtime, saved, machine, link, configs, cancel, life>>

Restore(c) ==
    /\ On(c, "restore")
    /\ LET h == client[c].held IN
       \E o \in DisableOutcomes(h.mode, machine, h) :
          /\ machine' = o.m
          /\ IF o.ok THEN Step(c, "unmark") ELSE Answer(c)
    /\ Quiet
    /\ UNCHANGED <<gen, loop, handle, runtime, saved, link, configs, cancel, life>>

MarkDisabled(c) ==
    /\ On(c, "unmark")
    /\ \E ok \in BOOLEAN :
          /\ Mark(MarkedDisabled, ok)
          /\ IF ~ok THEN Answer(c)
             ELSE IF client[c].then = "backup" THEN Step(c, "backup")
             ELSE Answer(c)
    /\ Quiet
    /\ UNCHANGED <<gen, loop, handle, machine, link, configs, cancel, life>>

-----------------------------------------------------------------------------
(* stop_health_monitor: first the generation, then the signal.             *)
NextPc(p) == CASE p = "halt" -> "cancel"
               [] p = "rehalt" -> "load"
               [] p = "cancel" -> "take"
               [] p = "load" -> "spawn"

(* Mutant: stop_health_monitor without its fetch_add.                      *)
KeepGeneration(c) ==
    /\ client[c].pc \in {"halt", "rehalt"}
    /\ Step(c, NextPc(client[c].pc))
    /\ Quiet /\ UNCHANGED <<gen, loop, shared, link, configs, cancel, life>>

BumpGeneration(c) ==
    /\ client[c].pc \in {"halt", "rehalt"}
    /\ gen' = gen + 1
    /\ Step(c, NextPc(client[c].pc))
    /\ Quiet /\ UNCHANGED <<loop, shared, link, configs, cancel, life>>

(* Mutant: the sender is dropped, nothing is sent.                         *)
NotSignalled == loop

Signalled ==
    IF cancel = None THEN loop ELSE [loop EXCEPT ![cancel].cancelled = TRUE]

(* Mutant: the new loop gets the generation from before the increment.     *)
SendCancelSeesOld(c) ==
    /\ client[c].pc \in {"cancel", "load"}
    /\ loop' = Signalled
    /\ cancel' = None
    /\ client' = [client EXCEPT ![c].pc = NextPc(client[c].pc),
                                ![c].seen = gen - 1]
    /\ Quiet /\ UNCHANGED <<gen, shared, link, configs, life>>

(* start_health_monitor goes on to load the generation for its loop.       *)
SendCancel(c) ==
    /\ client[c].pc \in {"cancel", "load"}
    /\ loop' = Signalled
    /\ cancel' = None
    /\ client' = [client EXCEPT ![c].pc = NextPc(client[c].pc),
                                ![c].seen = gen]
    /\ Quiet /\ UNCHANGED <<gen, shared, link, configs, life>>

(* The new sender replaces whatever health_cancel held by now; a sender    *)
(* replaced is dropped without a signal.                                   *)
SpawnLoop(c) ==
    /\ On(c, "spawn")
    /\ \E l \in Loops :
          /\ ~Live(l)
          /\ loop' = [loop EXCEPT ![l] = FreshLoop(client[c].seen,
                                                   client[c].cfg)]
          /\ cancel' = l
    /\ Answer(c)
    /\ Quiet /\ UNCHANGED <<gen, shared, link, configs, life>>

ClientStep(c) ==
    \/ SaveConfig(c) \/ SwapConfig(c) \/ InspectChange(c)
    \/ CleanupPreviousMode(c) \/ DropHandle(c)
    \/ ReadConfig(c) \/ CheckHandle(c) \/ Backup(c) \/ Install(c)
    \/ Keep(c) \/ MarkEnabled(c)
    \/ TakeHandle(c) \/ Restore(c) \/ MarkDisabled(c)
    \/ BumpGeneration(c) \/ SendCancel(c) \/ SpawnLoop(c)

-----------------------------------------------------------------------------
(* Mutant: the start-up check restores the bypass but not its monitor.     *)
BootMonitorForgotten == UNCHANGED <<gen, loop, cancel>>

(* Controller::new and reconcile_on_startup: nothing else runs yet.        *)
BootMonitor ==
    /\ gen' = gen + 1
    /\ \E l \in Loops :
          /\ loop' = [loop EXCEPT ![l] = FreshLoop(gen + 1, config)]
          /\ cancel' = l

NoMonitor == UNCHANGED <<gen, loop, cancel>>

(* Mutant: routes a crash left behind are not looked for.                  *)
BootDirtyKept ==
    /\ ~runtime.enabled
    /\ machine' = [machine EXCEPT !.snap = None]
    /\ \E ok \in BOOLEAN : Mark([runtime EXCEPT !.health = "Idle"], ok)
    /\ NoMonitor
    /\ UNCHANGED handle

(* With no configuration the clean-up goes by the gateway 0.0.0.0 of       *)
(* AppConfig::default, for which None stands.  No overlay of the tool goes *)
(* through it; the rows of others that do are in RouteOverlay.             *)
CleanupGateway == IF config = None THEN None ELSE config.gw

(* cleanup_dirty_state; the orphan snapshot is removed, not applied.       *)
BootDirect ==
    /\ ~runtime.enabled
    /\ \E m \in Cleanup(machine, CleanupGateway) :
          machine' \in {[m EXCEPT !.snap = None]} \cup MayFail({"save"}, {m})
    /\ \E ok \in BOOLEAN : Mark([runtime EXCEPT !.health = "Idle"], ok)
    /\ NoMonitor
    /\ UNCHANGED handle

(* A bypass put back: its handle, mark_enabled, and then the monitor.      *)
BootEnabled(t) ==
    /\ handle' = t
    /\ \E ok \in BOOLEAN :
          /\ Mark(MarkedEnabled(t.mode), ok)
          /\ IF ok THEN BootMonitor ELSE NoMonitor

BootWithoutHandle == BootMonitor /\ UNCHANGED <<handle, runtime, saved>>

BootOverlay ==
    LET t == [TargetOf(config) EXCEPT !.mode = Overlay] IN
    /\ runtime.enabled /\ runtime.mode = Overlay
    /\ \/ /\ OverlayInPlace(machine, t.gw, link)
          /\ UNCHANGED machine
          /\ BootEnabled(t)
       \/ /\ ~OverlayInPlace(machine, t.gw, link) \/ "query" \in Faults
          /\ \E o \in OverlayEnable(machine, t, link) :
                /\ machine' = o.m
                /\ IF o.ok THEN BootEnabled(t) ELSE BootWithoutHandle

(* With the gateway still in place no handle is made.                      *)
BootReconfig ==
    LET t == [TargetOf(config) EXCEPT !.mode = Reconfig] IN
    /\ runtime.enabled /\ runtime.mode = Reconfig
    /\ \/ /\ machine.snap = None
          /\ \E ok \in BOOLEAN : Mark(MarkedDisabled, ok)
          /\ NoMonitor /\ UNCHANGED <<handle, machine>>
       \/ /\ machine.snap # None /\ machine.conf[t.adapter] = t.gw
          /\ BootWithoutHandle /\ UNCHANGED machine
       \/ /\ machine.snap # None /\ machine.conf[t.adapter] # t.gw
          /\ \E o \in ReconfigEnable(machine, t, link) :
                /\ machine' = o.m
                /\ IF o.ok THEN BootEnabled(t) ELSE BootWithoutHandle
       \/ /\ machine.snap # None /\ "query" \in Faults
          /\ NoMonitor /\ UNCHANGED <<handle, runtime, saved, machine>>

Boot ==
    /\ phase = "boot" /\ phase' = "serve"
    /\ BootDirect \/ BootOverlay \/ BootReconfig
    /\ Quiet /\ UNCHANGED <<link, config, savedConfig, client, crashes>>

(* The process is killed, or the service stopped: a stop does not disable  *)
(* the bypass either.  Memory is lost; the restart reads both files.       *)
Crash ==
    /\ phase = "serve" /\ crashes < MaxCrashes
    /\ phase' = "boot" /\ crashes' = crashes + 1
    /\ gen' = 0 /\ handle' = None /\ cancel' = None
    /\ config' = savedConfig /\ runtime' = saved
    /\ loop' = [l \in Loops |-> IdleLoop(loop[l].cfg)]
    /\ client' = [c \in Clients |-> Resting]
    /\ Quiet /\ UNCHANGED <<saved, savedConfig, machine, link>>

Init ==
    /\ config \in Configs \cup {None}
    /\ savedConfig = config
    /\ gen = 0 /\ handle = None /\ cancel = None /\ event = "none"
    /\ runtime = [enabled |-> FALSE, mode |-> None, health |-> "Idle"]
    /\ saved = runtime
    /\ machine = [routes |-> {}, conf |-> [a \in Adapters |-> Direct],
                  snap |-> None]
    /\ link = "reachable"
    /\ \E c \in Configs : loop = [l \in Loops |-> IdleLoop(c)]
    /\ client = [c \in Clients |-> Resting]
    /\ phase = "boot" /\ crashes = 0

MayTick == Interleaved \/ \A c \in Clients : On(c, "idle")

Next ==
    \/ \E c \in Clients : Send(c) \/ ClientStep(c)
    \/ \E l \in Loops : MayTick /\ LoopStep(l) /\ UNCHANGED coreVars
    \/ Boot
    \/ Crash
    \/ (TimePasses \/ Outside) /\ UNCHANGED coreVars

Spec == Init /\ [][Next]_vars

(* tokio runs every task that can run.                                     *)
FairSpec ==
    /\ Spec
    /\ WF_vars(Boot)
    /\ \A c \in Clients : WF_vars(ClientStep(c))
    /\ \A l \in Loops :
          WF_vars(MayTick /\ LoopStep(l) /\ UNCHANGED coreVars)

-----------------------------------------------------------------------------
TypeOK ==
    /\ HMTypeOK
    /\ config \in Configs \cup {None}
    /\ savedConfig \in Configs \cup {None}
    /\ cancel \in Loops \cup {None}
    /\ client \in [Clients -> ClientState]
    /\ phase \in {"boot", "serve"}
    /\ crashes \in 0..MaxCrashes

(* With one connection, only the loop start_health_monitor started last    *)
(* passes the generation test: two loops never both drive the strategy.    *)
OneCurrentLoop ==
    \A l \in Loops : Live(l) /\ ~Stale(l) => cancel = l

(* Every loop still running either has its cancel signal or is the one     *)
(* whose sender health_cancel holds; any other could never be stopped.     *)
NoOrphanLoop ==
    \A l \in Loops : Live(l) => loop[l].cancelled \/ cancel = l

(* Between requests the configuration in memory is the one a restart       *)
(* would read (update_config saves first, then swaps).                     *)
ConfigDurable == Settled => savedConfig = config

(* Whenever the service rests with the bypass enabled, a health loop of    *)
(* the current generation watches it.                                      *)
EnabledIsWatched ==
    Settled /\ runtime.enabled =>
        \E l \in Loops : Live(l) /\ ~Stale(l) /\ loop[l].st # "Fallback"

(* What watches an enabled bypass follows the configuration the user sees: *)
(* its mode, its gateway and its thresholds (update_config, applied while  *)
(* enabled).                                                               *)
WatchedAsConfigured ==
    Settled /\ runtime.enabled =>
        \E l \in Loops : Live(l) /\ ~Stale(l) /\ loop[l].cfg = config

(* Whenever the service rests with the bypass off, nothing of it is left   *)
(* on the machine.                                                         *)
DisabledIsDirect == Settled /\ ~runtime.enabled => IsDirect(machine)

(* The runtime file says what the memory says.                             *)
RuntimeDurable ==
    Settled => saved.enabled = runtime.enabled /\ saved.mode = runtime.mode

(* After a disable the health shown is Idle: the tray icon turns grey.     *)
DisabledIsIdle ==
    Settled /\ (\A l \in Loops : Live(l) => Stale(l)) /\ ~runtime.enabled
        => runtime.health = "Idle"

(* A disable is not undone: whenever the service rests with every loop     *)
(* retired, the bypass is off (stop_health_monitor, "so that a disable is  *)
(* not revived by a tick in flight").                                      *)
DisableIsFinal ==
    Settled /\ (\A l \in Loops : Live(l) => Stale(l)) => ~runtime.enabled

(* The snapshot holds the adapter's own configuration, never the bypass.   *)
SnapshotIsOriginal ==
    machine.snap # None => machine.snap.conf = Direct

(* Once the requests are over, what the user is shown settles on the truth,*)
(* whatever requests, crashes and restarts came before: with a gateway     *)
(* that answers for good, a bypass shown as enabled is shown Healthy; with *)
(* one that is gone for good, it is dropped (start_health_monitor,         *)
(* update_runtime_health).  The health settles only if no request falls    *)
(* into a tick (~Interleaved): the end of such a tick overwrites what the  *)
(* request has set, and a loop that has stopped never corrects it.         *)
RequestsOver == \A c \in Clients : On(c, "idle")

HealthConverges ==
    <>[](RequestsOver /\ link = "reachable")
        => <>[](runtime.enabled => runtime.health = "Healthy")

OutageIsNoticed ==
    <>[](RequestsOver /\ link # "reachable") => <>[](~runtime.enabled)

(* With auto_reenable, a loop that has fallen back takes the bypass up     *)
(* again once the gateway answers for good: it tries until it succeeds,    *)
(* or until it is retired (handle_success).                                *)
RecoveryIsTried ==
    <>[](RequestsOver /\ link = "reachable")
        => []<>(\A l \in Loops :
                   Live(l) /\ ~Stale(l) /\ loop[l].cfg.auto
                       => loop[l].st # "Fallback" \/ At(l, "install"))
=============================================================================

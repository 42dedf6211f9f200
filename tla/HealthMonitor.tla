---------------------------- MODULE HealthMonitor ----------------------------
(***************************************************************************)
(* The health monitor's run_loop: one task per loop, one action per piece  *)
(* of a tick between two await points (or two lock acquisitions), so that  *)
(* whatever shares the handle, the runtime state and the generation        *)
(* counter with it may run in between.                                     *)
(*                                                                         *)
(* The module is also a specification of its own, HMSpec: one loop started *)
(* by an enable, in an environment where the network changes and the       *)
(* controller may at any moment retire the loop.                           *)
(***************************************************************************)
EXTENDS SwitchEngine

CONSTANTS
    Loops,       \* slots for the tasks running run_loop
    Configs,     \* AppConfig values that pass validate_config
    Links,       \* the states of the network that occur
    Cooldown     \* RECONFIG_REBUILD_COOLDOWN, in TimePasses steps

Config == [mode: Mode, adapter: Adapters, gw: Gateways,
           auto: BOOLEAN, threshold: Nat \ {0}]

ASSUME HealthMonitorAssumption ==
    /\ Configs \subseteq Config
    /\ Configs # {}
    /\ Links \subseteq Link
    /\ Cooldown \in Nat
    /\ Loops # {}
    /\ None \notin Loops

VARIABLES
    gen,       \* health_generation
    loop,      \* the health loops' local state
    handle,    \* Arc<Mutex<Option<SwitchHandle>>>
    runtime,   \* Arc<RwLock<RuntimeState>>
    saved,     \* runtime_state.json
    machine,   \* what the strategies change
    link,      \* the network outside the program
    event      \* the HealthEvent the last step broadcast, if any

shared == <<handle, runtime, saved, machine>>
hmVars == <<gen, loop, handle, runtime, saved, machine, link, event>>

HealthStatus == {"Idle", "Healthy", "Degraded", "Fallback"}
Runtime == [enabled: BOOLEAN, mode: Mode \cup {None}, health: HealthStatus]
HealthEvent == {"none", "ProbeFailed", "ProbeRecovered",
                "AutoFallbackTriggered"}

FallbackPc == {"fbcheck", "fbdisable", "fbclear", "fbmark", "fbsave"}
RebuildPc == {"recheck", "install", "keep", "revive", "resave"}
LoopPc == {"wait", "ping", "active", "rebuild", "report", "done"}
          \cup FallbackPc \cup RebuildPc

(* cool is what is left of the cooldown since last_rebuild.  lost and age  *)
(* are not in the code, they record what the properties speak of: the      *)
(* consecutive probes without an answer, saturating at the threshold, and  *)
(* the time since the loop last replayed enable on a connected adapter,    *)
(* saturating at Cooldown.                                                 *)
LoopState == [pc: LoopPc, gen: Nat, cfg: Configs,
              st: {"Healthy", "Degraded", "Fallback"}, n: Nat,
              cool: 0..Cooldown, cancelled: BOOLEAN,
              lost: Nat, age: 0..Cooldown]

FreshLoop(g, c) ==
    [pc |-> "wait", gen |-> g, cfg |-> c, st |-> "Healthy", n |-> 0,
     cool |-> 0, cancelled |-> FALSE, lost |-> 0, age |-> Cooldown]

IdleLoop(c) == [FreshLoop(0, c) EXCEPT !.pc = "done"]

At(l, p) == loop[l].pc = p
Live(l) == loop[l].pc # "done"
MidTick(l) == loop[l].pc \notin {"wait", "done"}
Stale(l) == loop[l].gen # gen

TargetOf(c) == [mode |-> c.mode, adapter |-> c.adapter, gw |-> c.gw]
(* Mutant: the cooldown is set one step too long.                         *)
RebuildCooldownTooLong(c) == Cooldown + 1
RebuildCooldown(c) == IF c.mode = Overlay THEN 0 ELSE Cooldown

Quiet == event' = "none"

Goto(l, p) == loop' = [loop EXCEPT ![l].pc = p]

-----------------------------------------------------------------------------
(* run_loop's select!: the cancel signal is seen only between two ticks.   *)
Exit(l) ==
    /\ At(l, "wait") /\ loop[l].cancelled
    /\ loop' = [loop EXCEPT ![l] = IdleLoop(loop[l].cfg)]
    /\ Quiet /\ UNCHANGED <<gen, shared, link>>

(* The timer fires; the tick of a stale loop returns at once.              *)
TickStart(l) ==
    /\ At(l, "wait") /\ ~Stale(l)
    /\ Goto(l, "ping")
    /\ Quiet /\ UNCHANGED <<gen, shared, link>>

(* Mutants: auto_reenable is ignored, or never honoured.                   *)
AlwaysReenable(l) == TRUE
NeverReenable(l) == FALSE
MayReenable(l) == loop[l].cfg.auto

(* handle_success                                                          *)
OnAnswer(l) ==
    LET st == loop[l].st IN
    \/ /\ st = "Healthy"
       /\ loop' = [loop EXCEPT ![l].pc = "active", ![l].lost = 0]
       /\ Quiet
    \/ /\ st = "Degraded"
       /\ loop' = [loop EXCEPT ![l].pc = "report", ![l].lost = 0,
                               ![l].st = "Healthy", ![l].n = 0]
       /\ event' = "ProbeRecovered"
    \/ /\ st = "Fallback" /\ MayReenable(l)
       /\ loop' = [loop EXCEPT ![l].pc = "recheck", ![l].lost = 0]
       /\ Quiet
    \/ /\ st = "Fallback" /\ ~MayReenable(l)
       /\ loop' = [loop EXCEPT ![l].pc = "report", ![l].lost = 0]
       /\ event' = "ProbeRecovered"

(* Mutant: the threshold is reached one failure early.                     *)
ReachedEarly(l, k) == k + 1 >= loop[l].cfg.threshold
ReachedThreshold(l, k) == k >= loop[l].cfg.threshold

CountLost(l) == IF loop[l].lost < loop[l].cfg.threshold
                THEN loop[l].lost + 1 ELSE loop[l].lost

(* Mutant: Degraded does not count up.                                     *)
FailureCountStuck(l) == 1
FailureCount(l) == IF loop[l].st = "Healthy" THEN 1 ELSE loop[l].n + 1

(* handle_failure                                                          *)
OnSilence(l) ==
    \/ /\ loop[l].st = "Fallback"
       /\ loop' = [loop EXCEPT ![l].pc = "report", ![l].lost = CountLost(l)]
       /\ Quiet
    \/ /\ loop[l].st # "Fallback"
       /\ LET k == FailureCount(l) IN
          loop' = [loop EXCEPT
             ![l].pc = IF ReachedThreshold(l, k) THEN "fbcheck" ELSE "report",
             ![l].st = "Degraded", ![l].n = k, ![l].lost = CountLost(l)]
       /\ event' = "ProbeFailed"

(* try_ping: an error counts as no answer.                                 *)
Ping(l) ==
    /\ At(l, "ping")
    /\ \/ link = "reachable" /\ OnAnswer(l)
       \/ (link # "reachable" \/ "query" \in Faults) /\ OnSilence(l)
    /\ UNCHANGED <<gen, shared, link>>

-----------------------------------------------------------------------------
(* ensure_active, is_active under the handle lock.  With a handle held a   *)
(* query may fail: the overlay then reads an empty route table and finds   *)
(* itself inactive, the adapter strategy's error counts as active.         *)
CheckActive(l) ==
    /\ At(l, "active")
    /\ LET mode == loop[l].cfg.mode
           active == handle # None /\ IsActive(mode, machine, handle, link)
           blind == handle # None /\ "query" \in Faults
       IN \/ /\ active \/ (blind /\ mode = Reconfig)
             /\ Goto(l, "report")
          \/ /\ ~active \/ (blind /\ mode = Overlay)
             /\ Goto(l, "rebuild")
    /\ Quiet /\ UNCHANGED <<gen, shared, link>>

(* Mutant: every tick may replay enable.                                   *)
NoCooldown(l) == TRUE
CooldownOver(l) == loop[l].cool = 0

(* ensure_active, can_rebuild and the cooldown                             *)
DecideRebuild(l) ==
    /\ At(l, "rebuild")
    /\ LET mode == loop[l].cfg.mode IN
       \/ /\ CanRebuild(mode, link) /\ CooldownOver(l)
          /\ loop' = [loop EXCEPT ![l].pc = "recheck",
                                  ![l].cool = RebuildCooldown(loop[l].cfg)]
       \/ /\ \/ ~CanRebuild(mode, link)
             \/ "query" \in Faults /\ mode = Reconfig
             \/ ~CooldownOver(l)
          /\ Goto(l, "report")
    /\ Quiet /\ UNCHANGED <<gen, shared, link>>

(* What handle_success does once reenable has returned Ok.                 *)
Recovered(l) ==
    /\ loop' = [loop EXCEPT ![l].pc = "report", ![l].st = "Healthy",
                            ![l].n = 0]
    /\ event' = IF loop[l].st = "Fallback" THEN "ProbeRecovered" ELSE "none"

(* reenable, the generation test; a stale loop gets Ok.                    *)
ReenableCheck(l) ==
    /\ At(l, "recheck")
    /\ \/ Stale(l) /\ Recovered(l)
       \/ ~Stale(l) /\ Goto(l, "install") /\ Quiet
    /\ UNCHANGED <<gen, shared, link>>

(* reenable, strategy.enable(params.target)                                *)
ReenableInstall(l) ==
    /\ At(l, "install")
    /\ \E o \in EnableOutcomes(machine, TargetOf(loop[l].cfg), link) :
          /\ machine' = o.m
          /\ loop' = [loop EXCEPT ![l].pc = IF o.ok THEN "keep" ELSE "report",
                                  ![l].age = IF link = "unplugged" THEN @ ELSE 0]
    /\ Quiet /\ UNCHANGED <<gen, handle, runtime, saved, link>>

(* reenable, *ctx.handle.lock().await = Some(new_handle)                   *)
ReenableKeep(l) ==
    /\ At(l, "keep")
    /\ handle' = TargetOf(loop[l].cfg)
    /\ Goto(l, "revive")
    /\ Quiet /\ UNCHANGED <<gen, runtime, saved, machine, link>>

RevivedRuntime(l) ==
    [enabled |-> TRUE, mode |-> loop[l].cfg.mode, health |-> "Healthy"]

(* reenable, the runtime state under its write lock                        *)
ReenableRevive(l) ==
    /\ At(l, "revive")
    /\ runtime' = RevivedRuntime(l)
    /\ Goto(l, "resave")
    /\ Quiet /\ UNCHANGED <<gen, handle, saved, machine, link>>

(* Mutant: the monitor changes the runtime state in memory only.           *)
PersistNothing(rs) == UNCHANGED saved

(* persist_runtime: outside the lock, of the copy taken under it; a        *)
(* failure is only logged.                                                 *)
Persist(rs) == saved' \in {rs} \cup MayFail({"save"}, {saved})

ReenableSave(l) ==
    /\ At(l, "resave")
    /\ Persist(RevivedRuntime(l))
    /\ Recovered(l)
    /\ UNCHANGED <<gen, handle, runtime, machine, link>>

-----------------------------------------------------------------------------
(* Mutant: a fallback that is not allowed waits until it is.               *)
FallbackWaits(l) ==
    /\ At(l, "fbcheck") /\ ~Stale(l)
    /\ Goto(l, "fbdisable")
    /\ Quiet /\ UNCHANGED <<gen, shared, link>>

(* fallback: the generation test, then the strategy's disable under the    *)
(* handle lock, then the handle under a second acquisition of that lock,   *)
(* then the runtime state and its file.                                    *)
FallbackCheck(l) ==
    /\ At(l, "fbcheck")
    /\ Goto(l, IF Stale(l) THEN "report" ELSE "fbdisable")
    /\ Quiet /\ UNCHANGED <<gen, shared, link>>

FallbackDisable(l) ==
    /\ At(l, "fbdisable")
    /\ \/ handle = None /\ UNCHANGED machine
       \/ /\ handle # None
          /\ \E o \in DisableOutcomes(loop[l].cfg.mode, machine, handle) :
                machine' = o.m
    /\ Goto(l, "fbclear")
    /\ Quiet /\ UNCHANGED <<gen, handle, runtime, saved, link>>

FallbackClear(l) ==
    /\ At(l, "fbclear")
    /\ handle' = None
    /\ Goto(l, "fbmark")
    /\ Quiet /\ UNCHANGED <<gen, runtime, saved, machine, link>>

(* Mutant: fallback leaves is_enabled as it was.                           *)
FallenBackEnabled ==
    [enabled |-> TRUE, mode |-> None, health |-> "Fallback"]
FallenBack == [enabled |-> FALSE, mode |-> None, health |-> "Fallback"]

FallbackMark(l) ==
    /\ At(l, "fbmark")
    /\ runtime' = FallenBack
    /\ Goto(l, "fbsave")
    /\ Quiet /\ UNCHANGED <<gen, handle, saved, machine, link>>

FallbackSave(l) ==
    /\ At(l, "fbsave")
    /\ Persist(FallenBack)
    /\ loop' = [loop EXCEPT ![l].pc = "report", ![l].st = "Fallback",
                            ![l].n = 0]
    /\ event' = "AutoFallbackTriggered"
    /\ UNCHANGED <<gen, handle, runtime, machine, link>>

(* update_runtime_health closes the tick, with no generation test.         *)
Report(l) ==
    /\ At(l, "report")
    /\ runtime' = [runtime EXCEPT !.health = loop[l].st]
    /\ Goto(l, "wait")
    /\ Quiet /\ UNCHANGED <<gen, handle, saved, machine, link>>

LoopStep(l) ==
    \/ Exit(l) \/ TickStart(l) \/ Ping(l)
    \/ CheckActive(l) \/ DecideRebuild(l)
    \/ ReenableCheck(l) \/ ReenableInstall(l) \/ ReenableKeep(l)
    \/ ReenableRevive(l) \/ ReenableSave(l)
    \/ FallbackCheck(l) \/ FallbackDisable(l) \/ FallbackClear(l)
    \/ FallbackMark(l) \/ FallbackSave(l) \/ Report(l)

-----------------------------------------------------------------------------
(* The environment.  One step of time is long against a tick.              *)
TimePasses ==
    /\ \A l \in Loops : ~MidTick(l)
    /\ \E l \in Loops : loop[l].age < Cooldown \/ loop[l].cool > 0
    /\ loop' = [l \in Loops |->
                  [loop[l] EXCEPT
                     !.cool = IF @ > 0 THEN @ - 1 ELSE 0,
                     !.age = IF @ < Cooldown THEN @ + 1 ELSE Cooldown]]
    /\ Quiet /\ UNCHANGED <<gen, shared, link>>

LinkChanges ==
    /\ link' \in Links \ {link}
    /\ Quiet /\ UNCHANGED <<gen, loop, shared>>

(* An interface reset or another tool removes overlay routes.              *)
RoutesVanish ==
    /\ "vanish" \in Faults
    /\ \E gone \in (SUBSET machine.routes) \ {{}} :
          machine' = [machine EXCEPT !.routes = @ \ gone]
    /\ Quiet /\ UNCHANGED <<gen, loop, handle, runtime, saved, link>>

(* stop_health_monitor, seen from the loop: first the generation, then     *)
(* the cancel signal.                                                      *)
Retire ==
    /\ gen = 1
    /\ gen' = 2
    /\ Quiet /\ UNCHANGED <<loop, shared, link>>

Cancel(l) ==
    /\ Live(l) /\ Stale(l) /\ ~loop[l].cancelled
    /\ loop' = [loop EXCEPT ![l].cancelled = TRUE]
    /\ Quiet /\ UNCHANGED <<gen, shared, link>>

(* What an enable that succeeded leaves on an untouched machine.           *)
EnabledMachine(c) ==
    [routes |-> IF c.mode = Overlay THEN Via(c.gw) ELSE {},
     conf |-> [a \in Adapters |->
                 IF c.mode = Reconfig /\ a = c.adapter THEN c.gw ELSE Direct],
     snap |-> IF c.mode = Reconfig
              THEN [adapter |-> c.adapter, conf |-> Direct] ELSE None]

HMInit ==
    \E c \in Configs, only \in Loops, h \in {"Idle", "Fallback"} :
        /\ gen = 1
        /\ loop = [l \in Loops |->
                     IF l = only THEN FreshLoop(1, c) ELSE IdleLoop(c)]
        /\ handle = TargetOf(c)
        /\ runtime = [enabled |-> TRUE, mode |-> c.mode, health |-> h]
        /\ saved = runtime
        /\ machine = EnabledMachine(c)
        /\ link = "reachable"
        /\ event = "none"

Outside == LinkChanges \/ RoutesVanish

HMNext ==
    \/ \E l \in Loops : LoopStep(l) \/ Cancel(l)
    \/ TimePasses \/ Outside \/ Retire

HMSpec == HMInit /\ [][HMNext]_hmVars

(* tokio runs every task that can run, the one that is sending the signal  *)
(* included.                                                               *)
HMFairSpec ==
    /\ HMSpec
    /\ \A l \in Loops : WF_hmVars(LoopStep(l)) /\ WF_hmVars(Cancel(l))

-----------------------------------------------------------------------------
(* Types, and what the ghost counters range over.                          *)
HMTypeOK ==
    /\ gen \in Nat
    /\ loop \in [Loops -> LoopState]
    /\ handle \in Handle
    /\ runtime \in Runtime
    /\ saved \in Runtime
    /\ machine \in Machine
    /\ link \in Link
    /\ event \in HealthEvent

(* A gateway that is only briefly unreachable must not cost the user the   *)
(* bypass: every fallback is preceded by `threshold' probes of this loop   *)
(* in a row without an answer (health_monitor.rs, handle_failure).         *)
FallbackEarned ==
    \A l \in Loops :
        loop[l].pc \in FallbackPc => loop[l].lost = loop[l].cfg.threshold

(* Between ticks the loop's private state and the runtime state the user   *)
(* is shown say the same thing: in Fallback exactly when the bypass is     *)
(* marked off and no handle is held (fallback, reenable, ensure_active).   *)
LoopAgreesWithRuntime ==
    \A l \in Loops :
        At(l, "wait") /\ ~Stale(l) =>
            /\ loop[l].st = "Fallback" <=> ~runtime.enabled
            /\ loop[l].st = "Fallback" <=> handle = None
            /\ runtime.enabled => runtime.mode = loop[l].cfg.mode

(* Fallback and recovery reach the state file: a restart between two ticks *)
(* reads the expectation the monitor last put in memory (persist_runtime). *)
SavedAgreesWithRuntime ==
    \A l \in Loops :
        At(l, "wait") =>
            /\ saved.enabled = runtime.enabled
            /\ saved.mode = runtime.mode

(* "Fallen back to direct": once the loop rests in Fallback nothing of the *)
(* tool is left on the machine (fallback calling the strategy's disable).  *)
FallbackIsDirect ==
    \A l \in Loops :
        At(l, "wait") /\ loop[l].st = "Fallback" => IsDirect(machine)

(* Replaying the adapter's reconfiguration resets the adapter, so two      *)
(* replays are at least Cooldown apart (RECONFIG_REBUILD_COOLDOWN), as     *)
(* long as recovery is not what asks for them (auto_reenable).             *)
ReplaysSpaced ==
    [][\A l \in Loops :
         (/\ At(l, "install") /\ loop'[l].pc # "install"
          /\ link # "unplugged"
          /\ loop[l].cfg.mode = Reconfig /\ ~loop[l].cfg.auto)
           => loop[l].age = Cooldown]_hmVars

(* A loop that is retired ends, whatever step of a tick it is in: it loses *)
(* no cancel signal there, waits for nothing and takes up no further tick, *)
(* so that no task is left pinging the gateway (run_loop, tick, reenable,  *)
(* fallback, stop_health_monitor).                                         *)
RetiredLoopExits ==
    \A l \in Loops : Live(l) /\ Stale(l) ~> ~Live(l)
=============================================================================

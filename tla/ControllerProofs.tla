-------------------------- MODULE ControllerProofs --------------------------
(***************************************************************************)
(* Theorems about the controller together with its health loops.  Types    *)
(* hold for any number of connections; that there is one current loop, no  *)
(* orphan and a durable configuration holds with one connection, which is  *)
(* what the user interface opens.  Crashes, faults, loops and requests are *)
(* unbounded.                                                              *)
(***************************************************************************)
EXTENDS Controller, HealthMonitorProofs

(* The places at which a request works with a configuration: update_config *)
(* with its parameter, enable and start_health_monitor with the one read.  *)
AfterSwap == {"inspect", "cleanup", "drop", "check", "backup", "install",
              "keep", "mark"} \cup MonitorPc
WithConfig(c) == \/ client[c].pc \in {"save", "swap"} \cup AfterSwap
                 \/ client[c].then = "backup"

RequestSound(c) ==
    /\ WithConfig(c) => client[c].cfg # None
    /\ On(c, "restore") => client[c].held # None

(* A bypass that is on, or about to be, was configured; and what was       *)
(* configured is on disk.                                                  *)
Configured ==
    /\ config # None => savedConfig # None
    /\ runtime.enabled \/ saved.enabled => config # None
    /\ \A l \in Loops : Live(l) => config # None
    /\ \A c \in Clients :
          /\ On(c, "swap") => savedConfig # None
          /\ client[c].pc \in AfterSwap \/ client[c].then = "backup" =>
                config # None

TypeInv ==
    /\ TypeOK
    /\ \A c \in Clients : RequestSound(c)
    /\ Configured

-----------------------------------------------------------------------------
(* The two ways a client's record changes.                                 *)
LEMMA StepTypes ==
    ASSUME client \in [Clients -> ClientState], NEW c \in Clients,
           NEW p \in ClientPc, Step(c, p)
    PROVE  /\ client' \in [Clients -> ClientState]
           /\ \A d \in Clients : d # c => client'[d] = client[d]
           /\ client'[c].pc = p
           /\ client'[c].cfg = client[c].cfg /\ client'[c].old = client[c].old
           /\ client'[c].held = client[c].held
           /\ client'[c].seen = client[c].seen
           /\ client'[c].then = client[c].then
  BY DEF Step, ClientState

(* A connection without a request.                                         *)
LEMMA RestingType ==
    /\ Resting \in ClientState
    /\ Resting.pc = "idle" /\ Resting.then = "reply"
  BY DEF Resting, ClientState, ClientPc, Handle

(* A connection that gets its answer.                                      *)
LEMMA AnswerTypes ==
    ASSUME client \in [Clients -> ClientState], NEW c \in Clients, Answer(c)
    PROVE  /\ client' \in [Clients -> ClientState]
           /\ \A d \in Clients : d # c => client'[d] = client[d]
           /\ client'[c].pc = "idle" /\ client'[c].then = "reply"
  BY RestingType DEF Answer

(* What a step of one client does to the others: nothing.                  *)
Elsewhere(c) ==
    /\ client' \in [Clients -> ClientState]
    /\ \A d \in Clients : d # c => client'[d] = client[d]

(* A step of one client that changes neither loops nor configurations; the *)
(* health monitor's share of the types is left to each action.             *)
LEMMA OneClientMoves ==
    ASSUME TypeInv, HMTypeOK', NEW c \in Clients, Elsewhere(c),
           UNCHANGED <<configs, cancel, life>>,
           \A l \in Loops : Live(l)' => config # None,
           runtime'.enabled \/ saved'.enabled => config # None,
           RequestSound(c)',
           client'[c].pc # "swap",
           client'[c].pc \in AfterSwap \/ client'[c].then = "backup" =>
              config # None
    PROVE  TypeInv'
  BY DEF TypeInv, TypeOK, Elsewhere, configs, life, Configured, RequestSound,
         WithConfig, On

(* The steps of update_config, enable and disable that leave machine,      *)
(* runtime state and file alone.                                           *)
LEMMA QuietStepsKeepTypes ==
    ASSUME TypeInv, NEW c \in Clients,
           \/ Send(c) \/ SaveConfig(c) \/ SwapConfig(c) \/ InspectChange(c)
           \/ DropHandle(c) \/ ReadConfig(c) \/ CheckHandle(c) \/ Keep(c)
           \/ TakeHandle(c)
    PROVE  TypeInv'
<1>. USE ControllerAssumption
     DEF Quiet, HealthEvent, shared, On, configs, life, Live, Handle
<1>0. /\ HMTypeOK /\ client \in [Clients -> ClientState]
      /\ client[c] \in ClientState /\ RequestSound(c)
      /\ config \in Configs \cup {None} /\ savedConfig \in Configs \cup {None}
      /\ runtime.enabled \/ saved.enabled => config # None
      /\ \A l \in Loops : Live(l) => config # None
      /\ client[c].pc \in AfterSwap \/ client[c].then = "backup" =>
            config # None
  BY DEF TypeInv, TypeOK, Configured
<1>p. ClientPc = {"idle", "save", "swap", "inspect", "cleanup", "drop", "read",
                  "check", "backup", "install", "keep", "mark", "halt",
                  "cancel", "take", "restore", "unmark", "rehalt", "load",
                  "spawn"}
  BY DEF ClientPc, UpdatePc, EnablePc, DisablePc, MonitorPc
<1>a. AfterSwap = {"inspect", "cleanup", "drop", "check", "backup", "install",
                   "keep", "mark", "rehalt", "load", "spawn"}
  BY DEF AfterSwap, MonitorPc
<1>1. CASE Send(c)
  <2>1. PICK r \in ClientState :
           /\ client' = [client EXCEPT ![c] = r]
           /\ r.pc \in {"read", "halt", "save"} /\ r.then = "reply"
           /\ r.pc = "save" => r.cfg # None
    <3>. DEFINE begin(p) == [Resting EXCEPT !.pc = p]
                update(new) == [Resting EXCEPT !.pc = "save", !.cfg = new]
    <3>1. \A p \in {"read", "halt"} :
             begin(p) \in ClientState /\ begin(p).pc = p
             /\ begin(p).then = "reply"
      BY <1>p, RestingType DEF ClientState
    <3>2. \A new \in Configs :
             /\ update(new) \in ClientState /\ update(new).pc = "save"
             /\ update(new).then = "reply" /\ update(new).cfg = new
      BY <1>p, RestingType DEF ClientState
    <3>3. \/ \E p \in {"read", "halt"} :
                client' = [client EXCEPT ![c] = begin(p)]
          \/ \E new \in Configs : client' = [client EXCEPT ![c] = update(new)]
      BY <1>1 DEF Send
    <3>. HIDE DEF begin, update
    <3>. QED
      BY <3>1, <3>2, <3>3
  <2>2. Elsewhere(c) /\ client'[c] = r
    BY <1>0, <2>1 DEF Elsewhere
  <2>3. HMTypeOK'
    BY <1>0, <1>1 DEF Send, HMTypeOK
  <2>4. RequestSound(c)'
    BY <1>a, <2>1, <2>2 DEF RequestSound, WithConfig
  <2>. QED
    BY <1>0, <1>1, <1>a, <2>1, <2>2, <2>3, <2>4, OneClientMoves DEF Send
<1>2. CASE SaveConfig(c)
  <2>1. HMTypeOK'
    BY <1>0, <1>2 DEF SaveConfig, HMTypeOK
  <2>2. CASE savedConfig' = client[c].cfg /\ Step(c, "swap")
    <3>1. /\ Elsewhere(c) /\ client'[c].pc = "swap"
          /\ client'[c].cfg = client[c].cfg
          /\ client'[c].then = client[c].then
      BY <1>0, <1>p, <2>2, StepTypes DEF Elsewhere
    <3>2. client[c].cfg \in Configs
      BY <1>0, <1>2 DEF SaveConfig, RequestSound, WithConfig, ClientState
    <3>. QED
      BY <1>0, <1>2, <1>a, <2>1, <2>2, <3>1, <3>2
      DEF SaveConfig, TypeInv, TypeOK, Elsewhere, Configured, RequestSound,
          WithConfig
  <2>3. CASE UNCHANGED savedConfig /\ Answer(c)
    <3>1. /\ Elsewhere(c) /\ client'[c].pc = "idle"
          /\ client'[c].then = "reply"
      BY <1>0, <2>3, AnswerTypes DEF Elsewhere
    <3>2. RequestSound(c)'
      BY <1>a, <3>1 DEF RequestSound, WithConfig
    <3>. QED
      BY <1>0, <1>2, <1>a, <2>1, <2>3, <3>1, <3>2, OneClientMoves
      DEF SaveConfig
  <2>. QED
    BY <1>2, <2>2, <2>3 DEF SaveConfig
<1>3. CASE SwapConfig(c)
  <2>1. HMTypeOK'
    BY <1>0, <1>3 DEF SwapConfig, HMTypeOK
  <2>2. client[c].cfg \in Configs /\ savedConfig # None
    BY <1>0, <1>3 DEF SwapConfig, RequestSound, WithConfig, ClientState,
       TypeInv, Configured
  <2>3. /\ Elsewhere(c) /\ client'[c].pc = "inspect"
        /\ client'[c].cfg = client[c].cfg
        /\ client'[c].then = client[c].then
    BY <1>0, <1>3, <1>p DEF SwapConfig, Elsewhere, ClientState
  <2>. QED
    BY <1>0, <1>3, <1>a, <2>1, <2>2, <2>3
    DEF SwapConfig, TypeInv, TypeOK, Elsewhere, Configured, RequestSound,
        WithConfig
<1>4. CASE InspectChange(c)
  <2>1. HMTypeOK'
    BY <1>0, <1>4 DEF InspectChange, HMTypeOK
  <2>2. PICK p \in {"cleanup", "read", "rehalt"} : Answer(c) \/ Step(c, p)
    BY <1>4 DEF InspectChange
  <2>3. CASE Answer(c)
    <3>1. /\ Elsewhere(c) /\ client'[c].pc = "idle"
          /\ client'[c].then = "reply"
      BY <1>0, <2>3, AnswerTypes DEF Elsewhere
    <3>2. RequestSound(c)'
      BY <1>a, <3>1 DEF RequestSound, WithConfig
    <3>. QED
      BY <1>0, <1>4, <1>a, <2>1, <3>1, <3>2, OneClientMoves DEF InspectChange
  <2>4. CASE Step(c, p)
    <3>1. /\ Elsewhere(c) /\ client'[c].pc = p
          /\ client'[c].cfg = client[c].cfg
          /\ client'[c].then = client[c].then
      BY <1>0, <1>p, <2>4, StepTypes DEF Elsewhere
    <3>2. RequestSound(c)'
      BY <1>0, <1>4, <1>a, <3>1 DEF RequestSound, WithConfig, InspectChange
    <3>. QED
      BY <1>0, <1>4, <1>a, <2>1, <3>1, <3>2, OneClientMoves DEF InspectChange
  <2>. QED
    BY <2>2, <2>3, <2>4
<1>5. CASE DropHandle(c)
  <2>1. HMTypeOK'
    BY <1>0, <1>5 DEF DropHandle, HMTypeOK
  <2>2. /\ Elsewhere(c) /\ client'[c].pc = "read"
        /\ client'[c].cfg = client[c].cfg
        /\ client'[c].then = client[c].then
    BY <1>0, <1>p, <1>5, StepTypes DEF Elsewhere, DropHandle
  <2>3. RequestSound(c)'
    BY <1>0, <1>5, <1>a, <2>2 DEF RequestSound, WithConfig, DropHandle
  <2>. QED
    BY <1>0, <1>5, <1>a, <2>1, <2>2, <2>3, OneClientMoves DEF DropHandle
<1>6. CASE ReadConfig(c)
  <2>1. HMTypeOK'
    BY <1>0, <1>6 DEF ReadConfig, HMTypeOK
  <2>2. CASE Answer(c)
    <3>1. /\ Elsewhere(c) /\ client'[c].pc = "idle"
          /\ client'[c].then = "reply"
      BY <1>0, <2>2, AnswerTypes DEF Elsewhere
    <3>2. RequestSound(c)'
      BY <1>a, <3>1 DEF RequestSound, WithConfig
    <3>. QED
      BY <1>0, <1>6, <1>a, <2>1, <3>1, <3>2, OneClientMoves DEF ReadConfig
  <2>3. CASE /\ config # None
             /\ client' = [client EXCEPT ![c].pc = "check", ![c].cfg = config]
    <3>1. /\ Elsewhere(c) /\ client'[c].pc = "check"
          /\ client'[c].cfg = config
          /\ client'[c].then = client[c].then
      BY <1>0, <1>p, <2>3 DEF Elsewhere, ClientState
    <3>2. RequestSound(c)'
      BY <1>a, <2>3, <3>1 DEF RequestSound, WithConfig
    <3>. QED
      BY <1>0, <1>6, <1>a, <2>1, <2>3, <3>1, <3>2, OneClientMoves
      DEF ReadConfig
  <2>. QED
    BY <1>6, <2>2, <2>3 DEF ReadConfig
<1>7. CASE CheckHandle(c)
  <2>1. HMTypeOK'
    BY <1>0, <1>7 DEF CheckHandle, HMTypeOK
  <2>2. /\ Elsewhere(c) /\ client'[c].pc \in {"halt", "backup"}
        /\ client'[c].cfg = client[c].cfg
    BY <1>0, <1>p, <1>7 DEF CheckHandle, Elsewhere, ClientState
  <2>3. client[c].cfg # None /\ config # None
    BY <1>0, <1>7, <1>a DEF CheckHandle, RequestSound, WithConfig
  <2>4. RequestSound(c)'
    BY <2>2, <2>3 DEF RequestSound, WithConfig
  <2>. QED
    BY <1>0, <1>7, <1>a, <2>1, <2>2, <2>3, <2>4, OneClientMoves
    DEF CheckHandle
<1>8. CASE Keep(c)
  <2>1. client[c].cfg \in Configs
    BY <1>0, <1>8, <1>a DEF Keep, RequestSound, WithConfig, ClientState
  <2>2. HMTypeOK'
    BY <1>0, <1>8, <2>1, ConfigTypes DEF Keep, HMTypeOK
  <2>3. /\ Elsewhere(c) /\ client'[c].pc = "mark"
        /\ client'[c].cfg = client[c].cfg
        /\ client'[c].then = client[c].then
    BY <1>0, <1>p, <1>8, StepTypes DEF Elsewhere, Keep
  <2>4. RequestSound(c)'
    BY <1>0, <1>8, <1>a, <2>3 DEF RequestSound, WithConfig, Keep
  <2>. QED
    BY <1>0, <1>8, <1>a, <2>2, <2>3, <2>4, OneClientMoves DEF Keep
<1>9. CASE TakeHandle(c)
  <2>1. HMTypeOK'
    BY <1>0, <1>9 DEF TakeHandle, HMTypeOK
  <2>2. /\ Elsewhere(c) /\ client'[c].pc \in {"restore", "unmark"}
        /\ client'[c].pc = "restore" => client'[c].held # None
        /\ client'[c].cfg = client[c].cfg
        /\ client'[c].then = client[c].then
    BY <1>0, <1>p, <1>9 DEF TakeHandle, Elsewhere, ClientState, HMTypeOK
  <2>3. RequestSound(c)'
    BY <1>0, <1>9, <1>a, <2>2 DEF RequestSound, WithConfig, TakeHandle
  <2>. QED
    BY <1>0, <1>9, <1>a, <2>1, <2>2, <2>3, OneClientMoves DEF TakeHandle
<1>. QED
  BY <1>1, <1>2, <1>3, <1>4, <1>5, <1>6, <1>7, <1>8, <1>9

(* Their steps that change the machine, the runtime state or the file.     *)
LEMMA EffectsKeepTypes ==
    ASSUME TypeInv, NEW c \in Clients,
           \/ CleanupPreviousMode(c) \/ Backup(c) \/ Install(c)
           \/ MarkEnabled(c) \/ Restore(c) \/ MarkDisabled(c)
    PROVE  TypeInv'
<1>. USE ControllerAssumption
     DEF Quiet, HealthEvent, shared, On, configs, life, Live, Handle
<1>0. /\ HMTypeOK /\ client \in [Clients -> ClientState]
      /\ client[c] \in ClientState /\ RequestSound(c)
      /\ runtime.enabled \/ saved.enabled => config # None
      /\ \A l \in Loops : Live(l) => config # None
      /\ client[c].pc \in AfterSwap \/ client[c].then = "backup" =>
            config # None
      /\ machine \in Machine /\ runtime \in Runtime /\ saved \in Runtime
  BY DEF TypeInv, TypeOK, Configured, HMTypeOK
<1>p. ClientPc = {"idle", "save", "swap", "inspect", "cleanup", "drop", "read",
                  "check", "backup", "install", "keep", "mark", "halt",
                  "cancel", "take", "restore", "unmark", "rehalt", "load",
                  "spawn"}
  BY DEF ClientPc, UpdatePc, EnablePc, DisablePc, MonitorPc
<1>a. AfterSwap = {"inspect", "cleanup", "drop", "check", "backup", "install",
                   "keep", "mark", "rehalt", "load", "spawn"}
  BY DEF AfterSwap, MonitorPc
<1>b. On(c, "backup") \/ On(c, "install") \/ On(c, "mark") =>
         client[c].cfg \in Configs /\ config # None
  BY <1>0, <1>a DEF RequestSound, WithConfig, ClientState
<1>m. ASSUME Answer(c)
      PROVE  /\ Elsewhere(c) /\ RequestSound(c)'
             /\ client'[c].pc = "idle" /\ client'[c].then = "reply"
  BY <1>0, <1>a, <1>m, AnswerTypes DEF Elsewhere, RequestSound, WithConfig
<1>n. ASSUME NEW p \in {"drop", "install", "keep", "rehalt", "unmark",
                        "backup"},
             Step(c, p),
             client[c].pc \in AfterSwap \/ client[c].then = "backup"
             \/ p = "unmark"
      PROVE  /\ Elsewhere(c) /\ RequestSound(c)' /\ client'[c].pc = p
             /\ client'[c].then = client[c].then
  BY <1>0, <1>a, <1>p, <1>n, StepTypes
  DEF Elsewhere, RequestSound, WithConfig
<1>1. CASE CleanupPreviousMode(c)
  <2>1. machine' \in Machine
    <3>1. CASE client[c].old = None
      BY <1>0, <1>1, <3>1 DEF CleanupPreviousMode
    <3>2. CASE client[c].old # None
      <4>1. client[c].old \in Configs
        BY <1>0, <3>2 DEF ClientState
      <4>2. client[c].old.gw \in Gateways
        BY <4>1, HealthMonitorAssumption DEF Config
      <4>. QED
        BY <1>0, <1>1, <3>2, <4>2, CleanupKeepsMachine,
           ReconfigDisableKeepsMachine DEF CleanupPreviousMode
    <3>. QED
      BY <3>1, <3>2
  <2>2. HMTypeOK'
    BY <1>0, <1>1, <2>1 DEF CleanupPreviousMode, HMTypeOK
  <2>3. client[c].pc \in AfterSwap /\ Step(c, "drop")
    BY <1>1, <1>a DEF CleanupPreviousMode
  <2>. QED
    BY <1>0, <1>1, <1>n, <2>2, <2>3, OneClientMoves DEF CleanupPreviousMode
<1>2. CASE Backup(c)
  <2>1. machine' \in Machine
    <3>1. client[c].cfg.adapter \in Adapters
      BY <1>2, <1>b, HealthMonitorAssumption DEF Config, Backup
    <3>. DEFINE snap == [adapter |-> client[c].cfg.adapter,
                         conf |-> machine.conf[client[c].cfg.adapter]]
    <3>2. snap \in Snapshot
      BY <1>0, <3>1 DEF Machine, Snapshot
    <3>3. machine' = machine \/ machine' = [machine EXCEPT !.snap = snap]
      BY <1>2 DEF Backup
    <3>. HIDE DEF snap
    <3>. QED
      BY <1>0, <3>2, <3>3 DEF Machine
  <2>2. HMTypeOK'
    BY <1>0, <1>2, <2>1 DEF Backup, HMTypeOK
  <2>3. client[c].pc \in AfterSwap /\ (Step(c, "install") \/ Answer(c))
    BY <1>2, <1>a DEF Backup
  <2>. QED
    BY <1>0, <1>2, <1>b, <1>m, <1>n, <2>2, <2>3, OneClientMoves DEF Backup
<1>3. CASE Install(c)
  <2>1. PICK o \in EnableOutcomes(machine, TargetOf(client[c].cfg), link) :
           \/ machine' = o.m /\ Step(c, "keep")
           \/ Answer(c) /\ machine' \in {o.m, [o.m EXCEPT !.snap = None]}
    BY <1>3 DEF Install, MayFail
  <2>2. o.m \in Machine
    BY <1>0, <1>3, <1>b, ConfigTypes, EnableKeepsMachine DEF Install
  <2>3. machine' \in Machine
    BY <2>1, <2>2 DEF Machine
  <2>4. HMTypeOK'
    BY <1>0, <1>3, <2>3 DEF Install, HMTypeOK
  <2>5. client[c].pc \in AfterSwap
    BY <1>3, <1>a DEF Install
  <2>. QED
    BY <1>0, <1>3, <1>b, <1>m, <1>n, <2>1, <2>4, <2>5, OneClientMoves
    DEF Install
<1>4. CASE MarkEnabled(c)
  <2>1. PICK ok \in BOOLEAN :
           /\ Mark(MarkedEnabled(client[c].cfg.mode), ok)
           /\ IF ok THEN Step(c, "rehalt") ELSE Answer(c)
    BY <1>4 DEF MarkEnabled
  <2>2. MarkedEnabled(client[c].cfg.mode) \in Runtime
    BY <1>0, <1>4, <1>b, ConfigTypes DEF MarkEnabled, MarkedEnabled, Runtime
  <2>3. runtime' \in Runtime /\ saved' \in Runtime
    BY <1>0, <2>1, <2>2 DEF Mark
  <2>4. HMTypeOK'
    BY <1>0, <1>4, <2>3 DEF MarkEnabled, HMTypeOK
  <2>5. client[c].pc \in AfterSwap /\ config # None
    BY <1>4, <1>a, <1>b DEF MarkEnabled
  <2>. QED
    BY <1>0, <1>4, <1>m, <1>n, <2>1, <2>4, <2>5, OneClientMoves
    DEF MarkEnabled
<1>5. CASE Restore(c)
  <2>1. client[c].held \in Target
    BY <1>0, <1>5 DEF Restore, RequestSound, ClientState
  <2>2. PICK o \in DisableOutcomes(client[c].held.mode, machine,
                                   client[c].held) :
           machine' = o.m /\ (Step(c, "unmark") \/ Answer(c))
    BY <1>5 DEF Restore
  <2>3. machine' \in Machine
    BY <1>0, <2>1, <2>2, DisableKeepsMachine
  <2>4. HMTypeOK'
    BY <1>0, <1>5, <2>3 DEF Restore, HMTypeOK
  <2>. QED
    BY <1>0, <1>5, <1>a, <1>m, <1>n, <2>2, <2>4, OneClientMoves DEF Restore
<1>6. CASE MarkDisabled(c)
  <2>1. PICK ok \in BOOLEAN :
           /\ Mark(MarkedDisabled, ok)
           /\ \/ Answer(c)
              \/ client[c].then = "backup" /\ Step(c, "backup")
    BY <1>6 DEF MarkDisabled
  <2>2. MarkedDisabled \in Runtime /\ ~MarkedDisabled.enabled
    BY DEF MarkedDisabled, Runtime, HealthStatus
  <2>3. /\ runtime' \in Runtime /\ saved' \in Runtime
        /\ ~runtime'.enabled /\ (saved'.enabled => saved.enabled)
    BY <1>0, <2>1, <2>2 DEF Mark
  <2>4. HMTypeOK'
    BY <1>0, <1>6, <2>3 DEF MarkDisabled, HMTypeOK
  <2>5. /\ Elsewhere(c) /\ RequestSound(c)' /\ client'[c].pc # "swap"
        /\ client'[c].pc \in AfterSwap \/ client'[c].then = "backup" =>
              config # None
    <3>1. CASE Answer(c)
      BY <1>a, <1>m, <3>1
    <3>2. CASE client[c].then = "backup" /\ Step(c, "backup")
      BY <1>0, <1>n, <3>2
    <3>. QED
      BY <2>1, <3>1, <3>2
  <2>. QED
    BY <1>0, <1>6, <2>3, <2>4, <2>5, OneClientMoves DEF MarkDisabled
<1>. QED
  BY <1>1, <1>2, <1>3, <1>4, <1>5, <1>6

(* stop_health_monitor and start_health_monitor.                           *)
LEMMA MonitorStepsKeepTypes ==
    ASSUME TypeInv, NEW c \in Clients,
           BumpGeneration(c) \/ SendCancel(c) \/ SpawnLoop(c)
    PROVE  TypeInv'
<1>. USE ControllerAssumption, HealthMonitorAssumption
     DEF Quiet, HealthEvent, shared, On, configs, life, Live
<1>0. /\ HMTypeOK /\ client \in [Clients -> ClientState]
      /\ client[c] \in ClientState /\ RequestSound(c)
      /\ cancel \in Loops \cup {None}
      /\ gen \in Nat /\ loop \in [Loops -> LoopState]
      /\ \A l \in Loops : Live(l) => config # None
      /\ client[c].pc \in AfterSwap \/ client[c].then = "backup" =>
            config # None
  BY DEF TypeInv, TypeOK, Configured, HMTypeOK
<1>p. ClientPc = {"idle", "save", "swap", "inspect", "cleanup", "drop", "read",
                  "check", "backup", "install", "keep", "mark", "halt",
                  "cancel", "take", "restore", "unmark", "rehalt", "load",
                  "spawn"}
  BY DEF ClientPc, UpdatePc, EnablePc, DisablePc, MonitorPc
<1>a. AfterSwap = {"inspect", "cleanup", "drop", "check", "backup", "install",
                   "keep", "mark", "rehalt", "load", "spawn"}
  BY DEF AfterSwap, MonitorPc
<1>1. CASE BumpGeneration(c)
  <2>1. HMTypeOK'
    BY <1>0, <1>1 DEF BumpGeneration, HMTypeOK
  <2>2. PICK p \in {"cancel", "load"} :
           Step(c, p) /\ (p = "load" => On(c, "rehalt"))
    BY <1>1 DEF BumpGeneration, NextPc
  <2>3. /\ Elsewhere(c) /\ client'[c].pc = p
        /\ client'[c].cfg = client[c].cfg
        /\ client'[c].then = client[c].then
    BY <1>0, <1>p, <2>2, StepTypes DEF Elsewhere
  <2>4. RequestSound(c)'
    BY <1>0, <1>a, <2>2, <2>3 DEF RequestSound, WithConfig
  <2>. QED
    BY <1>0, <1>1, <1>a, <2>1, <2>2, <2>3, <2>4
    DEF BumpGeneration, TypeInv, TypeOK, Elsewhere, Configured, RequestSound,
        WithConfig
<1>2. CASE SendCancel(c)
  <2>1. /\ loop' \in [Loops -> LoopState]
        /\ \A l \in Loops : loop'[l].pc = loop[l].pc
    BY <1>0, <1>2 DEF SendCancel, Signalled, LoopState
  <2>2. HMTypeOK'
    BY <1>0, <1>2, <2>1 DEF SendCancel, HMTypeOK
  <2>3. /\ Elsewhere(c) /\ client'[c].pc \in {"take", "spawn"}
        /\ client'[c].pc = "spawn" => On(c, "load")
        /\ client'[c].cfg = client[c].cfg
        /\ client'[c].then = client[c].then
    BY <1>0, <1>2, <1>p DEF SendCancel, NextPc, Elsewhere, ClientState
  <2>4. RequestSound(c)'
    BY <1>0, <1>a, <2>3 DEF RequestSound, WithConfig
  <2>. QED
    BY <1>0, <1>2, <1>a, <2>1, <2>2, <2>3, <2>4
    DEF SendCancel, TypeInv, TypeOK, Elsewhere, Configured, RequestSound,
        WithConfig
<1>3. CASE SpawnLoop(c)
  <2>1. client[c].cfg \in Configs /\ client[c].seen \in Nat /\ config # None
    BY <1>0, <1>3, <1>a DEF SpawnLoop, RequestSound, WithConfig, ClientState
  <2>2. PICK l \in Loops :
           /\ loop' = [loop EXCEPT ![l] = FreshLoop(client[c].seen,
                                                    client[c].cfg)]
           /\ cancel' = l
    BY <1>3 DEF SpawnLoop
  <2>3. loop' \in [Loops -> LoopState]
    BY <1>0, <2>1, <2>2, FreshLoopType
  <2>4. HMTypeOK'
    BY <1>0, <1>3, <2>3 DEF SpawnLoop, HMTypeOK
  <2>5. /\ Elsewhere(c) /\ client'[c].pc = "idle"
        /\ client'[c].then = "reply"
    BY <1>0, <1>3, AnswerTypes DEF Elsewhere, SpawnLoop
  <2>6. RequestSound(c)'
    BY <1>a, <2>5 DEF RequestSound, WithConfig
  <2>. QED
    BY <1>0, <1>3, <1>a, <2>1, <2>2, <2>4, <2>5, <2>6
    DEF SpawnLoop, TypeInv, TypeOK, Elsewhere, Configured, RequestSound,
        WithConfig
<1>. QED
  BY <1>1, <1>2, <1>3

(* The health monitor's own steps.  A loop takes them only while it runs,  *)
(* so there is a configuration.                                            *)
LEMMA OthersKeepTypes ==
    ASSUME TypeInv, UNCHANGED coreVars,
           \/ \E l \in Loops : LoopStep(l)
           \/ TimePasses \/ Outside \/ UNCHANGED hmVars
    PROVE  TypeInv'
<1>. USE DEF Live
<1>0. HMTypeOK
  BY DEF TypeInv, TypeOK
<1>1. HMTypeOK'
  BY <1>0, StepKeepsTypes DEF HMNext
<1>2. /\ \A l \in Loops : Live(l)' => config # None
      /\ runtime'.enabled \/ saved'.enabled => config # None
  <2>1. ASSUME NEW l \in Loops, LoopStep(l)
        PROVE  /\ \A k \in Loops : Live(k)' => config # None
               /\ runtime'.enabled \/ saved'.enabled => config # None
    BY <1>0, <2>1, LoopFrame DEF TypeInv, Configured
  <2>2. CASE TimePasses
    BY <1>0, <2>2, TimeFrame
    DEF TypeInv, Configured, SameLoop, TimePasses, shared
  <2>3. CASE Outside
    BY <2>3
    DEF TypeInv, Configured, Outside, LinkChanges, RoutesVanish, shared
  <2>4. CASE UNCHANGED hmVars
    BY <2>4 DEF TypeInv, Configured, hmVars
  <2>. QED
    BY <2>1, <2>2, <2>3, <2>4
<1>. QED
  BY <1>1, <1>2 DEF TypeInv, TypeOK, Configured, RequestSound, WithConfig, On,
     coreVars

(* Controller::new and reconcile_on_startup; no request runs yet.          *)
LEMMA BootKeepsTypes ==
    ASSUME TypeInv, Boot
    PROVE  TypeInv'
<1>. USE HealthMonitorAssumption, ControllerAssumption
     DEF Quiet, HealthEvent, Live, Handle
<1>0. /\ HMTypeOK /\ gen \in Nat /\ loop \in [Loops -> LoopState]
      /\ machine \in Machine /\ runtime \in Runtime /\ saved \in Runtime
      /\ handle \in Handle /\ cancel \in Loops \cup {None}
      /\ config \in Configs \cup {None}
      /\ runtime.enabled \/ saved.enabled => config # None
      /\ \A l \in Loops : Live(l) => config # None
  BY DEF TypeInv, TypeOK, Configured, HMTypeOK
<1>. DEFINE Good ==
        /\ gen' \in Nat /\ loop' \in [Loops -> LoopState]
        /\ machine' \in Machine /\ runtime' \in Runtime /\ saved' \in Runtime
        /\ handle' \in Handle /\ cancel' \in Loops \cup {None}
        /\ runtime'.enabled \/ saved'.enabled => config # None
        /\ \A l \in Loops : Live(l)' => config # None
<1>1. ASSUME config # None, BootMonitor \/ NoMonitor
      PROVE  /\ gen' \in Nat /\ loop' \in [Loops -> LoopState]
             /\ cancel' \in Loops \cup {None}
  <2>1. FreshLoop(gen + 1, config) \in LoopState
    BY <1>0, <1>1, FreshLoopType
  <2>. QED
    BY <1>0, <1>1, <2>1 DEF BootMonitor, NoMonitor
<1>2. ASSUME NEW t \in Target, config # None, BootEnabled(t),
             machine' \in Machine
      PROVE  Good
  <2>1. MarkedEnabled(t.mode) \in Runtime
    BY <1>0 DEF MarkedEnabled, Runtime, Target
  <2>2. runtime' \in Runtime /\ saved' \in Runtime
    BY <1>0, <1>2, <2>1 DEF BootEnabled, Mark
  <2>. QED
    BY <1>0, <1>1, <1>2, <2>2 DEF BootEnabled
<1>3. ASSUME config # None, BootWithoutHandle, machine' \in Machine PROVE Good
  BY <1>0, <1>1, <1>3 DEF BootWithoutHandle
<1>4. ASSUME config # None, NEW mode \in Mode
      PROVE  [TargetOf(config) EXCEPT !.mode = mode] \in Target
  BY <1>0, <1>4, ConfigTypes DEF Target
<1>5. ASSUME BootDirect PROVE Good
  <2>1. machine' \in Machine
    <3>1. PICK m \in Cleanup(machine, CleanupGateway) :
             machine' \in {m, [m EXCEPT !.snap = None]}
      BY <1>5 DEF BootDirect, MayFail
    <3>2. m \in Machine
      BY <1>0, <3>1, CleanupKeepsMachine
    <3>. QED
      BY <3>1, <3>2 DEF Machine
  <2>2. [runtime EXCEPT !.health = "Idle"] \in Runtime
        /\ [runtime EXCEPT !.health = "Idle"].enabled = runtime.enabled
    BY <1>0 DEF Runtime, HealthStatus
  <2>3. /\ runtime' \in Runtime /\ saved' \in Runtime
        /\ runtime'.enabled => runtime.enabled
        /\ saved'.enabled => saved.enabled \/ runtime.enabled
    BY <1>0, <1>5, <2>2 DEF BootDirect, Mark
  <2>. QED
    BY <1>0, <1>5, <2>1, <2>3 DEF BootDirect, NoMonitor
<1>6. ASSUME BootOverlay PROVE Good
  <2>. DEFINE t == [TargetOf(config) EXCEPT !.mode = Overlay]
  <2>1. config # None /\ t \in Target /\ t.mode = Overlay
    BY <1>0, <1>4, <1>6 DEF BootOverlay, Mode, TargetOf
  <2>. HIDE DEF t
  <2>2. ASSUME BootEnabled(t), UNCHANGED machine PROVE Good
    BY <1>0, <1>2, <2>1, <2>2
  <2>3. ASSUME NEW o \in OverlayEnable(machine, t, link), machine' = o.m,
               BootEnabled(t) \/ BootWithoutHandle
        PROVE  Good
    <3>1. machine' \in Machine
      BY <1>0, <2>1, <2>3, EnableKeepsMachine DEF EnableOutcomes
    <3>. QED
      BY <1>2, <1>3, <2>1, <2>3, <3>1
  <2>. QED
    BY <1>6, <2>2, <2>3 DEF BootOverlay, t
<1>7. ASSUME BootReconfig PROVE Good
  <2>. DEFINE t == [TargetOf(config) EXCEPT !.mode = Reconfig]
  <2>1. config # None /\ t \in Target /\ t.mode = Reconfig
    BY <1>0, <1>4, <1>7 DEF BootReconfig, Mode, TargetOf
  <2>. HIDE DEF t
  <2>2. ASSUME NEW ok \in BOOLEAN, Mark(MarkedDisabled, ok), NoMonitor,
               UNCHANGED <<handle, machine>>
        PROVE  Good
    <3>1. MarkedDisabled \in Runtime
      BY DEF MarkedDisabled, Runtime, HealthStatus
    <3>2. runtime' \in Runtime /\ saved' \in Runtime
      BY <1>0, <2>2, <3>1 DEF Mark
    <3>. QED
      BY <1>0, <2>1, <2>2, <3>2 DEF NoMonitor
  <2>3. ASSUME BootWithoutHandle, UNCHANGED machine PROVE Good
    BY <1>0, <1>3, <2>1, <2>3
  <2>4. ASSUME NEW o \in ReconfigEnable(machine, t, link), machine' = o.m,
               BootEnabled(t) \/ BootWithoutHandle
        PROVE  Good
    <3>1. machine' \in Machine
      BY <1>0, <2>1, <2>4, EnableKeepsMachine
      DEF EnableOutcomes, Overlay, Reconfig
    <3>. QED
      BY <1>2, <1>3, <2>1, <2>4, <3>1
  <2>5. ASSUME NoMonitor, UNCHANGED <<handle, runtime, saved, machine>>
        PROVE  Good
    BY <1>0, <2>5 DEF NoMonitor
  <2>. QED
    BY <1>7, <2>2, <2>3, <2>4, <2>5 DEF BootReconfig, t
<1>8. Good
  BY <1>5, <1>6, <1>7 DEF Boot
<1>. QED
  BY <1>0, <1>8 DEF Boot, TypeInv, TypeOK, HMTypeOK, Configured, RequestSound,
     WithConfig, On

(* A crash leaves what the files say.                                      *)
LEMMA CrashKeepsTypes ==
    ASSUME TypeInv, Crash
    PROVE  TypeInv'
<1>0. /\ HMTypeOK /\ TypeOK /\ loop \in [Loops -> LoopState]
      /\ saved.enabled => savedConfig # None
  BY DEF TypeInv, TypeOK, HMTypeOK, Configured
<1>1. \A l \in Loops : IdleLoop(loop[l].cfg) \in LoopState
                       /\ IdleLoop(loop[l].cfg).pc = "done"
  BY <1>0, IdleLoopType DEF LoopState
<1>2. loop' \in [Loops -> LoopState] /\ \A l \in Loops : ~Live(l)'
  BY <1>1 DEF Crash, Live
<1>3. /\ client' \in [Clients -> ClientState]
      /\ \A c \in Clients : client'[c].pc = "idle" /\ client'[c].then = "reply"
  BY RestingType DEF Crash
<1>4. crashes' \in 0..MaxCrashes
  BY <1>0, ControllerAssumption DEF Crash, TypeOK
<1>5. HMTypeOK'
  BY <1>0, <1>2 DEF Crash, HMTypeOK, Handle, Quiet, HealthEvent
<1>6. TypeOK'
  BY <1>0, <1>3, <1>4, <1>5 DEF Crash, TypeOK
<1>7. Configured'
  BY <1>0, <1>2, <1>3 DEF Crash, Configured, AfterSwap, MonitorPc, On
<1>8. \A c \in Clients : RequestSound(c)'
  BY <1>3 DEF RequestSound, WithConfig, AfterSwap, MonitorPc, On
<1>. QED
  BY <1>6, <1>7, <1>8 DEF TypeInv

(* Nothing is configured and nothing runs when the service first starts.   *)
LEMMA InitHasTypes == Init => TypeInv
<1>. SUFFICES ASSUME Init PROVE TypeInv
  OBVIOUS
<1>1. PICK k \in Configs : loop = [l \in Loops |-> IdleLoop(k)]
  BY DEF Init
<1>2. loop \in [Loops -> LoopState] /\ \A l \in Loops : ~Live(l)
  BY <1>1, IdleLoopType DEF Live
<1>3. runtime \in Runtime /\ ~runtime.enabled /\ saved = runtime
  BY DEF Init, Runtime, HealthStatus
<1>4. machine \in Machine
  BY DEF Init, Machine
<1>5. /\ client \in [Clients -> ClientState]
      /\ \A c \in Clients : client[c].pc = "idle" /\ client[c].then = "reply"
  BY RestingType DEF Init
<1>6. HMTypeOK
  BY <1>2, <1>3, <1>4 DEF Init, HMTypeOK, Handle, Link, HealthEvent
<1>7. TypeOK
  BY <1>5, <1>6, ControllerAssumption DEF Init, TypeOK
<1>8. Configured
  BY <1>2, <1>3, <1>5 DEF Init, Configured, AfterSwap, MonitorPc, On
<1>9. \A c \in Clients : RequestSound(c)
  BY <1>5 DEF RequestSound, WithConfig, AfterSwap, MonitorPc, On
<1>. QED
  BY <1>7, <1>8, <1>9 DEF TypeInv

(* Every step of the service keeps types and configurations.               *)
LEMMA StepKeepsTypeInv == TypeInv /\ [Next]_vars => TypeInv'
<1>. SUFFICES ASSUME TypeInv, [Next]_vars PROVE TypeInv'
  OBVIOUS
<1>1. ASSUME NEW c \in Clients, Send(c) \/ ClientStep(c) PROVE TypeInv'
  BY <1>1, QuietStepsKeepTypes, EffectsKeepTypes, MonitorStepsKeepTypes
  DEF ClientStep
<1>2. CASE \/ \E l \in Loops : LoopStep(l) /\ UNCHANGED coreVars
           \/ (TimePasses \/ Outside) /\ UNCHANGED coreVars
           \/ UNCHANGED vars
  BY <1>2, OthersKeepTypes DEF vars
<1>. QED
  BY <1>1, <1>2, BootKeepsTypes, CrashKeepsTypes DEF Next

(* A request never works on a configuration, nor a loop or a start-up on a *)
(* bypass, that was never set, for any number of connections (dispatch,    *)
(* reconcile_on_startup).                                                  *)
THEOREM RequestsAreConfigured == Spec => []TypeInv
  BY InitHasTypes, StepKeepsTypeInv, PTL DEF Spec

(* Every variable of the service keeps its type, for any number of         *)
(* connections.                                                            *)
THEOREM ServiceTypesHold == Spec => []TypeOK
<1>1. TypeInv => TypeOK
  BY DEF TypeInv
<1>. QED
  BY <1>1, RequestsAreConfigured, PTL

-----------------------------------------------------------------------------
(* What the loops are to a request: while it is between the generation and *)
(* the signal every running loop is stale, and the one about to start is   *)
(* the only one of its generation.                                         *)
AllStale == \A l \in Loops : Live(l) => Stale(l)

LoopsSound ==
    /\ \A l \in Loops : Live(l) => loop[l].gen <= gen
    /\ OneCurrentLoop /\ NoOrphanLoop
    /\ \A c \in Clients :
          /\ client[c].pc \in {"cancel", "load", "spawn"} => AllStale
          /\ On(c, "spawn") => cancel = None /\ client[c].seen = gen
    /\ phase = "boot" =>
          /\ \A l \in Loops : ~Live(l)
          /\ \A c \in Clients : On(c, "idle")

OneConnection == \A c, d \in Clients : c = d

(* A loop never touches its own generation or cancel signal before it      *)
(* ends.                                                                   *)
LEMMA LoopKeepsSignal ==
    ASSUME HMTypeOK, NEW l \in Loops, LoopStep(l), loop'[l].pc # "done"
    PROVE  loop'[l].cancelled = loop[l].cancelled
<1>. USE DEF HMTypeOK, LoopState, Goto, At
<1>1. CASE Exit(l)
  BY <1>1, IdleLoopType DEF Exit
<1>2. CASE TickStart(l) \/ CheckActive(l) \/ DecideRebuild(l)
  BY <1>2 DEF TickStart, CheckActive, DecideRebuild
<1>3. CASE Ping(l)
  BY <1>3 DEF Ping, OnAnswer, OnSilence
<1>4. CASE ReenableCheck(l) \/ ReenableSave(l)
  BY <1>4 DEF ReenableCheck, ReenableSave, Recovered
<1>5. CASE ReenableKeep(l) \/ ReenableRevive(l)
  BY <1>5 DEF ReenableKeep, ReenableRevive
<1>8. CASE ReenableInstall(l)
  BY <1>8 DEF ReenableInstall
<1>6. CASE FallbackCheck(l) \/ FallbackDisable(l) \/ FallbackClear(l)
  BY <1>6 DEF FallbackCheck, FallbackDisable, FallbackClear
<1>7. CASE FallbackMark(l) \/ FallbackSave(l) \/ Report(l)
  BY <1>7 DEF FallbackMark, FallbackSave, Report
<1>. QED
  BY <1>1, <1>2, <1>3, <1>4, <1>5, <1>6, <1>7, <1>8 DEF LoopStep

(* So a step of the health monitor keeps what the requests rely on.        *)
LEMMA OthersKeepLoops ==
    ASSUME TypeInv, LoopsSound, UNCHANGED coreVars,
           \/ \E l \in Loops : LoopStep(l)
           \/ TimePasses \/ Outside \/ UNCHANGED hmVars
    PROVE  LoopsSound'
<1>0. HMTypeOK /\ loop \in [Loops -> LoopState]
  BY DEF TypeInv, TypeOK, HMTypeOK
<1>. DEFINE Kept(k) == /\ loop'[k].gen = loop[k].gen
                       /\ loop'[k].cancelled = loop[k].cancelled
                       /\ Live(k)
<1>1. gen' = gen /\ \A k \in Loops : Live(k)' => Kept(k)
  <2>1. ASSUME NEW l \in Loops, LoopStep(l)
        PROVE  gen' = gen /\ \A k \in Loops : Live(k)' => Kept(k)
    BY <1>0, <2>1, LoopFrame, LoopKeepsSignal DEF Live
  <2>2. CASE TimePasses
    <3>1. ASSUME NEW k \in Loops PROVE loop'[k].cancelled = loop[k].cancelled
      <4>. DEFINE cool == IF loop[k].cool > 0 THEN loop[k].cool - 1 ELSE 0
                  age == IF loop[k].age < Cooldown THEN loop[k].age + 1
                         ELSE Cooldown
      <4>1. loop'[k] = [loop[k] EXCEPT !.cool = cool, !.age = age]
        BY <2>2 DEF TimePasses
      <4>. HIDE DEF cool, age
      <4>. QED
        BY <1>0, <4>1 DEF LoopState
    <3>. QED
      BY <1>0, <2>2, <3>1, TimeFrame DEF SameLoop, Live
  <2>3. CASE Outside \/ UNCHANGED hmVars
    BY <2>3 DEF Outside, LinkChanges, RoutesVanish, hmVars, Live
  <2>. QED
    BY <2>1, <2>2, <2>3
<1>. QED
  BY <1>1 DEF LoopsSound, OneCurrentLoop, NoOrphanLoop, AllStale, Stale, Live,
     On, coreVars

(* Steps of a request that leave the loops alone.                          *)
LEMMA OrdinaryClientStep ==
    ASSUME TypeInv, NEW c \in Clients,
           \/ Send(c) \/ SaveConfig(c) \/ SwapConfig(c) \/ InspectChange(c)
           \/ CleanupPreviousMode(c) \/ DropHandle(c) \/ ReadConfig(c)
           \/ CheckHandle(c) \/ Backup(c) \/ Install(c) \/ Keep(c)
           \/ MarkEnabled(c) \/ TakeHandle(c) \/ Restore(c) \/ MarkDisabled(c)
    PROVE  /\ UNCHANGED <<gen, loop, cancel, phase>>
           /\ client'[c].pc \notin {"cancel", "load", "spawn"}
           /\ ~(phase = "boot" /\ On(c, "idle"))
           /\ client'[c].pc = "swap" => SaveConfig(c)
<1>0. client \in [Clients -> ClientState]
  BY DEF TypeInv, TypeOK
<1>. USE <1>0, RestingType DEF Step, Answer, ClientState, life, On
<1>1. CASE Send(c)
  <2>. DEFINE begin(p) == [Resting EXCEPT !.pc = p]
              update(new) == [Resting EXCEPT !.pc = "save", !.cfg = new]
  <2>1. /\ \A p \in {"read", "halt"} : begin(p).pc = p
        /\ \A new \in Configs : update(new).pc = "save"
    BY DEF Resting
  <2>2. /\ phase = "serve" /\ UNCHANGED <<gen, loop, cancel, phase>>
        /\ \/ \E p \in {"read", "halt"} :
                 client' = [client EXCEPT ![c] = begin(p)]
           \/ \E new \in Configs :
                 client' = [client EXCEPT ![c] = update(new)]
    BY <1>1 DEF Send
  <2>. HIDE DEF begin, update
  <2>. QED
    BY <2>1, <2>2
<1>2. CASE SaveConfig(c) \/ SwapConfig(c) \/ InspectChange(c)
  BY <1>2 DEF SaveConfig, SwapConfig, InspectChange
<1>3. CASE CleanupPreviousMode(c) \/ DropHandle(c) \/ ReadConfig(c)
  BY <1>3 DEF CleanupPreviousMode, DropHandle, ReadConfig
<1>4. CASE CheckHandle(c) \/ Keep(c) \/ TakeHandle(c)
  BY <1>4 DEF CheckHandle, Keep, TakeHandle
<1>5. CASE Backup(c)
  BY <1>5 DEF Backup
<1>6. CASE Install(c)
  BY <1>6 DEF Install
<1>7. CASE MarkEnabled(c) \/ Restore(c) \/ MarkDisabled(c)
  BY <1>7 DEF MarkEnabled, Restore, MarkDisabled
<1>. QED
  BY <1>1, <1>2, <1>3, <1>4, <1>5, <1>6, <1>7

(* The steps of the only connection there is.                              *)
LEMMA ClientKeepsLoops ==
    ASSUME OneConnection, TypeInv, LoopsSound, NEW c \in Clients,
           Send(c) \/ ClientStep(c)
    PROVE  LoopsSound'
<1>0. /\ gen \in Nat /\ loop \in [Loops -> LoopState]
      /\ client \in [Clients -> ClientState]
      /\ cancel \in Loops \cup {None} /\ None \notin Loops
      /\ \A l \in Loops : loop[l].gen \in Nat
      /\ \A d \in Clients : d = c
  BY HealthMonitorAssumption DEF TypeInv, TypeOK, HMTypeOK, LoopState,
     OneConnection
<1>p. {"cancel", "load", "take", "spawn"} \subseteq ClientPc
  BY DEF ClientPc, DisablePc, MonitorPc
<1>1. CASE BumpGeneration(c)
  <2>1. gen' = gen + 1 /\ UNCHANGED <<loop, cancel, phase>>
    BY <1>1 DEF BumpGeneration, life
  <2>2. \A l \in Loops : Live(l)' => Stale(l)' /\ loop'[l].gen <= gen'
    BY <1>0, <2>1 DEF LoopsSound, Live, Stale
  <2>3. client'[c].pc # "spawn" /\ phase # "boot"
    BY <1>0, <1>1, <1>p, StepTypes DEF BumpGeneration, NextPc, LoopsSound, On
  <2>. QED
    BY <1>0, <2>1, <2>2, <2>3 DEF LoopsSound, OneCurrentLoop, NoOrphanLoop,
       AllStale, Live, On
<1>2. CASE SendCancel(c)
  <2>1. /\ gen' = gen /\ phase' = phase /\ cancel' = None
        /\ loop' = Signalled
    BY <1>2 DEF SendCancel, life
  <2>2. \A l \in Loops : /\ loop'[l].pc = loop[l].pc
                         /\ loop'[l].gen = loop[l].gen
                         /\ loop[l].cancelled \/ cancel = l =>
                               loop'[l].cancelled
    BY <1>0, <2>1 DEF Signalled, LoopState
  <2>3. AllStale /\ phase # "boot"
    BY <1>2 DEF SendCancel, LoopsSound, On
  <2>4. client'[c].seen = gen
    BY <1>0, <1>2 DEF SendCancel, ClientState
  <2>. QED
    BY <1>0, <2>1, <2>2, <2>3, <2>4 DEF LoopsSound, OneCurrentLoop,
       NoOrphanLoop, AllStale, Live, Stale, On
<1>3. CASE SpawnLoop(c)
  <2>1. PICK l \in Loops :
           /\ loop' = [loop EXCEPT ![l] = FreshLoop(client[c].seen,
                                                    client[c].cfg)]
           /\ cancel' = l
    BY <1>3 DEF SpawnLoop
  <2>2. /\ gen' = gen /\ phase' = phase /\ cancel = None /\ AllStale
        /\ client[c].seen = gen /\ phase # "boot"
    BY <1>3 DEF SpawnLoop, life, LoopsSound, On
  <2>3. /\ loop'[l].pc = "wait" /\ loop'[l].gen = gen
        /\ \A k \in Loops : k # l => loop'[k] = loop[k]
    BY <1>0, <2>1, <2>2 DEF FreshLoop
  <2>4. client'[c].pc = "idle"
    BY <1>0, <1>3, AnswerTypes DEF SpawnLoop
  <2>. QED
    BY <1>0, <2>1, <2>2, <2>3, <2>4 DEF LoopsSound, OneCurrentLoop,
       NoOrphanLoop, AllStale, Live, Stale, On
<1>4. CASE ~BumpGeneration(c) /\ ~SendCancel(c) /\ ~SpawnLoop(c)
  <2>1. /\ UNCHANGED <<gen, loop, cancel, phase>>
        /\ client'[c].pc \notin {"cancel", "load", "spawn"}
        /\ ~(phase = "boot" /\ On(c, "idle"))
    BY <1>4, OrdinaryClientStep DEF ClientStep
  <2>. QED
    BY <1>0, <2>1 DEF LoopsSound, OneCurrentLoop, NoOrphanLoop, AllStale,
       Live, Stale, On
<1>. QED
  BY <1>1, <1>2, <1>3, <1>4

(* The start-up starts the first loop, if any.                             *)
LEMMA BootKeepsLoops ==
    ASSUME TypeInv, LoopsSound, Boot
    PROVE  LoopsSound'
<1>0. /\ gen \in Nat /\ loop \in [Loops -> LoopState]
      /\ phase' = "serve" /\ client' = client
      /\ \A l \in Loops : ~Live(l)
      /\ \A c \in Clients : On(c, "idle")
  BY DEF TypeInv, TypeOK, HMTypeOK, LoopsSound, Boot
<1>1. BootMonitor \/ NoMonitor
  BY DEF Boot, BootDirect, BootOverlay, BootReconfig, BootEnabled,
     BootWithoutHandle
<1>2. CASE BootMonitor
  <2>1. PICK l \in Loops :
           loop' = [loop EXCEPT ![l] = FreshLoop(gen + 1, config)]
           /\ cancel' = l /\ gen' = gen + 1
    BY <1>2 DEF BootMonitor
  <2>2. /\ loop'[l].gen = gen'
        /\ \A k \in Loops : k # l => loop'[k] = loop[k]
    BY <1>0, <2>1 DEF FreshLoop
  <2>. QED
    BY <1>0, <2>1, <2>2 DEF LoopsSound, OneCurrentLoop, NoOrphanLoop, Live,
       On
<1>3. CASE NoMonitor
  BY <1>0, <1>3 DEF NoMonitor, LoopsSound, OneCurrentLoop, NoOrphanLoop,
     AllStale, Live, On
<1>. QED
  BY <1>1, <1>2, <1>3

(* No loop survives its process.                                           *)
LEMMA CrashKeepsLoops ==
    ASSUME TypeInv, Crash
    PROVE  LoopsSound'
<1>1. \A l \in Loops : ~Live(l)'
  BY IdleLoopType DEF Crash, Live, TypeInv, TypeOK, HMTypeOK, LoopState
<1>2. \A c \in Clients : client'[c].pc = "idle"
  BY RestingType DEF Crash
<1>. QED
  BY <1>1, <1>2 DEF LoopsSound, OneCurrentLoop, NoOrphanLoop, AllStale, On

(* With one connection, generation, cancel signal and the loops fit        *)
(* together at every place of a request (start_health_monitor,             *)
(* stop_health_monitor).                                                   *)
THEOREM LoopsHold ==
    ASSUME OneConnection
    PROVE  Spec => []LoopsSound
<1>1. Init => LoopsSound
  BY IdleLoopType DEF Init, LoopsSound, OneCurrentLoop, NoOrphanLoop, AllStale,
     Live, On, Resting
<1>2. TypeInv /\ LoopsSound /\ [Next]_vars => LoopsSound'
  BY ClientKeepsLoops, OthersKeepLoops, BootKeepsLoops, CrashKeepsLoops
  DEF Next, vars
<1>. QED
  BY <1>1, <1>2, RequestsAreConfigured, PTL DEF Spec

(* With one connection, only the loop start_health_monitor started last    *)
(* passes the generation test: two loops never both drive the strategy.    *)
THEOREM OneLoopIsCurrent ==
    ASSUME OneConnection
    PROVE  Spec => []OneCurrentLoop
<1>1. LoopsSound => OneCurrentLoop
  BY DEF LoopsSound
<1>. QED
  BY <1>1, LoopsHold, PTL

(* With one connection no loop escapes: each has its cancel signal or is   *)
(* the one whose sender health_cancel holds (stop_health_monitor).         *)
THEOREM NoLoopIsOrphaned ==
    ASSUME OneConnection
    PROVE  Spec => []NoOrphanLoop
<1>1. LoopsSound => NoOrphanLoop
  BY DEF LoopsSound
<1>. QED
  BY <1>1, LoopsHold, PTL

-----------------------------------------------------------------------------
(* Between the two steps of update_config the file is ahead, never behind. *)
ConfigSound ==
    \A c \in Clients : IF On(c, "swap") THEN savedConfig = client[c].cfg
                       ELSE savedConfig = config

(* The steps of the only connection there is.                              *)
LEMMA ClientKeepsConfig ==
    ASSUME OneConnection, TypeInv, ConfigSound, NEW c \in Clients,
           Send(c) \/ ClientStep(c)
    PROVE  ConfigSound'
<1>0. /\ client \in [Clients -> ClientState]
      /\ \A d \in Clients : d = c
  BY DEF TypeInv, TypeOK, OneConnection
<1>p. "swap" \in ClientPc
  BY DEF ClientPc, UpdatePc
<1>1. CASE SaveConfig(c)
  <2>1. CASE savedConfig' = client[c].cfg /\ Step(c, "swap")
    BY <1>0, <1>p, <2>1, StepTypes DEF ConfigSound, On
  <2>2. CASE UNCHANGED savedConfig /\ Answer(c)
    BY <1>0, <1>1, <2>2, AnswerTypes DEF SaveConfig, ConfigSound, On
  <2>. QED
    BY <1>1, <2>1, <2>2 DEF SaveConfig
<1>2. CASE SwapConfig(c)
  <2>1. client'[c].pc = "inspect"
    BY <1>0, <1>2 DEF SwapConfig, ClientState
  <2>. QED
    BY <1>0, <1>2, <2>1 DEF SwapConfig, ConfigSound, On
<1>3. CASE ~SaveConfig(c) /\ ~SwapConfig(c)
  <2>1. UNCHANGED configs /\ ~On(c, "swap")
    BY <1>3 DEF ClientStep, Send, InspectChange, CleanupPreviousMode,
       DropHandle, ReadConfig, CheckHandle, Backup, Install, Keep,
       MarkEnabled, TakeHandle, Restore, MarkDisabled, BumpGeneration,
       SendCancel, SpawnLoop, On
  <2>2. client'[c].pc # "swap"
    <3>1. CASE BumpGeneration(c)
      BY <1>0, <3>1 DEF BumpGeneration, NextPc, Step, ClientState
    <3>2. CASE SendCancel(c)
      BY <1>0, <3>2 DEF SendCancel, NextPc, ClientState
    <3>3. CASE SpawnLoop(c)
      BY <1>0, <3>3, AnswerTypes DEF SpawnLoop
    <3>4. CASE ~BumpGeneration(c) /\ ~SendCancel(c) /\ ~SpawnLoop(c)
      BY <1>3, <3>4, OrdinaryClientStep DEF ClientStep
    <3>. QED
      BY <3>1, <3>2, <3>3, <3>4
  <2>. QED
    BY <1>0, <2>1, <2>2 DEF ConfigSound, On, configs
<1>. QED
  BY <1>1, <1>2, <1>3

(* With one connection, the configuration in memory between requests is    *)
(* the one a restart would read, whatever save fails and wherever the      *)
(* process dies (update_config).                                           *)
THEOREM ConfigIsDurable ==
    ASSUME OneConnection
    PROVE  Spec => []ConfigDurable
<1>1. Init => ConfigSound
  BY DEF Init, ConfigSound, On, Resting
<1>2. TypeInv /\ ConfigSound /\ [Next]_vars => ConfigSound'
  <2>. SUFFICES ASSUME TypeInv, ConfigSound, [Next]_vars PROVE ConfigSound'
    OBVIOUS
  <2>1. CASE UNCHANGED coreVars
    BY <2>1 DEF coreVars, ConfigSound, On
  <2>2. CASE Boot
    BY <2>2 DEF Boot, ConfigSound, On
  <2>3. CASE Crash
    BY <2>3 DEF Crash, ConfigSound, On, Resting
  <2>. QED
    BY <2>1, <2>2, <2>3, ClientKeepsConfig DEF Next, vars
<1>3. ConfigSound => ConfigDurable
  BY ControllerAssumption DEF ConfigSound, ConfigDurable, Settled, On
<1>. QED
  BY <1>1, <1>2, <1>3, RequestsAreConfigured, PTL DEF Spec
=============================================================================

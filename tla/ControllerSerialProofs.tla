----------------------- MODULE ControllerSerialProofs -----------------------
(***************************************************************************)
(* Theorems about the service between requests, when no request overlaps a *)
(* tick or another request: what the user is shown, what the file says,    *)
(* that an enabled bypass is watched, and, as long as nothing fails, that  *)
(* the machine is exactly what the handle says.  Adapters, gateways,       *)
(* configurations, loops and the number of requests are unbounded.         *)
(***************************************************************************)
EXTENDS ControllerProofs

(* One connection, whose requests find the service at rest.                *)
Serial == OneConnection /\ ~Interleaved

Current(l) == Live(l) /\ ~Stale(l)

(* A request runs between two ticks, a tick between two requests, and only *)
(* the current loop, which has no cancel signal, ticks.                    *)
SerialSound(c) ==
    /\ ~On(c, "idle") => phase = "serve" /\ \A l \in Loops : ~MidTick(l)
    /\ \A l \in Loops : MidTick(l) => ~Stale(l)
    /\ \A l \in Loops : Live(l) /\ loop[l].cancelled => Stale(l)

SerialInv == \A c \in Clients : SerialSound(c)

(* What the invariants below rest on.                                      *)
ServiceInv == TypeInv /\ LoopsSound /\ SerialInv

-----------------------------------------------------------------------------
(* Every loop as it was, but for its counters.                             *)
LoopsKept ==
    /\ gen' = gen
    /\ \A k \in Loops : SameLoop(k) /\ loop'[k].cancelled = loop[k].cancelled

(* What time and the network do to the service.                            *)
LEMMA EnvironmentFrame ==
    ASSUME TypeInv, TimePasses \/ Outside \/ UNCHANGED hmVars
    PROVE  /\ LoopsKept
           /\ UNCHANGED <<handle, runtime, saved>>
           /\ "vanish" \notin Faults => machine' = machine
           /\ link' = link \/ link' \in Links
<1>0. HMTypeOK /\ loop \in [Loops -> LoopState]
  BY DEF TypeInv, TypeOK, HMTypeOK
<1>1. CASE TimePasses
  <2>1. ASSUME NEW k \in Loops PROVE loop'[k].cancelled = loop[k].cancelled
    <3>. DEFINE cool == IF loop[k].cool > 0 THEN loop[k].cool - 1 ELSE 0
                age == IF loop[k].age < Cooldown THEN loop[k].age + 1
                       ELSE Cooldown
    <3>1. loop'[k] = [loop[k] EXCEPT !.cool = cool, !.age = age]
      BY <1>1 DEF TimePasses
    <3>. HIDE DEF cool, age
    <3>. QED
      BY <1>0, <3>1 DEF LoopState
  <2>. QED
    BY <1>0, <1>1, <2>1, TimeFrame DEF LoopsKept, TimePasses, shared
<1>2. CASE Outside \/ UNCHANGED hmVars
  BY <1>2 DEF Outside, LinkChanges, RoutesVanish, hmVars, shared, LoopsKept,
     SameLoop
<1>. QED
  BY <1>1, <1>2

(* A step of a loop: it exits, or it is the current loop, no other loop is *)
(* in a tick and no request runs.                                          *)
LEMMA TickFrame ==
    ASSUME Serial, ServiceInv, NEW l \in Loops, MayTick, LoopStep(l)
    PROVE  /\ gen' = gen /\ phase = "serve"
           /\ \A c \in Clients : On(c, "idle")
           /\ \A k \in Loops : k # l => loop'[k] = loop[k]
           /\ \/ /\ Exit(l) /\ At(l, "wait") /\ Stale(l) /\ ~Live(l)'
                 /\ UNCHANGED shared
              \/ /\ ~Exit(l)
                 /\ Current(l) /\ Current(l)' /\ loop'[l].cfg = loop[l].cfg
                 /\ \A k \in Loops : /\ k # l => ~MidTick(k) /\ ~Current(k)
                                     /\ Current(k) => k = l
<1>0. /\ HMTypeOK /\ loop \in [Loops -> LoopState]
      /\ \A c \in Clients : On(c, "idle")
  BY DEF ServiceInv, TypeInv, TypeOK, HMTypeOK, MayTick, Serial
<1>1. /\ Live(l) /\ gen' = gen
      /\ \A k \in Loops : k # l => loop'[k] = loop[k]
      /\ loop'[l].cfg = loop[l].cfg
      /\ loop'[l].gen = IF loop'[l].pc = "done" THEN 0 ELSE loop[l].gen
  BY <1>0, LoopFrame
<1>2. phase = "serve"
  BY <1>1, ControllerAssumption DEF ServiceInv, LoopsSound, TypeInv, TypeOK
<1>3. \A k \in Loops : MidTick(k) => ~Stale(k)
  BY ControllerAssumption DEF ServiceInv, SerialInv, SerialSound
<1>4. CASE Exit(l)
  <2>1. loop'[l].pc = "done"
    BY <1>0, <1>4, IdleLoopType DEF Exit, LoopState
  <2>2. Stale(l)
    BY <1>1, <1>4, ControllerAssumption
    DEF Exit, ServiceInv, SerialInv, SerialSound
  <2>. QED
    BY <1>0, <1>1, <1>2, <1>4, <2>1, <2>2 DEF Exit, Live
<1>5. CASE ~Exit(l)
  <2>1. ~Stale(l)
    <3>1. CASE At(l, "wait")
      BY <1>5, <3>1 DEF LoopStep, TickStart, Ping, CheckActive, DecideRebuild,
         ReenableCheck, ReenableInstall, ReenableKeep, ReenableRevive,
         ReenableSave, FallbackCheck, FallbackDisable, FallbackClear,
         FallbackMark, FallbackSave, Report, At
    <3>2. CASE ~At(l, "wait")
      BY <1>1, <1>3, <3>2 DEF MidTick, At, Live
    <3>. QED
      BY <3>1, <3>2
  <2>2. loop'[l].pc # "done"
    <3>. USE <1>0, <1>5 DEF LoopState, Goto
    <3>1. CASE TickStart(l) \/ CheckActive(l) \/ DecideRebuild(l)
      BY <3>1 DEF TickStart, CheckActive, DecideRebuild
    <3>2. CASE Ping(l)
      BY <3>2 DEF Ping, OnAnswer, OnSilence
    <3>3. CASE ReenableCheck(l) \/ ReenableSave(l)
      BY <3>3 DEF ReenableCheck, ReenableSave, Recovered
    <3>4. CASE ReenableKeep(l) \/ ReenableRevive(l)
      BY <3>4 DEF ReenableKeep, ReenableRevive
    <3>7. CASE ReenableInstall(l)
      BY <3>7 DEF ReenableInstall
    <3>5. CASE FallbackCheck(l) \/ FallbackDisable(l) \/ FallbackClear(l)
      BY <3>5 DEF FallbackCheck, FallbackDisable, FallbackClear
    <3>6. CASE FallbackMark(l) \/ FallbackSave(l) \/ Report(l)
      BY <3>6 DEF FallbackMark, FallbackSave, Report
    <3>. QED
      BY <1>5, <3>1, <3>2, <3>3, <3>4, <3>5, <3>6, <3>7 DEF LoopStep
  <2>3. Current(l) /\ Current(l)'
    BY <1>1, <2>1, <2>2 DEF Current, Live, Stale
  <2>4. \A k \in Loops : Current(k) => k = l
    BY <2>3 DEF ServiceInv, LoopsSound, OneCurrentLoop, Current
  <2>5. \A k \in Loops : MidTick(k) => Current(k)
    BY <1>3 DEF MidTick, Current, Live
  <2>. QED
    BY <1>0, <1>1, <1>2, <1>5, <2>3, <2>4, <2>5
<1>. QED
  BY <1>4, <1>5

(* A step of the request: no loop is in a tick.                            *)
LEMMA RequestFrame ==
    ASSUME Serial, ServiceInv, NEW c \in Clients, Send(c) \/ ClientStep(c)
    PROVE  /\ phase = "serve" /\ phase' = phase
           /\ \A l \in Loops : ~MidTick(l)
           /\ \A d \in Clients : d = c
           /\ client \in [Clients -> ClientState] /\ client[c] \in ClientState
           /\ runtime \in Runtime /\ saved \in Runtime
           /\ handle \in Handle /\ machine \in Machine
           /\ link' = link
           /\ Send(c) => On(c, "idle")
           /\ ClientStep(c) => ~On(c, "idle")
<1>0. /\ client \in [Clients -> ClientState] /\ client[c] \in ClientState
      /\ runtime \in Runtime /\ saved \in Runtime
      /\ handle \in Handle /\ machine \in Machine
      /\ \A d \in Clients : d = c
  BY DEF ServiceInv, TypeInv, TypeOK, HMTypeOK, Serial, OneConnection
<1>1. ClientStep(c) => ~On(c, "idle") /\ phase' = phase /\ link' = link
  BY DEF ClientStep, SaveConfig, SwapConfig, InspectChange,
     CleanupPreviousMode, DropHandle, ReadConfig, CheckHandle, Backup,
     Install, Keep, MarkEnabled, TakeHandle, Restore, MarkDisabled,
     BumpGeneration, SendCancel, SpawnLoop, On, life
<1>2. Send(c) => Settled /\ On(c, "idle") /\ phase' = phase /\ link' = link
  BY DEF Send, Serial, life
<1>3. ~On(c, "idle") => phase = "serve" /\ \A l \in Loops : ~MidTick(l)
  BY DEF ServiceInv, SerialInv, SerialSound
<1>. QED
  BY <1>0, <1>1, <1>2, <1>3 DEF Settled

(* The requests and the ticks keep to themselves.                          *)
LEMMA RequestKeepsSerial ==
    ASSUME Serial, ServiceInv, NEW c \in Clients, Send(c) \/ ClientStep(c)
    PROVE  SerialInv'
<1>0. /\ phase = "serve" /\ phase' = phase
      /\ \A l \in Loops : ~MidTick(l)
      /\ \A d \in Clients : d = c
      /\ client[c] \in ClientState
  BY RequestFrame
<1>1. /\ loop \in [Loops -> LoopState] /\ gen \in Nat
      /\ \A l \in Loops : loop[l].gen \in Nat
      /\ \A l \in Loops : Live(l) => loop[l].gen <= gen
      /\ \A l \in Loops : Live(l) /\ loop[l].cancelled => Stale(l)
  BY DEF ServiceInv, TypeInv, TypeOK, HMTypeOK, LoopsSound, SerialInv,
     SerialSound, LoopState
<1>2. CASE BumpGeneration(c)
  <2>1. gen' = gen + 1 /\ loop' = loop
    BY <1>2 DEF BumpGeneration
  <2>2. \A l \in Loops : Live(l)' => Stale(l)'
    BY <1>1, <2>1 DEF Live, Stale
  <2>3. \A l \in Loops : ~MidTick(l)'
    BY <1>0, <2>1 DEF MidTick
  <2>. QED
    BY <1>0, <2>2, <2>3 DEF SerialInv, SerialSound
<1>3. CASE SendCancel(c)
  <2>1. AllStale /\ gen' = gen
    BY <1>3 DEF SendCancel, ServiceInv, LoopsSound
  <2>2. \A l \in Loops : loop'[l].pc = loop[l].pc /\ loop'[l].gen = loop[l].gen
    BY <1>1, <1>3 DEF SendCancel, Signalled, LoopState
  <2>. QED
    BY <1>0, <2>1, <2>2
    DEF SerialInv, SerialSound, AllStale, Live, Stale, MidTick
<1>4. CASE SpawnLoop(c)
  <2>1. PICK l \in Loops :
           loop' = [loop EXCEPT ![l] = FreshLoop(client[c].seen,
                                                 client[c].cfg)]
    BY <1>4 DEF SpawnLoop
  <2>2. /\ loop'[l].pc = "wait" /\ ~loop'[l].cancelled
        /\ \A k \in Loops : k # l => loop'[k] = loop[k]
    BY <1>1, <2>1 DEF FreshLoop
  <2>3. gen' = gen
    BY <1>4 DEF SpawnLoop
  <2>. QED
    BY <1>0, <1>1, <2>2, <2>3
    DEF SerialInv, SerialSound, Live, Stale, MidTick
<1>5. CASE ~BumpGeneration(c) /\ ~SendCancel(c) /\ ~SpawnLoop(c)
  <2>1. UNCHANGED <<gen, loop>>
    BY <1>5, OrdinaryClientStep DEF ClientStep, ServiceInv
  <2>. QED
    BY <1>0, <1>1, <2>1 DEF SerialInv, SerialSound, Live, Stale, MidTick
<1>. QED
  BY <1>2, <1>3, <1>4, <1>5

(* What every step of the service keeps.                                   *)
LEMMA StepKeepsService ==
    ASSUME Serial, ServiceInv, [Next]_vars
    PROVE  ServiceInv'
<1>0. /\ loop \in [Loops -> LoopState] /\ gen \in Nat /\ HMTypeOK
      /\ TypeInv /\ LoopsSound /\ SerialInv
  BY DEF ServiceInv, TypeInv, TypeOK, HMTypeOK
<1>1. TypeInv' /\ LoopsSound'
  BY <1>0, StepKeepsTypeInv, ClientKeepsLoops, OthersKeepLoops,
     BootKeepsLoops, CrashKeepsLoops DEF Serial, Next, vars
<1>2. ASSUME NEW l \in Loops, MayTick, LoopStep(l), UNCHANGED coreVars
      PROVE  SerialInv'
  <2>0. /\ gen' = gen /\ phase' = phase /\ client' = client
        /\ \A c \in Clients : On(c, "idle")
        /\ \A k \in Loops : k # l => loop'[k] = loop[k]
    BY <1>2, TickFrame DEF coreVars
  <2>1. CASE Exit(l)
    <3>1. ~Live(l)'
      BY <1>2, <2>1, TickFrame
    <3>. QED
      BY <1>0, <2>0, <3>1
      DEF SerialInv, SerialSound, On, Live, Stale, MidTick
  <2>2. CASE ~Exit(l)
    <3>1. Current(l)'
      BY <1>2, <2>2, TickFrame
    <3>2. ~loop'[l].cancelled
      BY <1>0, <1>2, <2>2, <3>1, TickFrame, LoopKeepsSignal,
         ControllerAssumption
      DEF SerialInv, SerialSound, Current, Live
    <3>. QED
      BY <1>0, <2>0, <3>1, <3>2
      DEF SerialInv, SerialSound, On, Live, Stale, MidTick, Current
  <2>. QED
    BY <2>1, <2>2
<1>3. ASSUME TimePasses \/ Outside \/ UNCHANGED hmVars, UNCHANGED coreVars
      PROVE  SerialInv'
  <2>1. LoopsKept
    BY <1>0, <1>3, EnvironmentFrame
  <2>. QED
    BY <1>0, <1>3, <2>1 DEF LoopsKept, SameLoop, SerialInv, SerialSound, On,
       Live, Stale, MidTick, coreVars
<1>4. ASSUME Boot PROVE SerialInv'
  <2>0. /\ phase' = "serve" /\ client' = client
        /\ \A l \in Loops : ~Live(l)
        /\ \A c \in Clients : On(c, "idle")
    BY <1>0, <1>4 DEF LoopsSound, Boot
  <2>1. BootMonitor \/ NoMonitor
    BY <1>4 DEF Boot, BootDirect, BootOverlay, BootReconfig, BootEnabled,
       BootWithoutHandle
  <2>2. CASE BootMonitor
    <3>1. PICK l \in Loops :
             loop' = [loop EXCEPT ![l] = FreshLoop(gen + 1, config)]
      BY <2>2 DEF BootMonitor
    <3>2. /\ loop'[l].pc = "wait" /\ ~loop'[l].cancelled
          /\ \A k \in Loops : k # l => loop'[k] = loop[k]
      BY <1>0, <3>1 DEF FreshLoop
    <3>. QED
      BY <2>0, <3>2 DEF SerialInv, SerialSound, On, Live, Stale, MidTick
  <2>3. CASE NoMonitor
    BY <2>0, <2>3
    DEF NoMonitor, SerialInv, SerialSound, On, Live, Stale, MidTick
  <2>. QED
    BY <2>1, <2>2, <2>3
<1>5. ASSUME Crash PROVE SerialInv'
  <2>1. \A l \in Loops : loop'[l].pc = "done"
    BY <1>0, <1>5, IdleLoopType DEF Crash, LoopState
  <2>2. \A c \in Clients : client'[c].pc = "idle"
    BY <1>5, RestingType DEF Crash
  <2>. QED
    BY <2>1, <2>2 DEF SerialInv, SerialSound, On, Live, MidTick
<1>6. SerialInv'
  BY <1>2, <1>3, <1>4, <1>5, RequestKeepsSerial DEF Next, vars
<1>. QED
  BY <1>1, <1>6 DEF ServiceInv

(* Requests and ticks never overlap, and no loop ticks that is retired, if *)
(* requests find the service at rest.                                      *)
THEOREM TicksKeepApart ==
    ASSUME Serial
    PROVE  Spec => []ServiceInv
<1>1. Init => ServiceInv
  <2>. SUFFICES ASSUME Init PROVE ServiceInv
    OBVIOUS
  <2>1. TypeInv /\ loop \in [Loops -> LoopState]
    BY InitHasTypes DEF TypeInv, TypeOK, HMTypeOK
  <2>2. /\ \A l \in Loops : loop[l].pc = "done"
        /\ \A c \in Clients : client[c].pc = "idle"
    BY IdleLoopType, RestingType DEF Init
  <2>3. phase = "boot" /\ cancel = None
    BY DEF Init
  <2>. QED
    BY <2>1, <2>2, <2>3 DEF ServiceInv, SerialInv, SerialSound, LoopsSound,
       OneCurrentLoop, NoOrphanLoop, AllStale, Live, MidTick, On
<1>2. ServiceInv /\ [Next]_vars => ServiceInv'
  BY StepKeepsService
<1>. QED
  BY <1>1, <1>2, PTL DEF Spec

-----------------------------------------------------------------------------
(* What a request has read so far, kept by most of its steps.              *)
Carried(c) ==
    /\ client'[c].cfg = client[c].cfg /\ client'[c].old = client[c].old
    /\ client'[c].held = client[c].held /\ client'[c].then = client[c].then

Ended(c) == client'[c].pc = "idle" /\ client'[c].then = "reply"

(* The steps of a request, without what some of them do to the machine.    *)
Place(c, p, q) == client[c].pc = p /\ client'[c].pc = q
RestKept == UNCHANGED <<gen, loop, handle, runtime, saved, config>>

(* Each step of a request: from where to where it goes, what it has read   *)
(* and what it leaves as it was.                                           *)
LEMMA RequestMoves ==
    ASSUME client \in [Clients -> ClientState],
           loop \in [Loops -> LoopState], NEW c \in Clients
    PROVE
    /\ Send(c) => /\ client'[c].pc \in {"read", "halt", "save"}
                  /\ client'[c].then = "reply"
                  /\ RestKept /\ machine' = machine
    /\ SaveConfig(c) => /\ RestKept /\ machine' = machine
                        /\ \/ Place(c, "save", "swap") /\ Carried(c)
                           \/ "save" \in Faults /\ Ended(c) /\ On(c, "save")
    /\ SwapConfig(c) =>
          /\ Place(c, "swap", "inspect")
          /\ client'[c].cfg = client[c].cfg /\ client'[c].old = config
          /\ client'[c].then = client[c].then /\ config' = client[c].cfg
          /\ UNCHANGED <<gen, loop, handle, runtime, saved, machine>>
    /\ InspectChange(c) =>
          /\ On(c, "inspect") /\ RestKept /\ machine' = machine
          /\ \/ ~Enabled /\ Ended(c)
             \/ /\ Enabled /\ Carried(c)
                /\ ~SamePlace(client[c].old, client[c].cfg)
                /\ client'[c].pc = "cleanup"
             \/ /\ Enabled /\ Carried(c)
                /\ SamePlace(client[c].old, client[c].cfg)
                /\ client'[c].pc = "read"
             \/ /\ Enabled /\ Carried(c)
                /\ SameTarget(client[c].old, client[c].cfg)
                /\ client'[c].pc = "rehalt"
    /\ CleanupPreviousMode(c) =>
          Place(c, "cleanup", "drop") /\ Carried(c) /\ RestKept
    /\ DropHandle(c) =>
          /\ Place(c, "drop", "read") /\ Carried(c) /\ handle' = None
          /\ UNCHANGED <<gen, loop, runtime, saved, machine, config>>
    /\ ReadConfig(c) =>
          /\ On(c, "read") /\ RestKept /\ machine' = machine
          /\ \/ config = None /\ Ended(c)
             \/ /\ client'[c].pc = "check" /\ client'[c].cfg = config
                /\ client'[c].then = client[c].then
    /\ CheckHandle(c) =>
          /\ On(c, "check") /\ RestKept /\ machine' = machine
          /\ client'[c].pc = IF handle # None THEN "halt" ELSE "backup"
          /\ client'[c].cfg = client[c].cfg
    /\ Backup(c) =>
          /\ On(c, "backup") /\ RestKept
          /\ \/ client'[c].pc = "install" /\ Carried(c)
             \/ Ended(c) /\ {"save", "query"} \cap Faults # {}
    /\ Install(c) =>
          /\ On(c, "install") /\ RestKept
          /\ (client'[c].pc = "keep" /\ Carried(c)) \/ Ended(c)
    /\ Keep(c) =>
          /\ Place(c, "keep", "mark") /\ Carried(c)
          /\ handle' = TargetOf(client[c].cfg)
          /\ UNCHANGED <<gen, loop, runtime, saved, machine, config>>
    /\ MarkEnabled(c) =>
          /\ On(c, "mark")
          /\ \/ client'[c].pc = "rehalt" /\ Carried(c) /\ saved' = runtime'
             \/ Ended(c) /\ "save" \in Faults
          /\ runtime' = MarkedEnabled(client[c].cfg.mode)
          /\ UNCHANGED <<gen, loop, handle, machine, config>>
    /\ TakeHandle(c) =>
          /\ On(c, "take") /\ handle' = None
          /\ client'[c].pc = IF handle # None THEN "restore" ELSE "unmark"
          /\ client'[c].held = handle
          /\ client'[c].cfg = client[c].cfg /\ client'[c].then = client[c].then
          /\ UNCHANGED <<gen, loop, runtime, saved, machine, config>>
    /\ Restore(c) =>
          /\ On(c, "restore") /\ RestKept
          /\ (client'[c].pc = "unmark" /\ Carried(c)) \/ Ended(c)
    /\ MarkDisabled(c) =>
          /\ On(c, "unmark")
          /\ \/ Ended(c)
             \/ /\ client'[c].pc = "backup" /\ Carried(c)
                /\ client[c].then = "backup"
          /\ runtime' = MarkedDisabled
          /\ saved' = runtime' \/ "save" \in Faults
          /\ UNCHANGED <<gen, loop, handle, machine, config>>
    /\ BumpGeneration(c) =>
          /\ Place(c, "halt", "cancel") \/ Place(c, "rehalt", "load")
          /\ Carried(c) /\ gen' = gen + 1
          /\ UNCHANGED <<loop, shared, config>>
    /\ SendCancel(c) =>
          /\ Place(c, "cancel", "take") \/ Place(c, "load", "spawn")
          /\ Carried(c)
          /\ \A l \in Loops : SameLoop(l)
          /\ UNCHANGED <<gen, shared, config>>
    /\ SpawnLoop(c) =>
          /\ On(c, "spawn") /\ Ended(c)
          /\ \E l \in Loops :
                /\ ~Live(l)
                /\ loop'[l].pc = "wait" /\ loop'[l].gen = client[c].seen
                /\ loop'[l].cfg = client[c].cfg /\ loop'[l].st = "Healthy"
                /\ \A k \in Loops : k # l => loop'[k] = loop[k]
          /\ UNCHANGED <<gen, shared, config>>
<1>. USE DEF RestKept, shared, configs, On, Place
<1>0. client[c] \in ClientState
  OBVIOUS
<1>p. ClientPc = {"idle", "save", "swap", "inspect", "cleanup", "drop", "read",
                  "check", "backup", "install", "keep", "mark", "halt",
                  "cancel", "take", "restore", "unmark", "rehalt", "load",
                  "spawn"}
  BY DEF ClientPc, UpdatePc, EnablePc, DisablePc, MonitorPc
<1>e. Answer(c) => Ended(c)
  BY AnswerTypes DEF Ended
<1>s. \A p \in ClientPc : Step(c, p) => client'[c].pc = p /\ Carried(c)
  BY StepTypes DEF Carried
<1>1. ASSUME Send(c)
      PROVE  /\ client'[c].pc \in {"read", "halt", "save"}
             /\ client'[c].then = "reply" /\ RestKept /\ machine' = machine
  <2>. DEFINE begin(p) == [Resting EXCEPT !.pc = p]
              update(new) == [Resting EXCEPT !.pc = "save", !.cfg = new]
  <2>1. /\ \A p \in {"read", "halt"} : /\ begin(p).pc = p
                                       /\ begin(p).then = "reply"
        /\ \A new \in Configs : /\ update(new).pc = "save"
                                /\ update(new).then = "reply"
    BY DEF Resting
  <2>2. /\ RestKept /\ machine' = machine
        /\ \/ \E p \in {"read", "halt"} :
                 client' = [client EXCEPT ![c] = begin(p)]
           \/ \E new \in Configs :
                 client' = [client EXCEPT ![c] = update(new)]
    BY <1>1 DEF Send
  <2>. HIDE DEF begin, update
  <2>. QED
    BY <2>1, <2>2
<1>2. ASSUME SaveConfig(c)
      PROVE  /\ RestKept /\ machine' = machine
             /\ \/ Place(c, "save", "swap") /\ Carried(c)
                \/ "save" \in Faults /\ Ended(c) /\ On(c, "save")
  BY <1>2, <1>p, <1>e, <1>s DEF SaveConfig
<1>3. ASSUME SwapConfig(c)
      PROVE  /\ Place(c, "swap", "inspect")
             /\ client'[c].cfg = client[c].cfg /\ client'[c].old = config
             /\ client'[c].then = client[c].then /\ config' = client[c].cfg
             /\ UNCHANGED <<gen, loop, handle, runtime, saved, machine>>
  BY <1>0, <1>3 DEF SwapConfig, ClientState
<1>4. ASSUME InspectChange(c)
      PROVE  /\ On(c, "inspect") /\ RestKept /\ machine' = machine
             /\ \/ ~Enabled /\ Ended(c)
                \/ /\ Enabled /\ Carried(c)
                   /\ ~SamePlace(client[c].old, client[c].cfg)
                   /\ client'[c].pc = "cleanup"
                \/ /\ Enabled /\ Carried(c)
                   /\ SamePlace(client[c].old, client[c].cfg)
                   /\ client'[c].pc = "read"
                \/ /\ Enabled /\ Carried(c)
                   /\ SameTarget(client[c].old, client[c].cfg)
                   /\ client'[c].pc = "rehalt"
  BY <1>4, <1>p, <1>e, <1>s DEF InspectChange
<1>5. CleanupPreviousMode(c) =>
         Place(c, "cleanup", "drop") /\ Carried(c) /\ RestKept
  BY <1>p, <1>s DEF CleanupPreviousMode
<1>6. DropHandle(c) =>
         /\ Place(c, "drop", "read") /\ Carried(c) /\ handle' = None
         /\ UNCHANGED <<gen, loop, runtime, saved, machine, config>>
  BY <1>p, <1>s DEF DropHandle
<1>7. ReadConfig(c) =>
         /\ On(c, "read") /\ RestKept /\ machine' = machine
         /\ \/ config = None /\ Ended(c)
            \/ /\ client'[c].pc = "check" /\ client'[c].cfg = config
               /\ client'[c].then = client[c].then
  BY <1>0, <1>e DEF ReadConfig, ClientState
<1>8. CheckHandle(c) =>
         /\ On(c, "check") /\ RestKept /\ machine' = machine
         /\ client'[c].pc = IF handle # None THEN "halt" ELSE "backup"
         /\ client'[c].cfg = client[c].cfg
  BY <1>0 DEF CheckHandle, ClientState
<1>9. Backup(c) =>
         /\ On(c, "backup") /\ RestKept
         /\ \/ client'[c].pc = "install" /\ Carried(c)
            \/ Ended(c) /\ {"save", "query"} \cap Faults # {}
  BY <1>p, <1>e, <1>s DEF Backup
<1>10. Install(c) =>
          /\ On(c, "install") /\ RestKept
          /\ (client'[c].pc = "keep" /\ Carried(c)) \/ Ended(c)
  BY <1>p, <1>e, <1>s DEF Install
<1>11. Keep(c) =>
          /\ Place(c, "keep", "mark") /\ Carried(c)
          /\ handle' = TargetOf(client[c].cfg)
          /\ UNCHANGED <<gen, loop, runtime, saved, machine, config>>
  BY <1>p, <1>s DEF Keep
<1>12. MarkEnabled(c) =>
          /\ On(c, "mark")
          /\ \/ client'[c].pc = "rehalt" /\ Carried(c) /\ saved' = runtime'
             \/ Ended(c) /\ "save" \in Faults
          /\ runtime' = MarkedEnabled(client[c].cfg.mode)
          /\ UNCHANGED <<gen, loop, handle, machine, config>>
  BY <1>p, <1>e, <1>s DEF MarkEnabled, Mark
<1>13. TakeHandle(c) =>
          /\ On(c, "take") /\ handle' = None
          /\ client'[c].pc = IF handle # None THEN "restore" ELSE "unmark"
          /\ client'[c].held = handle
          /\ client'[c].cfg = client[c].cfg /\ client'[c].then = client[c].then
          /\ UNCHANGED <<gen, loop, runtime, saved, machine, config>>
  BY <1>0 DEF TakeHandle, ClientState
<1>14. Restore(c) =>
          /\ On(c, "restore") /\ RestKept
          /\ (client'[c].pc = "unmark" /\ Carried(c)) \/ Ended(c)
  BY <1>p, <1>e, <1>s DEF Restore
<1>15. MarkDisabled(c) =>
          /\ On(c, "unmark")
          /\ \/ Ended(c)
             \/ /\ client'[c].pc = "backup" /\ Carried(c)
                /\ client[c].then = "backup"
          /\ runtime' = MarkedDisabled
          /\ saved' = runtime' \/ "save" \in Faults
          /\ UNCHANGED <<gen, loop, handle, machine, config>>
  BY <1>p, <1>e, <1>s DEF MarkDisabled, Mark
<1>16. BumpGeneration(c) =>
          /\ Place(c, "halt", "cancel") \/ Place(c, "rehalt", "load")
          /\ Carried(c) /\ gen' = gen + 1
          /\ UNCHANGED <<loop, shared, config>>
  BY <1>p, <1>s DEF BumpGeneration, NextPc
<1>17. SendCancel(c) =>
          /\ Place(c, "cancel", "take") \/ Place(c, "load", "spawn")
          /\ Carried(c)
          /\ \A l \in Loops : SameLoop(l)
          /\ UNCHANGED <<gen, shared, config>>
  BY <1>0 DEF SendCancel, NextPc, Signalled, SameLoop, Carried, ClientState,
     LoopState
<1>18. ASSUME SpawnLoop(c)
       PROVE  /\ On(c, "spawn") /\ Ended(c)
              /\ \E l \in Loops :
                    /\ ~Live(l)
                    /\ loop'[l].pc = "wait" /\ loop'[l].gen = client[c].seen
                    /\ loop'[l].cfg = client[c].cfg /\ loop'[l].st = "Healthy"
                    /\ \A k \in Loops : k # l => loop'[k] = loop[k]
              /\ UNCHANGED <<gen, shared, config>>
  <2>1. PICK l \in Loops :
           /\ ~Live(l)
           /\ loop' = [loop EXCEPT ![l] = FreshLoop(client[c].seen,
                                                    client[c].cfg)]
    BY <1>18 DEF SpawnLoop
  <2>2. /\ loop'[l].pc = "wait" /\ loop'[l].gen = client[c].seen
        /\ loop'[l].cfg = client[c].cfg /\ loop'[l].st = "Healthy"
        /\ \A k \in Loops : k # l => loop'[k] = loop[k]
    BY <2>1 DEF FreshLoop
  <2>. QED
    BY <1>18, <1>e, <2>1, <2>2 DEF SpawnLoop
<1>. QED
  BY <1>1, <1>2, <1>3, <1>4, <1>5, <1>6, <1>7, <1>8, <1>9, <1>10, <1>11,
     <1>12, <1>13, <1>14, <1>15, <1>16, <1>17, <1>18

-----------------------------------------------------------------------------
(* The health shown while the bypass is off is Idle as soon as no loop is  *)
(* current, but for the middle of a disable; and only an enabled bypass,   *)
(* or one about to be marked as such, has a handle.                        *)
IdleSound(c) ==
    /\ client[c].pc \in {"restore", "rehalt", "load", "spawn"} =>
          runtime.enabled
    /\ client[c].pc \in {"restore", "unmark"} => handle = None
    /\ handle # None =>
          runtime.enabled \/ On(c, "mark") \/ \E l \in Loops : At(l, "revive")
    /\ \A l \in Loops : At(l, "fbmark") => handle = None
    /\ phase = "boot" => handle = None
    /\ phase = "serve" /\ AllStale /\ ~runtime.enabled =>
          \/ runtime.health = "Idle"
          \/ client[c].pc \in {"cancel", "take", "unmark"}

IdleInv == \A c \in Clients : IdleSound(c)

(* What start-up and the requests write.                                   *)
LEMMA MarkedValues ==
    /\ \A mode : runtime \in Runtime => MarkedEnabled(mode).enabled = TRUE
    /\ MarkedDisabled.enabled = FALSE /\ MarkedDisabled.health = "Idle"
    /\ MarkedDisabled.mode = None
  BY DEF MarkedEnabled, MarkedDisabled, Runtime

(* The steps of a request.                                                 *)
LEMMA RequestKeepsIdle ==
    ASSUME Serial, ServiceInv, NEW c \in Clients, IdleSound(c),
           Send(c) \/ ClientStep(c)
    PROVE  IdleSound(c)'
<1>0. /\ phase = "serve" /\ phase' = phase
      /\ \A l \in Loops : ~MidTick(l)
      /\ client \in [Clients -> ClientState] /\ runtime \in Runtime
      /\ loop \in [Loops -> LoopState]
      /\ Send(c) => On(c, "idle")
  BY RequestFrame DEF ServiceInv, TypeInv, TypeOK, HMTypeOK
<1>l. \A l \in Loops : ~At(l, "revive") /\ ~At(l, "fbmark")
  BY <1>0 DEF MidTick, At
<1>i. IdleSound(c)
  OBVIOUS
<1>. USE <1>0, <1>l, <1>i, RequestMoves
     DEF IdleSound, AllStale, Live, Stale, At, On, Place, RestKept, Ended
<1>1. CASE Send(c) \/ SaveConfig(c) \/ SwapConfig(c)
  BY <1>1
<1>2. CASE InspectChange(c)
  BY <1>2 DEF Enabled
<1>3. CASE CleanupPreviousMode(c) \/ Backup(c) \/ Install(c)
  BY <1>3
<1>4. CASE DropHandle(c) \/ TakeHandle(c) \/ Keep(c)
  BY <1>4
<1>5. CASE ReadConfig(c) \/ CheckHandle(c)
  BY <1>5
<1>6. CASE MarkEnabled(c)
  <2>1. /\ runtime'.enabled = TRUE /\ UNCHANGED <<gen, loop, handle>>
        /\ client'[c].pc \in {"rehalt", "idle"}
    BY <1>6, MarkedValues
  <2>. QED
    BY <2>1
<1>10. CASE Restore(c)
  BY <1>10
<1>11. CASE MarkDisabled(c)
  <2>1. /\ runtime'.health = "Idle" /\ handle = None /\ handle' = handle
        /\ loop' = loop /\ client'[c].pc \in {"backup", "idle"}
    BY <1>11, MarkedValues
  <2>. QED
    BY <2>1
<1>7. CASE BumpGeneration(c)
  BY <1>7 DEF shared
<1>8. CASE SendCancel(c)
  BY <1>8 DEF shared, SameLoop
<1>9. CASE SpawnLoop(c)
  BY <1>9 DEF shared
<1>. QED
  BY <1>1, <1>2, <1>3, <1>4, <1>5, <1>6, <1>7, <1>8, <1>9,
     <1>10, <1>11 DEF ClientStep

(* The steps of a loop: it changes the runtime state only while current.   *)
LEMMA TickKeepsIdle ==
    ASSUME Serial, ServiceInv, NEW c \in Clients, IdleSound(c),
           NEW l \in Loops, MayTick, LoopStep(l), UNCHANGED coreVars
    PROVE  IdleSound(c)'
<1>0. /\ loop \in [Loops -> LoopState] /\ runtime \in Runtime
      /\ gen' = gen /\ phase = "serve" /\ On(c, "idle")
      /\ phase' = phase /\ client' = client
      /\ \A k \in Loops : k # l => loop'[k] = loop[k]
  BY TickFrame DEF ServiceInv, TypeInv, TypeOK, HMTypeOK, coreVars
<1>1. CASE Exit(l)
  <2>1. At(l, "wait") /\ Stale(l) /\ ~Live(l)' /\ UNCHANGED shared
    BY <1>1, TickFrame
  <2>. QED
    BY <1>0, <2>1 DEF IdleSound, AllStale, Live, Stale, At, On, shared
<1>2. CASE ~Exit(l)
  <2>1. /\ Current(l)'
        /\ \A k \in Loops : k # l => ~MidTick(k)
    BY <1>2, TickFrame
  <2>2. ~AllStale'
    BY <2>1 DEF AllStale, Current
  <2>3. \A k \in Loops : k # l => loop'[k].pc \notin {"revive", "fbmark"}
    BY <1>0, <2>1 DEF MidTick
  <2>4. /\ loop'[l].pc = "fbmark" => handle' = None
        /\ handle' # None => runtime'.enabled \/ loop'[l].pc = "revive"
    <3>0. /\ handle # None => runtime.enabled \/ At(l, "revive")
          /\ At(l, "fbmark") => handle = None
      BY <1>0, <2>1 DEF IdleSound, On, At, MidTick
    <3>. USE <1>0, <3>0 DEF LoopState, Goto, At, shared
    <3>1. CASE TickStart(l) \/ CheckActive(l) \/ DecideRebuild(l)
      BY <3>1 DEF TickStart, CheckActive, DecideRebuild
    <3>2. CASE Ping(l)
      BY <3>2 DEF Ping, OnAnswer, OnSilence
    <3>3. CASE ReenableCheck(l)
      BY <3>3 DEF ReenableCheck, Recovered
    <3>4. CASE ReenableInstall(l)
      BY <3>4 DEF ReenableInstall
    <3>5. CASE ReenableKeep(l)
      BY <3>5 DEF ReenableKeep
    <3>6. CASE ReenableRevive(l)
      BY <3>6 DEF ReenableRevive, RevivedRuntime
    <3>7. CASE ReenableSave(l) \/ FallbackSave(l)
      BY <3>7 DEF ReenableSave, Recovered, FallbackSave
    <3>8. CASE FallbackCheck(l) \/ FallbackDisable(l)
      BY <3>8 DEF FallbackCheck, FallbackDisable
    <3>9. CASE FallbackClear(l) \/ FallbackMark(l)
      BY <3>9 DEF FallbackClear, FallbackMark
    <3>10. CASE Report(l)
      BY <3>10 DEF Report, Runtime
    <3>. QED
      BY <1>2, <3>1, <3>2, <3>3, <3>4, <3>5, <3>6, <3>7, <3>8, <3>9, <3>10
      DEF LoopStep
  <2>. QED
    BY <1>0, <2>2, <2>3, <2>4 DEF IdleSound, On, At
<1>. QED
  BY <1>1, <1>2

(* The start-up.                                                           *)
LEMMA BootKeepsIdle ==
    ASSUME ServiceInv, NEW c \in Clients, IdleSound(c), Boot
    PROVE  IdleSound(c)'
<1>0. /\ loop \in [Loops -> LoopState] /\ runtime \in Runtime
      /\ phase = "boot" /\ phase' = "serve" /\ client' = client
      /\ On(c, "idle") /\ handle = None
      /\ \A l \in Loops : ~Live(l)
  BY DEF ServiceInv, TypeInv, TypeOK, HMTypeOK, LoopsSound, Boot, IdleSound
<1>1. \A l \in Loops : loop'[l].pc \in {"wait", "done"}
  <2>1. BootMonitor \/ NoMonitor
    BY DEF Boot, BootDirect, BootOverlay, BootReconfig, BootEnabled,
       BootWithoutHandle
  <2>. QED
    BY <1>0, <2>1 DEF BootMonitor, NoMonitor, FreshLoop, Live
<1>2. \/ runtime'.enabled
      \/ handle' = None /\ runtime'.health = "Idle"
  <2>1. ASSUME NEW t, BootEnabled(t) PROVE runtime'.enabled
    BY <1>0, <2>1, MarkedValues DEF BootEnabled, Mark
  <2>2. CASE BootDirect
    BY <1>0, <2>2 DEF BootDirect, Mark, Runtime
  <2>3. CASE BootOverlay
    BY <2>1, <2>3 DEF BootOverlay, BootWithoutHandle
  <2>4. CASE BootReconfig
    BY <1>0, <2>1, <2>4, MarkedValues DEF BootReconfig, BootWithoutHandle, Mark
  <2>. QED
    BY <2>2, <2>3, <2>4 DEF Boot
<1>. QED
  BY <1>0, <1>1, <1>2 DEF IdleSound, On, At

(* So it holds in every state.                                             *)
LEMMA IdleInvariant ==
    ASSUME Serial
    PROVE  Spec => []IdleInv
<1>1. Init => IdleInv
  BY IdleLoopType, RestingType DEF Init, IdleInv, IdleSound, On, At
<1>2. ServiceInv /\ IdleInv /\ [Next]_vars => IdleInv'
  <2>. SUFFICES ASSUME ServiceInv, IdleInv, [Next]_vars, NEW c \in Clients
                PROVE  IdleSound(c)'
    BY DEF IdleInv
  <2>0. IdleSound(c)
    BY DEF IdleInv
  <2>1. ASSUME NEW d \in Clients, Send(d) \/ ClientStep(d)
        PROVE  IdleSound(c)'
    <3>1. d = c
      BY DEF Serial, OneConnection
    <3>. QED
      BY <2>0, <2>1, <3>1, RequestKeepsIdle
  <2>2. ASSUME NEW l \in Loops, MayTick, LoopStep(l), UNCHANGED coreVars
        PROVE  IdleSound(c)'
    BY <2>0, <2>2, TickKeepsIdle
  <2>3. ASSUME TimePasses \/ Outside \/ UNCHANGED hmVars, UNCHANGED coreVars
        PROVE  IdleSound(c)'
    <3>1. LoopsKept /\ UNCHANGED <<handle, runtime>>
      BY <2>3, EnvironmentFrame DEF ServiceInv
    <3>. QED
      BY <2>0, <2>3, <3>1 DEF LoopsKept, SameLoop, coreVars, IdleSound,
         AllStale, Live, Stale, At, On
  <2>4. CASE Boot
    BY <2>0, <2>4, BootKeepsIdle
  <2>5. CASE Crash
    BY <2>5, IdleLoopType, RestingType
    DEF Crash, IdleSound, On, At, ServiceInv, TypeInv, TypeOK, HMTypeOK,
        LoopState
  <2>. QED
    BY <2>1, <2>2, <2>3, <2>4, <2>5 DEF Next, vars
<1>. QED
  BY <1>1, <1>2, TicksKeepApart, PTL DEF Spec

(* Whatever fails and wherever the process dies: once no loop is current,  *)
(* a bypass that is off is shown as Idle and no longer as fallen back      *)
(* (mark_disabled, reconcile_on_startup), if no request overlaps a tick.   *)
THEOREM DisabledShowsIdle ==
    ASSUME Serial
    PROVE  Spec => []DisabledIsIdle
<1>1. IdleInv => DisabledIsIdle
  BY ControllerAssumption
  DEF IdleInv, IdleSound, DisabledIsIdle, Settled, On, AllStale
<1>. QED
  BY <1>1, IdleInvariant, PTL

-----------------------------------------------------------------------------
(* The file is behind the memory only inside the tick that is about to     *)
(* write it.                                                               *)
FileAgrees == saved.enabled = runtime.enabled /\ saved.mode = runtime.mode

DurableInv ==
    /\ \A l \in Loops : MidTick(l) => SaveSound(l)
    /\ (\A l \in Loops : ~MidTick(l)) => FileAgrees

(* A step of a loop: it writes what it has changed in the same tick.       *)
LEMMA TickKeepsDurable ==
    ASSUME Serial, "save" \notin Faults, ServiceInv, DurableInv,
           NEW l \in Loops, MayTick, LoopStep(l)
    PROVE  DurableInv'
<1>0. /\ HMTypeOK
      /\ \A k \in Loops : k # l => loop'[k] = loop[k]
  BY TickFrame DEF ServiceInv, TypeInv, TypeOK
<1>1. CASE Exit(l)
  <2>1. At(l, "wait") /\ ~Live(l)' /\ UNCHANGED shared
    BY <1>1, TickFrame
  <2>2. \A k \in Loops : MidTick(k)' <=> MidTick(k)
    BY <1>0, <2>1 DEF MidTick, At, Live
  <2>3. \A k \in Loops : MidTick(k)' => loop'[k] = loop[k]
    BY <1>0, <2>1 DEF MidTick, Live
  <2>4. UNCHANGED <<runtime, saved>>
    BY <2>1 DEF shared
  <2>. QED
    BY <2>2, <2>3, <2>4 DEF DurableInv, SaveSound, At, FileAgrees,
       RevivedRuntime
<1>2. CASE ~Exit(l)
  <2>1. /\ Current(l)'
        /\ \A k \in Loops : k # l => ~MidTick(k)
    BY <1>2, TickFrame
  <2>2. SaveSound(l)
    BY <2>1 DEF DurableInv, FileAgrees, SaveSound, MidTick, At
  <2>3. SaveSound(l)'
    BY <1>0, <2>1, <2>2, LoopStepSaves DEF Current, Live
  <2>4. \A k \in Loops : k # l => ~MidTick(k)'
    BY <1>0, <2>1 DEF MidTick
  <2>. QED
    BY <2>3, <2>4 DEF DurableInv, FileAgrees, SaveSound, MidTick, At
<1>. QED
  BY <1>1, <1>2

(* A request, or the start-up, writes what it changes in one step.         *)
LEMMA RequestKeepsDurable ==
    ASSUME Serial, "save" \notin Faults, ServiceInv, DurableInv,
           NEW c \in Clients, Send(c) \/ ClientStep(c)
    PROVE  DurableInv'
<1>0. /\ client \in [Clients -> ClientState] /\ loop \in [Loops -> LoopState]
      /\ \A l \in Loops : ~MidTick(l)
      /\ FileAgrees
  BY RequestFrame DEF ServiceInv, TypeInv, TypeOK, HMTypeOK, DurableInv
<1>1. FileAgrees'
  BY <1>0, RequestMoves DEF ClientStep, FileAgrees, RestKept, shared
<1>2. \A l \in Loops : ~MidTick(l)'
  BY <1>0, RequestMoves DEF ClientStep, RestKept, MidTick, SameLoop
<1>. QED
  BY <1>1, <1>2 DEF DurableInv

(* Start-up finds no loop and leaves none in a tick.                       *)
LEMMA BootKeepsDurable ==
    ASSUME "save" \notin Faults, ServiceInv, DurableInv, Boot
    PROVE  DurableInv'
<1>0. /\ loop \in [Loops -> LoopState] /\ runtime \in Runtime
      /\ \A l \in Loops : ~Live(l)
  BY DEF ServiceInv, TypeInv, TypeOK, HMTypeOK, LoopsSound, Boot
<1>1. \A l \in Loops : ~MidTick(l)'
  <2>1. BootMonitor \/ NoMonitor
    BY DEF Boot, BootDirect, BootOverlay, BootReconfig, BootEnabled,
       BootWithoutHandle
  <2>. QED
    BY <1>0, <2>1 DEF BootMonitor, NoMonitor, FreshLoop, Live, MidTick
<1>2. FileAgrees
  BY <1>0 DEF DurableInv, MidTick, Live
<1>3. FileAgrees'
  <2>1. \/ saved' = runtime'
        \/ UNCHANGED <<runtime, saved>>
    <3>1. ASSUME NEW rs, NEW ok \in BOOLEAN, Mark(rs, ok)
          PROVE  saved' = runtime'
      BY <3>1 DEF Mark
    <3>2. ASSUME NEW t, BootEnabled(t) PROVE saved' = runtime'
      BY <3>1, <3>2 DEF BootEnabled
    <3>. QED
      BY <3>1, <3>2
      DEF Boot, BootDirect, BootOverlay, BootReconfig, BootWithoutHandle
  <2>. QED
    BY <1>2, <2>1 DEF FileAgrees
<1>. QED
  BY <1>1, <1>3 DEF DurableInv

(* As long as no save fails, the file a restart reads says of the bypass   *)
(* what the memory says, whenever the service rests and wherever it died   *)
(* before (mark_enabled, mark_disabled, persist_runtime), if no request    *)
(* overlaps a tick.                                                        *)
THEOREM RuntimeStaysDurable ==
    ASSUME Serial, "save" \notin Faults
    PROVE  Spec => []RuntimeDurable
<1>1. Init => DurableInv
  BY IdleLoopType DEF Init, DurableInv, FileAgrees, MidTick
<1>2. ServiceInv /\ DurableInv /\ [Next]_vars => DurableInv'
  <2>. SUFFICES ASSUME ServiceInv, DurableInv, [Next]_vars PROVE DurableInv'
    OBVIOUS
  <2>1. ASSUME TimePasses \/ Outside \/ UNCHANGED hmVars, UNCHANGED coreVars
        PROVE  DurableInv'
    <3>1. LoopsKept /\ UNCHANGED <<runtime, saved>>
      BY <2>1, EnvironmentFrame DEF ServiceInv
    <3>. QED
      BY <3>1 DEF LoopsKept, SameLoop, DurableInv, FileAgrees, SaveSound,
         MidTick, At, RevivedRuntime
  <2>2. CASE Crash
    <3>1. \A l \in Loops : loop'[l].pc = "done"
      BY <2>2, IdleLoopType
      DEF Crash, ServiceInv, TypeInv, TypeOK, HMTypeOK, LoopState
    <3>. QED
      BY <2>2, <3>1 DEF Crash, DurableInv, FileAgrees, MidTick
  <2>. QED
    BY <2>1, <2>2, TickKeepsDurable, RequestKeepsDurable, BootKeepsDurable
    DEF Next, vars
<1>3. DurableInv => RuntimeDurable
  BY DEF DurableInv, FileAgrees, RuntimeDurable, Settled
<1>. QED
  BY <1>1, <1>2, <1>3, TicksKeepApart, PTL DEF Spec

-----------------------------------------------------------------------------
(* The only call into the system that may fail is the creation of a route, *)
(* and then no adapter is unplugged.                                       *)
Untroubled ==
    /\ Faults \subseteq {"create"}
    /\ "create" \in Faults => "unplugged" \notin Links

(* The overlay a target or a configuration asks for is in the table.       *)
HasRoutes(t) == t.mode = Overlay => Via(t.gw) \subseteq machine.routes

(* Between its generation and its new loop, or its mark, a request leaves  *)
(* an enabled bypass without a loop.                                       *)
Retiring == {"rehalt", "load", "spawn", "cancel", "take", "restore", "unmark"}

(* A loop that has fallen back has no handle to drop, one that replays     *)
(* enable does not take away the routes its handle stands for.             *)
LoopWatches(l) ==
    /\ "create" \in Faults /\ loop[l].pc \in {"rebuild", "recheck", "install"}
          => \/ handle = None \/ handle.mode = Reconfig
             \/ loop[l].cfg.mode = Reconfig
    /\ At(l, "keep") => HasRoutes(loop[l].cfg)
    /\ loop[l].pc \in {"fbmark", "fbsave"} => handle = None
    /\ At(l, "fbsave") => ~runtime.enabled

(* A disable finds the routes of the handle it takes, so it gets to its    *)
(* mark; a bypass that is enabled has its loop in every other state.       *)
WatchSound(c) ==
    /\ "create" \in Faults => link # "unplugged"
    /\ phase = "boot" => handle = None
    /\ handle # None => \/ HasRoutes(handle) \/ On(c, "drop")
                        \/ \E l \in Loops : At(l, "fbclear")
    /\ client[c].pc \in {"backup", "install", "keep", "unmark", "restore"} =>
          handle = None
    /\ On(c, "keep") => HasRoutes(client[c].cfg)
    /\ On(c, "restore") => HasRoutes(client[c].held)
    /\ \A l \in Loops :
          /\ LoopWatches(l)
          /\ Current(l) /\ loop[l].st = "Fallback" =>
                \/ handle = None \/ loop[l].pc \in {"revive", "resave"}
                \/ client[c].pc \in {"mark", "rehalt"}
    /\ phase = "serve" /\ runtime.enabled =>
          \/ \E l \in Loops :
                Current(l) /\ (loop[l].st # "Fallback" \/ At(l, "resave"))
          \/ client[c].pc \in Retiring

WatchInv == \A c \in Clients : WatchSound(c)

-----------------------------------------------------------------------------
(* What enable does to the overlay routes when only a creation may fail.   *)
LEMMA EnableRoutes ==
    ASSUME Faults \subseteq {"create"}, NEW m \in Machine, NEW t \in Target,
           NEW lk, NEW o \in EnableOutcomes(m, t, lk)
    PROVE  /\ o.m \in Machine
           /\ o.ok /\ t.mode = Overlay => Via(t.gw) \subseteq o.m.routes
           /\ \/ m.routes \subseteq o.m.routes
              \/ "create" \in Faults /\ t.mode = Overlay
<1>0. o.m \in Machine
  BY EnableKeepsMachine
<1>1. CASE t.mode = Overlay /\ "create" \notin Faults
  <2>1. o = Err(m) \/ o = Ok([m EXCEPT !.routes = @ \cup Via(t.gw)])
    BY <1>1 DEF EnableOutcomes, OverlayEnable, MayFail
  <2>2. /\ m.routes \subseteq [m EXCEPT !.routes = @ \cup Via(t.gw)].routes
        /\ Via(t.gw) \subseteq [m EXCEPT !.routes = @ \cup Via(t.gw)].routes
    BY DEF Machine
  <2>. QED
    BY <1>0, <2>1, <2>2, Results
<1>2. CASE t.mode = Overlay /\ "create" \in Faults
  <2>. DEFINE done == [m EXCEPT !.routes = @ \cup Via(t.gw)]
  <2>1. Via(t.gw) \subseteq done.routes
    BY DEF Machine
  <2>2. o.ok => o = Ok(done)
    <3>1. \/ o = Err(m) \/ o = Ok(done)
          \/ \E c \in Cleanup([m EXCEPT !.routes = @ \cup {<<"main", t.gw>>}],
                              t.gw) : o = Err(c)
      BY <1>2 DEF EnableOutcomes, OverlayEnable, MayFail
    <3>. QED
      BY <3>1, Results
  <2>. QED
    BY <1>0, <1>2, <2>1, <2>2, Results
<1>3. CASE t.mode # Overlay
  <2>. DEFINE done == [m EXCEPT !.conf[t.adapter] = t.gw]
  <2>1. done.routes = m.routes
    BY DEF Machine
  <2>2. o = Err(m) \/ o = Ok(done) \/ o = Err(done)
    BY <1>3 DEF EnableOutcomes, ReconfigEnable, MayFail
  <2>. QED
    BY <1>0, <1>3, <2>1, <2>2, Results
<1>. QED
  BY <1>1, <1>2, <1>3

(* Then a disable that finds its routes succeeds.                          *)
LEMMA DisableSucceeds ==
    ASSUME Faults \subseteq {"create"}, NEW m \in Machine, NEW h \in Target,
           h.mode = Overlay => Via(h.gw) \subseteq m.routes,
           NEW o \in DisableOutcomes(h.mode, m, h)
    PROVE  o.ok
<1>1. CASE h.mode = Overlay
  <2>1. <<"main", h.gw>> \in m.routes
    BY <1>1 DEF Via, Half
  <2>. QED
    BY <1>1, <2>1, Results DEF DisableOutcomes, OverlayDisable, MayFail
<1>2. CASE h.mode # Overlay
  <2>1. h.mode = Reconfig
    BY <1>2 DEF Target, Mode
  <2>2. o \in ReconfigDisable(m)
    BY <1>2, <2>1 DEF DisableOutcomes
  <2>. QED
    BY <2>2, Results DEF ReconfigDisable, MayFail
<1>. QED
  BY <1>1, <1>2

(* The steps of the current loop.                                          *)
LEMMA TickWatches ==
    ASSUME Untroubled, HMTypeOK, NEW l \in Loops, LoopStep(l), ~Exit(l),
           Current(l), Current(l)',
           "create" \in Faults => link # "unplugged",
           handle # None => HasRoutes(handle) \/ At(l, "fbclear"),
           LoopWatches(l),
           loop[l].st = "Fallback" =>
              handle = None \/ loop[l].pc \in {"revive", "resave"},
           runtime.enabled => loop[l].st # "Fallback" \/ At(l, "resave")
    PROVE  /\ link' = link
           /\ (handle # None => HasRoutes(handle) \/ At(l, "fbclear"))'
           /\ LoopWatches(l)'
           /\ (loop[l].st = "Fallback" =>
                 handle = None \/ loop[l].pc \in {"revive", "resave"})'
           /\ (runtime.enabled =>
                 loop[l].st # "Fallback" \/ At(l, "resave"))'
<1>0. /\ loop \in [Loops -> LoopState] /\ loop[l] \in LoopState
      /\ runtime \in Runtime /\ machine \in Machine /\ handle \in Handle
      /\ loop[l].cfg \in Configs /\ TargetOf(loop[l].cfg) \in Target
      /\ ~Stale(l)
  BY ConfigTypes DEF HMTypeOK, LoopState, Current
<1>t. /\ TargetOf(loop[l].cfg).mode = loop[l].cfg.mode
      /\ TargetOf(loop[l].cfg).gw = loop[l].cfg.gw
  BY DEF TargetOf
<1>. USE <1>0 DEF LoopState, Goto, At, shared, LoopWatches, HasRoutes
<1>1. CASE TickStart(l)
  BY <1>1 DEF TickStart
<1>2. CASE Ping(l)
  BY <1>2 DEF Ping, OnAnswer, OnSilence
<1>3. CASE CheckActive(l)
  <2>1. ASSUME "create" \in Faults, loop'[l].pc = "rebuild", handle # None,
               handle.mode = Overlay, loop[l].cfg.mode = Overlay
        PROVE  FALSE
    <3>1. OverlayInPlace(machine, handle.gw, link)
      BY <1>3, <2>1 DEF CheckActive, OverlayInPlace
    <3>2. "query" \notin Faults
      BY DEF Untroubled
    <3>. QED
      BY <1>3, <2>1, <3>1, <3>2 DEF CheckActive, IsActive
  <2>2. handle # None => handle.mode \in Mode
    BY DEF Handle, Target
  <2>3. loop[l].cfg.mode \in Mode
    BY ConfigTypes
  <2>4. /\ loop'[l].pc \in {"report", "rebuild"} /\ At(l, "active")
        /\ loop'[l].st = loop[l].st /\ loop'[l].cfg = loop[l].cfg
        /\ UNCHANGED <<handle, runtime, machine, link>>
    BY <1>3 DEF CheckActive
  <2>. QED
    BY <2>1, <2>2, <2>3, <2>4 DEF Mode
<1>4. CASE DecideRebuild(l)
  BY <1>4 DEF DecideRebuild
<1>5. CASE ReenableCheck(l)
  BY <1>5 DEF ReenableCheck, Recovered
<1>6. CASE ReenableInstall(l)
  <2>1. PICK o \in EnableOutcomes(machine, TargetOf(loop[l].cfg), link) :
           machine' = o.m
           /\ loop'[l].pc = IF o.ok THEN "keep" ELSE "report"
    BY <1>6 DEF ReenableInstall
  <2>2. /\ loop'[l].st = loop[l].st /\ loop'[l].cfg = loop[l].cfg
        /\ At(l, "install") /\ UNCHANGED <<handle, runtime, link>>
    BY <1>6 DEF ReenableInstall
  <2>3. o.ok /\ loop[l].cfg.mode = Overlay =>
           Via(loop[l].cfg.gw) \subseteq machine'.routes
    BY <1>t, <2>1, EnableRoutes DEF Untroubled
  <2>4. \/ machine.routes \subseteq machine'.routes
        \/ "create" \in Faults /\ loop[l].cfg.mode = Overlay
    BY <1>t, <2>1, EnableRoutes DEF Untroubled
  <2>5. handle # None => HasRoutes(handle)'
    BY <2>2, <2>4 DEF Overlay, Reconfig
  <2>. QED
    BY <2>1, <2>2, <2>3, <2>5
<1>7. CASE ReenableKeep(l)
  <2>1. /\ loop'[l].pc = "revive" /\ loop'[l].st = loop[l].st
        /\ handle' = TargetOf(loop[l].cfg)
        /\ UNCHANGED <<runtime, machine, link>>
        /\ HasRoutes(loop[l].cfg)
    BY <1>7 DEF ReenableKeep
  <2>2. runtime.enabled => loop[l].st # "Fallback"
    BY <1>7 DEF ReenableKeep
  <2>. QED
    BY <1>t, <2>1, <2>2
<1>8. CASE ReenableRevive(l)
  BY <1>8 DEF ReenableRevive
<1>9. CASE ReenableSave(l)
  BY <1>9 DEF ReenableSave, Recovered
<1>10. CASE FallbackCheck(l)
  BY <1>10 DEF FallbackCheck
<1>11. CASE FallbackDisable(l)
  BY <1>11 DEF FallbackDisable
<1>12. CASE FallbackClear(l)
  BY <1>12 DEF FallbackClear
<1>13. CASE FallbackMark(l)
  BY <1>13 DEF FallbackMark, FallenBack
<1>14. CASE FallbackSave(l)
  BY <1>14 DEF FallbackSave
<1>15. CASE Report(l)
  BY <1>15 DEF Report, Runtime
<1>. QED
  BY <1>1, <1>2, <1>3, <1>4, <1>5, <1>6, <1>7, <1>8, <1>9, <1>10, <1>11,
     <1>12, <1>13, <1>14, <1>15 DEF LoopStep

(* So a tick keeps the invariant.                                          *)
LEMMA TickKeepsWatch ==
    ASSUME Serial, Untroubled, ServiceInv, NEW c \in Clients, WatchSound(c),
           NEW l \in Loops, MayTick, LoopStep(l), UNCHANGED coreVars
    PROVE  WatchSound(c)'
<1>0. /\ HMTypeOK /\ gen' = gen /\ phase = "serve" /\ On(c, "idle")
      /\ phase' = phase /\ client' = client
      /\ \A k \in Loops : k # l => loop'[k] = loop[k]
  BY TickFrame DEF ServiceInv, TypeInv, TypeOK, coreVars
<1>1. CASE Exit(l)
  <2>1. /\ At(l, "wait") /\ Stale(l) /\ ~Live(l)'
        /\ UNCHANGED <<handle, runtime, machine, link>>
    BY <1>1, TickFrame DEF shared, Exit
  <2>. QED
    BY <1>0, <2>1 DEF WatchSound, LoopWatches, HasRoutes, Current, Live,
       Stale, At, On
<1>2. CASE ~Exit(l)
  <2>1. /\ Current(l) /\ Current(l)'
        /\ \A k \in Loops : k # l => ~MidTick(k) /\ ~Current(k)
    BY <1>2, TickFrame
  <2>2. /\ handle # None => HasRoutes(handle) \/ At(l, "fbclear")
        /\ LoopWatches(l)
        /\ loop[l].st = "Fallback" =>
              handle = None \/ loop[l].pc \in {"revive", "resave"}
        /\ runtime.enabled => loop[l].st # "Fallback" \/ At(l, "resave")
        /\ "create" \in Faults => link # "unplugged"
    BY <1>0, <2>1 DEF WatchSound, On, At, MidTick, Retiring
  <2>3. /\ link' = link
        /\ (handle # None => HasRoutes(handle) \/ At(l, "fbclear"))'
        /\ LoopWatches(l)'
        /\ (loop[l].st = "Fallback" =>
              handle = None \/ loop[l].pc \in {"revive", "resave"})'
        /\ (runtime.enabled => loop[l].st # "Fallback" \/ At(l, "resave"))'
    BY <1>0, <1>2, <2>1, <2>2, TickWatches
  <2>4. \A k \in Loops : k # l => LoopWatches(k)' /\ ~Current(k)'
    BY <1>0, <2>1 DEF LoopWatches, MidTick, Current, Live, Stale, At
  <2>. QED
    BY <1>0, <2>1, <2>2, <2>3, <2>4 DEF WatchSound, On, At
<1>. QED
  BY <1>1, <1>2

(* The same invariant while no loop is in a tick.                          *)
RestWatch(c) ==
    /\ "create" \in Faults => link # "unplugged"
    /\ phase = "boot" => handle = None
    /\ handle # None => HasRoutes(handle) \/ On(c, "drop")
    /\ client[c].pc \in {"backup", "install", "keep", "unmark", "restore"} =>
          handle = None
    /\ On(c, "keep") => HasRoutes(client[c].cfg)
    /\ On(c, "restore") => HasRoutes(client[c].held)
    /\ \A l \in Loops :
          Current(l) /\ loop[l].st = "Fallback" =>
             handle = None \/ client[c].pc \in {"mark", "rehalt"}
    /\ phase = "serve" /\ runtime.enabled =>
          \/ \E l \in Loops : Current(l) /\ loop[l].st # "Fallback"
          \/ client[c].pc \in Retiring

(* A request finds every loop between two ticks, so it meets only this     *)
(* form.                                                                   *)
LEMMA WatchAtRest ==
    ASSUME NEW c \in Clients, \A l \in Loops : ~MidTick(l)
    PROVE  WatchSound(c) <=> RestWatch(c)
<1>1. \A l \in Loops : loop[l].pc \in {"wait", "done"}
  BY DEF MidTick
<1>2. \A l \in Loops : /\ LoopWatches(l) /\ ~At(l, "fbclear")
                       /\ ~At(l, "resave")
                       /\ loop[l].pc \notin {"revive", "resave"}
  BY <1>1 DEF LoopWatches, At
<1>. QED
  BY <1>2 DEF WatchSound, RestWatch

(* The steps of a request.                                                 *)
LEMMA RequestKeepsWatch ==
    ASSUME Serial, Untroubled, ServiceInv, ServiceInv',
           NEW c \in Clients, WatchSound(c), Send(c) \/ ClientStep(c)
    PROVE  WatchSound(c)'
<1>0. /\ phase = "serve" /\ phase' = phase
      /\ client \in [Clients -> ClientState] /\ client[c] \in ClientState
      /\ loop \in [Loops -> LoopState]
      /\ runtime \in Runtime /\ machine \in Machine /\ handle \in Handle
      /\ link' = link
      /\ Send(c) => On(c, "idle")
  BY RequestFrame DEF ServiceInv, TypeInv, TypeOK, HMTypeOK
<1>l. \A l \in Loops : ~MidTick(l)
  BY RequestFrame
<1>m. \A l \in Loops : ~MidTick(l)'
  BY <1>0, <1>l, RequestMoves DEF ClientStep, RestKept, MidTick, SameLoop
<1>w. RestWatch(c)
  BY <1>l, WatchAtRest
<1>s. /\ client'[c].pc \in {"cancel", "load", "spawn"} => AllStale'
      /\ client[c].pc \in {"cancel", "load", "spawn"} => AllStale
      /\ On(c, "spawn") => client[c].seen = gen
  BY DEF ServiceInv, LoopsSound
<1>c. client[c].cfg # None => TargetOf(client[c].cfg) \in Target
                              /\ client[c].cfg \in Configs
  BY <1>0, ConfigTypes DEF ClientState
<1>r. /\ On(c, "install") \/ On(c, "keep") => client[c].cfg # None
      /\ On(c, "restore") => client[c].held \in Target
  BY <1>0 DEF ServiceInv, TypeInv, RequestSound, WithConfig, AfterSwap, On,
     ClientState, Handle
<1>f. "save" \notin Faults /\ "query" \notin Faults
  BY DEF Untroubled
<1>g. ASSUME RestWatch(c)' PROVE WatchSound(c)'
  BY <1>g, <1>m DEF RestWatch, WatchSound, LoopWatches, MidTick, At
<1>. USE <1>0, <1>w, <1>f, RequestMoves
     DEF RestWatch, Current, Live, Stale, On, Place, RestKept, Ended,
         Carried, HasRoutes, Retiring
<1>1. ASSUME Send(c) \/ SaveConfig(c) \/ SwapConfig(c) PROVE RestWatch(c)'
  BY <1>1
<1>2. ASSUME InspectChange(c) PROVE RestWatch(c)'
  BY <1>2
<1>3. ASSUME CleanupPreviousMode(c) PROVE RestWatch(c)'
  BY <1>3
<1>4. ASSUME DropHandle(c) PROVE RestWatch(c)'
  BY <1>4
<1>5. ASSUME ReadConfig(c) \/ CheckHandle(c) PROVE RestWatch(c)'
  BY <1>5
<1>6. ASSUME Backup(c) PROVE RestWatch(c)'
  BY <1>6
<1>7. ASSUME Install(c) PROVE RestWatch(c)'
  <2>1. PICK o \in EnableOutcomes(machine, TargetOf(client[c].cfg), link) :
           (o.ok /\ machine' = o.m) \/ (~o.ok /\ Answer(c))
    BY <1>7 DEF Install
  <2>2. o.ok /\ client[c].cfg.mode = Overlay =>
           Via(client[c].cfg.gw) \subseteq o.m.routes
    <3>. DEFINE t == TargetOf(client[c].cfg)
    <3>1. t.mode = client[c].cfg.mode /\ t.gw = client[c].cfg.gw
      BY DEF TargetOf
    <3>2. t \in Target
      BY <1>7, <1>c, <1>r
    <3>. HIDE DEF t
    <3>3. o \in EnableOutcomes(machine, t, link)
      BY <2>1 DEF t
    <3>. QED
      BY <3>1, <3>2, <3>3, EnableRoutes DEF Untroubled
  <2>3. ~o.ok => client'[c].pc = "idle"
    BY <2>1, AnswerTypes
  <2>. QED
    BY <1>7, <2>1, <2>2, <2>3
<1>8. ASSUME Keep(c) PROVE RestWatch(c)'
  <2>1. /\ TargetOf(client[c].cfg).mode = client[c].cfg.mode
        /\ TargetOf(client[c].cfg).gw = client[c].cfg.gw
    BY DEF TargetOf
  <2>. QED
    BY <1>8, <2>1
<1>9. ASSUME MarkEnabled(c) PROVE RestWatch(c)'
  BY <1>9
<1>10. ASSUME TakeHandle(c) PROVE RestWatch(c)'
  BY <1>10
<1>11. ASSUME Restore(c) PROVE RestWatch(c)'
  <2>1. client'[c].pc = "unmark"
    <3>1. PICK o \in DisableOutcomes(client[c].held.mode, machine,
                                     client[c].held) :
             IF o.ok THEN Step(c, "unmark") ELSE Answer(c)
      BY <1>11 DEF Restore
    <3>2. o.ok
      BY <1>11, <1>r, DisableSucceeds DEF Untroubled
    <3>3. "unmark" \in ClientPc
      BY DEF ClientPc, DisablePc
    <3>. QED
      BY <3>1, <3>2, <3>3, StepTypes
  <2>. QED
    BY <1>11, <2>1
<1>12. ASSUME MarkDisabled(c) PROVE RestWatch(c)'
  <2>1. /\ runtime'.enabled = FALSE
        /\ client'[c].pc \in {"idle", "backup"}
        /\ handle = None /\ handle' = None
    BY <1>12, MarkedValues
  <2>. QED
    BY <2>1
<1>13. ASSUME BumpGeneration(c) PROVE RestWatch(c)'
  <2>1. \A l \in Loops : ~Current(l)'
    BY <1>13, <1>s DEF AllStale
  <2>. QED
    BY <1>13, <2>1 DEF shared
<1>14. ASSUME SendCancel(c) PROVE RestWatch(c)'
  <2>1. \A l \in Loops : ~Current(l)'
    BY <1>14, <1>s DEF AllStale, SameLoop
  <2>. QED
    BY <1>14, <2>1 DEF shared
<1>15. ASSUME SpawnLoop(c) PROVE RestWatch(c)'
  BY <1>15, <1>s DEF AllStale, shared
<1>. QED
  BY <1>g, <1>1, <1>2, <1>3, <1>4, <1>5, <1>6, <1>7, <1>8, <1>9, <1>10,
     <1>11, <1>12, <1>13, <1>14, <1>15 DEF ClientStep

(* Start-up puts the routes back before it makes a handle, and starts the  *)
(* loop of a bypass it leaves enabled.                                     *)
LEMMA BootKeepsWatch ==
    ASSUME Untroubled, ServiceInv, NEW c \in Clients, WatchSound(c), Boot
    PROVE  WatchSound(c)'
<1>0. /\ loop \in [Loops -> LoopState] /\ runtime \in Runtime
      /\ machine \in Machine /\ gen \in Nat
      /\ phase = "boot" /\ phase' = "serve" /\ client' = client
      /\ link' = link /\ On(c, "idle") /\ handle = None
      /\ \A l \in Loops : ~Live(l)
      /\ runtime.enabled => config \in Configs
  BY DEF ServiceInv, TypeInv, TypeOK, HMTypeOK, LoopsSound, Boot, WatchSound,
     Configured
<1>f. "save" \notin Faults /\ "query" \notin Faults
  BY DEF Untroubled
<1>m. ASSUME BootMonitor
      PROVE  /\ \A l \in Loops : loop'[l].pc \in {"wait", "done"}
             /\ \A l \in Loops : Live(l)' => loop'[l].st = "Healthy"
             /\ \E l \in Loops : Current(l)' /\ loop'[l].st = "Healthy"
  <2>1. PICK l \in Loops :
           loop' = [loop EXCEPT ![l] = FreshLoop(gen + 1, config)]
           /\ gen' = gen + 1
    BY <1>m DEF BootMonitor
  <2>2. /\ loop'[l].pc = "wait" /\ loop'[l].st = "Healthy"
        /\ loop'[l].gen = gen'
        /\ \A k \in Loops : k # l => loop'[k] = loop[k]
    BY <1>0, <2>1 DEF FreshLoop
  <2>. QED
    BY <1>0, <2>2 DEF Current, Live, Stale
<1>n. ASSUME NoMonitor
      PROVE  \A l \in Loops : ~Live(l)' /\ loop'[l].pc = "done"
  BY <1>0, <1>n DEF NoMonitor, Live
<1>e. ASSUME NEW t, BootEnabled(t) PROVE handle' = t /\ BootMonitor
  BY <1>e, <1>f DEF BootEnabled, Mark
<1>1. /\ BootMonitor \/ (NoMonitor /\ ~runtime'.enabled)
      /\ handle' # None => HasRoutes(handle)'
  <2>1. CASE BootDirect
    BY <1>0, <2>1 DEF BootDirect, Mark, Runtime
  <2>2. CASE BootOverlay
    <3>. DEFINE t == [TargetOf(config) EXCEPT !.mode = Overlay]
    <3>1. t \in Target /\ t.mode = Overlay
      BY <1>0, <2>2, ConfigTypes DEF BootOverlay, Target, Mode
    <3>. HIDE DEF t
    <3>2. CASE BootEnabled(t) /\ UNCHANGED machine
               /\ OverlayInPlace(machine, t.gw, link)
      BY <1>e, <3>2 DEF HasRoutes, OverlayInPlace
    <3>3. ASSUME NEW o \in OverlayEnable(machine, t, link), machine' = o.m,
                 IF o.ok THEN BootEnabled(t) ELSE BootWithoutHandle
          PROVE  BootMonitor /\ (handle' # None => HasRoutes(handle)')
      <4>1. o.ok => Via(t.gw) \subseteq o.m.routes
        BY <1>0, <3>1, <3>3, EnableRoutes DEF Untroubled, EnableOutcomes
      <4>. QED
        BY <1>0, <1>e, <3>3, <4>1 DEF HasRoutes, BootWithoutHandle
    <3>. QED
      BY <1>e, <2>2, <3>2, <3>3 DEF BootOverlay, t
  <2>3. CASE BootReconfig
    <3>. DEFINE t == [TargetOf(config) EXCEPT !.mode = Reconfig]
    <3>1. t.mode # Overlay
      BY DEF TargetOf, Overlay, Reconfig
    <3>2. ASSUME NEW o, IF o.ok THEN BootEnabled(t) ELSE BootWithoutHandle
          PROVE  BootMonitor /\ (handle' # None => handle' = t)
      BY <1>0, <1>e, <3>2 DEF BootWithoutHandle
    <3>3. ASSUME BootWithoutHandle PROVE BootMonitor /\ handle' = None
      BY <1>0, <3>3 DEF BootWithoutHandle
    <3>. HIDE DEF t
    <3>4. \/ NoMonitor /\ handle' = None /\ runtime' = MarkedDisabled
          \/ BootWithoutHandle
          \/ \E o : IF o.ok THEN BootEnabled(t) ELSE BootWithoutHandle
      BY <1>0, <1>f, <2>3 DEF BootReconfig, Mark, t
    <3>5. BootMonitor \/ (NoMonitor /\ ~runtime'.enabled)
      <4>1. runtime' = MarkedDisabled => ~runtime'.enabled
        BY MarkedValues
      <4>. QED
        BY <3>2, <3>3, <3>4, <4>1
    <3>6. handle' # None => handle' = t
      BY <3>2, <3>3, <3>4
    <3>7. handle' = t => HasRoutes(handle)'
      BY <3>1 DEF HasRoutes
    <3>. QED
      BY <3>5, <3>6, <3>7
  <2>. QED
    BY <2>1, <2>2, <2>3 DEF Boot
<1>2. \A l \in Loops : /\ loop'[l].pc \in {"wait", "done"}
                       /\ Live(l)' => loop'[l].st = "Healthy"
  BY <1>1, <1>m, <1>n
<1>3. runtime'.enabled =>
         \E l \in Loops : Current(l)' /\ loop'[l].st = "Healthy"
  BY <1>1, <1>m
<1>. QED
  BY <1>0, <1>1, <1>2, <1>3
  DEF WatchSound, LoopWatches, Current, On, At

(* So it holds in every state.                                             *)
LEMMA WatchInvariant ==
    ASSUME Serial, Untroubled
    PROVE  Spec => []WatchInv
<1>1. Init => WatchInv
  <2>. SUFFICES ASSUME Init, NEW c \in Clients PROVE WatchSound(c)
    BY DEF WatchInv
  <2>1. /\ \A l \in Loops : loop[l].pc = "done"
        /\ client[c].pc = "idle" /\ handle = None /\ link = "reachable"
        /\ phase = "boot"
    BY IdleLoopType, RestingType DEF Init
  <2>. QED
    BY <2>1 DEF WatchSound, LoopWatches, Current, Live, On, At
<1>2. ServiceInv /\ WatchInv /\ [Next]_vars => WatchInv'
  <2>. SUFFICES ASSUME ServiceInv, WatchInv, [Next]_vars, NEW c \in Clients
                PROVE  WatchSound(c)'
    BY DEF WatchInv
  <2>0. WatchSound(c) /\ ServiceInv'
    BY StepKeepsService DEF WatchInv
  <2>1. ASSUME NEW d \in Clients, Send(d) \/ ClientStep(d)
        PROVE  WatchSound(c)'
    <3>1. d = c
      BY DEF Serial, OneConnection
    <3>. QED
      BY <2>0, <2>1, <3>1, RequestKeepsWatch
  <2>2. ASSUME NEW l \in Loops, MayTick, LoopStep(l), UNCHANGED coreVars
        PROVE  WatchSound(c)'
    BY <2>0, <2>2, TickKeepsWatch
  <2>3. ASSUME TimePasses \/ Outside \/ UNCHANGED hmVars, UNCHANGED coreVars
        PROVE  WatchSound(c)'
    <3>1. /\ LoopsKept /\ UNCHANGED <<handle, runtime, machine>>
          /\ link' = link \/ link' \in Links
      BY <2>3, EnvironmentFrame DEF ServiceInv, Untroubled
    <3>. QED
      BY <2>0, <2>3, <3>1 DEF LoopsKept, SameLoop, coreVars, WatchSound,
         LoopWatches, HasRoutes, Current, Live, Stale, At, On, Untroubled
  <2>4. CASE Boot
    BY <2>0, <2>4, BootKeepsWatch
  <2>5. CASE Crash
    <3>1. /\ \A l \in Loops : loop'[l].pc = "done"
          /\ client'[c].pc = "idle" /\ handle' = None /\ link' = link
          /\ phase' = "boot"
      BY <2>5, IdleLoopType, RestingType
      DEF Crash, ServiceInv, TypeInv, TypeOK, HMTypeOK, LoopState
    <3>. QED
      BY <2>0, <3>1 DEF WatchSound, LoopWatches, Current, Live, On, At
  <2>. QED
    BY <2>1, <2>2, <2>3, <2>4, <2>5 DEF Next, vars
<1>. QED
  BY <1>1, <1>2, TicksKeepApart, PTL DEF Spec

(* As long as nothing but the creation of a route fails, and wherever the  *)
(* process dies: whenever the service rests with the bypass enabled, a     *)
(* loop of the current generation that has not fallen back watches it      *)
(* (enable, update_config, reconcile_on_startup), if no request overlaps a *)
(* tick.                                                                   *)
THEOREM EnabledStaysWatched ==
    ASSUME Serial, Untroubled
    PROVE  Spec => []EnabledIsWatched
<1>1. WatchInv => EnabledIsWatched
  <2>. SUFFICES ASSUME WatchInv, Settled, runtime.enabled
                PROVE  \E l \in Loops :
                          Live(l) /\ ~Stale(l) /\ loop[l].st # "Fallback"
    BY DEF EnabledIsWatched
  <2>1. PICK c \in Clients : TRUE
    BY ControllerAssumption
  <2>2. RestWatch(c)
    BY WatchAtRest DEF WatchInv, Settled
  <2>. QED
    BY <2>2 DEF RestWatch, Settled, On, Retiring, Current
<1>. QED
  BY <1>1, WatchInvariant, PTL

-----------------------------------------------------------------------------
(* Nothing fails, the process does not die and no configuration asks for a *)
(* bypass that was given up to be taken up again.                          *)
Ideal ==
    /\ Faults = {} /\ "unplugged" \notin Links /\ MaxCrashes = 0
    /\ \A c \in Configs : ~c.auto

(* The machine without a bypass, with the bypass of a handle, and with the *)
(* snapshot an enable takes before it installs a target.                   *)
Clean == [routes |-> {}, conf |-> [a \in Adapters |-> Direct], snap |-> None]
Holding(h) == IF h = None THEN Clean ELSE EnabledMachine(h)
Prepared(t) == [Clean EXCEPT !.snap = EnabledMachine(t).snap]

(* Then an enable turns a prepared machine into that of its target, and a  *)
(* disable of the target, or the clean-up of its mode, turns that into a   *)
(* clean one.                                                              *)
LEMMA ExactEnable ==
    ASSUME Faults = {}, NEW t \in Target, NEW lk, lk # "unplugged",
           NEW o \in EnableOutcomes(Prepared(t), t, lk)
    PROVE  o.ok /\ o.m = EnabledMachine(t)
<1>0. t.mode \in Mode /\ t.adapter \in Adapters /\ t.gw \in Gateways
  BY DEF Target
<1>3. Prepared(t) = [routes |-> {}, conf |-> [a \in Adapters |-> Direct],
                     snap |-> EnabledMachine(t).snap]
  BY DEF Prepared, Clean
<1>1. CASE t.mode = Overlay
  <2>. DEFINE m == [Prepared(t) EXCEPT !.routes = @ \cup Via(t.gw)]
  <2>1. o = Ok(m)
    BY <1>1 DEF EnableOutcomes, OverlayEnable, MayFail
  <2>2. m = EnabledMachine(t)
    BY <1>1, <1>3 DEF EnabledMachine, Overlay, Reconfig
  <2>. QED
    BY <2>1, <2>2 DEF Ok
<1>2. CASE t.mode = Reconfig
  <2>. DEFINE m == [Prepared(t) EXCEPT !.conf[t.adapter] = t.gw]
  <2>1. o = Ok(m)
    BY <1>2 DEF EnableOutcomes, ReconfigEnable, MayFail, Overlay, Reconfig
  <2>2. m = EnabledMachine(t)
    <3>1. [[a \in Adapters |-> Direct] EXCEPT ![t.adapter] = t.gw]
            = [a \in Adapters |-> IF a = t.adapter THEN t.gw ELSE Direct]
      BY <1>0
    <3>2. EnabledMachine(t)
            = [routes |-> {},
               conf |-> [a \in Adapters |->
                           IF a = t.adapter THEN t.gw ELSE Direct],
               snap |-> EnabledMachine(t).snap]
      BY <1>2 DEF EnabledMachine, Overlay, Reconfig
    <3>. QED
      BY <1>3, <3>1, <3>2
  <2>. QED
    BY <2>1, <2>2 DEF Ok
<1>. QED
  BY <1>0, <1>1, <1>2 DEF Mode

(* The same for the adapter strategy, which restores from the snapshot.    *)
LEMMA ExactReconfigDisable ==
    ASSUME Faults = {}, NEW t \in Target, t.mode = Reconfig,
           NEW o \in ReconfigDisable(EnabledMachine(t))
    PROVE  o.ok /\ o.m = Clean
<1>. DEFINE m == EnabledMachine(t)
            back == [m EXCEPT !.conf[m.snap.adapter] = m.snap.conf]
<1>0. t.adapter \in Adapters
  BY DEF Target
<1>1. /\ m.snap = [adapter |-> t.adapter, conf |-> Direct]
      /\ m.routes = {}
      /\ m.conf = [a \in Adapters |-> IF a = t.adapter THEN t.gw ELSE Direct]
  BY DEF EnabledMachine, Overlay, Reconfig
<1>2. m.snap # None
  <2>1. m.snap \in Snapshot
    BY <1>0, <1>1 DEF Snapshot
  <2>. QED
    BY <2>1, SwitchEngineAssumption
<1>3. o = Ok([back EXCEPT !.snap = None])
  BY <1>2 DEF ReconfigDisable, MayFail
<1>4. [back EXCEPT !.snap = None] = Clean
  <2>1. [m.conf EXCEPT ![t.adapter] = Direct] = [a \in Adapters |-> Direct]
    BY <1>0, <1>1
  <2>2. back = [m EXCEPT !.conf = [m.conf EXCEPT ![t.adapter] = Direct]]
    BY <1>1
  <2>. QED
    <3>1. m = [routes |-> {}, conf |-> m.conf, snap |-> m.snap]
      BY <1>1 DEF EnabledMachine
    <3>. HIDE DEF m, back
    <3>2. back = [routes |-> {}, conf |-> [a \in Adapters |-> Direct],
                  snap |-> m.snap]
      BY <2>1, <2>2, <3>1
    <3>. QED
      BY <3>2 DEF Clean
<1>. HIDE DEF back
<1>. QED
  BY <1>3, <1>4 DEF Ok

(* A disable of the target leaves a clean machine.                         *)
LEMMA ExactDisable ==
    ASSUME Faults = {}, NEW t \in Target,
           NEW o \in DisableOutcomes(t.mode, EnabledMachine(t), t)
    PROVE  o.ok /\ o.m = Clean
<1>0. t.mode \in Mode
  BY DEF Target
<1>1. CASE t.mode = Overlay
  <2>. DEFINE m == EnabledMachine(t)
  <2>1. m.routes = Via(t.gw) /\ <<"main", t.gw>> \in m.routes
    BY <1>1 DEF EnabledMachine, Via, Half
  <2>2. o = Ok([m EXCEPT !.routes = @ \ Via(t.gw)])
    BY <1>1, <2>1 DEF DisableOutcomes, OverlayDisable, MayFail
  <2>3. [m EXCEPT !.routes = @ \ Via(t.gw)] = Clean
    BY <1>1 DEF EnabledMachine, Clean, Overlay, Reconfig
  <2>. QED
    BY <2>2, <2>3 DEF Ok
<1>2. CASE t.mode = Reconfig
  BY <1>2, ExactReconfigDisable DEF DisableOutcomes, Overlay, Reconfig
<1>. QED
  BY <1>0, <1>1, <1>2 DEF Mode

(* So does the removal of its overlay routes.                              *)
LEMMA ExactCleanup ==
    ASSUME Faults = {}, NEW t \in Target, t.mode = Overlay,
           NEW m \in Cleanup(EnabledMachine(t), t.gw)
    PROVE  m = Clean
<1>1. PICK kept \in {{}} :
         m = [EnabledMachine(t) EXCEPT !.routes = @ \ (Via(t.gw) \ kept)]
  BY DEF Cleanup, MayFail
<1>. QED
  BY <1>1 DEF EnabledMachine, Clean, Overlay, Reconfig

(* There is nothing to clean up on a clean machine.                        *)
LEMMA CleanStaysClean ==
    ASSUME Faults = {}
    PROVE  /\ \A gw : \A m \in Cleanup(Clean, gw) : m = Clean
           /\ \A o \in ReconfigDisable(Clean) : o.m = Clean
           /\ [Clean EXCEPT !.snap = None] = Clean
<1>1. ASSUME NEW gw, NEW m \in Cleanup(Clean, gw) PROVE m = Clean
  <2>1. PICK kept \in {{}} :
           m = [Clean EXCEPT !.routes = @ \ (Via(gw) \ kept)]
    BY <1>1 DEF Cleanup, MayFail
  <2>. QED
    BY <2>1 DEF Clean
<1>2. ASSUME NEW o \in ReconfigDisable(Clean) PROVE o.m = Clean
  BY <1>2 DEF ReconfigDisable, Clean, Ok
<1>. QED
  BY <1>1, <1>2 DEF Clean

(* The snapshot an enable takes of a clean machine is that of its target.  *)
LEMMA ExactBackup ==
    ASSUME NEW t \in Target
    PROVE  /\ t.mode = Overlay => Clean = Prepared(t)
           /\ t.mode = Reconfig =>
                 [Clean EXCEPT !.snap = [adapter |-> t.adapter,
                                         conf |-> Clean.conf[t.adapter]]]
                   = Prepared(t)
<1>1. t.adapter \in Adapters
  BY DEF Target
<1>2. Clean.conf[t.adapter] = Direct
  BY <1>1 DEF Clean
<1>3. ASSUME t.mode = Overlay PROVE Clean = Prepared(t)
  BY <1>3 DEF Clean, Prepared, EnabledMachine, Overlay, Reconfig
<1>. QED
  BY <1>2, <1>3 DEF Prepared, EnabledMachine

(* The health loop finds the bypass of its handle active.                  *)
LEMMA ExactActive ==
    ASSUME NEW t \in Target, NEW lk, lk # "unplugged"
    PROVE  IsActive(t.mode, EnabledMachine(t), t, lk)
<1>1. t.mode \in Mode /\ t.adapter \in Adapters
  BY DEF Target
<1>. QED
  BY <1>1 DEF IsActive, OverlayInPlace, EnabledMachine, Mode, Overlay, Reconfig

(* None of these machines has a snapshot of a bypass.                      *)
LEMMA ExactSnapshots ==
    ASSUME NEW t
    PROVE  /\ Clean.snap = None
           /\ \A m \in {EnabledMachine(t), Prepared(t)} :
                 m.snap # None => m.snap.conf = Direct
  BY DEF Clean, Prepared, EnabledMachine

-----------------------------------------------------------------------------
(* A loop takes nothing up again and gives nothing up twice.               *)
LoopExact(l) ==
    /\ loop[l].pc \notin RebuildPc \cup {"rebuild"}
    /\ At(l, "active") => loop[l].st = "Healthy"
    /\ loop[l].pc \in FallbackPc => loop[l].st # "Fallback"
    /\ At(l, "fbclear") => machine = Clean
    /\ loop[l].pc \in {"fbmark", "fbsave"} => handle = None
    /\ At(l, "fbsave") => ~runtime.enabled

(* A loop that drives the bypass: it follows the configuration, and the    *)
(* bypass is enabled.                                                      *)
Drives(l) == Current(l) /\ loop[l].st # "Fallback" /\ ~At(l, "fbsave")

(* The machine is what the handle says, but for the steps between a change *)
(* of the one and of the other.                                            *)
MachineExact(c) ==
    /\ link # "unplugged"
    /\ client[c].pc \notin {"drop", "restore", "install", "keep"} =>
          machine = Holding(handle) \/ \E l \in Loops : At(l, "fbclear")
    /\ On(c, "drop") => machine = Clean
    /\ client[c].pc \in {"restore", "unmark", "backup", "install", "keep"} =>
          handle = None
    /\ On(c, "restore") => machine = Holding(client[c].held)
    /\ On(c, "install") => machine = Prepared(TargetOf(client[c].cfg))
    /\ On(c, "keep") => machine = Holding(TargetOf(client[c].cfg))

(* The handle is what the configuration says, but for the steps of an      *)
(* update; a bypass that is enabled has a handle, and a handle stands for  *)
(* an enabled bypass, but for the steps of a fallback and of an enable.    *)
HandleExact(c) ==
    /\ phase = "boot" => handle = None /\ ~runtime.enabled
    /\ handle # None => runtime.enabled \/ On(c, "mark")
    /\ client[c].pc \in {"mark", "rehalt", "load", "spawn"} =>
          handle = TargetOf(client[c].cfg)
    /\ client[c].then = "backup" => client[c].cfg = config
    /\ client[c].pc \in AfterSwap \ {"cleanup", "drop"} =>
          client[c].cfg = config
    /\ client[c].pc \in {"idle", "save", "swap"} =>
          handle = None \/ handle = TargetOf(config)
    /\ client[c].pc \in {"inspect", "cleanup"} =>
          \/ handle = None
          \/ client[c].old # None /\ handle = TargetOf(client[c].old)
    /\ client[c].pc \in {"idle", "save", "swap", "inspect"} =>
          (runtime.enabled =>
              handle # None \/ \E l \in Loops : At(l, "fbmark"))

(* The loop that drives the bypass is there exactly as long as the bypass  *)
(* is enabled, but for the steps of a disable and of an enable.            *)
DriverExact(c) ==
    /\ client[c].pc \in {"take", "restore", "unmark"} => AllStale
    /\ client[c].pc \in {"idle", "save", "swap", "inspect"} =>
          \A l \in Loops : Drives(l) => runtime.enabled
    /\ client[c].pc \in {"idle", "save", "swap"} =>
          /\ \A l \in Loops : Drives(l) => loop[l].cfg = config
          /\ runtime.enabled =>
                \E l \in Loops : Current(l) /\ loop[l].st # "Fallback"

ExactSound(c) ==
    /\ MachineExact(c) /\ HandleExact(c) /\ DriverExact(c)
    /\ \A l \in Loops : LoopExact(l)

ExactInv == \A c \in Clients : ExactSound(c)

-----------------------------------------------------------------------------
(* What the current loop finds, and leaves.                                *)
TickExact(l) ==
    /\ LoopExact(l)
    /\ At(l, "fbclear") \/ machine = Holding(handle)
    /\ handle # None => runtime.enabled
    /\ handle = None \/ handle = TargetOf(config)
    /\ runtime.enabled => handle # None \/ At(l, "fbmark")
    /\ loop[l].st # "Fallback" /\ ~At(l, "fbsave") =>
          runtime.enabled /\ loop[l].cfg = config
    /\ runtime.enabled => loop[l].st # "Fallback"

(* The loop confirms the bypass, counts failures or gives the bypass up,   *)
(* it never replays or takes it up again.                                  *)
LEMMA TickKeepsExact ==
    ASSUME Ideal, HMTypeOK, NEW l \in Loops, LoopStep(l), ~Exit(l),
           Current(l), Current(l)', TickExact(l), link # "unplugged",
           UNCHANGED config
    PROVE  TickExact(l)' /\ link' = link
<1>0. /\ loop \in [Loops -> LoopState] /\ loop[l] \in LoopState
      /\ runtime \in Runtime /\ machine \in Machine /\ handle \in Handle
      /\ loop[l].cfg \in Configs /\ TargetOf(loop[l].cfg) \in Target
      /\ ~Stale(l) /\ Faults = {} /\ ~loop[l].cfg.auto
  BY ConfigTypes DEF HMTypeOK, LoopState, Current, Ideal
<1>t. handle # None /\ loop[l].st # "Fallback" /\ ~At(l, "fbsave") =>
         /\ handle = TargetOf(loop[l].cfg) /\ handle \in Target
         /\ handle.mode = loop[l].cfg.mode
  BY <1>0 DEF TickExact, TargetOf
<1>. USE <1>0 DEF LoopState, Goto, At, shared, TickExact, LoopExact,
                  FallbackPc, RebuildPc
<1>1. CASE TickStart(l)
  BY <1>1 DEF TickStart
<1>2. CASE Ping(l)
  BY <1>2 DEF Ping, OnAnswer, OnSilence, MayReenable
<1>3. CASE CheckActive(l)
  <2>1. handle # None /\ At(l, "active") /\ runtime.enabled
    BY <1>3 DEF CheckActive
  <2>2. IsActive(loop[l].cfg.mode, machine, handle, link)
    <3>1. machine = EnabledMachine(handle)
      BY <1>3, <2>1 DEF CheckActive, Holding
    <3>. QED
      BY <1>t, <2>1, <3>1, ExactActive
  <2>. QED
    BY <1>3, <2>1, <2>2 DEF CheckActive
<1>4. CASE FallbackCheck(l)
  BY <1>4 DEF FallbackCheck
<1>5. CASE FallbackDisable(l)
  <2>0. /\ At(l, "fbdisable") /\ loop'[l].pc = "fbclear"
        /\ loop'[l].st = loop[l].st /\ loop'[l].cfg = loop[l].cfg
        /\ UNCHANGED <<handle, runtime, link>>
        /\ handle # None /\ runtime.enabled
    BY <1>5 DEF FallbackDisable
  <2>1. machine' = Clean
    <3>1. machine = EnabledMachine(handle)
      BY <2>0 DEF Holding
    <3>2. PICK o \in DisableOutcomes(loop[l].cfg.mode, machine, handle) :
             machine' = o.m
      BY <1>5, <2>0 DEF FallbackDisable
    <3>. QED
      BY <1>t, <2>0, <3>1, <3>2, ExactDisable
  <2>. QED
    BY <2>0, <2>1
<1>6. CASE FallbackClear(l)
  BY <1>6 DEF FallbackClear, Holding
<1>7. CASE FallbackMark(l)
  BY <1>7 DEF FallbackMark, FallenBack
<1>8. CASE FallbackSave(l)
  BY <1>8 DEF FallbackSave
<1>9. CASE Report(l)
  <2>1. /\ loop'[l].pc = "wait" /\ loop'[l].st = loop[l].st
        /\ loop'[l].cfg = loop[l].cfg /\ At(l, "report")
        /\ UNCHANGED <<handle, machine, link>>
    BY <1>9 DEF Report
  <2>2. runtime'.enabled = runtime.enabled
    BY <1>9 DEF Report, Runtime
  <2>. QED
    BY <2>1, <2>2
<1>10. CASE \/ DecideRebuild(l) \/ ReenableCheck(l) \/ ReenableInstall(l)
            \/ ReenableKeep(l) \/ ReenableRevive(l) \/ ReenableSave(l)
  BY <1>10 DEF DecideRebuild, ReenableCheck, ReenableInstall, ReenableKeep,
     ReenableRevive, ReenableSave
<1>. QED
  BY <1>1, <1>2, <1>3, <1>4, <1>5, <1>6, <1>7, <1>8, <1>9, <1>10
  DEF LoopStep

(* So a tick keeps the invariant.                                          *)
LEMMA TickKeepsExactness ==
    ASSUME Serial, Ideal, ServiceInv, NEW c \in Clients, ExactSound(c),
           NEW l \in Loops, MayTick, LoopStep(l), UNCHANGED coreVars
    PROVE  ExactSound(c)'
<1>0. /\ HMTypeOK /\ gen' = gen /\ phase = "serve" /\ On(c, "idle")
      /\ phase' = phase /\ client' = client /\ config' = config
      /\ \A k \in Loops : k # l => loop'[k] = loop[k]
  BY TickFrame DEF ServiceInv, TypeInv, TypeOK, coreVars, configs
<1>1. CASE Exit(l)
  <2>1. /\ At(l, "wait") /\ Stale(l) /\ ~Live(l)'
        /\ UNCHANGED <<handle, runtime, machine, link>>
    BY <1>1, TickFrame DEF shared, Exit
  <2>2. \A k \in Loops : /\ Current(k)' => Current(k) /\ k # l
                         /\ Current(k) => Current(k)' /\ k # l
                         /\ Current(k) => loop'[k] = loop[k]
    BY <1>0, <2>1 DEF Current, Live, Stale
  <2>3. \A k \in Loops : /\ At(k, "fbclear")' <=> At(k, "fbclear")
                         /\ At(k, "fbmark")' <=> At(k, "fbmark")
                         /\ At(k, "fbsave")' <=> At(k, "fbsave")
                         /\ LoopExact(k)'
    BY <1>0, <2>1 DEF At, Live, ExactSound, LoopExact, FallbackPc, RebuildPc
  <2>4. MachineExact(c)' /\ HandleExact(c)'
    BY <1>0, <2>1, <2>3 DEF ExactSound, MachineExact, HandleExact, On
  <2>5. DriverExact(c)'
    BY <1>0, <2>1, <2>2, <2>3 DEF ExactSound, DriverExact, On, Drives
  <2>. QED
    BY <2>3, <2>4, <2>5 DEF ExactSound
<1>2. CASE ~Exit(l)
  <2>1. /\ Current(l) /\ Current(l)'
        /\ \A k \in Loops : k # l => ~MidTick(k) /\ ~Current(k)
    BY <1>2, TickFrame
  <2>2. \A k \in Loops : k # l => /\ ~At(k, "fbclear") /\ ~At(k, "fbmark")
                                  /\ loop[k].pc \in {"wait", "done"}
    BY <2>1 DEF MidTick, At
  <2>3. TickExact(l) /\ link # "unplugged"
    BY <1>0, <2>1, <2>2
    DEF ExactSound, MachineExact, HandleExact, DriverExact, Drives,
        TickExact, On
  <2>4. TickExact(l)' /\ link' = link
    BY <1>0, <1>2, <2>1, <2>3, TickKeepsExact
  <2>5. \A k \in Loops : k # l => /\ loop'[k].pc \in {"wait", "done"}
                                  /\ ~Current(k)'
    BY <1>0, <2>1, <2>2 DEF Current, Live, Stale
  <2>6. \A k \in Loops : LoopExact(k)'
    BY <2>4, <2>5 DEF LoopExact, TickExact, At, FallbackPc, RebuildPc
  <2>7. MachineExact(c)' /\ HandleExact(c)'
    BY <1>0, <2>3, <2>4 DEF MachineExact, HandleExact, TickExact, On,
       ExactSound, AfterSwap, MonitorPc
  <2>8. DriverExact(c)'
    BY <1>0, <2>1, <2>4, <2>5 DEF DriverExact, TickExact, On, Drives
  <2>. QED
    BY <2>6, <2>7, <2>8 DEF ExactSound
<1>. QED
  BY <1>1, <1>2

-----------------------------------------------------------------------------
(* The same invariant while no loop is in a tick.                          *)
RestExact(c) ==
    /\ link # "unplugged"
    /\ client[c].pc \notin {"drop", "restore", "install", "keep"} =>
          machine = Holding(handle)
    /\ On(c, "drop") => machine = Clean
    /\ client[c].pc \in {"restore", "unmark", "backup", "install", "keep"} =>
          handle = None
    /\ On(c, "restore") => machine = Holding(client[c].held)
    /\ On(c, "install") => machine = Prepared(TargetOf(client[c].cfg))
    /\ On(c, "keep") => machine = Holding(TargetOf(client[c].cfg))
    /\ phase = "boot" => handle = None /\ ~runtime.enabled
    /\ handle # None => runtime.enabled \/ On(c, "mark")
    /\ client[c].pc \in {"mark", "rehalt", "load", "spawn"} =>
          handle = TargetOf(client[c].cfg)
    /\ client[c].then = "backup" => client[c].cfg = config
    /\ client[c].pc \in {"inspect", "check", "backup", "install", "keep",
                         "mark", "rehalt", "load", "spawn"} =>
          client[c].cfg = config
    /\ client[c].pc \in {"idle", "save", "swap"} =>
          handle = None \/ handle = TargetOf(config)
    /\ client[c].pc \in {"inspect", "cleanup"} =>
          \/ handle = None
          \/ client[c].old # None /\ handle = TargetOf(client[c].old)
    /\ client[c].pc \in {"idle", "save", "swap", "inspect"} =>
          (runtime.enabled => handle # None)
    /\ client[c].pc \in {"take", "restore", "unmark"} => AllStale
    /\ client[c].pc \in {"idle", "save", "swap", "inspect"} =>
          \A l \in Loops :
             Current(l) /\ loop[l].st # "Fallback" => runtime.enabled
    /\ client[c].pc \in {"idle", "save", "swap"} =>
          /\ \A l \in Loops : Current(l) /\ loop[l].st # "Fallback" =>
                                 loop[l].cfg = config
          /\ runtime.enabled =>
                \E l \in Loops : Current(l) /\ loop[l].st # "Fallback"

(* A request finds every loop between two ticks, so it meets only this     *)
(* form.                                                                   *)
LEMMA ExactAtRest ==
    ASSUME NEW c \in Clients, \A l \in Loops : ~MidTick(l)
    PROVE  ExactSound(c) <=> RestExact(c)
<1>1. \A l \in Loops : loop[l].pc \in {"wait", "done"}
  BY DEF MidTick
<1>2. \A l \in Loops : /\ LoopExact(l) /\ ~At(l, "fbclear")
                       /\ ~At(l, "fbmark") /\ ~At(l, "fbsave")
  BY <1>1 DEF LoopExact, At, FallbackPc, RebuildPc
<1>3. MachineExact(c) <=>
         /\ link # "unplugged"
         /\ client[c].pc \notin {"drop", "restore", "install", "keep"} =>
               machine = Holding(handle)
         /\ On(c, "drop") => machine = Clean
         /\ client[c].pc \in {"restore", "unmark", "backup", "install",
                              "keep"} => handle = None
         /\ On(c, "restore") => machine = Holding(client[c].held)
         /\ On(c, "install") => machine = Prepared(TargetOf(client[c].cfg))
         /\ On(c, "keep") => machine = Holding(TargetOf(client[c].cfg))
  BY <1>2 DEF MachineExact
<1>4. AfterSwap \ {"cleanup", "drop"} =
         {"inspect", "check", "backup", "install", "keep", "mark", "rehalt",
          "load", "spawn"}
  BY DEF AfterSwap, MonitorPc
<1>5. HandleExact(c) /\ DriverExact(c) /\ MachineExact(c) <=> RestExact(c)
  BY <1>2, <1>3, <1>4 DEF HandleExact, DriverExact, RestExact, Drives
<1>. QED
  BY <1>2, <1>5 DEF ExactSound

(* The steps of a request that change the machine.                         *)
LEMMA CleanupIsExact ==
    ASSUME Ideal, ServiceInv, NEW c \in Clients, RestExact(c),
           CleanupPreviousMode(c)
    PROVE  machine' = Clean
<1>0. /\ client[c].old \in Configs \cup {None} /\ On(c, "cleanup")
      /\ machine = Holding(handle) /\ Faults = {}
      /\ \/ handle = None
         \/ client[c].old # None /\ handle = TargetOf(client[c].old)
  BY DEF CleanupPreviousMode, RestExact, On, Ideal, ServiceInv, TypeInv,
     TypeOK, ClientState
<1>. DEFINE old == client[c].old
            t == TargetOf(old)
<1>1. /\ t.mode = old.mode /\ t.gw = old.gw
      /\ old # None => t \in Target /\ old.mode \in Mode
  BY <1>0, ConfigTypes DEF TargetOf
<1>2. \/ old = None /\ machine' = machine
      \/ /\ old # None /\ old.mode = Overlay
         /\ machine' \in Cleanup(machine, old.gw)
      \/ /\ old # None /\ old.mode = Reconfig
         /\ \E o \in ReconfigDisable(machine) : machine' = o.m
  BY DEF CleanupPreviousMode
<1>3. CASE handle = None
  BY <1>0, <1>2, <1>3, CleanStaysClean DEF Holding
<1>4. CASE handle # None
  <2>1. old # None /\ handle = t /\ machine = EnabledMachine(t)
    BY <1>0, <1>4 DEF Holding
  <2>. HIDE DEF t, old
  <2>. QED
    BY <1>0, <1>1, <1>2, <2>1, ExactCleanup, ExactReconfigDisable
<1>. QED
  BY <1>3, <1>4

(* An enable takes its snapshot of a clean machine, and it succeeds.       *)
LEMMA EnableIsExact ==
    ASSUME Ideal, ServiceInv, NEW c \in Clients, RestExact(c)
    PROVE  /\ Backup(c) => machine' = Prepared(TargetOf(client[c].cfg))
           /\ Install(c) => /\ machine' = Holding(TargetOf(client[c].cfg))
                            /\ client'[c].pc = "keep"
<1>. DEFINE cfg == client[c].cfg
            t == TargetOf(cfg)
<1>0. /\ On(c, "backup") \/ On(c, "install") => cfg # None
      /\ cfg \in Configs \cup {None} /\ Faults = {}
      /\ client \in [Clients -> ClientState]
  BY DEF Ideal, ServiceInv, TypeInv, TypeOK, ClientState, RequestSound,
     WithConfig, AfterSwap, On
<1>1. /\ t.mode = cfg.mode /\ t.adapter = cfg.adapter
      /\ cfg # None => t \in Target /\ t # None
  BY <1>0, ConfigTypes, SwitchEngineAssumption DEF TargetOf
<1>2. ASSUME Backup(c) PROVE machine' = Prepared(t)
  <2>1. machine = Clean /\ cfg # None
    BY <1>0, <1>2 DEF Backup, RestExact, On, Holding
  <2>2. \/ cfg.mode = Overlay /\ machine' = machine
        \/ /\ cfg.mode = Reconfig
           /\ machine' = [machine EXCEPT !.snap =
                            [adapter |-> cfg.adapter,
                             conf |-> machine.conf[cfg.adapter]]]
    BY <1>0, <1>2 DEF Backup
  <2>. HIDE DEF t, cfg
  <2>. QED
    BY <1>1, <2>1, <2>2, ExactBackup
<1>3. ASSUME Install(c)
      PROVE  machine' = Holding(t) /\ client'[c].pc = "keep"
  <2>1. /\ machine = Prepared(t) /\ cfg # None /\ link # "unplugged"
    BY <1>0, <1>3 DEF Install, RestExact, On
  <2>2. PICK o \in EnableOutcomes(machine, t, link) :
           \/ o.ok /\ machine' = o.m /\ Step(c, "keep")
           \/ ~o.ok
    BY <1>3 DEF Install
  <2>3. "keep" \in ClientPc
    BY DEF ClientPc, EnablePc
  <2>. HIDE DEF t, cfg
  <2>4. o.ok /\ o.m = EnabledMachine(t)
    BY <1>0, <1>1, <2>1, <2>2, ExactEnable
  <2>. QED
    BY <1>0, <1>1, <2>1, <2>2, <2>3, <2>4, StepTypes DEF Holding
<1>. QED
  BY <1>2, <1>3

(* A disable restores the clean machine, and it succeeds.                  *)
LEMMA RestoreIsExact ==
    ASSUME Ideal, ServiceInv, NEW c \in Clients, RestExact(c), Restore(c)
    PROVE  machine' = Clean /\ client'[c].pc = "unmark"
<1>. DEFINE h == client[c].held
<1>0. /\ h \in Target /\ Faults = {} /\ client \in [Clients -> ClientState]
      /\ machine = Holding(h)
  BY DEF Ideal, ServiceInv, TypeInv, TypeOK, ClientState, RequestSound,
     Restore, RestExact, On, Handle
<1>1. machine = EnabledMachine(h)
  BY <1>0, SwitchEngineAssumption DEF Holding
<1>2. PICK o \in DisableOutcomes(h.mode, machine, h) :
         machine' = o.m /\ (IF o.ok THEN Step(c, "unmark") ELSE Answer(c))
  BY DEF Restore
<1>3. "unmark" \in ClientPc
  BY DEF ClientPc, DisablePc
<1>. HIDE DEF h
<1>4. o.ok /\ o.m = Clean
  BY <1>0, <1>1, <1>2, ExactDisable
<1>. QED
  BY <1>0, <1>2, <1>3, <1>4, StepTypes

(* The steps of a request.                                                 *)
LEMMA RequestKeepsExact ==
    ASSUME Serial, Ideal, ServiceInv, ServiceInv',
           NEW c \in Clients, ExactSound(c), Send(c) \/ ClientStep(c)
    PROVE  ExactSound(c)'
<1>0. /\ phase = "serve" /\ phase' = phase
      /\ client \in [Clients -> ClientState] /\ client[c] \in ClientState
      /\ loop \in [Loops -> LoopState]
      /\ runtime \in Runtime /\ machine \in Machine /\ handle \in Handle
      /\ link' = link
      /\ Send(c) => On(c, "idle")
  BY RequestFrame DEF ServiceInv, TypeInv, TypeOK, HMTypeOK
<1>l. \A l \in Loops : ~MidTick(l)
  BY RequestFrame
<1>m. \A l \in Loops : ~MidTick(l)'
  BY <1>0, <1>l, RequestMoves DEF ClientStep, RestKept, MidTick, SameLoop
<1>w. RestExact(c)
  BY <1>l, ExactAtRest
<1>s. /\ client'[c].pc \in {"cancel", "load", "spawn"} => AllStale'
      /\ client[c].pc \in {"cancel", "load", "spawn"} => AllStale
      /\ On(c, "spawn") => client[c].seen = gen
      /\ OneCurrentLoop'
  BY DEF ServiceInv, LoopsSound
<1>f. Faults = {}
  BY DEF Ideal
<1>n. handle # None => config # None
  BY <1>w DEF RestExact, ServiceInv, TypeInv, Configured, AfterSwap, On
<1>h. Holding(None) = Clean
  BY DEF Holding
<1>t. \A x \in Configs : TargetOf(x) # None
  BY ConfigTypes, SwitchEngineAssumption
<1>g. ASSUME RestExact(c)' PROVE ExactSound(c)'
  <2>1. \A l \in Loops : loop'[l].pc \in {"wait", "done"}
    BY <1>m DEF MidTick
  <2>2. \A l \in Loops : /\ LoopExact(l)' /\ ~At(l, "fbclear")'
                         /\ ~At(l, "fbmark")' /\ ~At(l, "fbsave")'
    BY <2>1 DEF LoopExact, At, FallbackPc, RebuildPc
  <2>3. AfterSwap \ {"cleanup", "drop"} =
           {"inspect", "check", "backup", "install", "keep", "mark",
            "rehalt", "load", "spawn"}
    BY DEF AfterSwap, MonitorPc
  <2>4. MachineExact(c)'
    BY <1>g, <2>2 DEF MachineExact, RestExact
  <2>5. HandleExact(c)'
    BY <1>g, <2>2, <2>3 DEF HandleExact, RestExact
  <2>6. DriverExact(c)'
    BY <1>g, <2>2 DEF DriverExact, RestExact, Drives
  <2>. QED
    BY <2>2, <2>4, <2>5, <2>6 DEF ExactSound
<1>. USE <1>0, <1>w, <1>f, <1>h, RequestMoves
     DEF RestExact, Current, Live, Stale, On, Place, RestKept, Ended,
         Carried
<1>1. ASSUME Send(c) PROVE RestExact(c)'
  BY <1>1
<1>2. ASSUME SaveConfig(c) PROVE RestExact(c)'
  BY <1>2
<1>3. ASSUME SwapConfig(c) PROVE RestExact(c)'
  BY <1>3, <1>n
<1>4. ASSUME InspectChange(c) PROVE RestExact(c)'
  <2>1. /\ On(c, "inspect") /\ RestKept /\ machine' = machine
        /\ machine = Holding(handle) /\ client[c].cfg = config
        /\ handle = None \/ handle = TargetOf(client[c].old)
        /\ handle # None <=> runtime.enabled
    BY <1>4
  <2>2. CASE ~Enabled /\ Ended(c)
    <3>1. \A l \in Loops : Current(l)' => loop'[l].st = "Fallback"
      BY <2>1, <2>2 DEF Enabled
    <3>. QED
      BY <2>1, <2>2, <3>1 DEF Enabled
  <2>3. CASE Enabled /\ Carried(c) /\ client'[c].pc \in {"cleanup", "read"}
    BY <2>1, <2>3
  <2>4. CASE /\ Enabled /\ Carried(c) /\ client'[c].pc = "rehalt"
             /\ SameTarget(client[c].old, client[c].cfg)
    <3>1. handle # None /\ handle' = TargetOf(client[c].cfg)
      BY <2>1, <2>4 DEF Enabled, SameTarget
    <3>. QED
      BY <2>1, <2>4, <3>1
  <2>. QED
    BY <1>4, <2>2, <2>3, <2>4
<1>5. ASSUME CleanupPreviousMode(c) PROVE RestExact(c)'
  BY <1>5, CleanupIsExact
<1>6. ASSUME DropHandle(c) PROVE RestExact(c)'
  BY <1>6
<1>7. ASSUME ReadConfig(c) PROVE RestExact(c)'
  <2>1. CASE config = None
    <3>1. /\ ~runtime.enabled /\ handle = None
          /\ \A l \in Loops : ~Live(l)
      BY <1>n, <2>1 DEF ServiceInv, TypeInv, Configured
    <3>. QED
      BY <1>7, <2>1, <3>1
  <2>2. CASE config # None
    BY <1>7, <2>2
  <2>. QED
    BY <2>1, <2>2
<1>8. ASSUME CheckHandle(c) PROVE RestExact(c)'
  <2>1. /\ RestKept /\ machine' = machine /\ machine = Holding(handle)
        /\ client[c].cfg = config /\ client'[c].cfg = config
        /\ ~On(c, "mark")
    BY <1>8
  <2>2. \/ handle # None /\ client'[c].pc = "halt"
        \/ handle = None /\ client'[c].pc = "backup"
    BY <1>8
  <2>. QED
    BY <2>1, <2>2
<1>9. ASSUME Backup(c) PROVE RestExact(c)'
  BY <1>9, EnableIsExact
<1>10. ASSUME Install(c) PROVE RestExact(c)'
  BY <1>10, EnableIsExact
<1>11. ASSUME Keep(c) PROVE RestExact(c)'
  BY <1>11
<1>12. ASSUME MarkEnabled(c) PROVE RestExact(c)'
  <2>1. runtime'.enabled = TRUE
    BY <1>12, MarkedValues
  <2>. QED
    BY <1>12, <2>1
<1>13. ASSUME TakeHandle(c) PROVE RestExact(c)'
  BY <1>13 DEF AllStale
<1>14. ASSUME Restore(c) PROVE RestExact(c)'
  BY <1>14, RestoreIsExact DEF AllStale
<1>15. ASSUME MarkDisabled(c) PROVE RestExact(c)'
  <2>1. /\ runtime'.enabled = FALSE
        /\ client'[c].pc \in {"idle", "backup"}
        /\ handle = None /\ handle' = None
        /\ \A l \in Loops : ~Current(l)'
    BY <1>15, MarkedValues DEF AllStale
  <2>. QED
    BY <1>15, <2>1
<1>16. ASSUME BumpGeneration(c) PROVE RestExact(c)'
  BY <1>16 DEF shared
<1>17. ASSUME SendCancel(c) PROVE RestExact(c)'
  <2>1. AllStale'
    BY <1>17, <1>s DEF AllStale, SameLoop
  <2>. QED
    BY <1>17, <2>1 DEF shared
<1>18. ASSUME SpawnLoop(c) PROVE RestExact(c)'
  <2>1. PICK l \in Loops :
           /\ loop'[l].pc = "wait" /\ loop'[l].gen = client[c].seen
           /\ loop'[l].cfg = client[c].cfg /\ loop'[l].st = "Healthy"
           /\ \A k \in Loops : k # l => loop'[k] = loop[k]
    BY <1>18
  <2>0. UNCHANGED <<gen, shared, config>> /\ On(c, "spawn") /\ Ended(c)
    BY <1>18
  <2>2. /\ gen' = gen /\ config' = config /\ client[c].cfg = config
        /\ On(c, "spawn") /\ client'[c].pc = "idle"
        /\ client'[c].then = "reply"
        /\ UNCHANGED shared
    BY <2>0
  <2>3. Current(l)' /\ \A k \in Loops : Current(k)' => k = l
    BY <1>s, <2>1, <2>2 DEF OneCurrentLoop
  <2>4. handle # None /\ runtime.enabled
    <3>1. client[c].cfg \in Configs
      BY <2>2 DEF ServiceInv, TypeInv, RequestSound, WithConfig, AfterSwap,
         MonitorPc, ClientState
    <3>. QED
      BY <1>t, <2>2, <3>1
  <2>. QED
    BY <2>1, <2>2, <2>3, <2>4 DEF shared
<1>. QED
  BY <1>g, <1>1, <1>2, <1>3, <1>4, <1>5, <1>6, <1>7, <1>8, <1>9, <1>10,
     <1>11, <1>12, <1>13, <1>14, <1>15, <1>16, <1>17, <1>18 DEF ClientStep

(* The service starts on a clean machine, with nothing to put back.        *)
LEMMA BootKeepsExact ==
    ASSUME Ideal, ServiceInv, NEW c \in Clients, ExactSound(c), Boot
    PROVE  ExactSound(c)'
<1>0. /\ phase = "boot" /\ phase' = "serve" /\ client' = client
      /\ link' = link /\ config' = config /\ On(c, "idle")
      /\ \A l \in Loops : ~Live(l) /\ ~At(l, "fbclear")
      /\ runtime \in Runtime /\ Faults = {}
  BY DEF ServiceInv, TypeInv, TypeOK, HMTypeOK, LoopsSound, Boot, Ideal,
     Live, At
<1>1. handle = None /\ ~runtime.enabled /\ machine = Clean
  BY <1>0 DEF ExactSound, MachineExact, HandleExact, Holding, On
<1>2. BootDirect
  BY <1>1 DEF Boot, BootOverlay, BootReconfig
<1>3. /\ handle' = None /\ gen' = gen /\ loop' = loop
      /\ runtime'.enabled = FALSE
  BY <1>0, <1>1, <1>2 DEF BootDirect, NoMonitor, Mark, Runtime
<1>4. machine' = Clean
  <2>1. PICK m \in Cleanup(machine, CleanupGateway) :
           machine' \in {[m EXCEPT !.snap = None]} \cup MayFail({"save"}, {m})
    BY <1>2 DEF BootDirect
  <2>2. m = Clean
    BY <1>0, <1>1, <2>1, CleanStaysClean
  <2>. QED
    BY <1>0, <2>1, <2>2, CleanStaysClean DEF MayFail
<1>5. \A l \in Loops : /\ ~Current(l)' /\ LoopExact(l)' /\ ~At(l, "fbclear")'
  BY <1>0, <1>3 DEF Current, Live, LoopExact, At, FallbackPc, RebuildPc
<1>6. MachineExact(c)' /\ HandleExact(c)'
  BY <1>0, <1>1, <1>3, <1>4, <1>5 DEF ExactSound, MachineExact, HandleExact,
     Holding, On, AfterSwap, MonitorPc
<1>7. DriverExact(c)'
  BY <1>0, <1>3, <1>5 DEF DriverExact, Drives, On
<1>. QED
  BY <1>5, <1>6, <1>7 DEF ExactSound

(* The exact machine, in every state.                                      *)
THEOREM MachineIsExact ==
    ASSUME Serial, Ideal
    PROVE  Spec => [](ServiceInv /\ ExactInv)
<1>1. Init => ExactInv
  <2>. SUFFICES ASSUME Init, NEW c \in Clients PROVE ExactSound(c)
    BY DEF ExactInv
  <2>1. /\ \A l \in Loops : loop[l].pc = "done"
        /\ client[c].pc = "idle" /\ client[c].then = "reply"
        /\ handle = None /\ link = "reachable" /\ phase = "boot"
        /\ ~runtime.enabled /\ machine = Clean
    BY IdleLoopType, RestingType DEF Init, Resting, Clean
  <2>2. \A l \in Loops : ~Current(l) /\ LoopExact(l)
    BY <2>1 DEF Current, Live, LoopExact, At, FallbackPc, RebuildPc
  <2>. QED
    BY <2>1, <2>2 DEF ExactSound, MachineExact, HandleExact, DriverExact,
       Drives, Holding, On, AfterSwap, MonitorPc
<1>2. ServiceInv /\ ExactInv /\ [Next]_vars => ExactInv'
  <2>. SUFFICES ASSUME ServiceInv, ExactInv, [Next]_vars, NEW c \in Clients
                PROVE  ExactSound(c)'
    BY DEF ExactInv
  <2>0. ExactSound(c) /\ ServiceInv'
    BY StepKeepsService DEF ExactInv
  <2>1. ASSUME NEW d \in Clients, Send(d) \/ ClientStep(d)
        PROVE  ExactSound(c)'
    <3>1. d = c
      BY DEF Serial, OneConnection
    <3>. QED
      BY <2>0, <2>1, <3>1, RequestKeepsExact
  <2>2. ASSUME TimePasses \/ Outside \/ UNCHANGED hmVars, UNCHANGED coreVars
        PROVE  ExactSound(c)'
    <3>1. /\ LoopsKept /\ UNCHANGED <<handle, runtime>> /\ machine' = machine
          /\ client' = client /\ phase' = phase /\ config' = config
      BY <2>2, EnvironmentFrame DEF ServiceInv, Ideal, coreVars, configs
    <3>2. link' # "unplugged"
      BY <2>0, <2>2, EnvironmentFrame
      DEF ServiceInv, Ideal, ExactSound, MachineExact
    <3>3. \A l \in Loops : /\ loop'[l].pc = loop[l].pc
                           /\ loop'[l].st = loop[l].st
                           /\ loop'[l].cfg = loop[l].cfg
                           /\ Current(l)' <=> Current(l)
                           /\ Live(l)' <=> Live(l)
                           /\ Stale(l)' <=> Stale(l)
      BY <3>1 DEF LoopsKept, SameLoop, Current, Live, Stale
    <3>4. \A l \in Loops : LoopExact(l)'
      BY <2>0, <3>1, <3>3 DEF ExactSound, LoopExact, At
    <3>5. MachineExact(c)' /\ HandleExact(c)'
      BY <2>0, <3>1, <3>2, <3>3
      DEF ExactSound, MachineExact, HandleExact, At, On
    <3>6. DriverExact(c)'
      BY <2>0, <3>1, <3>3
      DEF ExactSound, DriverExact, Drives, AllStale, At
    <3>. QED
      BY <3>4, <3>5, <3>6 DEF ExactSound
  <2>3. ASSUME NEW l \in Loops, MayTick, LoopStep(l), UNCHANGED coreVars
        PROVE  ExactSound(c)'
    BY <2>0, <2>3, TickKeepsExactness
  <2>4. CASE Boot
    BY <2>0, <2>4, BootKeepsExact
  <2>5. ~Crash
    BY DEF Crash, Ideal, ServiceInv, TypeInv, TypeOK
  <2>. QED
    BY <2>1, <2>2, <2>3, <2>4, <2>5 DEF Next, vars
<1>. QED
  BY <1>1, <1>2, TicksKeepApart, PTL DEF Spec

(* Whenever the service rests with the bypass off, nothing of it is left   *)
(* on the machine (disable, fallback, cleanup_previous_mode), as long as   *)
(* nothing fails, the process does not die, no request overlaps a tick and *)
(* no loop takes the bypass up again by itself.                            *)
THEOREM DisableCleansUp ==
    ASSUME Serial, Ideal
    PROVE  Spec => []DisabledIsDirect
<1>1. ExactInv => DisabledIsDirect
  <2>. SUFFICES ASSUME ExactInv, Settled, ~runtime.enabled
                PROVE  IsDirect(machine)
    BY DEF DisabledIsDirect
  <2>1. PICK c \in Clients : On(c, "idle")
    BY ControllerAssumption DEF Settled
  <2>2. MachineExact(c) /\ HandleExact(c)
    BY DEF ExactInv, ExactSound
  <2>3. \A l \in Loops : ~At(l, "fbclear")
    BY DEF Settled, MidTick, At
  <2>. QED
    BY <2>1, <2>2, <2>3
    DEF MachineExact, HandleExact, Holding, Clean, IsDirect, On
<1>. QED
  BY <1>1, MachineIsExact, PTL

(* What watches an enabled bypass follows the configuration the user sees  *)
(* (update_config, start_health_monitor), under the same conditions: a     *)
(* loop that takes its bypass up again does so with the configuration it   *)
(* was started with.                                                       *)
THEOREM WatcherFollowsConfiguration ==
    ASSUME Serial, Ideal
    PROVE  Spec => []WatchedAsConfigured
<1>1. ExactInv => WatchedAsConfigured
  <2>. SUFFICES ASSUME ExactInv, Settled, runtime.enabled
                PROVE  \E l \in Loops : /\ Live(l) /\ ~Stale(l)
                                        /\ loop[l].cfg = config
    BY DEF WatchedAsConfigured
  <2>1. PICK c \in Clients : On(c, "idle")
    BY ControllerAssumption DEF Settled
  <2>2. DriverExact(c)
    BY DEF ExactInv, ExactSound
  <2>3. PICK l \in Loops : Current(l) /\ loop[l].st # "Fallback"
    BY <2>1, <2>2 DEF DriverExact, On
  <2>4. ~At(l, "fbsave")
    BY DEF Settled, MidTick, At
  <2>. QED
    BY <2>1, <2>2, <2>3, <2>4 DEF DriverExact, Drives, Current, On
<1>. QED
  BY <1>1, MachineIsExact, PTL

(* The snapshot holds the adapter's own configuration, never the bypass    *)
(* (enable disables first), under the same conditions.                     *)
THEOREM SnapshotStaysOriginal ==
    ASSUME Serial, Ideal
    PROVE  Spec => []SnapshotIsOriginal
<1>1. ExactInv => SnapshotIsOriginal
  <2>. SUFFICES ASSUME ExactInv PROVE SnapshotIsOriginal
    OBVIOUS
  <2>1. PICK c \in Clients : TRUE
    BY ControllerAssumption
  <2>2. MachineExact(c) /\ \A l \in Loops : LoopExact(l)
    BY DEF ExactInv, ExactSound
  <2>3. \/ machine = Clean
        \/ \E t : machine \in {EnabledMachine(t), Prepared(t)}
    BY <2>2 DEF MachineExact, LoopExact, Holding, On
  <2>. QED
    BY <2>3, ExactSnapshots DEF SnapshotIsOriginal
<1>. QED
  BY <1>1, MachineIsExact, PTL

-----------------------------------------------------------------------------
(* Every configuration asks for the overlay, through the same gateway.     *)
OneBypass == \A c, d \in Configs : c.mode = Overlay /\ c.gw = d.gw

(* All there is on the machine is overlay routes through that gateway.     *)
OneBypassOnly ==
    /\ \A a \in Adapters : machine.conf[a] = Direct
    /\ \A d \in Configs : machine.routes \subseteq Via(d.gw)
    /\ config = None => machine.routes = {}

Bypass(t) == t.mode = Overlay /\ \A d \in Configs : t.gw = d.gw

(* While the process serves, routes have a handle, but for the steps       *)
(* between a change of the one and of the other.                           *)
RoutesSound(c) ==
    /\ OneBypassOnly
    /\ handle # None => Bypass(handle)
    /\ On(c, "restore") => Bypass(client[c].held)
    /\ client[c].pc \in {"inspect", "cleanup"} /\ client[c].old = None =>
          machine.routes = {}
    /\ On(c, "drop") => machine.routes = {}
    /\ \A l \in Loops : At(l, "fbclear") => machine.routes = {}
    /\ phase = "serve" =>
          \/ machine.routes = {} \/ handle # None
          \/ client[c].pc \in {"keep", "restore"}
          \/ \E l \in Loops : At(l, "keep")

RoutesInv == \A c \in Clients : RoutesSound(c)

(* What the overlay strategy does when only a creation may fail: an enable *)
(* that fails leaves nothing behind, a disable or a clean-up takes all     *)
(* there is through its gateway.                                           *)
LEMMA CleanupTakesAll ==
    ASSUME Faults \subseteq {"create"}, NEW m \in Machine, NEW gw,
           NEW n \in Cleanup(m, gw)
    PROVE  n.routes = m.routes \ Via(gw) /\ n.conf = m.conf
<1>1. PICK kept \in {{}} : n = [m EXCEPT !.routes = @ \ (Via(gw) \ kept)]
  BY DEF Cleanup, MayFail
<1>. QED
  BY <1>1 DEF Machine

(* The same of an enable.                                                  *)
LEMMA EnableLeavesNothing ==
    ASSUME Faults \subseteq {"create"}, NEW m \in Machine, NEW t \in Target,
           t.mode = Overlay, NEW lk, NEW o \in EnableOutcomes(m, t, lk)
    PROVE  /\ o.m.conf = m.conf
           /\ o.m.routes \subseteq m.routes \cup Via(t.gw)
           /\ ~o.ok /\ (m.routes = {} \/ lk # "unplugged") =>
                 o.m.routes \subseteq m.routes \ Via(t.gw)
<1>. DEFINE half == [m EXCEPT !.routes = @ \cup {<<"main", t.gw>>}]
            done == [m EXCEPT !.routes = @ \cup Via(t.gw)]
<1>0. /\ half \in Machine /\ half.conf = m.conf
      /\ half.routes = m.routes \cup {<<"main", t.gw>>}
      /\ done.conf = m.conf /\ done.routes = m.routes \cup Via(t.gw)
      /\ <<"main", t.gw>> \in Via(t.gw)
  BY DEF Machine, Target, Via, Half
<1>. HIDE DEF half, done
<1>1. \/ o = Err(m) /\ lk = "unplugged"
      \/ o = Ok(done)
      \/ \E c \in Cleanup(half, t.gw) : o = Err(c)
  BY DEF EnableOutcomes, OverlayEnable, MayFail, half, done
<1>2. \A c \in Cleanup(half, t.gw) :
         c.routes = half.routes \ Via(t.gw) /\ c.conf = half.conf
  BY <1>0, CleanupTakesAll
<1>3. CASE (o = Err(m) /\ lk = "unplugged") \/ o = Ok(done)
  BY <1>0, <1>3, Results
<1>4. ASSUME NEW c \in Cleanup(half, t.gw), o = Err(c)
      PROVE  /\ o.m.conf = m.conf
             /\ o.m.routes \subseteq m.routes \cup Via(t.gw)
             /\ o.m.routes \subseteq m.routes \ Via(t.gw)
  <2>1. o.m = c
    BY <1>4, Results
  <2>. QED
    BY <1>0, <1>2, <2>1
<1>. QED
  BY <1>1, <1>3, <1>4

(* The same of a disable.                                                  *)
LEMMA DisableTakesAll ==
    ASSUME Faults \subseteq {"create"}, NEW m \in Machine, NEW h \in Target,
           h.mode = Overlay, Via(h.gw) \subseteq m.routes,
           NEW o \in DisableOutcomes(Overlay, m, h)
    PROVE  o.m.routes = m.routes \ Via(h.gw) /\ o.m.conf = m.conf
<1>. DEFINE done == [m EXCEPT !.routes = @ \ Via(h.gw)]
<1>0. done.routes = m.routes \ Via(h.gw) /\ done.conf = m.conf
  BY DEF Machine
<1>1. <<"main", h.gw>> \in m.routes
  BY DEF Via, Half
<1>. HIDE DEF done
<1>2. o = Ok(done)
  BY <1>1 DEF DisableOutcomes, OverlayDisable, MayFail, done
<1>. QED
  BY <1>0, <1>2, Results

(* Everything the program asks for is that bypass.                         *)
LEMMA TargetsAreBypass ==
    ASSUME OneBypass, NEW x \in Configs
    PROVE  /\ TargetOf(x) \in Target /\ Bypass(TargetOf(x))
           /\ TargetOf(x).mode = Overlay /\ TargetOf(x).gw = x.gw
           /\ x.mode = Overlay
  BY ConfigTypes DEF TargetOf, OneBypass, Bypass

-----------------------------------------------------------------------------
(* The steps of the current loop.                                          *)
LEMMA TickKeepsOneBypass ==
    ASSUME Untroubled, OneBypass, HMTypeOK, NEW l \in Loops, LoopStep(l),
           ~Exit(l), UNCHANGED config, config # None, OneBypassOnly,
           handle # None => Bypass(handle),
           handle # None => HasRoutes(handle) \/ At(l, "fbclear"),
           At(l, "fbclear") => machine.routes = {},
           machine.routes = {} \/ handle # None \/ At(l, "keep")
    PROVE  /\ OneBypassOnly'
           /\ (handle # None => Bypass(handle))'
           /\ (At(l, "fbclear") => machine.routes = {})'
           /\ (machine.routes = {} \/ handle # None \/ At(l, "keep"))'
<1>0. /\ loop \in [Loops -> LoopState] /\ loop[l].cfg \in Configs
      /\ machine \in Machine /\ handle \in Handle
      /\ Faults \subseteq {"create"}
  BY DEF HMTypeOK, LoopState, Untroubled
<1>t. /\ TargetOf(loop[l].cfg) \in Target /\ Bypass(TargetOf(loop[l].cfg))
      /\ TargetOf(loop[l].cfg).mode = Overlay
      /\ TargetOf(loop[l].cfg).gw = loop[l].cfg.gw
      /\ loop[l].cfg.mode = Overlay
      /\ \A d \in Configs : loop[l].cfg.gw = d.gw
  BY <1>0, TargetsAreBypass DEF OneBypass
<1>. USE <1>0 DEF LoopState, Goto, At, shared, OneBypassOnly
<1>1. CASE TickStart(l) \/ CheckActive(l) \/ DecideRebuild(l)
  BY <1>1 DEF TickStart, CheckActive, DecideRebuild
<1>2. CASE Ping(l)
  BY <1>2 DEF Ping, OnAnswer, OnSilence
<1>3. CASE ReenableCheck(l) \/ ReenableRevive(l) \/ ReenableSave(l)
  BY <1>3 DEF ReenableCheck, ReenableRevive, ReenableSave, Recovered
<1>4. CASE ReenableInstall(l)
  <2>1. PICK o \in EnableOutcomes(machine, TargetOf(loop[l].cfg), link) :
           /\ machine' = o.m
           /\ loop'[l].pc = IF o.ok THEN "keep" ELSE "report"
    BY <1>4 DEF ReenableInstall
  <2>2. handle' = handle /\ At(l, "install")
    BY <1>4 DEF ReenableInstall
  <2>3. /\ o.m.conf = machine.conf
        /\ o.m.routes \subseteq machine.routes \cup Via(loop[l].cfg.gw)
        /\ ~o.ok /\ machine.routes = {} => o.m.routes = {}
    BY <1>t, EnableLeavesNothing
  <2>4. OneBypassOnly'
    BY <1>t, <2>1, <2>3
  <2>. QED
    BY <2>1, <2>2, <2>3, <2>4
<1>5. CASE ReenableKeep(l)
  <2>1. /\ handle' = TargetOf(loop[l].cfg) /\ machine' = machine
        /\ loop'[l].pc = "revive"
    BY <1>5 DEF ReenableKeep
  <2>2. TargetOf(loop[l].cfg) # None
    BY <1>t, SwitchEngineAssumption
  <2>. QED
    BY <1>t, <2>1, <2>2 DEF Bypass
<1>6. CASE FallbackCheck(l)
  BY <1>6 DEF FallbackCheck
<1>7. CASE FallbackDisable(l)
  <2>1. loop'[l].pc = "fbclear" /\ handle' = handle /\ At(l, "fbdisable")
    BY <1>7 DEF FallbackDisable
  <2>2. CASE handle = None
    BY <1>7, <2>1, <2>2 DEF FallbackDisable
  <2>3. CASE handle # None
    <3>1. PICK o \in DisableOutcomes(loop[l].cfg.mode, machine, handle) :
             machine' = o.m
      BY <1>7, <2>3 DEF FallbackDisable
    <3>2. /\ handle \in Target /\ handle.mode = Overlay
          /\ Via(handle.gw) \subseteq machine.routes
          /\ handle.gw = loop[l].cfg.gw
      BY <2>1, <2>3 DEF Handle, Bypass, HasRoutes
    <3>3. /\ o.m.routes = machine.routes \ Via(handle.gw)
          /\ o.m.conf = machine.conf
      BY <1>t, <3>2, DisableTakesAll
    <3>4. machine.routes \subseteq Via(handle.gw)
      BY <3>2
    <3>. QED
      BY <2>1, <2>3, <3>1, <3>3, <3>4
  <2>. QED
    BY <2>2, <2>3
<1>8. CASE FallbackClear(l)
  BY <1>8 DEF FallbackClear
<1>9. CASE FallbackMark(l) \/ FallbackSave(l) \/ Report(l)
  BY <1>9 DEF FallbackMark, FallbackSave, Report
<1>. QED
  BY <1>1, <1>2, <1>3, <1>4, <1>5, <1>6, <1>7, <1>8, <1>9 DEF LoopStep

(* So a tick keeps the invariant.                                          *)
LEMMA TickKeepsRoutes ==
    ASSUME Serial, Untroubled, OneBypass, ServiceInv,
           NEW c \in Clients, WatchSound(c), RoutesSound(c),
           NEW l \in Loops, MayTick, LoopStep(l), UNCHANGED coreVars
    PROVE  RoutesSound(c)'
<1>0. /\ HMTypeOK /\ phase = "serve" /\ On(c, "idle")
      /\ phase' = phase /\ client' = client /\ config' = config
      /\ \A k \in Loops : k # l => loop'[k] = loop[k]
  BY TickFrame DEF ServiceInv, TypeInv, TypeOK, coreVars, configs
<1>1. CASE Exit(l)
  <2>1. /\ At(l, "wait") /\ ~Live(l)' /\ UNCHANGED <<handle, machine>>
    BY <1>1, TickFrame DEF shared, Exit
  <2>. QED
    BY <1>0, <2>1 DEF RoutesSound, OneBypassOnly, Bypass, At, On, Live
<1>2. CASE ~Exit(l)
  <2>1. /\ Current(l) /\ \A k \in Loops : k # l => ~MidTick(k)
    BY <1>2, TickFrame
  <2>2. /\ config # None
        /\ \A k \in Loops : k # l => ~At(k, "keep") /\ ~At(k, "fbclear")
    BY <2>1 DEF Current, MidTick, At, ServiceInv, TypeInv, Configured
  <2>3. /\ OneBypassOnly /\ (handle # None => Bypass(handle))
        /\ handle # None => HasRoutes(handle) \/ At(l, "fbclear")
        /\ At(l, "fbclear") => machine.routes = {}
        /\ machine.routes = {} \/ handle # None \/ At(l, "keep")
    BY <1>0, <2>2 DEF RoutesSound, WatchSound, On
  <2>4. /\ OneBypassOnly'
        /\ (handle # None => Bypass(handle))'
        /\ (At(l, "fbclear") => machine.routes = {})'
        /\ (machine.routes = {} \/ handle # None \/ At(l, "keep"))'
    BY <1>0, <1>2, <2>2, <2>3, TickKeepsOneBypass
  <2>5. \A k \in Loops : k # l => ~At(k, "fbclear")'
    BY <1>0, <2>2 DEF At
  <2>. QED
    BY <1>0, <2>4, <2>5 DEF RoutesSound, On, At
<1>. QED
  BY <1>1, <1>2

(* The steps of a request that change the machine.                         *)
LEMMA RequestKeepsBypass ==
    ASSUME Untroubled, OneBypass, ServiceInv,
           NEW c \in Clients, WatchSound(c), RoutesSound(c),
           \A l \in Loops : ~MidTick(l), phase = "serve"
    PROVE  /\ Backup(c) => machine' = machine
           /\ CleanupPreviousMode(c) => OneBypassOnly' /\ machine'.routes = {}
           /\ Install(c) => /\ OneBypassOnly'
                            /\ \/ machine'.routes = {}
                               \/ client'[c].pc = "keep"
           /\ Restore(c) => OneBypassOnly' /\ machine'.routes = {}
<1>0. /\ machine \in Machine /\ client \in [Clients -> ClientState]
      /\ client[c] \in ClientState
      /\ Faults \subseteq {"create"} /\ OneBypassOnly
  BY DEF Untroubled, ServiceInv, TypeInv, TypeOK, HMTypeOK, RoutesSound
<1>m. \A l \in Loops : ~At(l, "fbclear") /\ ~At(l, "keep")
  BY DEF MidTick, At
<1>c. /\ On(c, "backup") \/ On(c, "install") =>
            client[c].cfg \in Configs /\ config # None
      /\ client[c].old \in Configs \cup {None}
      /\ On(c, "cleanup") => config # None
      /\ On(c, "restore") => client[c].held \in Target
  BY <1>0 DEF ServiceInv, TypeInv, Configured, RequestSound, WithConfig,
     AfterSwap, On, ClientState, Handle
<1>1. Backup(c) => machine' = machine
  <2>1. Backup(c) => client[c].cfg.mode = Overlay
    BY <1>c DEF Backup, OneBypass
  <2>. QED
    BY <2>1 DEF Backup, Overlay, Reconfig
<1>2. ASSUME CleanupPreviousMode(c)
      PROVE  OneBypassOnly' /\ machine'.routes = {}
  <2>0. On(c, "cleanup") /\ config' = config
    BY <1>2 DEF CleanupPreviousMode, configs
  <2>1. CASE client[c].old = None
    <3>1. machine.routes = {} /\ machine' = machine
      BY <1>2, <2>0, <2>1 DEF RoutesSound, CleanupPreviousMode, On
    <3>. QED
      BY <1>0, <2>0, <3>1 DEF OneBypassOnly
  <2>2. CASE client[c].old # None
    <3>1. client[c].old \in Configs /\ client[c].old.mode = Overlay
      BY <1>c, <2>2 DEF OneBypass
    <3>2. machine' \in Cleanup(machine, client[c].old.gw)
      BY <1>2, <2>2, <3>1 DEF CleanupPreviousMode, Overlay, Reconfig
    <3>3. /\ machine'.routes = machine.routes \ Via(client[c].old.gw)
          /\ machine'.conf = machine.conf
      BY <1>0, <3>2, CleanupTakesAll
    <3>4. machine'.routes = {}
      BY <1>0, <3>1, <3>3 DEF OneBypassOnly
    <3>. QED
      BY <1>0, <2>0, <3>3, <3>4 DEF OneBypassOnly
  <2>. QED
    BY <2>1, <2>2
<1>3. ASSUME Install(c)
      PROVE  /\ OneBypassOnly'
             /\ machine'.routes = {} \/ client'[c].pc = "keep"
  <2>. DEFINE t == TargetOf(client[c].cfg)
  <2>0. On(c, "install") /\ config' = config
    BY <1>3 DEF Install, configs
  <2>1. machine.routes = {}
    BY <1>m, <2>0 DEF RoutesSound, WatchSound, On
  <2>2. /\ t \in Target /\ t.mode = Overlay /\ Bypass(t)
        /\ client[c].cfg.mode = Overlay
    BY <1>c, <2>0, TargetsAreBypass
  <2>. HIDE DEF t
  <2>3. PICK o \in EnableOutcomes(machine, t, link) :
           \/ o.ok /\ machine' = o.m /\ Step(c, "keep")
           \/ ~o.ok /\ machine' = o.m
    BY <1>3, <2>2 DEF Install, t, Overlay, Reconfig
  <2>4. /\ o.m.conf = machine.conf
        /\ o.m.routes \subseteq machine.routes \cup Via(t.gw)
        /\ ~o.ok /\ machine.routes = {} => o.m.routes = {}
    BY <1>0, <2>2, EnableLeavesNothing
  <2>5. "keep" \in ClientPc
    BY DEF ClientPc, EnablePc
  <2>6. OneBypassOnly'
    BY <1>0, <1>c, <2>0, <2>1, <2>2, <2>3, <2>4 DEF OneBypassOnly, Bypass
  <2>. QED
    BY <1>0, <2>1, <2>3, <2>4, <2>5, <2>6, StepTypes
<1>4. ASSUME Restore(c) PROVE OneBypassOnly' /\ machine'.routes = {}
  <2>. DEFINE h == client[c].held
  <2>0. On(c, "restore") /\ config' = config
    BY <1>4 DEF Restore, configs
  <2>1. /\ h \in Target /\ h.mode = Overlay /\ Bypass(h)
        /\ Via(h.gw) \subseteq machine.routes
    BY <1>c, <2>0 DEF RoutesSound, WatchSound, HasRoutes, Bypass
  <2>2. PICK o \in DisableOutcomes(h.mode, machine, h) : machine' = o.m
    BY <1>4 DEF Restore
  <2>. HIDE DEF h
  <2>3. /\ o.m.routes = machine.routes \ Via(h.gw)
        /\ o.m.conf = machine.conf
    BY <1>0, <2>1, <2>2, DisableTakesAll
  <2>4. machine'.routes = {}
    <3>1. PICK d \in Configs : TRUE
      BY HealthMonitorAssumption
    <3>. QED
      BY <1>0, <2>1, <2>2, <2>3, <3>1 DEF OneBypassOnly, Bypass
  <2>. QED
    BY <1>0, <2>0, <2>2, <2>3, <2>4 DEF OneBypassOnly
<1>. QED
  BY <1>1, <1>2, <1>3, <1>4

(* So every step of a request keeps the invariant.                         *)
LEMMA RequestKeepsRoutes ==
    ASSUME Serial, Untroubled, OneBypass, ServiceInv,
           NEW c \in Clients, WatchSound(c), RoutesSound(c),
           Send(c) \/ ClientStep(c)
    PROVE  RoutesSound(c)'
<1>0. /\ phase = "serve" /\ phase' = phase
      /\ client \in [Clients -> ClientState] /\ client[c] \in ClientState
      /\ loop \in [Loops -> LoopState]
      /\ Send(c) => On(c, "idle")
  BY RequestFrame DEF ServiceInv, TypeInv, TypeOK, HMTypeOK
<1>l. \A l \in Loops : ~MidTick(l)
  BY RequestFrame
<1>m. \A l \in Loops : ~MidTick(l)'
  BY <1>0, <1>l, RequestMoves DEF ClientStep, RestKept, MidTick, SameLoop
<1>n. \A l \in Loops : /\ ~At(l, "fbclear") /\ ~At(l, "keep")
                       /\ ~At(l, "fbclear")'
  BY <1>l, <1>m DEF MidTick, At
<1>c. /\ On(c, "swap") => client[c].cfg # None
      /\ On(c, "keep") => client[c].cfg \in Configs
  BY <1>0 DEF ServiceInv, TypeInv, RequestSound, WithConfig, AfterSwap, On,
     ClientState
<1>b. /\ Backup(c) => machine' = machine
      /\ CleanupPreviousMode(c) => OneBypassOnly' /\ machine'.routes = {}
      /\ Install(c) => /\ OneBypassOnly'
                       /\ machine'.routes = {} \/ client'[c].pc = "keep"
      /\ Restore(c) => OneBypassOnly' /\ machine'.routes = {}
  BY <1>0, <1>l, RequestKeepsBypass
<1>o. UNCHANGED <<machine, config>> => OneBypassOnly'
  BY DEF RoutesSound, OneBypassOnly
<1>. USE <1>0, <1>n, <1>b, <1>o, RequestMoves
     DEF RoutesSound, Bypass, On, Place, RestKept, Ended, Carried
<1>1. ASSUME Send(c) \/ SaveConfig(c) PROVE RoutesSound(c)'
  BY <1>1
<1>2. ASSUME SwapConfig(c) PROVE RoutesSound(c)'
  BY <1>2, <1>c DEF OneBypassOnly
<1>3. ASSUME InspectChange(c) PROVE RoutesSound(c)'
  BY <1>3
<1>4. ASSUME CleanupPreviousMode(c) PROVE RoutesSound(c)'
  BY <1>4
<1>5. ASSUME DropHandle(c) PROVE RoutesSound(c)'
  BY <1>5
<1>6. ASSUME ReadConfig(c) PROVE RoutesSound(c)'
  BY <1>6
<1>7. ASSUME CheckHandle(c) PROVE RoutesSound(c)'
  BY <1>7
<1>8. ASSUME Backup(c) PROVE RoutesSound(c)'
  BY <1>8
<1>9. ASSUME Install(c) PROVE RoutesSound(c)'
  BY <1>9
<1>10. ASSUME Keep(c) PROVE RoutesSound(c)'
  <2>1. /\ Bypass(TargetOf(client[c].cfg))
        /\ TargetOf(client[c].cfg) # None
    BY <1>10, <1>c, TargetsAreBypass, SwitchEngineAssumption
  <2>. QED
    BY <1>10, <2>1
<1>11. ASSUME MarkEnabled(c) PROVE RoutesSound(c)'
  BY <1>11
<1>12. ASSUME TakeHandle(c) PROVE RoutesSound(c)'
  BY <1>12
<1>13. ASSUME Restore(c) PROVE RoutesSound(c)'
  BY <1>13
<1>14. ASSUME MarkDisabled(c) PROVE RoutesSound(c)'
  BY <1>14
<1>15. ASSUME BumpGeneration(c) \/ SendCancel(c) PROVE RoutesSound(c)'
  BY <1>15 DEF shared
<1>16. ASSUME SpawnLoop(c) PROVE RoutesSound(c)'
  BY <1>16 DEF shared
<1>. QED
  BY <1>1, <1>2, <1>3, <1>4, <1>5, <1>6, <1>7, <1>8, <1>9, <1>10, <1>11,
     <1>12, <1>13, <1>14, <1>15, <1>16 DEF ClientStep

(* Start-up cleans up what a bypass marked off has left, and finds or puts *)
(* back the routes of one marked on.                                       *)
LEMMA BootKeepsRoutes ==
    ASSUME Untroubled, OneBypass, "unplugged" \notin Links, ServiceInv,
           NEW c \in Clients, WatchSound(c), RoutesSound(c),
           link # "unplugged", runtime.mode # Reconfig, Boot
    PROVE  RoutesSound(c)'
<1>0. /\ machine \in Machine /\ client' = client /\ config' = config
      /\ On(c, "idle") /\ handle = None /\ Faults \subseteq {"create"}
      /\ \A l \in Loops : ~Live(l) /\ loop[l].pc = "done"
      /\ runtime.enabled => config \in Configs
      /\ config \in Configs \cup {None} /\ OneBypassOnly
      /\ loop \in [Loops -> LoopState]
  BY DEF ServiceInv, TypeInv, TypeOK, HMTypeOK, LoopsSound, Boot, Untroubled,
     Live, Configured, WatchSound, RoutesSound
<1>1. \A l \in Loops : ~At(l, "fbclear")'
  <2>1. BootMonitor \/ NoMonitor
    BY DEF Boot, BootDirect, BootOverlay, BootReconfig, BootEnabled,
       BootWithoutHandle
  <2>2. CASE BootMonitor
    <3>1. PICK l \in Loops :
             loop' = [loop EXCEPT ![l] = FreshLoop(gen + 1, config)]
      BY <2>2 DEF BootMonitor
    <3>2. FreshLoop(gen + 1, config).pc = "wait"
      BY DEF FreshLoop
    <3>. QED
      BY <1>0, <3>1, <3>2 DEF At
  <2>3. CASE NoMonitor
    BY <1>0, <2>3 DEF NoMonitor, At
  <2>. QED
    BY <2>1, <2>2, <2>3
<1>2. ASSUME OneBypassOnly', handle' # None => Bypass(handle'),
             machine'.routes = {} \/ handle' # None
      PROVE  RoutesSound(c)'
  BY <1>0, <1>1, <1>2 DEF RoutesSound, On, Bypass
<1>3. CASE BootDirect
  <2>1. PICK m \in Cleanup(machine, CleanupGateway) :
           machine' \in {[m EXCEPT !.snap = None]} \cup MayFail({"save"}, {m})
    BY <1>3 DEF BootDirect
  <2>2. handle' = None
    BY <1>0, <1>3 DEF BootDirect
  <2>3. m.routes = {} /\ m.conf = machine.conf
    <3>1. /\ m.routes = machine.routes \ Via(CleanupGateway)
          /\ m.conf = machine.conf
      BY <1>0, <2>1, CleanupTakesAll
    <3>2. config # None => CleanupGateway = config.gw
      BY DEF CleanupGateway
    <3>. QED
      BY <1>0, <3>1, <3>2 DEF OneBypassOnly
  <2>4. m \in Machine
    BY <1>0, <2>1, CleanupKeepsMachine
  <2>5. machine' = [m EXCEPT !.snap = None]
    BY <1>0, <2>1 DEF MayFail
  <2>6. machine'.routes = {} /\ machine'.conf = machine.conf
    BY <2>3, <2>4, <2>5 DEF Machine
  <2>7. OneBypassOnly'
    BY <1>0, <2>6 DEF OneBypassOnly
  <2>. QED
    BY <1>2, <2>2, <2>6, <2>7
<1>4. CASE BootOverlay
  <2>. DEFINE t == [TargetOf(config) EXCEPT !.mode = Overlay]
  <2>0. config \in Configs
    BY <1>0, <1>4 DEF BootOverlay
  <2>1. /\ t \in Target /\ t.mode = Overlay /\ t.gw = config.gw
        /\ Bypass(t) /\ t # None
    <3>1. t = TargetOf(config)
      BY <2>0, TargetsAreBypass DEF TargetOf, Target
    <3>. QED
      BY <2>0, <3>1, TargetsAreBypass, SwitchEngineAssumption
  <2>. HIDE DEF t
  <2>2. ASSUME BootEnabled(t) PROVE handle' = t
    BY <2>2 DEF BootEnabled
  <2>3. CASE machine' = machine /\ BootEnabled(t)
    BY <1>0, <1>2, <2>1, <2>2, <2>3 DEF OneBypassOnly
  <2>4. ASSUME NEW o \in OverlayEnable(machine, t, link), machine' = o.m,
               IF o.ok THEN BootEnabled(t) ELSE BootWithoutHandle
        PROVE  RoutesSound(c)'
    <3>1. o \in EnableOutcomes(machine, t, link)
      BY <2>1 DEF EnableOutcomes
    <3>2. /\ o.m.conf = machine.conf
          /\ o.m.routes \subseteq machine.routes \cup Via(t.gw)
          /\ ~o.ok => o.m.routes \subseteq machine.routes \ Via(t.gw)
      <4>1. /\ machine \in Machine /\ t \in Target /\ t.mode = Overlay
            /\ Faults \subseteq {"create"} /\ link # "unplugged"
        BY <1>0, <2>1
      <4>. QED
        BY ONLY <3>1, <4>1, EnableLeavesNothing
    <3>3. OneBypassOnly'
      <4>1. /\ machine'.routes \subseteq machine.routes \cup Via(t.gw)
            /\ machine'.conf = machine.conf /\ config' # None
            /\ \A d \in Configs : Via(t.gw) = Via(d.gw)
        BY <1>0, <2>0, <2>1, <2>4, <3>2, ControllerAssumption DEF Bypass
      <4>. QED
        BY <1>0, <4>1 DEF OneBypassOnly
    <3>4. CASE o.ok
      BY <1>2, <2>1, <2>2, <2>4, <3>3, <3>4
    <3>5. CASE ~o.ok
      <4>1. o.m.routes = {}
        BY <1>0, <2>0, <2>1, <3>2, <3>5 DEF OneBypassOnly
      <4>2. handle' = None
        BY <1>0, <2>4, <3>5 DEF BootWithoutHandle
      <4>. QED
        BY <1>2, <2>4, <3>3, <4>1, <4>2
    <3>. QED
      BY <3>4, <3>5
  <2>. QED
    BY <1>4, <2>3, <2>4 DEF BootOverlay, t
<1>5. ~BootReconfig
  BY DEF BootReconfig
<1>. QED
  BY <1>3, <1>4, <1>5 DEF Boot

-----------------------------------------------------------------------------
(* Neither the memory nor the file ever names the adapter mode.            *)
NeverReconfig == runtime.mode # Reconfig /\ saved.mode # Reconfig

(* No step writes it, for no configuration asks for it.                    *)
LEMMA StepKeepsMode ==
    ASSUME OneBypass, ServiceInv, NeverReconfig, [Next]_vars
    PROVE  NeverReconfig'
<1>0. /\ runtime \in Runtime /\ saved \in Runtime
      /\ client \in [Clients -> ClientState]
      /\ \A l \in Loops : loop[l].cfg.mode = Overlay
      /\ \A c \in Clients :
            On(c, "mark") => client[c].cfg.mode = Overlay
  <2>1. \A l \in Loops : loop[l].cfg \in Configs
    BY DEF ServiceInv, TypeInv, TypeOK, HMTypeOK, LoopState
  <2>2. \A c \in Clients : On(c, "mark") => client[c].cfg \in Configs
    BY DEF ServiceInv, TypeInv, TypeOK, RequestSound, WithConfig, AfterSwap,
       On, ClientState
  <2>. QED
    BY <2>1, <2>2 DEF ServiceInv, TypeInv, TypeOK, HMTypeOK, OneBypass
<1>v. /\ Overlay # Reconfig /\ None # Reconfig
      /\ \A mode : MarkedEnabled(mode).mode = mode
      /\ MarkedDisabled.mode = None /\ FallenBack.mode = None
  BY <1>0, SwitchEngineAssumption DEF Overlay, Reconfig, Mode, Runtime,
     MarkedEnabled, MarkedDisabled, FallenBack
<1>m. ASSUME NEW rs, NEW ok, Mark(rs, ok), rs.mode # Reconfig
      PROVE  NeverReconfig'
  BY <1>m DEF Mark, NeverReconfig
<1>1. ASSUME NEW c \in Clients, Send(c) \/ ClientStep(c)
      PROVE  NeverReconfig'
  <2>1. CASE MarkEnabled(c)
    BY <1>0, <1>v, <1>m, <2>1 DEF MarkEnabled
  <2>2. CASE MarkDisabled(c)
    BY <1>v, <1>m, <2>2 DEF MarkDisabled
  <2>3. CASE ~MarkEnabled(c) /\ ~MarkDisabled(c)
    <3>1. UNCHANGED <<runtime, saved>>
      BY <1>1, <2>3 DEF ClientStep, Send, SaveConfig, SwapConfig,
         InspectChange, CleanupPreviousMode, DropHandle, ReadConfig,
         CheckHandle, Backup, Install, Keep, TakeHandle, Restore,
         BumpGeneration, SendCancel, SpawnLoop, shared
    <3>. QED
      BY <3>1 DEF NeverReconfig
  <2>. QED
    BY <2>1, <2>2, <2>3
<1>2. ASSUME NEW l \in Loops, LoopStep(l) PROVE NeverReconfig'
  <2>1. CASE ReenableRevive(l)
    BY <1>0, <1>v, <2>1 DEF ReenableRevive, RevivedRuntime, NeverReconfig
  <2>2. CASE ReenableSave(l)
    BY <1>0, <1>v, <2>2
    DEF ReenableSave, Persist, MayFail, RevivedRuntime, NeverReconfig
  <2>3. CASE FallbackMark(l)
    BY <1>v, <2>3 DEF FallbackMark, NeverReconfig
  <2>4. CASE FallbackSave(l)
    BY <1>v, <2>4 DEF FallbackSave, Persist, MayFail, NeverReconfig
  <2>5. CASE Report(l)
    BY <1>0, <2>5 DEF Report, Runtime, NeverReconfig
  <2>6. CASE \/ Exit(l) \/ TickStart(l) \/ Ping(l) \/ CheckActive(l)
             \/ DecideRebuild(l) \/ ReenableCheck(l) \/ ReenableInstall(l)
             \/ ReenableKeep(l) \/ FallbackCheck(l) \/ FallbackDisable(l)
             \/ FallbackClear(l)
    BY <2>6 DEF Exit, TickStart, Ping, CheckActive, DecideRebuild,
       ReenableCheck, ReenableInstall, ReenableKeep, FallbackCheck,
       FallbackDisable, FallbackClear, shared, NeverReconfig
  <2>. QED
    BY <1>2, <2>1, <2>2, <2>3, <2>4, <2>5, <2>6 DEF LoopStep
<1>3. ASSUME Boot PROVE NeverReconfig'
  <2>1. CASE BootDirect
    <3>1. [runtime EXCEPT !.health = "Idle"].mode = runtime.mode
      BY <1>0 DEF Runtime
    <3>. QED
      BY <1>m, <2>1, <3>1 DEF BootDirect, NeverReconfig
  <2>2. CASE BootOverlay
    <3>. DEFINE t == [TargetOf(config) EXCEPT !.mode = Overlay]
    <3>1. t.mode = Overlay
      BY DEF TargetOf
    <3>. HIDE DEF t
    <3>2. BootEnabled(t) => NeverReconfig'
      BY <1>v, <1>m, <3>1 DEF BootEnabled
    <3>3. BootWithoutHandle => NeverReconfig'
      BY DEF BootWithoutHandle, NeverReconfig
    <3>4. BootEnabled(t) \/ BootWithoutHandle
      BY <2>2 DEF BootOverlay, t
    <3>. QED
      BY <3>2, <3>3, <3>4
  <2>. QED
    BY <1>3, <2>1, <2>2 DEF Boot, BootReconfig, NeverReconfig
<1>4. CASE Crash
  BY <1>4 DEF Crash, NeverReconfig
<1>5. CASE UNCHANGED vars \/ TimePasses \/ Outside
  BY <1>5 DEF vars, hmVars, TimePasses, Outside, LinkChanges, RoutesVanish,
     shared, NeverReconfig
<1>. QED
  BY <1>1, <1>2, <1>3, <1>4, <1>5 DEF Next

(* With one overlay gateway, whenever the service rests with the bypass    *)
(* off, nothing of it is left on the machine, wherever the process died    *)
(* before and whichever creation of a route failed (cleanup_dirty_state,   *)
(* reconcile_on_startup, disable, fallback), if no request overlaps a tick *)
(* and no adapter is unplugged.                                            *)
THEOREM RestartCleansUp ==
    ASSUME Serial, Untroubled, "unplugged" \notin Links, OneBypass
    PROVE  Spec => []DisabledIsDirect
<1>. DEFINE Inv == NeverReconfig /\ link # "unplugged" /\ RoutesInv
<1>1. Init => Inv
  <2>. SUFFICES ASSUME Init, NEW c \in Clients
                PROVE  NeverReconfig /\ link # "unplugged" /\ RoutesSound(c)
    BY ControllerAssumption DEF RoutesInv
  <2>1. /\ \A l \in Loops : loop[l].pc = "done"
        /\ client[c].pc = "idle" /\ handle = None /\ phase = "boot"
        /\ machine.routes = {} /\ link = "reachable"
        /\ \A a \in Adapters : machine.conf[a] = Direct
    BY IdleLoopType, RestingType DEF Init
  <2>2. NeverReconfig
    BY SwitchEngineAssumption DEF Init, NeverReconfig, Mode
  <2>. QED
    BY <2>1, <2>2 DEF RoutesSound, OneBypassOnly, On, At
<1>2. ServiceInv /\ WatchInv /\ Inv /\ [Next]_vars => Inv'
  <2>. SUFFICES ASSUME ServiceInv, WatchInv, Inv, [Next]_vars
                PROVE  Inv'
    OBVIOUS
  <2>0. NeverReconfig'
    BY StepKeepsMode
  <2>1. link' # "unplugged"
    <3>1. ASSUME NEW l \in Loops, LoopStep(l) PROVE link' = link
      BY <3>1 DEF LoopStep, Exit, TickStart, Ping, CheckActive, DecideRebuild,
         ReenableCheck, ReenableInstall, ReenableKeep, ReenableRevive,
         ReenableSave, FallbackCheck, FallbackDisable, FallbackClear,
         FallbackMark, FallbackSave, Report
    <3>2. Boot \/ Crash => link' = link
      BY DEF Boot, Crash
    <3>3. TimePasses \/ Outside \/ UNCHANGED hmVars =>
             link' = link \/ link' \in Links
      BY EnvironmentFrame DEF ServiceInv
    <3>. QED
      BY <3>1, <3>2, <3>3, RequestFrame DEF Next, vars
  <2>. SUFFICES ASSUME NEW c \in Clients PROVE RoutesSound(c)'
    BY <2>0, <2>1 DEF RoutesInv
  <2>2. WatchSound(c) /\ RoutesSound(c)
    BY DEF WatchInv, RoutesInv
  <2>3. ASSUME NEW d \in Clients, Send(d) \/ ClientStep(d)
        PROVE  RoutesSound(c)'
    <3>1. d = c
      BY DEF Serial, OneConnection
    <3>. QED
      BY <2>2, <2>3, <3>1, RequestKeepsRoutes
  <2>4. ASSUME NEW l \in Loops, MayTick, LoopStep(l), UNCHANGED coreVars
        PROVE  RoutesSound(c)'
    BY <2>2, <2>4, TickKeepsRoutes
  <2>5. ASSUME TimePasses \/ Outside \/ UNCHANGED hmVars, UNCHANGED coreVars
        PROVE  RoutesSound(c)'
    <3>1. LoopsKept /\ UNCHANGED <<handle, machine>>
      BY <2>5, EnvironmentFrame DEF ServiceInv, Untroubled
    <3>. QED
      BY <2>2, <2>5, <3>1 DEF LoopsKept, SameLoop, coreVars, RoutesSound,
         OneBypassOnly, Bypass, At, On
  <2>6. CASE Boot
    BY <2>2, <2>6, BootKeepsRoutes DEF NeverReconfig
  <2>7. CASE Crash
    <3>1. /\ \A l \in Loops : loop'[l].pc = "done"
          /\ client'[c].pc = "idle" /\ handle' = None /\ machine' = machine
          /\ phase' = "boot" /\ config' = savedConfig
          /\ config # None => savedConfig # None
      BY <2>7, IdleLoopType, RestingType
      DEF Crash, ServiceInv, TypeInv, TypeOK, HMTypeOK, LoopState, Configured
    <3>. QED
      BY <2>2, <3>1 DEF RoutesSound, OneBypassOnly, At, On
  <2>. QED
    BY <2>3, <2>4, <2>5, <2>6, <2>7 DEF Next, vars
<1>3. IdleInv /\ Inv => DisabledIsDirect
  <2>. SUFFICES ASSUME IdleInv, Inv, Settled, ~runtime.enabled
                PROVE  IsDirect(machine)
    BY DEF DisabledIsDirect
  <2>1. PICK c \in Clients : TRUE
    BY ControllerAssumption
  <2>2. /\ IdleSound(c) /\ RoutesSound(c) /\ On(c, "idle")
        /\ phase = "serve"
        /\ \A l \in Loops : ~At(l, "keep") /\ ~At(l, "revive")
    BY DEF IdleInv, RoutesInv, Settled, MidTick, At
  <2>3. handle = None
    BY <2>2 DEF IdleSound, On
  <2>. QED
    BY <2>2, <2>3 DEF RoutesSound, OneBypassOnly, IsDirect, On
<1>. QED
  BY <1>1, <1>2, <1>3, TicksKeepApart, IdleInvariant, WatchInvariant, PTL
  DEF Spec
=============================================================================

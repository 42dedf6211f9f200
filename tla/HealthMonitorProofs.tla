------------------------- MODULE HealthMonitorProofs -------------------------
(***************************************************************************)
(* The theorems of the health monitor, for every value of the constants    *)
(* that meets the assumptions: HMInv is an invariant of HMSpec, from which *)
(* follow its safety properties and that it implements HealthContract.     *)
(* The step proofs have one case per action; the invariant is split into   *)
(* types, OneLoop, the counters (Sound) and the agreement with the shared  *)
(* state, each proved with the ones before it.                             *)
(***************************************************************************)
EXTENDS HealthMonitorInv, TLAPS

(* What the two result constructors hold.                                  *)
LEMMA Results ==
    ASSUME NEW m
    PROVE  Ok(m).ok = TRUE /\ Ok(m).m = m /\ Err(m).ok = FALSE /\ Err(m).m = m
  BY DEF Ok, Err

(* Deleting routes leaves a machine (cleanup_routes_via).                  *)
LEMMA CleanupKeepsMachine ==
    ASSUME NEW m \in Machine, NEW gw, NEW c \in Cleanup(m, gw)
    PROVE  c \in Machine
  BY DEF Cleanup, Machine

(* Whatever enable does, also a failed or partial one, leaves a machine.   *)
LEMMA EnableKeepsMachine ==
    ASSUME NEW m \in Machine, NEW t \in Target, NEW lk,
           NEW o \in EnableOutcomes(m, t, lk)
    PROVE  o.m \in Machine /\ o.ok \in BOOLEAN
<1>1. CASE t.mode = Overlay
  <2>1. [m EXCEPT !.routes = @ \cup Via(t.gw)] \in Machine
    BY DEF Machine, Target, Via
  <2>2. [m EXCEPT !.routes = @ \cup {<<"main", t.gw>>}] \in Machine
    BY DEF Machine, Target, Half
  <2>3. t.gw \in Gateways
    BY DEF Target
  <2>4. \A c \in Cleanup([m EXCEPT !.routes = @ \cup {<<"main", t.gw>>}],
                          t.gw) : c \in Machine
    BY <2>2, <2>3, CleanupKeepsMachine
  <2>5. \/ o = Err(m)
        \/ o = Ok([m EXCEPT !.routes = @ \cup Via(t.gw)])
        \/ \E c \in Cleanup([m EXCEPT !.routes = @ \cup {<<"main", t.gw>>}],
                            t.gw) : o = Err(c)
    BY <1>1 DEF EnableOutcomes, OverlayEnable, MayFail
  <2>. QED
    BY <2>1, <2>4, <2>5, Results
<1>2. CASE t.mode = Reconfig
  <2>. DEFINE done == [m EXCEPT !.conf[t.adapter] = t.gw]
  <2>1. done \in Machine
    BY DEF Machine, Target
  <2>2. o = Err(m) \/ o = Ok(done) \/ o = Err(done)
    BY <1>2 DEF EnableOutcomes, ReconfigEnable, MayFail, Overlay, Reconfig
  <2>. QED
    BY <2>1, <2>2, Results
<1>. QED
  BY <1>1, <1>2 DEF Target, Mode

(* The same of the overlay strategy's disable.                             *)
LEMMA OverlayDisableKeepsMachine ==
    ASSUME NEW m \in Machine, NEW h \in Target, NEW o \in OverlayDisable(m, h)
    PROVE  o.m \in Machine /\ o.ok \in BOOLEAN
<1>. DEFINE none == [m EXCEPT !.routes = @ \ Via(h.gw)]
            one == [m EXCEPT !.routes = @ \ {<<"main", h.gw>>}]
<1>1. none \in Machine /\ one \in Machine
  BY DEF Machine
<1>2. o = Err(m) \/ o = Ok(none) \/ o = Ok(one)
  BY DEF OverlayDisable, MayFail
<1>. QED
  BY <1>1, <1>2, Results

(* The same of the adapter strategy's disable: what it restores is what    *)
(* the snapshot holds.                                                     *)
LEMMA ReconfigDisableKeepsMachine ==
    ASSUME NEW m \in Machine, NEW o \in ReconfigDisable(m)
    PROVE  o.m \in Machine /\ o.ok \in BOOLEAN
<1>. DEFINE back == [m EXCEPT !.conf[m.snap.adapter] = m.snap.conf]
            gone == [back EXCEPT !.snap = None]
<1>1. CASE m.snap = None
  BY <1>1, Results DEF ReconfigDisable
<1>2. CASE m.snap # None
  <2>1. m.snap \in Snapshot
    BY <1>2 DEF Machine
  <2>2. back \in Machine
    BY <2>1 DEF Machine, Snapshot
  <2>3. gone \in Machine
    BY <2>2 DEF Machine
  <2>4. o = Ok(gone) \/ o = Err(m) \/ o = Err(back)
    BY <1>2 DEF ReconfigDisable, MayFail
  <2>. QED
    BY <2>2, <2>3, <2>4, Results
<1>. QED BY <1>1, <1>2

(* The same of disable, whichever strategy made the handle.                *)
LEMMA DisableKeepsMachine ==
    ASSUME NEW m \in Machine, NEW h \in Target, NEW mode,
           NEW o \in DisableOutcomes(mode, m, h)
    PROVE  o.m \in Machine /\ o.ok \in BOOLEAN
<1>1. o \in OverlayDisable(m, h) \/ o \in ReconfigDisable(m)
      \/ o = Ok(m) \/ o = Err(m)
  BY DEF DisableOutcomes
<1>. QED
  <2>1. CASE o \in OverlayDisable(m, h)
    BY <2>1, OverlayDisableKeepsMachine
  <2>2. CASE o \in ReconfigDisable(m)
    BY <2>2, ReconfigDisableKeepsMachine
  <2>3. CASE o = Ok(m) \/ o = Err(m)
    BY <2>3, Results
  <2>. QED
    BY <1>1, <2>1, <2>2, <2>3

(* A configuration that passes validate_config names a target.             *)
LEMMA ConfigTypes ==
    ASSUME NEW c \in Configs
    PROVE  /\ c.mode \in Mode /\ c.auto \in BOOLEAN
           /\ c.threshold \in Nat /\ c.threshold > 0
           /\ TargetOf(c) \in Target
  BY HealthMonitorAssumption DEF Config, TargetOf, Target

(* The state of a loop that starts.                                        *)
LEMMA FreshLoopType ==
    ASSUME NEW c \in Configs, NEW g \in Nat
    PROVE  FreshLoop(g, c) \in LoopState
<1>1. 0 \in 0..Cooldown /\ Cooldown \in 0..Cooldown
  BY HealthMonitorAssumption
<1>. QED
  BY <1>1 DEF FreshLoop, LoopState, LoopPc

(* The state of a slot in which no loop runs.                              *)
LEMMA IdleLoopType ==
    ASSUME NEW c \in Configs
    PROVE  IdleLoop(c) \in LoopState /\ IdleLoop(c).pc = "done"
           /\ IdleLoop(c).gen = 0 /\ IdleLoop(c).cfg = c
           /\ IdleLoop(c).lost = 0 /\ IdleLoop(c).st = "Healthy"
<1>1. FreshLoop(0, c) \in LoopState
  BY FreshLoopType
<1>2. IdleLoop(c) \in LoopState
  BY <1>1 DEF IdleLoop, LoopState, LoopPc
<1>. QED
  BY <1>2 DEF IdleLoop, FreshLoop

(* The record update of ReenableInstall keeps the loop's type.             *)
LEMMA ReplayedType ==
    ASSUME NEW r \in LoopState, NEW p \in {"keep", "report"},
           NEW a \in 0..Cooldown
    PROVE  [r EXCEPT !.pc = p, !.age = a] \in LoopState
  BY DEF LoopState, LoopPc, RebuildPc

(* The runtime state fallback writes.                                      *)
LEMMA FallenBackType == FallenBack \in Runtime
  BY DEF FallenBack, Runtime, HealthStatus

(* The runtime state reenable writes.                                      *)
LEMMA RevivedRuntimeType ==
    ASSUME NEW l \in Loops, loop[l].cfg \in Configs
    PROVE  /\ RevivedRuntime(l) \in Runtime
           /\ RevivedRuntime(l).enabled
           /\ RevivedRuntime(l).mode = loop[l].cfg.mode
  BY ConfigTypes DEF RevivedRuntime, Runtime, HealthStatus

(* The type invariant is inductive on its own.                             *)
LEMMA StepKeepsTypes ==
    HMTypeOK /\ [HMNext]_hmVars => HMTypeOK'
<1>. SUFFICES ASSUME HMTypeOK, [HMNext]_hmVars PROVE HMTypeOK'
  OBVIOUS
<1>. USE HealthMonitorAssumption DEF HMTypeOK
<1>1. ASSUME NEW l \in Loops, LoopStep(l) PROVE HMTypeOK'
  <2>. USE <1>1 DEF LoopState, LoopPc, FallbackPc, RebuildPc, Goto, Quiet,
     HealthEvent, shared, At
  <2>1. CASE Exit(l)
    BY <2>1, IdleLoopType DEF Exit
  <2>2. CASE TickStart(l)
    BY <2>2 DEF TickStart
  <2>3. CASE Ping(l)
    BY <2>3 DEF Ping, OnAnswer, OnSilence, CountLost, FailureCount, HealthEvent
  <2>4. CASE CheckActive(l)
    BY <2>4 DEF CheckActive
  <2>5. CASE DecideRebuild(l)
    BY <2>5 DEF DecideRebuild, RebuildCooldown
  <2>6. CASE ReenableCheck(l)
    BY <2>6 DEF ReenableCheck, Recovered, HealthEvent
  <2>7. CASE ReenableInstall(l)
    <3>1. machine' \in Machine
      BY <2>7, ConfigTypes, EnableKeepsMachine DEF ReenableInstall
    <3>. DEFINE age == IF link = "unplugged" THEN loop[l].age ELSE 0
    <3>2. age \in 0..Cooldown
      OBVIOUS
    <3>3. loop' \in [Loops -> LoopState]
      <4>1. PICK p \in {"keep", "report"} :
               loop' = [loop EXCEPT ![l] = [@ EXCEPT !.pc = p, !.age = age]]
        BY <2>7 DEF ReenableInstall
      <4>2. [loop[l] EXCEPT !.pc = p, !.age = age] \in LoopState
        <5>. HIDE DEF age, LoopState
        <5>1. loop[l] \in LoopState
          OBVIOUS
        <5>. QED
          BY <3>2, <5>1, ReplayedType
      <4>. QED
        BY <4>1, <4>2
    <3>. QED
      BY <2>7, <3>1, <3>3 DEF ReenableInstall
  <2>8. CASE ReenableKeep(l)
    <3>1. handle' \in Handle
      BY <2>8, ConfigTypes DEF ReenableKeep, Handle
    <3>. QED
      BY <2>8, <3>1 DEF ReenableKeep
  <2>9. CASE ReenableRevive(l)
    BY <2>9, RevivedRuntimeType DEF ReenableRevive
  <2>10. CASE ReenableSave(l)
    <3>1. saved' \in Runtime
      BY <2>10, RevivedRuntimeType DEF ReenableSave, Persist, MayFail
    <3>2. loop' \in [Loops -> LoopState] /\ event' \in {"none",
       "ProbeRecovered"}
      <4>1. [loop[l] EXCEPT !.pc = "report", !.st = "Healthy", !.n = 0]
               \in LoopState
        OBVIOUS
      <4>2. loop' = [loop EXCEPT ![l] =
               [@ EXCEPT !.pc = "report", !.st = "Healthy", !.n = 0]]
        BY <2>10 DEF ReenableSave, Recovered
      <4>. QED
        BY <2>10, <4>1, <4>2 DEF ReenableSave, Recovered
    <3>. QED
      BY <2>10, <3>1, <3>2 DEF ReenableSave
  <2>11. CASE FallbackCheck(l)
    BY <2>11 DEF FallbackCheck
  <2>12. CASE FallbackDisable(l)
    <3>1. machine' \in Machine
      BY <2>12, DisableKeepsMachine DEF FallbackDisable, Handle
    <3>. QED
      BY <2>12, <3>1 DEF FallbackDisable
  <2>13. CASE FallbackClear(l)
    BY <2>13 DEF FallbackClear, Handle
  <2>14. CASE FallbackMark(l)
    BY <2>14, FallenBackType DEF FallbackMark
  <2>15. CASE FallbackSave(l)
    <3>1. saved' \in Runtime
      BY <2>15, FallenBackType DEF FallbackSave, Persist, MayFail
    <3>2. loop' \in [Loops -> LoopState]
      <4>1. [loop[l] EXCEPT !.pc = "report", !.st = "Fallback", !.n = 0]
               \in LoopState
        OBVIOUS
      <4>2. loop' = [loop EXCEPT ![l] =
               [@ EXCEPT !.pc = "report", !.st = "Fallback", !.n = 0]]
        BY <2>15 DEF FallbackSave
      <4>. QED
        BY <4>1, <4>2
    <3>. QED
      BY <2>15, <3>1, <3>2 DEF FallbackSave
  <2>16. CASE Report(l)
    BY <2>16 DEF Report, Runtime, HealthStatus
  <2>. QED
    BY <2>1, <2>2, <2>3, <2>4, <2>5, <2>6, <2>7, <2>8, <2>9, <2>10, <2>11,
       <2>12, <2>13, <2>14, <2>15, <2>16 DEF LoopStep
<1>2. ASSUME NEW l \in Loops, Cancel(l) PROVE HMTypeOK'
  BY <1>2 DEF Cancel, LoopState, Quiet, HealthEvent, shared
<1>3. CASE TimePasses
  <2>1. ASSUME NEW l \in Loops PROVE loop'[l] \in LoopState
    <3>. DEFINE cool == IF loop[l].cool > 0 THEN loop[l].cool - 1 ELSE 0
                age == IF loop[l].age < Cooldown THEN loop[l].age + 1 ELSE
                   Cooldown
    <3>1. cool \in 0..Cooldown /\ age \in 0..Cooldown
      BY DEF LoopState
    <3>2. loop'[l] = [loop[l] EXCEPT !.cool = cool, !.age = age]
      BY <1>3 DEF TimePasses
    <3>. HIDE DEF cool, age
    <3>. QED
      BY <3>1, <3>2 DEF LoopState
  <2>2. loop' \in [Loops -> LoopState]
    BY <1>3, <2>1 DEF TimePasses
  <2>. QED
    BY <1>3, <2>2 DEF TimePasses, Quiet, HealthEvent, shared
<1>4. CASE LinkChanges
  BY <1>4 DEF LinkChanges, Quiet, HealthEvent, shared
<1>5. CASE RoutesVanish
  BY <1>5 DEF RoutesVanish, Quiet, HealthEvent, Machine
<1>6. CASE Retire
  BY <1>6 DEF Retire, Quiet, HealthEvent, shared
<1>7. CASE UNCHANGED hmVars
  BY <1>7 DEF hmVars
<1>. QED
  BY <1>1, <1>2, <1>3, <1>4, <1>5, <1>6, <1>7 DEF HMNext, Outside

(* What a step of one loop leaves alone: the generation, every other loop, *)
(* its own configuration; and its own generation until it exits.           *)
LEMMA LoopFrame ==
    ASSUME HMTypeOK, NEW l \in Loops, LoopStep(l)
    PROVE  /\ Live(l) /\ gen' = gen
           /\ \A k \in Loops : k # l => loop'[k] = loop[k]
           /\ loop'[l].cfg = loop[l].cfg
           /\ loop'[l].gen = IF loop'[l].pc = "done" THEN 0 ELSE loop[l].gen
<1>. USE DEF HMTypeOK, LoopState, Goto, At, Live
<1>1. CASE Exit(l)
  BY <1>1, IdleLoopType DEF Exit
<1>2. CASE TickStart(l)
  BY <1>2 DEF TickStart
<1>3. CASE Ping(l)
  BY <1>3 DEF Ping, OnAnswer, OnSilence
<1>4. CASE CheckActive(l)
  BY <1>4 DEF CheckActive
<1>5. CASE DecideRebuild(l)
  BY <1>5 DEF DecideRebuild
<1>6. CASE ReenableCheck(l)
  BY <1>6 DEF ReenableCheck, Recovered
<1>7. CASE ReenableInstall(l)
  BY <1>7 DEF ReenableInstall
<1>8. CASE ReenableKeep(l)
  BY <1>8 DEF ReenableKeep
<1>9. CASE ReenableRevive(l)
  BY <1>9 DEF ReenableRevive
<1>10. CASE ReenableSave(l)
  BY <1>10 DEF ReenableSave, Recovered
<1>11. CASE FallbackCheck(l)
  BY <1>11 DEF FallbackCheck
<1>12. CASE FallbackDisable(l)
  BY <1>12 DEF FallbackDisable
<1>13. CASE FallbackClear(l)
  BY <1>13 DEF FallbackClear
<1>14. CASE FallbackMark(l)
  BY <1>14 DEF FallbackMark
<1>15. CASE FallbackSave(l)
  BY <1>15 DEF FallbackSave
<1>16. CASE Report(l)
  BY <1>16 DEF Report
<1>. QED
  BY <1>1, <1>2, <1>3, <1>4, <1>5, <1>6, <1>7, <1>8, <1>9, <1>10, <1>11,
     <1>12, <1>13, <1>14, <1>15, <1>16 DEF LoopStep

(* The fields the invariant speaks of; loop \in [Loops -> LoopState].      *)
SameLoop(l) ==
    /\ loop'[l].pc = loop[l].pc /\ loop'[l].gen = loop[l].gen
    /\ loop'[l].cfg = loop[l].cfg /\ loop'[l].st = loop[l].st
    /\ loop'[l].n = loop[l].n /\ loop'[l].lost = loop[l].lost

(* The cancel signal changes nothing the invariant speaks of.              *)
LEMMA CancelFrame ==
    ASSUME HMTypeOK, NEW l \in Loops, Cancel(l)
    PROVE  /\ gen' = gen /\ UNCHANGED <<handle, runtime>>
           /\ \A k \in Loops : SameLoop(k)
<1>1. ASSUME NEW k \in Loops PROVE SameLoop(k)
  BY DEF HMTypeOK, LoopState, Cancel, SameLoop
<1>. QED
  BY <1>1 DEF Cancel, shared

(* Nor does the passing of time.                                           *)
LEMMA TimeFrame ==
    ASSUME HMTypeOK, TimePasses
    PROVE  /\ gen' = gen /\ UNCHANGED <<handle, runtime>>
           /\ \A k \in Loops : SameLoop(k)
<1>1. ASSUME NEW k \in Loops PROVE SameLoop(k)
  <2>. DEFINE cool == IF loop[k].cool > 0 THEN loop[k].cool - 1 ELSE 0
              age == IF loop[k].age < Cooldown THEN loop[k].age + 1 ELSE
                 Cooldown
  <2>1. loop'[k] = [loop[k] EXCEPT !.cool = cool, !.age = age]
    BY DEF TimePasses
  <2>2. loop[k] \in LoopState
    BY DEF HMTypeOK
  <2>. HIDE DEF cool, age
  <2>. QED
    BY <2>1, <2>2 DEF LoopState, SameLoop
<1>. QED
  BY <1>1 DEF TimePasses, shared

(* No step of HMSpec starts a second loop.                                 *)
LEMMA StepKeepsOneLoop ==
    HMTypeOK /\ OneLoop /\ [HMNext]_hmVars => OneLoop'
<1>. SUFFICES ASSUME HMTypeOK, OneLoop, [HMNext]_hmVars PROVE OneLoop'
  OBVIOUS
<1>. USE DEF OneLoop, Live
<1>1. ASSUME NEW l \in Loops, LoopStep(l) PROVE OneLoop'
  BY <1>1, LoopFrame
<1>2. ASSUME NEW l \in Loops, Cancel(l) PROVE OneLoop'
  BY <1>2, CancelFrame DEF SameLoop
<1>3. CASE TimePasses
  BY <1>3, TimeFrame DEF SameLoop
<1>4. CASE Outside
  BY <1>4 DEF Outside, LinkChanges, RoutesVanish
<1>5. CASE Retire
  BY <1>5 DEF Retire
<1>6. CASE UNCHANGED hmVars
  BY <1>6 DEF hmVars
<1>. QED
  BY <1>1, <1>2, <1>3, <1>4, <1>5, <1>6 DEF HMNext

(* The parts of HMInv a loop needs nothing shared for.                    *)
Sound(l) == CountingSound(l) /\ PlaceSound(l)

(* A step of a loop keeps that loop's counters and its place sound.        *)
LEMMA LoopStepCounts ==
    ASSUME HMTypeOK, OneLoop, NEW l \in Loops, Sound(l), LoopStep(l)
    PROVE  Sound(l)'
<1>0. loop[l].cfg \in Configs /\ loop[l].cfg.threshold \in Nat
      /\ loop[l].cfg.threshold > 0
  BY ConfigTypes DEF HMTypeOK, LoopState
<1>. USE <1>0 DEF HMTypeOK, LoopState, Goto, At, Live, OneLoop, Stale,
   Sound, CountingSound, PlaceSound, FallbackPc, RebuildPc
<1>1. CASE Exit(l)
  BY <1>1, IdleLoopType DEF Exit
<1>2. CASE TickStart(l)
  BY <1>2 DEF TickStart
<1>3. CASE Ping(l)
  BY <1>3 DEF Ping, OnAnswer, OnSilence, MayReenable, CountLost,
     FailureCount, ReachedThreshold
<1>4. CASE CheckActive(l)
  BY <1>4 DEF CheckActive
<1>5. CASE DecideRebuild(l)
  BY <1>5 DEF DecideRebuild
<1>6. CASE ReenableCheck(l)
  BY <1>6 DEF ReenableCheck, Recovered
<1>7. CASE ReenableInstall(l)
  BY <1>7 DEF ReenableInstall
<1>8. CASE ReenableKeep(l)
  BY <1>8 DEF ReenableKeep
<1>9. CASE ReenableRevive(l)
  BY <1>9 DEF ReenableRevive
<1>10. CASE ReenableSave(l)
  BY <1>10 DEF ReenableSave, Recovered
<1>11. CASE FallbackCheck(l)
  BY <1>11 DEF FallbackCheck
<1>12. CASE FallbackDisable(l)
  BY <1>12 DEF FallbackDisable
<1>13. CASE FallbackClear(l)
  BY <1>13 DEF FallbackClear
<1>14. CASE FallbackMark(l)
  BY <1>14 DEF FallbackMark
<1>15. CASE FallbackSave(l)
  BY <1>15 DEF FallbackSave
<1>16. CASE Report(l)
  BY <1>16 DEF Report
<1>. QED
  BY <1>1, <1>2, <1>3, <1>4, <1>5, <1>6, <1>7, <1>8, <1>9, <1>10, <1>11,
     <1>12, <1>13, <1>14, <1>15, <1>16 DEF LoopStep

(* Every step keeps every loop's counters sound; a retirement only takes   *)
(* loops out of the current generation.                                    *)
LEMMA StepKeepsSound ==
    ASSUME HMTypeOK, OneLoop, \A l \in Loops : Sound(l), [HMNext]_hmVars
    PROVE  \A l \in Loops : Sound(l)'
<1>. USE DEF Sound, CountingSound, PlaceSound, Stale, At
<1>1. ASSUME NEW l \in Loops, LoopStep(l), NEW k \in Loops PROVE Sound(k)'
  <2>1. CASE k = l
    BY <1>1, <2>1, LoopStepCounts
  <2>2. CASE k # l
    BY <1>1, <2>2, LoopFrame
  <2>. QED BY <2>1, <2>2
<1>2. ASSUME NEW l \in Loops, Cancel(l), NEW k \in Loops PROVE Sound(k)'
  BY <1>2, CancelFrame DEF SameLoop
<1>3. ASSUME TimePasses, NEW k \in Loops PROVE Sound(k)'
  BY <1>3, TimeFrame DEF SameLoop
<1>4. ASSUME Outside, NEW k \in Loops PROVE Sound(k)'
  BY <1>4 DEF Outside, LinkChanges, RoutesVanish
<1>5. ASSUME Retire, NEW k \in Loops PROVE Sound(k)'
  BY <1>5 DEF Retire, OneLoop, Live
<1>6. ASSUME UNCHANGED hmVars, NEW k \in Loops PROVE Sound(k)'
  BY <1>6 DEF hmVars
<1>. QED
  BY <1>1, <1>2, <1>3, <1>4, <1>5, <1>6 DEF HMNext

(* A step of the live loop keeps it in agreement with the runtime state    *)
(* and the handle, at every place of the tick.                             *)
LEMMA LoopStepAgrees ==
    ASSUME HMTypeOK, OneLoop, NEW l \in Loops, Sound(l), AgreementSound(l),
           LoopStep(l)
    PROVE  AgreementSound(l)' \/ loop'[l].pc = "done"
<1>0. loop[l].cfg \in Configs
  BY DEF HMTypeOK, LoopState
<1>. USE <1>0 DEF HMTypeOK, LoopState, Goto, At, Live, OneLoop, Stale,
   Sound, CountingSound, PlaceSound, FallbackPc, RebuildPc, AgreementSound,
   Agrees, shared
<1>1. CASE Exit(l)
  BY <1>1, IdleLoopType DEF Exit
<1>2. CASE TickStart(l)
  BY <1>2 DEF TickStart
<1>3. CASE Ping(l)
  BY <1>3 DEF Ping, OnAnswer, OnSilence, MayReenable, CountLost,
     FailureCount, ReachedThreshold
<1>4. CASE CheckActive(l)
  BY <1>4 DEF CheckActive
<1>5. CASE DecideRebuild(l)
  BY <1>5 DEF DecideRebuild
<1>6. CASE ReenableCheck(l)
  BY <1>6 DEF ReenableCheck, Recovered
<1>7. CASE ReenableInstall(l)
  BY <1>7 DEF ReenableInstall
<1>8. CASE ReenableKeep(l)
  BY <1>8, ConfigTypes, SwitchEngineAssumption DEF ReenableKeep
<1>9. CASE ReenableRevive(l)
  BY <1>9 DEF ReenableRevive, RevivedRuntime
<1>10. CASE ReenableSave(l)
  BY <1>10 DEF ReenableSave, Recovered
<1>11. CASE FallbackCheck(l)
  BY <1>11 DEF FallbackCheck
<1>12. CASE FallbackDisable(l)
  BY <1>12 DEF FallbackDisable
<1>13. CASE FallbackClear(l)
  BY <1>13 DEF FallbackClear
<1>14. CASE FallbackMark(l)
  BY <1>14 DEF FallbackMark, FallenBack
<1>15. CASE FallbackSave(l)
  BY <1>15 DEF FallbackSave
<1>16. CASE Report(l)
  BY <1>16 DEF Report
<1>. QED
  BY <1>1, <1>2, <1>3, <1>4, <1>5, <1>6, <1>7, <1>8, <1>9, <1>10, <1>11,
     <1>12, <1>13, <1>14, <1>15, <1>16 DEF LoopStep

(* Every step does; only one loop is live.                                 *)
LEMMA StepKeepsAgreement ==
    ASSUME HMInv, [HMNext]_hmVars, NEW k \in Loops, Live(k)'
    PROVE  AgreementSound(k)'
<1>. USE DEF HMInv
<1>1. ASSUME NEW l \in Loops, LoopStep(l) PROVE AgreementSound(k)'
  <2>1. CASE k = l
    BY <1>1, <2>1, LoopFrame, LoopStepAgrees DEF Sound, Live
  <2>2. CASE k # l
    BY <1>1, <2>2, LoopFrame DEF OneLoop, Live
  <2>. QED BY <2>1, <2>2
<1>2. CASE SameLoop(k) /\ UNCHANGED <<handle, runtime>> /\ gen' = gen
  BY <1>2 DEF SameLoop, AgreementSound, Agrees, Live, Stale, At
<1>3. CASE Retire
  BY <1>3 DEF Retire, OneLoop, AgreementSound, Agrees, Live, Stale, At, shared
<1>4. ASSUME NEW l \in Loops, Cancel(l) PROVE AgreementSound(k)'
  BY <1>2, <1>4, CancelFrame
<1>5. CASE TimePasses
  BY <1>2, <1>5, TimeFrame
<1>6. CASE Outside \/ UNCHANGED hmVars
  BY <1>2, <1>6 DEF Outside, LinkChanges, RoutesVanish, SameLoop, shared,
     hmVars
<1>. QED
  BY <1>1, <1>3, <1>4, <1>5, <1>6 DEF HMNext

(* What an enable leaves behind is a machine.                              *)
LEMMA EnabledMachineType ==
    ASSUME NEW c \in Configs
    PROVE  EnabledMachine(c) \in Machine
<1>1. c.adapter \in Adapters /\ c.gw \in Gateways
  BY HealthMonitorAssumption DEF Config
<1>2. Via(c.gw) \subseteq Half \X Gateways
  BY <1>1 DEF Via
<1>3. [a \in Adapters |->
         IF c.mode = Reconfig /\ a = c.adapter THEN c.gw ELSE Direct]
        \in [Adapters -> Gateways \cup {Direct}]
  BY <1>1
<1>4. [adapter |-> c.adapter, conf |-> Direct] \in Snapshot
  BY <1>1 DEF Snapshot
<1>. QED
  BY <1>2, <1>3, <1>4 DEF EnabledMachine, Machine

(* The inductive invariant holds when the loop starts ...                  *)
LEMMA InitMeetsInv == HMInit => HMInv
<1>. SUFFICES ASSUME HMInit PROVE HMInv
  OBVIOUS
<1>1. PICK c \in Configs, only \in Loops, h \in {"Idle", "Fallback"} :
        /\ gen = 1
        /\ loop = [l \in Loops |->
                     IF l = only THEN FreshLoop(1, c) ELSE IdleLoop(c)]
        /\ handle = TargetOf(c)
        /\ runtime = [enabled |-> TRUE, mode |-> c.mode, health |-> h]
        /\ saved = runtime
        /\ machine = EnabledMachine(c)
        /\ link = "reachable"
        /\ event = "none"
  BY DEF HMInit
<1>2. machine \in Machine
  BY <1>1, EnabledMachineType
<1>3. HMTypeOK
  BY <1>1, <1>2, ConfigTypes, FreshLoopType, IdleLoopType
  DEF HMTypeOK, Handle, Runtime, HealthStatus, Link, HealthEvent
<1>4. \A l \in Loops :
        IF l = only
        THEN /\ loop[l].pc = "wait" /\ loop[l].gen = 1 /\ loop[l].cfg = c
             /\ loop[l].st = "Healthy" /\ loop[l].lost = 0
        ELSE loop[l] = IdleLoop(c)
  BY <1>1 DEF FreshLoop
<1>5. OneLoop
  BY <1>1, <1>4, IdleLoopType DEF OneLoop, Live
<1>6. \A l \in Loops : CountingSound(l) /\ PlaceSound(l)
  BY <1>1, <1>4, IdleLoopType, ConfigTypes
  DEF CountingSound, PlaceSound, At, Stale, FallbackPc, RebuildPc
<1>7. \A l \in Loops : Live(l) => AgreementSound(l)
  BY <1>1, <1>4, IdleLoopType, ConfigTypes, SwitchEngineAssumption
  DEF AgreementSound, Agrees, Live, At, Stale
<1>. QED
  BY <1>3, <1>5, <1>6, <1>7 DEF HMInv

(* ... and every step keeps it.                                            *)
LEMMA StepKeepsInv == HMInv /\ [HMNext]_hmVars => HMInv'
<1>. SUFFICES ASSUME HMInv, [HMNext]_hmVars PROVE HMInv'
  OBVIOUS
<1>1. HMTypeOK'
  BY StepKeepsTypes DEF HMInv
<1>2. OneLoop'
  BY StepKeepsOneLoop DEF HMInv
<1>3. \A l \in Loops : (CountingSound(l) /\ PlaceSound(l))'
  BY StepKeepsSound DEF HMInv, Sound
<1>4. \A l \in Loops : Live(l)' => AgreementSound(l)'
  BY StepKeepsAgreement
<1>. QED
  BY <1>1, <1>2, <1>3, <1>4 DEF HMInv

(* The inductive invariant of the health monitor: at each place of a tick, *)
(* what the loop privately believes, what it shares with the controller,   *)
(* and the probes really lost fit together (run_loop and all it calls).    *)
THEOREM InvHolds == HMSpec => []HMInv
BY InitMeetsInv, StepKeepsInv, PTL DEF HMSpec

(* The state of the health monitor is well-typed, also the machine after   *)
(* any partial failure of a strategy call (run_loop, SwitchStrategy).      *)
THEOREM TypesHold == HMSpec => []HMTypeOK
<1>1. HMInv => HMTypeOK
  BY DEF HMInv
<1>. QED
  BY <1>1, InvHolds, PTL

(* For every threshold: each fallback is preceded by that many probes in a *)
(* row without an answer, also when the loop was retired, or the network   *)
(* changed, in between (handle_failure).                                   *)
THEOREM FallbackIsEarned == HMSpec => []FallbackEarned
<1>1. HMInv => FallbackEarned
  BY DEF HMInv, CountingSound, FallbackEarned
<1>. QED
  BY <1>1, InvHolds, PTL

(* Between ticks a current loop's private state, is_enabled, the active    *)
(* mode and the handle say the same thing, for every configuration and any *)
(* failures (fallback, reenable).                                          *)
THEOREM LoopAndRuntimeAgree == HMSpec => []LoopAgreesWithRuntime
<1>1. HMInv => LoopAgreesWithRuntime
  BY DEF HMInv, AgreementSound, Agrees, Live, At, LoopAgreesWithRuntime
<1>. QED
  BY <1>1, InvHolds, PTL

(* A step that leaves is_enabled and the losses counted is invisible to    *)
(* the contract.                                                           *)
LEMMA ContractStutters ==
    ASSUME loop'[Watched].cfg = loop[Watched].cfg,
           Live(Watched)' <=> Live(Watched),
           Live(Watched) =>
              /\ runtime'.enabled = runtime.enabled
              /\ runtime.enabled => loop'[Watched].lost = loop[Watched].lost
    PROVE  UNCHANGED Contract!contractVars
  BY DEF Contract!contractVars, Live

(* All but four of the loop's steps are such steps.                        *)
LEMMA QuietStepStutters ==
    ASSUME HMInv, NEW l \in Loops, LoopStep(l),
           ~Exit(l), ~Ping(l), ~ReenableRevive(l), ~FallbackMark(l)
    PROVE  /\ loop'[l].pc # "done" /\ loop'[l].lost = loop[l].lost
           /\ runtime'.enabled = runtime.enabled
<1>. USE DEF HMInv, HMTypeOK, LoopState, Runtime, Goto, shared
<1>2. CASE TickStart(l)
  BY <1>2 DEF TickStart
<1>4. CASE CheckActive(l)
  BY <1>4 DEF CheckActive
<1>5. CASE DecideRebuild(l)
  BY <1>5 DEF DecideRebuild
<1>6. CASE ReenableCheck(l)
  BY <1>6 DEF ReenableCheck, Recovered
<1>7. CASE ReenableInstall(l)
  BY <1>7 DEF ReenableInstall
<1>8. CASE ReenableKeep(l)
  BY <1>8 DEF ReenableKeep
<1>10. CASE ReenableSave(l)
  BY <1>10 DEF ReenableSave, Recovered
<1>11. CASE FallbackCheck(l)
  BY <1>11 DEF FallbackCheck
<1>12. CASE FallbackDisable(l)
  BY <1>12 DEF FallbackDisable
<1>13. CASE FallbackClear(l)
  BY <1>13 DEF FallbackClear
<1>15. CASE FallbackSave(l)
  BY <1>15 DEF FallbackSave
<1>16. CASE Report(l)
  BY <1>16 DEF Report
<1>. QED
  BY <1>2, <1>4, <1>5, <1>6, <1>7, <1>8, <1>10, <1>11, <1>12, <1>13, <1>15,
     <1>16 DEF LoopStep

(* A step of the watched loop is a step of the contract: a probe is        *)
(* Answered or Unanswered, marking the fallback is Drop, marking the       *)
(* revival is TakeUp, the end of the task is ContractRetire.               *)
LEMMA WatchedStepKeepsContract ==
    ASSUME HMInv, NEW l \in Loops, l = Watched, LoopStep(l)
    PROVE  [Contract!ContractNext]_(Contract!contractVars)
<1>0. /\ loop \in [Loops -> LoopState] /\ loop[l] \in LoopState
      /\ runtime \in Runtime
      /\ Sound(l) /\ Live(l) /\ AgreementSound(l)
      /\ loop'[l].cfg = loop[l].cfg
      /\ loop[l].cfg.threshold \in Nat
  BY LoopFrame, ConfigTypes DEF HMInv, HMTypeOK, Sound, LoopState
<1>. USE <1>0
<1>1. CASE Exit(l)
  <2>1. loop'[l].pc = "done"
    BY <1>1, IdleLoopType DEF Exit, LoopState
  <2>. QED
    BY <2>1 DEF Live, Contract!contractVars, Contract!ContractNext,
                Contract!ContractRetire
<1>2. CASE Ping(l)
  <2>. USE DEF At, Live, Sound, CountingSound, AgreementSound, Agrees
  <2>1. /\ runtime' = runtime /\ loop'[l].pc # "done"
        /\ loop[l].pc = "ping"
    BY <1>2 DEF Ping, OnAnswer, OnSilence, shared, LoopState
  <2>2. CASE OnAnswer(l)
    <3>1. loop'[l].lost = 0
      BY <2>2 DEF OnAnswer, LoopState
    <3>2. CASE runtime.enabled
      BY <2>1, <3>1, <3>2 DEF Contract!contractVars, Contract!ContractNext,
                              Contract!Answered
    <3>3. CASE ~runtime.enabled
      BY <2>1, <3>3, ContractStutters
    <3>. QED BY <3>2, <3>3
  <2>3. CASE OnSilence(l)
    <3>1. CASE runtime.enabled
      <4>1. loop[l].lost < loop[l].cfg.threshold
        BY <2>1, <3>1
      <4>2. loop'[l].lost = loop[l].lost + 1
        BY <2>3, <4>1 DEF OnSilence, CountLost, LoopState
      <4>. QED
        BY <2>1, <3>1, <4>1, <4>2
        DEF Contract!contractVars, Contract!ContractNext, Contract!Unanswered
    <3>2. CASE ~runtime.enabled
      BY <2>1, <3>2, ContractStutters
    <3>. QED BY <3>1, <3>2
  <2>. QED
    BY <1>2, <2>2, <2>3 DEF Ping
<1>3. CASE ReenableRevive(l)
  <2>1. /\ loop'[l].pc # "done" /\ loop'[l].lost = 0 /\ loop[l].lost = 0
        /\ runtime'.enabled
        /\ ~runtime.enabled => loop[l].cfg.auto
    BY <1>3 DEF ReenableRevive, RevivedRuntime, Goto, At, LoopState, Sound,
       CountingSound, PlaceSound, RebuildPc, AgreementSound
  <2>2. CASE runtime.enabled
    BY <2>1, <2>2, ContractStutters DEF Live
  <2>3. CASE ~runtime.enabled
    BY <2>1, <2>3 DEF Live, Contract!contractVars, Contract!ContractNext,
                      Contract!TakeUp
  <2>. QED BY <2>2, <2>3
<1>4. CASE FallbackMark(l)
  <2>1. /\ loop'[l].pc # "done"
        /\ loop[l].lost = loop[l].cfg.threshold
        /\ runtime.enabled /\ ~runtime'.enabled
    BY <1>4 DEF FallbackMark, FallenBack, Goto, At, LoopState, Sound,
       CountingSound, FallbackPc, AgreementSound
  <2>. QED
    BY <2>1 DEF Live, Contract!contractVars, Contract!ContractNext,
                Contract!Drop
<1>5. CASE ~Exit(l) /\ ~Ping(l) /\ ~ReenableRevive(l) /\ ~FallbackMark(l)
  BY <1>5, QuietStepStutters, ContractStutters DEF Live
<1>. QED
  BY <1>1, <1>2, <1>3, <1>4, <1>5

(* So is every step.                                                       *)
LEMMA StepKeepsContract ==
    ASSUME HMInv, [HMNext]_hmVars
    PROVE  [Contract!ContractNext]_(Contract!contractVars)
<1>. USE RefinementAssumption
<1>1. ASSUME NEW l \in Loops, LoopStep(l)
      PROVE  [Contract!ContractNext]_(Contract!contractVars)
  <2>1. CASE l = Watched
    BY <1>1, <2>1, WatchedStepKeepsContract
  <2>2. CASE l # Watched
    BY <1>1, <2>2, LoopFrame, ContractStutters DEF HMInv, OneLoop, Live
  <2>. QED BY <2>1, <2>2
<1>2. CASE SameLoop(Watched) /\ runtime' = runtime
  BY <1>2, ContractStutters DEF SameLoop, Live
<1>3. ASSUME NEW l \in Loops, Cancel(l)
      PROVE  [Contract!ContractNext]_(Contract!contractVars)
  BY <1>2, <1>3, CancelFrame DEF HMInv
<1>4. CASE TimePasses
  BY <1>2, <1>4, TimeFrame DEF HMInv
<1>5. CASE Outside \/ Retire \/ UNCHANGED hmVars
  BY <1>2, <1>5
  DEF Outside, LinkChanges, RoutesVanish, Retire, hmVars, shared, SameLoop
<1>. QED
  BY <1>1, <1>3, <1>4, <1>5 DEF HMNext

(* The loop starts with the bypass kept and nothing missed.                *)
LEMMA InitMeetsContract == HMInit => Contract!ContractInit
<1>. SUFFICES ASSUME HMInit PROVE Contract!ContractInit
  OBVIOUS
<1>1. runtime.enabled
  BY DEF HMInit
<1>2. loop[Watched].lost = 0 /\ loop[Watched].cfg \in Configs
  BY RefinementAssumption, IdleLoopType DEF HMInit, FreshLoop
<1>. QED
  BY <1>1, <1>2, ConfigTypes DEF Contract!ContractInit

(* run_loop implements HealthContract for every threshold, network         *)
(* behaviour and failure: no early drop, no re-enable the user did not ask *)
(* for, nothing after the task ended.                                      *)
THEOREM ContractKept == HMSpec => KeepsContract
<1>1. HMInv /\ [HMNext]_hmVars =>
   [Contract!ContractNext]_(Contract!contractVars)
  BY StepKeepsContract
<1>. QED
  BY <1>1, InvHolds, InitMeetsContract, PTL
  DEF HMSpec, KeepsContract, Contract!ContractSpec

(* A step of the live loop leaves the file behind only where it is about   *)
(* to write it.                                                            *)
LEMMA LoopStepSaves ==
    ASSUME "save" \notin Faults, HMTypeOK, NEW l \in Loops, SaveSound(l),
           LoopStep(l)
    PROVE  SaveSound(l)' \/ loop'[l].pc = "done"
<1>. USE DEF HMTypeOK, LoopState, Runtime, Goto, At, SaveSound, shared,
         FallenBack, RevivedRuntime
<1>1. CASE Exit(l)
  BY <1>1, IdleLoopType DEF Exit
<1>2. CASE TickStart(l)
  BY <1>2 DEF TickStart
<1>3. CASE Ping(l)
  BY <1>3 DEF Ping, OnAnswer, OnSilence
<1>4. CASE CheckActive(l)
  BY <1>4 DEF CheckActive
<1>5. CASE DecideRebuild(l)
  BY <1>5 DEF DecideRebuild
<1>6. CASE ReenableCheck(l)
  BY <1>6 DEF ReenableCheck, Recovered
<1>7. CASE ReenableInstall(l)
  BY <1>7 DEF ReenableInstall
<1>8. CASE ReenableKeep(l)
  BY <1>8 DEF ReenableKeep
<1>9. CASE ReenableRevive(l)
  BY <1>9 DEF ReenableRevive
<1>10. CASE ReenableSave(l)
  <2>1. loop'[l].pc = "report"
    BY <1>10 DEF ReenableSave, Recovered
  <2>2. saved' = RevivedRuntime(l) /\ runtime = RevivedRuntime(l)
        /\ runtime' = runtime
    BY <1>10 DEF ReenableSave, Persist, MayFail
  <2>. QED
    BY <2>1, <2>2
<1>11. CASE FallbackCheck(l)
  BY <1>11 DEF FallbackCheck
<1>12. CASE FallbackDisable(l)
  BY <1>12 DEF FallbackDisable
<1>13. CASE FallbackClear(l)
  BY <1>13 DEF FallbackClear
<1>14. CASE FallbackMark(l)
  BY <1>14 DEF FallbackMark
<1>15. CASE FallbackSave(l)
  <2>1. loop'[l].pc = "report"
    BY <1>15 DEF FallbackSave
  <2>2. saved' = FallenBack /\ runtime = FallenBack /\ runtime' = runtime
    BY <1>15 DEF FallbackSave, Persist, MayFail
  <2>. QED
    BY <2>1, <2>2
<1>16. CASE Report(l)
  BY <1>16 DEF Report
<1>. QED
  BY <1>1, <1>2, <1>3, <1>4, <1>5, <1>6, <1>7, <1>8, <1>9, <1>10, <1>11,
     <1>12, <1>13, <1>14, <1>15, <1>16
  DEF LoopStep

(* So does every step.                                                     *)
LEMMA StepKeepsSaves ==
    ASSUME "save" \notin Faults, HMInv, SaveInv, [HMNext]_hmVars
    PROVE  SaveInv'
<1>. SUFFICES ASSUME NEW k \in Loops, Live(k)' PROVE SaveSound(k)'
  BY DEF SaveInv
<1>. USE DEF HMInv
<1>1. ASSUME NEW l \in Loops, LoopStep(l) PROVE SaveSound(k)'
  <2>1. CASE k = l
    BY <1>1, <2>1, LoopFrame, LoopStepSaves DEF SaveInv, Live
  <2>2. CASE k # l
    BY <1>1, <2>2, LoopFrame DEF OneLoop, Live
  <2>. QED BY <2>1, <2>2
<1>2. CASE SameLoop(k) /\ UNCHANGED <<runtime, saved>>
  BY <1>2 DEF SameLoop, SaveInv, SaveSound, Live, At, RevivedRuntime
<1>3. ASSUME NEW l \in Loops, Cancel(l) PROVE SaveSound(k)'
  BY <1>2, <1>3, CancelFrame DEF Cancel, shared
<1>4. CASE TimePasses
  BY <1>2, <1>4, TimeFrame DEF TimePasses, shared
<1>5. CASE Outside \/ Retire \/ UNCHANGED hmVars
  BY <1>2, <1>5
  DEF Outside, LinkChanges, RoutesVanish, Retire, hmVars, shared, SameLoop
<1>. QED
  BY <1>1, <1>3, <1>4, <1>5 DEF HMNext

(* As long as no save fails, a restart between two ticks reads the         *)
(* expectation the monitor last put in memory (persist_runtime after       *)
(* fallback and reenable).                                                 *)
THEOREM RuntimeReachesFile ==
    ASSUME "save" \notin Faults
    PROVE  HMSpec => []SavedAgreesWithRuntime
<1>1. HMInit => SaveInv
  <2>. SUFFICES ASSUME HMInit, NEW l \in Loops, Live(l) PROVE SaveSound(l)
    BY DEF SaveInv
  <2>1. loop[l].pc = "wait" /\ saved = runtime
    BY IdleLoopType DEF HMInit, FreshLoop, Live
  <2>. QED
    BY <2>1 DEF SaveSound, At
<1>2. HMInv /\ SaveInv /\ [HMNext]_hmVars => SaveInv'
  BY StepKeepsSaves
<1>3. SaveInv => SavedAgreesWithRuntime
  BY DEF SaveInv, SaveSound, SavedAgreesWithRuntime, At, Live
<1>. QED
  BY <1>1, <1>2, <1>3, InvHolds, PTL DEF HMSpec

-----------------------------------------------------------------------------
(* A loop that starts, and one that ends, owes no pause.                   *)
LEMMA NewLoopSpacing ==
    ASSUME NEW c \in Configs, NEW g
    PROVE  /\ FreshLoop(g, c).pc = "wait" /\ IdleLoop(c).pc = "done"
           /\ FreshLoop(g, c).age = Cooldown /\ FreshLoop(g, c).cool = 0
           /\ IdleLoop(c).age = Cooldown /\ IdleLoop(c).cool = 0
  BY DEF FreshLoop, IdleLoop

(* The steps of a loop.                                                    *)
LEMMA LoopStepSpaces ==
    ASSUME HMTypeOK, NEW l \in Loops, SpacingSound(l), LoopStep(l)
    PROVE  /\ SpacingSound(l)'
           /\ At(l, "install") /\ loop[l].cfg.mode = Reconfig
                /\ ~loop[l].cfg.auto => loop[l].age = Cooldown
<1>0. /\ loop[l] \in LoopState /\ loop[l].cfg \in Configs
      /\ loop[l].cfg.auto \in BOOLEAN
      /\ Cooldown \in Nat /\ loop[l].age \in Nat /\ loop[l].cool \in Nat
      /\ loop'[l].cfg = loop[l].cfg
  BY HealthMonitorAssumption, ConfigTypes, LoopFrame
  DEF HMTypeOK, LoopState
<1>. SUFFICES ASSUME loop[l].cfg.mode = Reconfig, ~loop[l].cfg.auto
              PROVE  /\ SpacingSound(l)'
                     /\ At(l, "install") => loop[l].age = Cooldown
  BY <1>0 DEF SpacingSound
<1>s. IF loop[l].pc \in {"recheck", "install"}
      THEN loop[l].age = Cooldown /\ loop[l].cool = Cooldown
      ELSE loop[l].age + loop[l].cool >= Cooldown
  BY DEF SpacingSound
<1>i. At(l, "install") => loop[l].age = Cooldown
  BY <1>s DEF At
<1>. SUFFICES IF loop'[l].pc \in {"recheck", "install"}
              THEN loop'[l].age = Cooldown /\ loop'[l].cool = Cooldown
              ELSE loop'[l].age + loop'[l].cool >= Cooldown
  BY <1>i DEF SpacingSound
<1>. USE <1>0, <1>s DEF HMTypeOK, LoopState, Goto, At
<1>1. CASE Exit(l)
  BY <1>1, NewLoopSpacing DEF Exit
<1>2. CASE TickStart(l) \/ CheckActive(l)
  BY <1>2 DEF TickStart, CheckActive
<1>3. CASE Ping(l)
  BY <1>3 DEF Ping, OnAnswer, OnSilence, MayReenable
<1>4. CASE DecideRebuild(l)
  <2>1. RebuildCooldown(loop[l].cfg) = Cooldown
    BY DEF RebuildCooldown, Overlay, Reconfig
  <2>. QED
    BY <1>4, <2>1 DEF DecideRebuild, CooldownOver
<1>5. CASE ReenableCheck(l) \/ ReenableSave(l)
  BY <1>5 DEF ReenableCheck, ReenableSave, Recovered
<1>6. CASE ReenableInstall(l)
  <2>1. /\ At(l, "install") /\ loop'[l].pc \in {"keep", "report"}
        /\ loop'[l].cool = loop[l].cool
        /\ loop'[l].age \in {0, loop[l].age}
    BY <1>6 DEF ReenableInstall
  <2>. QED
    BY <2>1
<1>7. CASE ReenableKeep(l) \/ ReenableRevive(l)
  BY <1>7 DEF ReenableKeep, ReenableRevive
<1>8. CASE FallbackCheck(l) \/ FallbackDisable(l) \/ FallbackClear(l)
  BY <1>8 DEF FallbackCheck, FallbackDisable, FallbackClear
<1>9. CASE FallbackMark(l) \/ FallbackSave(l) \/ Report(l)
  BY <1>9 DEF FallbackMark, FallbackSave, Report
<1>. QED
  BY <1>1, <1>2, <1>3, <1>4, <1>5, <1>6, <1>7, <1>8, <1>9 DEF LoopStep

(* Time takes from the pause what it adds to the age.                      *)
LEMMA TimeSpaces ==
    ASSUME HMTypeOK, NEW l \in Loops, SpacingSound(l), TimePasses
    PROVE  SpacingSound(l)'
<1>. DEFINE cool == IF loop[l].cool > 0 THEN loop[l].cool - 1 ELSE 0
            age == IF loop[l].age < Cooldown THEN loop[l].age + 1
                   ELSE Cooldown
<1>1. /\ loop[l] \in LoopState /\ Cooldown \in Nat
      /\ loop[l].age \in 0..Cooldown /\ loop[l].cool \in 0..Cooldown
      /\ loop[l].pc \notin {"recheck", "install"}
  BY HealthMonitorAssumption DEF HMTypeOK, LoopState, TimePasses, MidTick
<1>2. loop'[l] = [loop[l] EXCEPT !.cool = cool, !.age = age]
  BY DEF TimePasses
<1>3. loop[l].age + loop[l].cool >= Cooldown => age + cool >= Cooldown
  BY <1>1
<1>. HIDE DEF cool, age
<1>4. /\ loop'[l].pc = loop[l].pc /\ loop'[l].cfg = loop[l].cfg
      /\ loop'[l].age = age /\ loop'[l].cool = cool
  BY <1>1, <1>2 DEF LoopState
<1>. QED
  BY <1>1, <1>3, <1>4 DEF SpacingSound

(* Two replays of the adapter's reconfiguration are at least Cooldown      *)
(* apart, whatever the adapters, links and faults, as long as recovery is  *)
(* not what asks for them (RECONFIG_REBUILD_COOLDOWN, ensure_active).      *)
THEOREM ReplaysAreSpaced == HMSpec => ReplaysSpaced
<1>1. HMInit => SpacingInv
  <2>. SUFFICES ASSUME HMInit, NEW l \in Loops PROVE SpacingSound(l)
    BY DEF SpacingInv
  <2>1. Cooldown \in Nat
    BY HealthMonitorAssumption
  <2>2. /\ loop[l].pc \in {"wait", "done"}
        /\ loop[l].age = Cooldown /\ loop[l].cool = 0
    BY NewLoopSpacing DEF HMInit
  <2>. QED
    BY <2>1, <2>2 DEF SpacingSound
<1>2. HMTypeOK /\ SpacingInv /\ [HMNext]_hmVars => SpacingInv'
  <2>. SUFFICES ASSUME HMTypeOK, SpacingInv, [HMNext]_hmVars, NEW k \in Loops
                PROVE  SpacingSound(k)'
    BY DEF SpacingInv
  <2>0. SpacingSound(k)
    BY DEF SpacingInv
  <2>1. ASSUME NEW l \in Loops, LoopStep(l) PROVE SpacingSound(k)'
    <3>1. CASE k = l
      BY <2>0, <2>1, <3>1, LoopStepSpaces
    <3>2. CASE k # l
      BY <2>0, <2>1, <3>2, LoopFrame DEF SpacingSound
    <3>. QED
      BY <3>1, <3>2
  <2>2. ASSUME NEW l \in Loops, Cancel(l) PROVE SpacingSound(k)'
    BY <2>0, <2>2 DEF Cancel, SpacingSound, HMTypeOK, LoopState
  <2>3. CASE TimePasses
    BY <2>0, <2>3, TimeSpaces
  <2>4. CASE Outside \/ Retire \/ UNCHANGED hmVars
    BY <2>0, <2>4
    DEF Outside, LinkChanges, RoutesVanish, Retire, hmVars, SpacingSound
  <2>. QED
    BY <2>1, <2>2, <2>3, <2>4 DEF HMNext
<1>3. HMTypeOK /\ SpacingInv /\ [HMNext]_hmVars =>
        [\A l \in Loops :
           (/\ At(l, "install") /\ loop'[l].pc # "install"
            /\ link # "unplugged"
            /\ loop[l].cfg.mode = Reconfig /\ ~loop[l].cfg.auto)
             => loop[l].age = Cooldown]_hmVars
  <2>. SUFFICES ASSUME SpacingInv, NEW l \in Loops, At(l, "install"),
                       loop[l].cfg.mode = Reconfig, ~loop[l].cfg.auto
                PROVE  loop[l].age = Cooldown
    OBVIOUS
  <2>. QED
    BY DEF SpacingInv, SpacingSound, At
<1>. QED
  BY <1>1, <1>2, <1>3, TypesHold, PTL DEF HMSpec, ReplaysSpaced
=============================================================================

-------------------------- MODULE HealthMonitorInv --------------------------
(***************************************************************************)
(* The inductive invariant of HMSpec: what holds at each place of a tick,  *)
(* for the loop and for what it shares with the controller.  The safety    *)
(* properties of HealthMonitor speak of a few of these places only and are *)
(* not inductive themselves.                                               *)
(***************************************************************************)
EXTENDS HealthMonitorRefinement

(* HMSpec has one loop and a generation that moves once.                   *)
OneLoop ==
    /\ gen \in {1, 2}
    /\ \A l \in Loops : loop[l].gen = IF Live(l) THEN 1 ELSE 0
    /\ \A k, l \in Loops : Live(k) /\ Live(l) => k = l

(* The loop's counter never runs ahead of the probes really lost, and a    *)
(* loop that fell back is the only one to ping with all of them lost.      *)
CountingSound(l) ==
    /\ loop[l].lost <= loop[l].cfg.threshold
    /\ loop[l].st = "Degraded" =>
          loop[l].n <= loop[l].lost \/ loop[l].lost = loop[l].cfg.threshold
    /\ loop[l].pc \in FallbackPc => loop[l].lost = loop[l].cfg.threshold
    /\ loop[l].pc \in RebuildPc => loop[l].lost = 0
    /\ loop[l].pc \in {"active", "rebuild"} => loop[l].lost = 0
    /\ (loop[l].pc \in {"wait", "report"} /\ ~Stale(l)) \/ At(l, "ping") =>
          loop[l].st = "Fallback" \/ loop[l].lost < loop[l].cfg.threshold

(* Which state the loop is in at each place.                               *)
PlaceSound(l) ==
    /\ loop[l].pc \in {"active", "rebuild"} => loop[l].st = "Healthy"
    /\ loop[l].pc \in FallbackPc => loop[l].st = "Degraded"
    /\ loop[l].pc \in RebuildPc =>
          \/ loop[l].st = "Healthy"
          \/ loop[l].st = "Fallback" /\ loop[l].cfg.auto

Agrees(l) ==
    /\ loop[l].st = "Fallback" <=> ~runtime.enabled
    /\ loop[l].st = "Fallback" <=> handle = None
    /\ runtime.enabled => runtime.mode = loop[l].cfg.mode

(* Loop and runtime state agree but for the steps between which they are   *)
(* brought back into agreement.  A loop caught by a retirement is bound by *)
(* that only while it has not passed its generation test.                  *)
AgreementSound(l) ==
    /\ loop[l].pc \in {"wait", "report", "recheck"} /\ ~Stale(l) => Agrees(l)
    /\ loop[l].pc \in {"ping", "active", "rebuild", "fbcheck", "fbdisable",
                       "install", "keep"} => Agrees(l)
    /\ At(l, "fbclear") => runtime.enabled
    /\ At(l, "fbmark") => runtime.enabled /\ handle = None
    /\ At(l, "fbsave") => ~runtime.enabled /\ handle = None
    /\ At(l, "revive") =>
          /\ handle # None
          /\ loop[l].st = "Fallback" <=> ~runtime.enabled
    /\ At(l, "resave") =>
          /\ handle # None
          /\ runtime.enabled /\ runtime.mode = loop[l].cfg.mode

HMInv ==
    /\ HMTypeOK
    /\ OneLoop
    /\ \A l \in Loops : CountingSound(l) /\ PlaceSound(l)
    /\ \A l \in Loops : Live(l) => AgreementSound(l)

(* When no save fails, the file is behind the memory only in the one step  *)
(* of fallback or reenable that is about to write it.                      *)
SaveSound(l) ==
    /\ At(l, "fbsave") => runtime = FallenBack
    /\ At(l, "resave") => runtime = RevivedRuntime(l)
    /\ ~At(l, "fbsave") /\ ~At(l, "resave") =>
          saved.enabled = runtime.enabled /\ saved.mode = runtime.mode

SaveInv == \A l \in Loops : Live(l) => SaveSound(l)

(* last_rebuild is as old as the last replay, or older, and it is set in   *)
(* the step that decides to replay, before the replay: while one is under  *)
(* way the last is Cooldown ago and the next is Cooldown away.             *)
SpacingSound(l) ==
    loop[l].cfg.mode = Reconfig /\ ~loop[l].cfg.auto =>
        IF loop[l].pc \in {"recheck", "install"}
        THEN loop[l].age = Cooldown /\ loop[l].cool = Cooldown
        ELSE loop[l].age + loop[l].cool >= Cooldown

SpacingInv == \A l \in Loops : SpacingSound(l)
=============================================================================

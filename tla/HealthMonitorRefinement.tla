----------------------- MODULE HealthMonitorRefinement -----------------------
(***************************************************************************)
(* The health monitor implements HealthContract.  The bypass is "kept"     *)
(* while the runtime state everybody reads says it is enabled, and the     *)
(* misses are the probes really lost, not the counter the loop keeps.      *)
(***************************************************************************)
EXTENDS HealthMonitor

CONSTANT Watched    \* the loop looked at

ASSUME RefinementAssumption == Watched \in Loops

Contract ==
    INSTANCE HealthContract WITH
        terms <- [threshold |-> loop[Watched].cfg.threshold,
                  auto |-> loop[Watched].cfg.auto],
        phase <- IF ~Live(Watched) THEN "retired"
                 ELSE IF runtime.enabled THEN "kept" ELSE "dropped",
        misses <- IF Live(Watched) /\ runtime.enabled
                  THEN loop[Watched].lost ELSE 0

(* run_loop keeps its contract under every interleaving with stop_health_  *)
(* monitor: no early fallback, no re-enable the user did not ask for.      *)
KeepsContract == Contract!ContractSpec
=============================================================================

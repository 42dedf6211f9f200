--------------------------- MODULE MCHealthMonitor ---------------------------
(***************************************************************************)
(* Instances of HealthMonitor for TLC: one adapter, one bypass gateway,    *)
(* one loop; the configurations cover both modes.                          *)
(***************************************************************************)
EXTENDS HealthMonitorInv

CONSTANTS eth, gw1

Cfg(mode, auto, threshold) ==
    [mode |-> mode, adapter |-> eth, gw |-> gw1,
     auto |-> auto, threshold |-> threshold]

AllConfigs == {Cfg(m, a, t) : m \in Mode, a \in BOOLEAN, t \in {1, 3}}
ReconfigConfigs == {c \in AllConfigs : c.mode = Reconfig}
==============================================================================

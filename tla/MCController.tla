---------------------------- MODULE MCController ----------------------------
(***************************************************************************)
(* Instances of Controller for TLC.                                        *)
(***************************************************************************)
EXTENDS Controller, TLC

CONSTANTS eth, gw1, gw2

Cfg(mode, gw, auto, threshold) ==
    [mode |-> mode, adapter |-> eth, gw |-> gw,
     auto |-> auto, threshold |-> threshold]

OneOverlay == {Cfg(Overlay, gw1, FALSE, 1)}
TwoOverlays == {Cfg(Overlay, gw1, FALSE, 1), Cfg(Overlay, gw2, FALSE, 1)}
OverlayOneAuto == {Cfg(Overlay, gw1, TRUE, 1)}
OverlayTwoThresholds ==
    {Cfg(Overlay, gw1, FALSE, 1), Cfg(Overlay, gw1, TRUE, 2)}
OneReconfig == {Cfg(Reconfig, gw1, FALSE, 1)}
BothModes == {Cfg(m, gw1, FALSE, 1) : m \in Mode}

OverlaysAndReconfig == TwoOverlays \cup OneReconfig

LoopSymmetry == Permutations(Loops)
=============================================================================

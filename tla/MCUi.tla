-------------------------------- MODULE MCUi --------------------------------
(***************************************************************************)
(* Instances of Ui for TLC: two adapters, at first an overlay on the one   *)
(* that is missing.                                                        *)
(***************************************************************************)
EXTENDS Ui

CONSTANTS eth, wifi

OneOverlay == {[mode |-> "RouteOverlay", adapter |-> eth, gw |-> TRUE]}
SomeLists == {<<eth, wifi>>, <<wifi>>, <<>>}
WithoutFirst == {<<wifi>>}
OneList == {<<eth>>}
=============================================================================

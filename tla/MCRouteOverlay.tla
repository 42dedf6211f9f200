--------------------------- MODULE MCRouteOverlay ---------------------------
(***************************************************************************)
(* Instances of RouteOverlay for TLC.                                      *)
(***************************************************************************)
EXTENDS RouteOverlay

CONSTANTS eth, gw1

User(dest, netmgmt) ==
    [dest |-> dest, ifc |-> eth, hop |-> Router, swapped |-> FALSE,
     valid |-> TRUE, netmgmt |-> netmgmt]

(* A default route entered by hand and one half of a tunnel's, on-link as  *)
(* tunnels have it.                                                        *)
DefaultAndTunnel == {User("default", TRUE),
                     [User("main", TRUE) EXCEPT !.hop = Unset]}

(* Left by a crash, by versions that set no lifetime and by 0.1.7.         *)
Left(half, swapped, valid) ==
    [OverlayRow(half, eth, gw1) EXCEPT !.swapped = swapped, !.valid = valid]

With(user) == {user \cup rows :
    rows \in {{}, {Left("main", FALSE, TRUE)},
              {Left("main", FALSE, FALSE), Left("extra", FALSE, FALSE)},
              {Left("main", TRUE, FALSE), Left("extra", TRUE, FALSE)}}}

OrdinaryTables == With(DefaultAndTunnel)
SwappedTables == {DefaultAndTunnel \cup
                  {Left("main", TRUE, TRUE), Left("extra", TRUE, TRUE)}}
=============================================================================

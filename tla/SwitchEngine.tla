---------------------------- MODULE SwitchEngine ----------------------------
(***************************************************************************)
(* The SwitchStrategy trait as its two Windows implementations keep it:    *)
(* what one call to enable, disable, is_active or can_rebuild may do to    *)
(* the machine.  A call is one atomic step here; the calls of the core's   *)
(* tasks interleave with one another in the modules that use this one.     *)
(*                                                                         *)
(* The machine is a record: the /1 overlay routes in the route table, the  *)
(* gateway configuration of every adapter (Direct is whatever the adapter  *)
(* had before the tool touched it) and the snapshot file the adapter       *)
(* strategy restores from.  `link' is the network outside the program.     *)
(***************************************************************************)
EXTENDS Naturals, FiniteSets

CONSTANTS
    Adapters,   \* adapter ids
    Gateways,   \* bypass gateway addresses
    Direct,     \* an adapter's own configuration, with no bypass gateway
    None,       \* Option::None
    Faults      \* which calls into the operating system may fail unprovoked

(* "refuse": the adapter strategy will have nothing to do with an adapter  *)
(* as it is configured (no address, or none in the gateway's subnet).      *)
(* "vanish" is no call: overlay routes may disappear under the program.    *)
FaultKind ==
    {"create", "delete", "netsh", "query", "refuse", "save", "vanish"}

Overlay == "RouteOverlay"
Reconfig == "AdapterReconfig"
Mode == {Overlay, Reconfig}

(* A SwitchHandle remembers the target it was made for. *)
Target == [mode: Mode, adapter: Adapters, gw: Gateways]
Handle == Target \cup {None}

Half == {"main", "extra"}     \* 0.0.0.0/1 and 128.0.0.0/1
Via(gw) == Half \X {gw}

Snapshot == [adapter: Adapters, conf: Gateways \cup {Direct}]
Machine == [routes: SUBSET (Half \X Gateways),
            conf: [Adapters -> Gateways \cup {Direct}],
            snap: Snapshot \cup {None}]

ASSUME SwitchEngineAssumption ==
    /\ Faults \subseteq FaultKind
    /\ Direct \notin Gateways
    /\ None \notin Mode \cup Target \cup Snapshot

(* "silent": the link is up but the gateway does not answer.               *)
Link == {"reachable", "silent", "unplugged"}

Ok(m) == [ok |-> TRUE, m |-> m]
Err(m) == [ok |-> FALSE, m |-> m]
MayFail(kinds, results) ==
    IF kinds \cap Faults # {} THEN results ELSE {}

-----------------------------------------------------------------------------
(* cleanup_routes_via: deletes every overlay route through gw; a deletion  *)
(* that fails is only logged, a table that cannot be read taken for empty. *)
Cleanup(m, gw) ==
    {[m EXCEPT !.routes = @ \ (Via(gw) \ kept)] :
        kept \in {{}} \cup MayFail({"delete", "query"}, SUBSET Via(gw))}

(* existing_handle_for: both halves in the table on an interface that is   *)
(* up.                                                                     *)
OverlayInPlace(m, gw, lk) == lk # "unplugged" /\ Via(gw) \subseteq m.routes

(* Residue goes first, then the two halves; a half that cannot be created, *)
(* nor replaced where residue stayed, takes the other one away with it.    *)
OverlayEnable(m, t, lk) ==
    IF lk = "unplugged"
    THEN {Err(m)}
    ELSE {Ok([m EXCEPT !.routes = @ \cup Via(t.gw)])}
         \cup MayFail({"create", "delete"},
                {Err(c) : c \in Cleanup([m EXCEPT !.routes =
                                           @ \cup {<<"main", t.gw>>}], t.gw)})

(* The main half decides: when it cannot be deleted (it may be gone        *)
(* already) the extra half is not tried; a failure on the extra half is    *)
(* only logged.                                                            *)
OverlayDisable(m, h) ==
    IF <<"main", h.gw>> \notin m.routes
    THEN {Err(m)}
    ELSE {Ok([m EXCEPT !.routes = @ \ Via(h.gw)])}
         \cup MayFail({"delete"},
                {Err(m), Ok([m EXCEPT !.routes = @ \ {<<"main", h.gw>>}])})

(* netsh sets the static address with the bypass gateway, then the DNS     *)
(* servers; either may fail, the second one after the first took effect.   *)
ReconfigEnable(m, t, lk) ==
    LET done == [m EXCEPT !.conf[t.adapter] = t.gw] IN
    IF lk = "unplugged"
    THEN {Err(m)}
    ELSE {Ok(done)} \cup MayFail({"query", "refuse"}, {Err(m)})
                    \cup MayFail({"netsh"}, {Err(m), Err(done)})

(* Restores the adapter the snapshot names (its address, then its DNS),    *)
(* then removes the snapshot; it stays when either step fails.             *)
(* With no snapshot the adapter stays as it is and the call succeeds.      *)
ReconfigDisable(m) ==
    IF m.snap = None
    THEN {Ok(m)}
    ELSE LET back == [m EXCEPT !.conf[m.snap.adapter] = m.snap.conf] IN
         {Ok([back EXCEPT !.snap = None])}
         \cup MayFail({"netsh", "query"}, {Err(m)})
         \cup MayFail({"netsh", "save"}, {Err(back)})

-----------------------------------------------------------------------------
(* The trait, dispatched on the strategy's own mode.  The handle may come  *)
(* from the other strategy: the overlay finds no interface in it and       *)
(* fails, the adapter strategy finds no adapter in it and does nothing.    *)
EnableOutcomes(m, t, lk) ==
    IF t.mode = Overlay THEN OverlayEnable(m, t, lk)
                        ELSE ReconfigEnable(m, t, lk)

DisableOutcomes(mode, m, h) ==
    IF mode = Overlay
    THEN IF h.mode = Overlay THEN OverlayDisable(m, h) ELSE {Err(m)}
    ELSE IF h.mode = Reconfig THEN ReconfigDisable(m) ELSE {Ok(m)}

IsActive(mode, m, h, lk) ==
    IF mode = Overlay
    THEN OverlayInPlace(m, h.gw, lk)
    ELSE /\ h.mode = Reconfig
         /\ lk # "unplugged"
         /\ m.conf[h.adapter] = h.gw

CanRebuild(mode, lk) == mode = Overlay \/ lk # "unplugged"

(* Nothing of the tool is left on the machine.                             *)
IsDirect(m) == m.routes = {} /\ \A a \in Adapters : m.conf[a] = Direct
=============================================================================

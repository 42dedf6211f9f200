----------------------------- MODULE RouteOverlay ---------------------------
(***************************************************************************)
(* The route overlay strategy call by call of the IP Helper API, on the    *)
(* rows of the IPv4 route table.  SwitchEngine takes one call of this      *)
(* strategy for one step on the set of halves and gateways in the table;   *)
(* CallsKeepContract says that this is what the calls below amount to.     *)
(***************************************************************************)
EXTENDS Naturals, FiniteSets

CONSTANTS
    Interfaces,
    Gateways,    \* bypass gateways
    Unset,       \* 0.0.0.0: the gateway of AppConfig::default, and what
                 \* the table has for the next hop of an on-link route
    Router,      \* any other next hop
    None,
    Faults,      \* system calls that may fail unprovoked, as in SwitchEngine
    Tables       \* route tables the program may find

(* The destination: 0.0.0.0/0, 0.0.0.0/1 (MAIN_PREFIX) or 128.0.0.0/1      *)
(* (EXTRA_PREFIX).                                                         *)
Half == {"main", "extra"}
Dest == {"default"} \cup Half

(* swapped: version 0.1.7 wrote the next hop in the wrong byte order;      *)
(* valid: ValidLifetime is not 0, the row takes part in forwarding;        *)
(* netmgmt: its Protocol, that of manual routes as well.                   *)
Row == [dest: Dest, ifc: Interfaces, hop: Gateways \cup {Unset, Router},
        swapped: BOOLEAN, valid: BOOLEAN, netmgmt: BOOLEAN]

(* What the row is found by: destination, interface and next hop.          *)
SameKey(r, s) ==
    /\ r.dest = s.dest /\ r.ifc = s.ifc
    /\ r.hop = s.hop /\ r.swapped = s.swapped

ASSUME RouteOverlayAssumption ==
    /\ {Unset, Router} \cap Gateways = {}
    /\ None \notin Interfaces
    /\ Tables \subseteq SUBSET Row

VARIABLES
    table,     \* the route table
    up,        \* interfaces that are up
    handle,    \* the SwitchHandle the callers keep
    call,      \* the call that is under way
    neat       \* history: the handle is of an enable that could read the
               \* table and delete what it found, and so is every later one

roVars == <<table, up, handle, call, neat>>

(* if_index and the interface of extra_routes.                             *)
HandleState == [gw: Gateways, ifc: Interfaces, extra: Interfaces]

(* clean: no deletion and no reading of the table has failed; before: the  *)
(* table when the call began; then: where the deletion of residue leads.   *)
Place == {"rest", "resolve", "scan", "sweep", "create", "replace", "retry",
          "main", "extra", "return"}
CallState == [op: {"none", "enable", "disable", "cleanup"}, at: Place,
              gw: Gateways \cup {Unset, None}, ifc: Interfaces \cup {None},
              half: Half, todo: SUBSET Row, then: {"create", "return"},
              ok: BOOLEAN, clean: BOOLEAN, before: SUBSET Row,
              held: HandleState \cup {None}]

Rest == [op |-> "none", at |-> "rest", gw |-> None, ifc |-> None,
         half |-> "main", todo |-> {}, then |-> "return", ok |-> TRUE,
         clean |-> TRUE, before |-> {}, held |-> None]

At(place) == call.at = place
Fails(kind) == kind \in Faults
Goto(place) == call' = [call EXCEPT !.at = place]
Return(ok) == call' = [call EXCEPT !.at = "return", !.ok = ok]

-----------------------------------------------------------------------------
(* build_row                                                               *)
OverlayRow(half, ifc, gw) ==
    [dest |-> half, ifc |-> ifc, hop |-> gw, swapped |-> FALSE,
     valid |-> TRUE, netmgmt |-> TRUE]

InTable(r) == \E s \in table : SameKey(r, s)
Without(r) == {s \in table : ~SameKey(r, s)}

(* CreateIpForwardEntry2 refuses a key that is there, and                  *)
(* DeleteIpForwardEntry2 one that is not.                                  *)
Creation(r) ==
    IF InTable(r) THEN {[ok |-> FALSE, t |-> table]}
    ELSE {[ok |-> TRUE, t |-> table \cup {r}]}
         \cup IF Fails("create") THEN {[ok |-> FALSE, t |-> table]} ELSE {}

Deletion(r) ==
    IF ~InTable(r) THEN {[ok |-> FALSE, t |-> table]}
    ELSE {[ok |-> TRUE, t |-> Without(r)]}
         \cup IF Fails("delete") THEN {[ok |-> FALSE, t |-> table]} ELSE {}

(* scan_overlay_rows_raw: either reading of the next hop counts.  A table  *)
(* that cannot be read is taken for an empty one.                          *)
Via(r, gw) == r.netmgmt /\ r.hop = gw

(* Mutant: a call looks only at the interface it is about to use.          *)
ScannedHere(gw) ==
    {r \in table : Via(r, gw) /\ call.ifc \in {None, r.ifc}}

Scanned(gw) == {r \in table : Via(r, gw)}

-----------------------------------------------------------------------------
(* The callers: one call at a time, under the lock of the handle or on a   *)
(* handle they have taken.                                                 *)
Begin(op, place, gw) ==
    [Rest EXCEPT !.op = op, !.at = place, !.gw = gw, !.before = table]

EnableCalled(gw) ==
    /\ At("rest") /\ (handle # None => handle.gw = gw)
    /\ call' = Begin("enable", "resolve", gw)
    /\ UNCHANGED <<table, up, handle, neat>>

DisableCalled ==
    /\ At("rest") /\ handle # None
    /\ call' = [Begin("disable", "main", handle.gw) EXCEPT !.held = handle]
    /\ handle' = None /\ neat' = FALSE
    /\ UNCHANGED <<table, up>>

(* cleanup_previous_mode, which drops the handle, and cleanup_dirty_state, *)
(* which without a configuration goes by the unset gateway of the default. *)
CleanupCalled(gw) ==
    /\ At("rest")
    /\ call' = Begin("cleanup", "scan", gw)
    /\ handle' = None /\ neat' = FALSE
    /\ UNCHANGED <<table, up>>

(* resolve_interface_for: GetBestRoute2 names an interface that is up.     *)
Resolve ==
    /\ At("resolve")
    /\ \/ \E i \in up :
             call' = [call EXCEPT !.at = "scan", !.then = "create", !.ifc = i]
       \/ up = {} /\ Return(FALSE)
    /\ UNCHANGED <<table, up, handle, neat>>

(* cleanup_routes_via                                                      *)
Scan ==
    /\ At("scan")
    /\ \/ call' = [call EXCEPT !.at = "sweep", !.todo = Scanned(call.gw)]
       \/ Fails("query") /\ call' = [call EXCEPT !.at = "sweep", !.clean = FALSE]
    /\ UNCHANGED <<table, up, handle, neat>>

Sweep ==
    /\ At("sweep")
    /\ \E r \in call.todo : \E o \in Deletion(r) :
          /\ table' = o.t
          /\ call' = [call EXCEPT !.todo = @ \ {r}, !.clean = @ /\ o.ok]
    /\ UNCHANGED <<up, handle, neat>>

Swept ==
    /\ At("sweep") /\ call.todo = {}
    /\ Goto(call.then)
    /\ UNCHANGED <<table, up, handle, neat>>

(* add_route: create, or else delete and create once more.                 *)
Wanted == OverlayRow(call.half, call.ifc, call.gw)

(* Mutant: a failing enable leaves what it has added.                      *)
NoRollback(ok) ==
    IF ~ok THEN Return(FALSE)
    ELSE IF call.half = "main"
    THEN call' = [call EXCEPT !.at = "create", !.half = "extra"]
    ELSE Return(TRUE)

(* enable goes on to the extra half, or returns, or takes back what it has *)
(* added.                                                                  *)
Added(ok) ==
    IF ~ok THEN call' = [call EXCEPT !.at = "scan", !.then = "return",
                                     !.ok = FALSE]
    ELSE IF call.half = "main"
    THEN call' = [call EXCEPT !.at = "create", !.half = "extra"]
    ELSE Return(TRUE)

AddRoute ==
    /\ At("create")
    /\ \E o \in Creation(Wanted) :
          table' = o.t /\ IF o.ok THEN Added(TRUE) ELSE Goto("replace")
    /\ UNCHANGED <<up, handle, neat>>

ReplaceRoute ==
    /\ At("replace")
    /\ \E o \in Deletion(Wanted) : table' = o.t
    /\ Goto("retry")
    /\ UNCHANGED <<up, handle, neat>>

RetryRoute ==
    /\ At("retry")
    /\ \E o \in Creation(Wanted) : table' = o.t /\ Added(o.ok)
    /\ UNCHANGED <<up, handle, neat>>

(* Mutant: a main half that is not deleted is only logged.                 *)
DeleteMainLogged ==
    /\ At("main")
    /\ \E o \in Deletion(OverlayRow("main", call.held.ifc, call.gw)) :
          table' = o.t
    /\ Goto("extra")
    /\ UNCHANGED <<up, handle, neat>>

(* disable: the main half, whose failure is the call's, then the extra one.*)
DeleteMain ==
    /\ At("main")
    /\ \E o \in Deletion(OverlayRow("main", call.held.ifc, call.gw)) :
          table' = o.t /\ IF o.ok THEN Goto("extra") ELSE Return(FALSE)
    /\ UNCHANGED <<up, handle, neat>>

DeleteExtra ==
    /\ At("extra")
    /\ \E o \in Deletion(OverlayRow("extra", call.held.extra, call.gw)) :
          table' = o.t
    /\ Return(TRUE)
    /\ UNCHANGED <<up, handle, neat>>

(* The caller keeps the handle of an enable that succeeded.                *)
Returns ==
    /\ At("return")
    /\ handle' = IF call.op = "enable" /\ call.ok
                 THEN [gw |-> call.gw, ifc |-> call.ifc, extra |-> call.ifc]
                 ELSE handle
    /\ neat' = (call.op = "enable" /\ call.clean /\ (call.ok \/ neat))
    /\ call' = Rest
    /\ UNCHANGED <<table, up>>

-----------------------------------------------------------------------------
IsUp(i) == i \in up

(* existing_handle_for: a valid row for either half (the first, in an      *)
(* order not known), both on interfaces that are up.                       *)
ExistingHandles(gw) ==
    {[gw |-> gw, ifc |-> m.ifc, extra |-> e.ifc] :
        m \in {r \in Scanned(gw) : r.dest = "main" /\ r.valid /\ IsUp(r.ifc)},
        e \in {r \in Scanned(gw) : r.dest = "extra" /\ r.valid /\ IsUp(r.ifc)}}

Adopted(gw) ==
    /\ At("rest") /\ handle = None
    /\ handle' \in ExistingHandles(gw) /\ neat' = FALSE
    /\ UNCHANGED <<table, up, call>>

(* is_active: both halves valid, on the interface of the handle.           *)
Active(h) ==
    /\ IsUp(h.ifc)
    /\ \A half \in Half :
          \E r \in Scanned(h.gw) : r.dest = half /\ r.valid /\ r.ifc = h.ifc

(* The process dies between two system calls.                              *)
Dies ==
    /\ call' = Rest /\ handle' = None /\ neat' = FALSE
    /\ UNCHANGED <<table, up>>

(* Between calls, cables and radios come and go, and with "vanish" rows.   *)
LinksChange ==
    /\ At("rest")
    /\ up' \in SUBSET Interfaces
    /\ UNCHANGED <<table, handle, call, neat>>

RowsVanish ==
    /\ At("rest") /\ Fails("vanish")
    /\ \E r \in table : r.hop \in Gateways /\ table' = table \ {r}
    /\ UNCHANGED <<up, handle, call, neat>>

Init ==
    /\ table \in Tables
    /\ up \in SUBSET Interfaces
    /\ handle = None /\ call = Rest /\ neat = FALSE

Next ==
    \/ \E gw \in Gateways : EnableCalled(gw) \/ Adopted(gw)
    \/ \E gw \in Gateways \cup {Unset} : CleanupCalled(gw)
    \/ DisableCalled
    \/ Resolve \/ Scan \/ Sweep \/ Swept
    \/ AddRoute \/ ReplaceRoute \/ RetryRoute
    \/ DeleteMain \/ DeleteExtra \/ Returns
    \/ Dies \/ LinksChange \/ RowsVanish

Spec == Init /\ [][Next]_roVars

-----------------------------------------------------------------------------
ROTypeOK ==
    /\ table \subseteq Row
    /\ up \subseteq Interfaces
    /\ handle \in HandleState \cup {None}
    /\ call \in CallState

Engine ==
    INSTANCE SwitchEngine WITH
        Adapters <- Interfaces,
        Direct <- Router

(* The machine as SwitchEngine sees it: which halves of the overlay there  *)
(* are.                                                                    *)
Forwarding(t, gw) ==
    {r \in t : r.dest \in Half /\ r.hop = gw /\ r.valid /\ ~r.swapped}
Seen(t) == [routes |-> {hg \in Half \X Gateways :
                          \E r \in Forwarding(t, hg[2]) : r.dest = hg[1]},
            conf |-> [i \in Interfaces |-> Router], snap |-> None]

(* SwitchEngine knows no interfaces.  All routes to a gateway are on the   *)
(* one interface of the handle, unless residue elsewhere could not be read *)
(* or deleted.                                                             *)
OnlyOn(t, gw, i) == \A r \in Forwarding(t, gw) : r.ifc = i
Covers(h, t) == h.extra = h.ifc /\ OnlyOn(t, h.gw, h.ifc)
LinkOf(i) == IF i \in up THEN "reachable" ELSE "unplugged"

Outcomes ==
    LET m == Seen(call.before)
        target == [mode |-> "RouteOverlay", adapter |-> call.ifc, gw |-> call.gw]
    IN CASE call.op = "enable" -> Engine!OverlayEnable(m, target, LinkOf(call.ifc))
         [] call.op = "disable" -> Engine!OverlayDisable(m, [gw |-> call.gw])
         [] call.op = "cleanup" -> {Engine!Ok(c) : c \in Engine!Cleanup(m, call.gw)}

InPlace(gw, i) == Engine!OverlayInPlace(Seen(table), gw, LinkOf(i))

(* Whatever way its system calls go, a call of the strategy does one of    *)
(* the things the core's model of the strategies says it may do, and       *)
(* between calls is_active and existing_handle_for find what that model    *)
(* says they find (route_overlay.rs; SwitchEngine).                        *)
CallsKeepContract ==
    /\ At("return") =>
          \/ [ok |-> call.ok, m |-> Seen(table)] \in Outcomes
          \/ call.op = "disable" /\ ~Covers(call.held, call.before)
    /\ At("rest") /\ handle # None =>
          \/ Active(handle) <=> InPlace(handle.gw, handle.ifc)
          \/ ~Covers(handle, table)
    /\ At("rest") => \A gw \in Gateways, i \in Interfaces :
          OnlyOn(table, gw, i) => (ExistingHandles(gw) # {} <=> InPlace(gw, i))

(* An enable that fails leaves none of the tool's routes to this gateway,  *)
(* and one that succeeds leaves the two it has added, whatever an earlier  *)
(* version or a crash had left (enable, "no black-hole residue"), as long  *)
(* as the table can be read and deletions succeed.                         *)
NoResidue ==
    At("return") /\ call.op = "enable" /\ call.clean /\ call.ifc # None =>
        Scanned(call.gw) = IF call.ok
                           THEN {OverlayRow(h, call.ifc, call.gw) : h \in Half}
                           ELSE {}

HandleRows(h) ==
    {OverlayRow("main", h.ifc, h.gw), OverlayRow("extra", h.extra, h.gw)}

(* Between calls the handle knows every route of the tool to its gateway,  *)
(* wherever the best route to it has moved between one enable and the next *)
(* and whichever creations have failed: disable, which goes by the handle  *)
(* alone, leaves none on another interface (enable, cleanup_routes_via).   *)
(* A handle adopted at the start makes no such promise.                    *)
HandleKnowsAll ==
    At("rest") /\ handle # None /\ neat =>
        Scanned(handle.gw) \subseteq HandleRows(handle)
=============================================================================

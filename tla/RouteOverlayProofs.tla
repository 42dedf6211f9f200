------------------------- MODULE RouteOverlayProofs -------------------------
(***************************************************************************)
(* Theorems about the route overlay strategy, for any interfaces, gateways *)
(* and route tables, any system call failing and the process dying at any  *)
(* step: what an enable leaves, that its handle knows it, and that a call  *)
(* does one of the things SwitchEngine says.                               *)
(***************************************************************************)
EXTENDS RouteOverlay, TLAPS

Calling == call.at \notin {"rest", "return"}
Sweeping == call.at \in {"scan", "sweep"}
Adding == call.at \in {"create", "replace", "retry"}

(* What a call knows at each place: its gateway, its interface, the half   *)
(* it adds, and whether it is an enable that takes back what it added.     *)
Working ==
    /\ Calling => call.gw \in Gateways \cup {Unset}
    /\ Calling /\ call.op # "cleanup" => call.gw \in Gateways
    /\ At("resolve") =>
          call.op = "enable" /\ call.ifc = None /\ call.half = "main"
    /\ Sweeping /\ call.then = "create" =>
          call.op = "enable" /\ call.ifc \in Interfaces /\ call.half = "main"
    /\ Sweeping /\ call.then = "return" /\ call.op = "enable" => ~call.ok
    /\ Adding => call.op = "enable" /\ call.ifc \in Interfaces
    /\ call.at \in {"main", "extra"} =>
          call.op = "disable" /\ call.held \in HandleState
    /\ At("return") /\ call.op = "enable" /\ call.ok =>
          call.ifc \in Interfaces /\ call.gw \in Gateways

(* The rows still to be deleted all go to the gateway of the call.         *)
TodoSound == \A r \in call.todo : r.hop = call.gw

(* What an enable has of its routes when it adds the next half.            *)
AddedSoFar ==
    IF call.half = "main" THEN {}
    ELSE {OverlayRow("main", call.ifc, call.gw)}

(* As long as nothing has failed, no route of the tool to this gateway is  *)
(* left but the ones still to be deleted and the ones just added.          *)
EnableSound ==
    call.op = "enable" /\ call.clean =>
        /\ At("sweep") => Scanned(call.gw) \subseteq call.todo
        /\ Adding => Scanned(call.gw) = AddedSoFar

ROInv == ROTypeOK /\ Working /\ TodoSound /\ EnableSound /\ NoResidue

Places == {"rest", "resolve", "scan", "sweep", "create", "replace", "retry",
           "main", "extra", "return"}
Ops == {"none", "enable", "disable", "cleanup"}

-----------------------------------------------------------------------------
(* The fields of a call of the right type.                                 *)
LEMMA CallFields ==
    ASSUME ROTypeOK
    PROVE  /\ call \in CallState /\ call.op \in Ops /\ call.at \in Places
           /\ call.gw \in Gateways \cup {Unset, None}
           /\ call.ifc \in Interfaces \cup {None}
           /\ call.half \in {"main", "extra"} /\ call.todo \subseteq Row
           /\ call.then \in {"create", "return"}
           /\ call.ok \in BOOLEAN /\ call.clean \in BOOLEAN
           /\ call.held \in HandleState \cup {None}
           /\ table \subseteq Row
  BY DEF ROTypeOK, CallState, Place, Places, Ops, Half

(* A row of the overlay is a row, and one of the tool's.                   *)
LEMMA RowTypes ==
    ASSUME NEW half \in {"main", "extra"}, NEW i \in Interfaces,
           NEW gw \in Gateways
    PROVE  /\ OverlayRow(half, i, gw) \in Row
           /\ Via(OverlayRow(half, i, gw), gw)
           /\ OverlayRow(half, i, gw).hop = gw
           /\ OverlayRow(half, i, gw).dest = half
  BY DEF OverlayRow, Row, Dest, Half, Via

(* The outcomes of a creation: a row more, or an error.                    *)
LEMMA Creations ==
    ASSUME NEW r, NEW o \in Creation(r)
    PROVE  \/ o.ok = FALSE /\ o.t = table
           \/ o.ok = TRUE /\ o.t = table \cup {r} /\ ~InTable(r)
<1>1. \/ o = [ok |-> FALSE, t |-> table]
      \/ o = [ok |-> TRUE, t |-> table \cup {r}] /\ ~InTable(r)
  BY DEF Creation
<1>. QED
  BY <1>1

(* The outcomes of a deletion: the row's key is gone, or an error.         *)
LEMMA Deletions ==
    ASSUME NEW r, NEW o \in Deletion(r)
    PROVE  \/ o.ok = FALSE /\ o.t = table
           \/ o.ok = TRUE /\ o.t = Without(r)
<1>1. \/ o = [ok |-> FALSE, t |-> table]
      \/ o = [ok |-> TRUE, t |-> Without(r)]
  BY DEF Deletion
<1>. QED
  BY <1>1

(* A step after which no call is under way.                                *)
LEMMA RestHasInv ==
    ASSUME ROInv, call' = Rest, table' = table, up' \subseteq Interfaces,
           handle' \in HandleState \cup {None}
    PROVE  ROInv'
<1>1. Rest \in CallState
  BY DEF Rest, CallState, Place, Half
<1>. QED
  BY <1>1
  DEF ROInv, ROTypeOK, Working, TodoSound, EnableSound, NoResidue, Calling,
      Adding, At, Rest

-----------------------------------------------------------------------------
(* Initially no call is under way.                                         *)
LEMMA InitHasInv == Init => ROInv
<1>1. Rest \in CallState
  BY DEF Rest, CallState, Place, Half
<1>. QED
  BY <1>1, RouteOverlayAssumption
  DEF Init, ROInv, ROTypeOK, Working, TodoSound, EnableSound, NoResidue,
      Calling, Sweeping, Adding, At, Rest

(* The record of a call that begins.                                       *)
LEMMA BeginTypes ==
    ASSUME ROTypeOK, NEW op \in Ops, NEW p \in Places,
           NEW gw \in Gateways \cup {Unset}
    PROVE  /\ Begin(op, p, gw) \in CallState
           /\ Begin(op, p, gw).op = op /\ Begin(op, p, gw).at = p
           /\ Begin(op, p, gw).gw = gw /\ Begin(op, p, gw).ifc = None
           /\ Begin(op, p, gw).half = "main" /\ Begin(op, p, gw).todo = {}
           /\ Begin(op, p, gw).then = "return"
<1>1. /\ Rest \in CallState /\ Rest.ifc = None /\ Rest.half = "main"
      /\ Rest.then = "return" /\ Rest.todo = {}
      /\ table \in SUBSET Row
  BY DEF ROTypeOK, Rest, CallState, Place, Half
<1>. DEFINE r == [Rest EXCEPT !.op = op, !.at = p]
<1>2. /\ r \in CallState /\ r.op = op /\ r.at = p
      /\ r.ifc = None /\ r.half = "main" /\ r.todo = {}
      /\ r.then = "return"
  BY <1>1 DEF CallState, Place, Places, Ops
<1>3. Begin(op, p, gw) = [r EXCEPT !.gw = gw, !.before = table]
  BY DEF Begin
<1>. HIDE DEF r
<1>. QED
  BY <1>1, <1>2, <1>3 DEF CallState

(* A call begins.                                                          *)
LEMMA CallsKeepInv ==
    ASSUME ROInv,
           \/ DisableCalled
           \/ \E gw \in Gateways : EnableCalled(gw)
           \/ \E gw \in Gateways \cup {Unset} : CleanupCalled(gw)
    PROVE  ROInv'
<1>0. /\ ROTypeOK /\ UNCHANGED <<table, up>>
      /\ handle' \in HandleState \cup {None}
  BY DEF ROInv, ROTypeOK, DisableCalled, EnableCalled, CleanupCalled
<1>1. ASSUME NEW gw \in Gateways, EnableCalled(gw) PROVE ROInv'
  <2>1. call' = Begin("enable", "resolve", gw)
    BY <1>1 DEF EnableCalled
  <2>. QED
    BY <1>0, <2>1, BeginTypes
    DEF ROInv, ROTypeOK, Working, TodoSound, EnableSound, NoResidue,
        Calling, Sweeping, Adding, At, Ops, Places
<1>2. ASSUME NEW gw \in Gateways \cup {Unset}, CleanupCalled(gw)
      PROVE  ROInv'
  <2>1. call' = Begin("cleanup", "scan", gw)
    BY <1>2 DEF CleanupCalled
  <2>. QED
    BY <1>0, <2>1, BeginTypes
    DEF ROInv, ROTypeOK, Working, TodoSound, EnableSound, NoResidue,
        Calling, Sweeping, Adding, At, Ops, Places
<1>3. CASE DisableCalled
  <2>1. /\ handle \in HandleState /\ handle.gw \in Gateways
        /\ call' = [Begin("disable", "main", handle.gw) EXCEPT !.held = handle]
    BY <1>0, <1>3 DEF DisableCalled, ROTypeOK, HandleState
  <2>. DEFINE b == Begin("disable", "main", handle.gw)
  <2>2. b \in CallState /\ b.op = "disable" /\ b.at = "main"
        /\ b.gw \in Gateways /\ b.todo = {}
    BY <1>0, <2>1, BeginTypes DEF Ops, Places
  <2>. HIDE DEF b
  <2>3. /\ call' \in CallState /\ call'.op = "disable" /\ call'.at = "main"
        /\ call'.gw \in Gateways /\ call'.held \in HandleState
        /\ call'.todo = {}
    BY <2>1, <2>2 DEF CallState, b
  <2>. QED
    BY <1>0, <2>3
    DEF ROInv, ROTypeOK, Working, TodoSound, EnableSound, NoResidue,
        Calling, Sweeping, Adding, At
<1>. QED
  BY <1>1, <1>2, <1>3

(* The interface of a target that is enabled.                              *)
LEMMA ResolveKeepsInv ==
    ASSUME ROInv, Resolve
    PROVE  ROInv'
<1>0. /\ ROTypeOK /\ up \subseteq Interfaces /\ call.ifc = None
      /\ call.half = "main" /\ call.gw \in Gateways /\ call.at = "resolve"
      /\ UNCHANGED <<table, up, handle>>
  BY DEF ROInv, ROTypeOK, Resolve, Working, Calling, At
<1>1. ASSUME NEW i \in up,
             call' = [call EXCEPT !.at = "scan", !.then = "create", !.ifc = i]
      PROVE  ROInv'
  <2>1. /\ call' \in CallState /\ call'.at = "scan" /\ call'.then = "create"
        /\ call'.ifc \in Interfaces /\ call'.gw \in Gateways
        /\ call'.half = call.half /\ call'.op = call.op
        /\ call'.todo = call.todo /\ call'.gw = call.gw
    BY <1>0, <1>1, CallFields DEF CallState, Place
  <2>. QED
    BY <1>0, <2>1
    DEF ROInv, ROTypeOK, Working, TodoSound, EnableSound, NoResidue,
        Calling, Sweeping, Adding, At
<1>2. CASE Return(FALSE)
  <2>1. /\ call' \in CallState /\ call'.at = "return" /\ call'.ifc = None
        /\ call'.todo = call.todo /\ call'.gw = call.gw /\ call'.ok = FALSE
    BY <1>0, <1>2, CallFields DEF Return, CallState, Place
  <2>. QED
    BY <1>0, <2>1
    DEF ROInv, ROTypeOK, Working, TodoSound, EnableSound, NoResidue,
        Calling, Sweeping, Adding, At
<1>. QED
  BY <1>1, <1>2 DEF Resolve

(* The deletion of residue.                                                *)
LEMMA SweepKeepsInv ==
    ASSUME ROInv, Scan \/ Sweep \/ Swept
    PROVE  ROInv'
<1>0. /\ ROTypeOK /\ Working /\ TodoSound /\ EnableSound
      /\ up' = up /\ handle' = handle
  BY DEF ROInv, Scan, Sweep, Swept
<1>1. CASE Scan
  <2>1. /\ call.at = "scan" /\ table' = table
        /\ call.gw \in Gateways \cup {Unset}
        /\ call.op # "cleanup" => call.gw \in Gateways
    BY <1>0, <1>1 DEF Scan, At, Working, Calling
  <2>2. /\ Scanned(call.gw) \subseteq Row
        /\ \A r \in Scanned(call.gw) : r.hop = call.gw
    BY <1>0, CallFields DEF Scanned, Via
  <2>3. ASSUME call' = [call EXCEPT !.at = "sweep",
                                    !.todo = Scanned(call.gw)]
        PROVE  ROInv'
    <3>1. /\ call' \in CallState /\ call'.at = "sweep"
          /\ call'.todo = Scanned(call.gw)
          /\ call'.op = call.op /\ call'.gw = call.gw
          /\ call'.ifc = call.ifc /\ call'.half = call.half
          /\ call'.then = call.then /\ call'.ok = call.ok
      BY <1>0, <2>2, <2>3, CallFields DEF CallState, Place
    <3>2. Scanned(call.gw)' = Scanned(call.gw)
      BY <2>1, <3>1 DEF Scanned
    <3>. QED
      BY <1>0, <2>1, <2>2, <3>1, <3>2
      DEF ROInv, ROTypeOK, Working, TodoSound, EnableSound, NoResidue,
          Calling, Sweeping, Adding, At
  <2>4. ASSUME call' = [call EXCEPT !.at = "sweep", !.clean = FALSE]
        PROVE  ROInv'
    <3>1. /\ call' \in CallState /\ call'.at = "sweep"
          /\ call'.clean = FALSE /\ call'.todo = call.todo
          /\ call'.op = call.op /\ call'.gw = call.gw
          /\ call'.ifc = call.ifc /\ call'.half = call.half
          /\ call'.then = call.then /\ call'.ok = call.ok
      BY <1>0, <2>4, CallFields DEF CallState, Place
    <3>. QED
      BY <1>0, <2>1, <3>1
      DEF ROInv, ROTypeOK, Working, TodoSound, EnableSound, NoResidue,
          Calling, Sweeping, Adding, At
  <2>. QED
    BY <1>1, <2>3, <2>4 DEF Scan
<1>2. CASE Sweep
  <2>0. PICK r \in call.todo : \E o \in Deletion(r) :
           /\ table' = o.t
           /\ call' = [call EXCEPT !.todo = @ \ {r}, !.clean = @ /\ o.ok]
    BY <1>2 DEF Sweep
  <2>1. PICK o \in Deletion(r) :
           /\ table' = o.t
           /\ call' = [call EXCEPT !.todo = @ \ {r}, !.clean = @ /\ o.ok]
    BY <2>0
  <2>2. /\ call.at = "sweep" /\ r \in Row
        /\ call.gw \in Gateways \cup {Unset}
        /\ call.op # "cleanup" => call.gw \in Gateways
    BY <1>0, <1>2, CallFields DEF Sweep, At, Working, Calling
  <2>3. /\ o.ok \in BOOLEAN /\ table' \subseteq table
        /\ o.ok => table' = Without(r)
    BY <2>1, Deletions DEF Without
  <2>4. /\ call' \in CallState /\ call'.at = "sweep"
        /\ call'.todo = call.todo \ {r}
        /\ call'.clean = (call.clean /\ o.ok)
        /\ call'.op = call.op /\ call'.gw = call.gw
        /\ call'.ifc = call.ifc /\ call'.half = call.half
        /\ call'.then = call.then /\ call'.ok = call.ok
    BY <1>0, <2>1, <2>2, <2>3, CallFields DEF CallState, Place
  <2>5. ASSUME o.ok, Scanned(call.gw) \subseteq call.todo
        PROVE  Scanned(call.gw)' \subseteq call'.todo
    <3>1. \A s \in table' : s \in table /\ s # r
      BY <2>3, <2>5 DEF Without, SameKey
    <3>. QED
      BY <2>4, <2>5, <3>1 DEF Scanned
  <2>. QED
    BY <1>0, <2>2, <2>3, <2>4, <2>5
    DEF ROInv, ROTypeOK, Working, TodoSound, EnableSound, NoResidue,
        Calling, Sweeping, Adding, At
<1>3. CASE Swept
  <2>1. /\ call.at = "sweep" /\ call.todo = {} /\ table' = table
        /\ call' = [call EXCEPT !.at = call.then]
    BY <1>3 DEF Swept, Goto, At
  <2>2. /\ call' \in CallState /\ call'.at = call.then
        /\ call'.todo = {} /\ call'.clean = call.clean
        /\ call'.op = call.op /\ call'.gw = call.gw
        /\ call'.ifc = call.ifc /\ call'.half = call.half
        /\ call'.then = call.then /\ call'.ok = call.ok
    BY <1>0, <2>1, CallFields DEF CallState, Place
  <2>3. Scanned(call.gw)' = Scanned(call.gw)
    BY <2>1, <2>2 DEF Scanned
  <2>4. call.then \in {"create", "return"}
    BY <1>0, CallFields
  <2>5. /\ call.gw \in Gateways \cup {Unset}
        /\ call.op # "cleanup" => call.gw \in Gateways
    BY <1>0, <2>1 DEF Working, Calling
  <2>6. /\ call.op = "enable" /\ call.clean => Scanned(call.gw)' = {}
    BY <1>0, <2>1, <2>3 DEF EnableSound, At
  <2>7. CASE call.then = "create"
    <3>1. /\ call.half = "main" /\ call.ifc \in Interfaces
          /\ call.op = "enable"
      BY <1>0, <2>1, <2>7 DEF Working, Sweeping
    <3>. QED
      BY <1>0, <2>1, <2>2, <2>5, <2>6, <2>7, <3>1
      DEF ROInv, ROTypeOK, Working, TodoSound, EnableSound, NoResidue,
          Calling, Sweeping, Adding, At, AddedSoFar
  <2>8. CASE call.then = "return"
    <3>1. call.op = "enable" => ~call.ok
      BY <1>0, <2>1, <2>8 DEF Working, Sweeping
    <3>. QED
      BY <1>0, <2>1, <2>2, <2>6, <2>8, <3>1
      DEF ROInv, ROTypeOK, Working, TodoSound, EnableSound, NoResidue,
          Calling, Sweeping, Adding, At
  <2>. QED
    BY <2>4, <2>7, <2>8
<1>. QED
  BY <1>1, <1>2, <1>3

(* A route that has been added, or could not be.                           *)
LEMMA AddedKeepsInv ==
    ASSUME ROInv, Adding, NEW o \in Creation(Wanted), table' = o.t,
           Added(o.ok), up' = up, handle' = handle
    PROVE  ROInv'
<1>0. /\ ROTypeOK /\ Working /\ TodoSound /\ EnableSound
      /\ call.ifc \in Interfaces /\ call.gw \in Gateways
      /\ call.half \in {"main", "extra"}
  BY CallFields DEF ROInv, Working, Adding, Calling
<1>1. /\ Wanted = OverlayRow(call.half, call.ifc, call.gw)
      /\ Wanted \in Row /\ Via(Wanted, call.gw)
  BY <1>0, RowTypes DEF Wanted
<1>2. CASE o.ok = FALSE
  <2>1. call' = [call EXCEPT !.at = "scan", !.then = "return", !.ok = FALSE]
    BY <1>2 DEF Added
  <2>2. /\ call' \in CallState /\ call'.at = "scan"
        /\ call'.todo = call.todo /\ call'.op = call.op
        /\ call'.gw = call.gw /\ call'.then = "return" /\ call'.ok = FALSE
    BY <1>0, <2>1, CallFields DEF CallState, Place
  <2>3. table' = table
    BY <1>2, Creations
  <2>. QED
    BY <1>0, <2>2, <2>3
    DEF ROInv, ROTypeOK, Working, TodoSound, EnableSound, NoResidue,
        Calling, Sweeping, Adding, At
<1>3. CASE o.ok = TRUE
  <2>1. table' = table \cup {Wanted}
    BY <1>3, Creations
  <2>2. Scanned(call.gw) \cup {Wanted} =
           {r \in table' : Via(r, call.gw)}
    BY <1>1, <2>1 DEF Scanned
  <2>3. CASE call.half = "main"
    <3>1. call' = [call EXCEPT !.at = "create", !.half = "extra"]
      BY <1>3, <2>3 DEF Added
    <3>2. /\ call' \in CallState /\ call'.at = "create"
          /\ call'.half = "extra" /\ call'.todo = call.todo
          /\ call'.op = call.op /\ call'.gw = call.gw
          /\ call'.ifc = call.ifc /\ call'.clean = call.clean
      BY <1>0, <3>1, CallFields DEF CallState, Place, Half
    <3>3. ASSUME call.op = "enable", call.clean
          PROVE  Scanned(call.gw)' = AddedSoFar'
      <4>1. Scanned(call.gw) = {}
        BY <1>0, <2>3, <3>3 DEF EnableSound, AddedSoFar
      <4>2. Scanned(call.gw)' = {Wanted}
        BY <2>2, <3>2, <4>1 DEF Scanned
      <4>. QED
        BY <1>1, <2>3, <3>2, <4>2 DEF AddedSoFar
    <3>. QED
      BY <1>0, <1>1, <2>1, <3>2, <3>3
      DEF ROInv, ROTypeOK, Working, TodoSound, EnableSound, NoResidue,
          Calling, Sweeping, Adding, At
  <2>4. CASE call.half = "extra"
    <3>1. call' = [call EXCEPT !.at = "return", !.ok = TRUE]
      BY <1>3, <2>4 DEF Added, Return
    <3>2. /\ call' \in CallState /\ call'.at = "return" /\ call'.ok = TRUE
          /\ call'.todo = call.todo /\ call'.op = call.op
          /\ call'.gw = call.gw /\ call'.ifc = call.ifc
          /\ call'.clean = call.clean
      BY <1>0, <3>1, CallFields DEF CallState, Place
    <3>3. ASSUME call.op = "enable", call.clean
          PROVE  Scanned(call.gw)' =
                    {OverlayRow(h, call.ifc, call.gw) : h \in Half}
      <4>1. Scanned(call.gw) = {OverlayRow("main", call.ifc, call.gw)}
        BY <1>0, <2>4, <3>3 DEF EnableSound, AddedSoFar
      <4>2. Scanned(call.gw)' =
               {OverlayRow("main", call.ifc, call.gw),
                OverlayRow("extra", call.ifc, call.gw)}
        BY <1>1, <2>2, <2>4, <3>2, <4>1 DEF Scanned
      <4>. QED
        BY <4>2 DEF Half
    <3>. QED
      BY <1>0, <1>1, <2>1, <3>2, <3>3
      DEF ROInv, ROTypeOK, Working, TodoSound, EnableSound, NoResidue,
          Calling, Sweeping, Adding, At
  <2>. QED
    BY <1>0, <2>3, <2>4
<1>. QED
  BY <1>2, <1>3, Creations

(* add_route: create, or else delete and create once more.                 *)
LEMMA AddKeepsInv ==
    ASSUME ROInv, AddRoute \/ ReplaceRoute \/ RetryRoute
    PROVE  ROInv'
<1>0. /\ ROTypeOK /\ Working /\ TodoSound /\ EnableSound
      /\ Adding /\ up' = up /\ handle' = handle
      /\ call.ifc \in Interfaces /\ call.gw \in Gateways
  BY DEF ROInv, AddRoute, ReplaceRoute, RetryRoute, At, Adding, Working,
         Calling
<1>1. ASSUME NEW p \in {"replace", "retry"}, Goto(p), table' \subseteq table,
             \A r \in Row : r \in table /\ r \notin table' =>
                               SameKey(Wanted, r)
      PROVE  ROInv'
  <2>1. /\ call' \in CallState /\ call'.at = p /\ call'.todo = call.todo
        /\ call'.op = call.op /\ call'.gw = call.gw
        /\ call'.ifc = call.ifc /\ call'.half = call.half
        /\ call'.clean = call.clean
    BY <1>0, <1>1, CallFields DEF Goto, CallState, Place
  <2>2. ASSUME call.op = "enable", call.clean
        PROVE  Scanned(call.gw)' = AddedSoFar'
    <3>1. Scanned(call.gw) = AddedSoFar
      BY <1>0, <2>2 DEF EnableSound
    <3>2. AddedSoFar' = AddedSoFar
      BY <2>1 DEF AddedSoFar
    <3>3. ASSUME NEW r \in AddedSoFar PROVE r \in table'
      <4>1. call.half # "main" /\ r = OverlayRow("main", call.ifc, call.gw)
        BY <3>3 DEF AddedSoFar
      <4>2. r.dest = "main" /\ r \in Row
        BY <1>0, <4>1, RowTypes
      <4>3. Wanted.dest = call.half
        BY DEF Wanted, OverlayRow
      <4>. QED
        BY <1>1, <3>1, <4>1, <4>2, <4>3 DEF SameKey, Scanned
    <3>. QED
      BY <1>1, <2>1, <3>1, <3>2, <3>3 DEF Scanned
  <2>. QED
    BY <1>0, <1>1, <2>1, <2>2
    DEF ROInv, ROTypeOK, Working, TodoSound, EnableSound, NoResidue,
        Calling, Sweeping, Adding, At
<1>2. CASE AddRoute
  <2>1. PICK o \in Creation(Wanted) :
           table' = o.t /\ IF o.ok THEN Added(TRUE) ELSE Goto("replace")
    BY <1>2 DEF AddRoute
  <2>2. CASE o.ok = TRUE
    BY <1>0, <2>1, <2>2, AddedKeepsInv
  <2>3. CASE o.ok = FALSE
    <3>1. table' = table
      BY <2>1, <2>3, Creations
    <3>2. Goto("replace")
      BY <2>1, <2>3
    <3>. QED
      BY <1>1, <3>1, <3>2
  <2>. QED
    BY <2>2, <2>3, Creations
<1>3. CASE ReplaceRoute
  <2>1. PICK o \in Deletion(Wanted) : table' = o.t
    BY <1>3 DEF ReplaceRoute
  <2>2. table' = table \/ table' = Without(Wanted)
    BY <2>1, Deletions
  <2>3. /\ table' \subseteq table
        /\ \A r \in Row : r \in table /\ r \notin table' =>
                             SameKey(Wanted, r)
    <3>1. CASE table' = table
      BY <3>1
    <3>2. CASE table' = Without(Wanted)
      BY <3>2 DEF Without
    <3>. QED
      BY <2>2, <3>1, <3>2
  <2>4. Goto("retry")
    BY <1>3 DEF ReplaceRoute
  <2>. QED
    BY <1>1, <2>3, <2>4
<1>4. CASE RetryRoute
  BY <1>0, <1>4, AddedKeepsInv DEF RetryRoute
<1>. QED
  BY <1>2, <1>3, <1>4

(* disable                                                                 *)
LEMMA DeleteKeepsInv ==
    ASSUME ROInv, DeleteMain \/ DeleteExtra
    PROVE  ROInv'
<1>0. /\ ROTypeOK /\ Working /\ TodoSound /\ up' = up /\ handle' = handle
      /\ call.op = "disable" /\ call.gw \in Gateways
      /\ call.held \in HandleState
  BY DEF ROInv, DeleteMain, DeleteExtra, At, Working, Calling
<1>1. ASSUME NEW r, NEW o \in Deletion(r) PROVE o.t \subseteq table
  BY <1>1, Deletions DEF Without
<1>2. table' \subseteq table
  BY <1>1 DEF DeleteMain, DeleteExtra
<1>3. \/ Goto("extra")
      \/ \E ok \in {TRUE, FALSE} : Return(ok)
  BY DEF DeleteMain, DeleteExtra
<1>4. /\ call' \in CallState /\ call'.at \in {"extra", "return"}
      /\ call'.op = "disable" /\ call'.gw = call.gw
      /\ call'.held = call.held /\ call'.todo = call.todo
  BY <1>0, <1>3, CallFields DEF Goto, Return, CallState, Place
<1>. QED
  BY <1>0, <1>2, <1>4
  DEF ROInv, ROTypeOK, Working, TodoSound, EnableSound, NoResidue,
      Calling, Sweeping, Adding, At

(* The callers keep a handle, the process dies, links and rows come and go.*)
LEMMA RestKeepsInv ==
    ASSUME ROInv,
           \/ Returns \/ Dies \/ LinksChange \/ RowsVanish
           \/ \E gw \in Gateways : Adopted(gw)
    PROVE  ROInv'
<1>0. ROTypeOK /\ Working
  BY DEF ROInv
<1>1. CASE Returns
  <2>1. handle' \in HandleState \cup {None}
    BY <1>0, <1>1 DEF Returns, ROTypeOK, Working, At, HandleState
  <2>. QED
    BY <1>0, <1>1, <2>1, RestHasInv DEF Returns, ROTypeOK
<1>2. CASE Dies
  BY <1>0, <1>2, RestHasInv DEF Dies, ROTypeOK
<1>3. ASSUME UNCHANGED call, call.at = "rest", table' \subseteq table,
             up' \subseteq Interfaces, handle' \in HandleState \cup {None}
      PROVE  ROInv'
  BY <1>0, <1>3
  DEF ROInv, ROTypeOK, Working, TodoSound, EnableSound, NoResidue,
      Calling, Sweeping, Adding, At
<1>4. CASE LinksChange
  BY <1>0, <1>3, <1>4 DEF LinksChange, ROTypeOK, At
<1>5. CASE RowsVanish
  BY <1>0, <1>3, <1>5 DEF RowsVanish, ROTypeOK, At
<1>6. ASSUME NEW gw \in Gateways, Adopted(gw) PROVE ROInv'
  <2>1. ExistingHandles(gw) \subseteq HandleState
    BY <1>0 DEF ExistingHandles, HandleState, Scanned, ROTypeOK, Row
  <2>. QED
    BY <1>0, <1>3, <1>6, <2>1 DEF Adopted, ROTypeOK, At
<1>. QED
  BY <1>1, <1>2, <1>4, <1>5, <1>6

-----------------------------------------------------------------------------
(* The invariant of the calls of the strategy (route_overlay.rs).          *)
THEOREM ROInvHolds == Spec => []ROInv
<1>1. ROInv /\ [Next]_roVars => ROInv'
  <2>. SUFFICES ASSUME ROInv, [Next]_roVars PROVE ROInv'
    OBVIOUS
  <2>1. CASE UNCHANGED roVars
    BY <2>1
    DEF roVars, ROInv, ROTypeOK, Working, TodoSound, EnableSound, NoResidue,
        Calling, Sweeping, Adding, At, Scanned, AddedSoFar
  <2>. QED
    BY <2>1, CallsKeepInv, ResolveKeepsInv, SweepKeepsInv, AddKeepsInv,
       DeleteKeepsInv, RestKeepsInv
    DEF Next
<1>. QED
  BY <1>1, InitHasInv, PTL DEF Spec

(* An enable that fails leaves none of the tool's routes to this gateway   *)
(* and one that succeeds leaves its two halves, whatever the table held    *)
(* before, unless a deletion or the reading of the table failed (enable,   *)
(* cleanup_routes_via).                                                    *)
THEOREM NoResidueStays == Spec => []NoResidue
<1>1. ROInv => NoResidue
  BY DEF ROInv
<1>. QED
  BY <1>1, ROInvHolds, PTL

-----------------------------------------------------------------------------

(* Between calls, and until an enable has found the interface, the handle  *)
(* has every row to its gateway; only an enable leaves it where it is.     *)
Knows == Scanned(handle.gw) \subseteq HandleRows(handle)

NeatInv ==
    /\ call.op = "enable" /\ call.at \notin {"rest", "resolve", "return"} =>
          call.ifc # None
    /\ handle # None /\ ~At("rest") =>
          call.op = "enable" /\ call.gw = handle.gw
    /\ handle # None /\ neat =>
          \/ Knows
          \/ call.at \notin {"rest", "resolve", "return"}
          \/ At("return") /\ call.ifc # None

(* Without a handle there is nothing it could lack.                        *)
LEMMA NoHandleIsNeat ==
    ASSUME handle' = None,
           call'.op = "enable" => call'.at \in {"rest", "resolve", "return"}
    PROVE  NeatInv'
  BY DEF NeatInv

(* A call in the midst of its work keeps the promise for later.            *)
LEMMA MidwayIsNeat ==
    ASSUME NeatInv, call.at # "rest", handle' = handle,
           call'.op = call.op, call'.gw = call.gw, call'.at # "rest",
           call'.ifc # None, call'.at # "resolve"
    PROVE  NeatInv'
  BY DEF NeatInv, At

(* The steps of a call that is under way.                                  *)
LEMMA WorkIsNeat ==
    ASSUME ROInv, NeatInv,
           \/ Resolve \/ Scan \/ Sweep \/ Swept
           \/ AddRoute \/ ReplaceRoute \/ RetryRoute
    PROVE  NeatInv'
<1>0. /\ ROTypeOK /\ Working /\ handle' = handle /\ neat' = neat
      /\ None \notin Interfaces /\ None \notin up
  BY RouteOverlayAssumption
  DEF ROInv, ROTypeOK, Resolve, Scan, Sweep, Swept, AddRoute, ReplaceRoute,
      RetryRoute
<1>1. CASE Resolve
  <2>1. /\ call.at = "resolve" /\ call.ifc = None /\ table' = table
        /\ call.op = "enable"
    BY <1>0, <1>1 DEF Resolve, Working, At
  <2>2. CASE Return(FALSE)
    <3>1. /\ call'.op = call.op /\ call'.gw = call.gw
          /\ call'.at = "return" /\ call'.ifc = call.ifc
      BY <1>0, <2>2, CallFields DEF Return, CallState
    <3>2. Knows' <=> Knows
      BY <1>0, <2>1 DEF Knows, Scanned
    <3>. QED
      BY <1>0, <2>1, <3>1, <3>2 DEF NeatInv, At
  <2>3. ASSUME NEW i \in up,
               call' = [call EXCEPT !.at = "scan", !.then = "create",
                                    !.ifc = i]
        PROVE  NeatInv'
    <3>1. /\ call'.op = call.op /\ call'.gw = call.gw
          /\ call'.at = "scan" /\ call'.ifc = i
      BY <1>0, <2>3, CallFields DEF CallState
    <3>. QED
      BY <1>0, <2>1, <3>1, MidwayIsNeat
  <2>. QED
    BY <1>1, <2>2, <2>3 DEF Resolve
<1>2. CASE Scan \/ Sweep \/ Swept \/ AddRoute \/ ReplaceRoute \/ RetryRoute
  <2>1. /\ call'.op = call.op /\ call'.gw = call.gw
        /\ call'.ifc = call.ifc /\ call.at \notin {"rest", "resolve", "return"}
    BY <1>0, <1>2, CallFields
    DEF Scan, Sweep, Swept, AddRoute, ReplaceRoute, RetryRoute, Added,
        Goto, Return, At, CallState
  <2>2. call'.at \notin {"rest", "resolve"}
    BY <1>0, <1>2, CallFields
    DEF Scan, Sweep, Swept, AddRoute, ReplaceRoute, RetryRoute, Added,
        Goto, Return, At, CallState
  <2>3. CASE call.op = "enable"
    <3>1. call'.ifc # None
      BY <2>1, <2>3 DEF NeatInv
    <3>. QED
      BY <1>0, <2>1, <2>2, <3>1, MidwayIsNeat
  <2>4. CASE call.op # "enable"
    <3>1. handle = None
      BY <2>1, <2>4 DEF NeatInv, At
    <3>. QED
      BY <1>0, <2>1, <2>4, <3>1, NoHandleIsNeat
  <2>. QED
    BY <2>3, <2>4
<1>. QED
  BY <1>1, <1>2

(* The callers' own steps, and those of links and rows.                    *)
LEMMA CallersAreNeat ==
    ASSUME ROInv, NeatInv,
           \/ DisableCalled \/ Returns \/ Dies \/ LinksChange \/ RowsVanish
           \/ \E gw \in Gateways : EnableCalled(gw) \/ Adopted(gw)
           \/ \E gw \in Gateways \cup {Unset} : CleanupCalled(gw)
    PROVE  NeatInv'
<1>0. /\ ROTypeOK /\ Working /\ NoResidue /\ None \notin Interfaces
  BY RouteOverlayAssumption DEF ROInv
<1>1. ASSUME NEW gw \in Gateways, EnableCalled(gw) PROVE NeatInv'
  <2>1. /\ call' = Begin("enable", "resolve", gw) /\ call.at = "rest"
        /\ handle # None => handle.gw = gw
        /\ UNCHANGED <<table, handle, neat>>
    BY <1>1 DEF EnableCalled, At
  <2>2. call'.op = "enable" /\ call'.at = "resolve" /\ call'.gw = gw
    BY <1>0, <2>1, BeginTypes DEF Ops, Places
  <2>3. Knows' <=> Knows
    BY <2>1 DEF Knows, Scanned
  <2>. QED
    BY <2>1, <2>2, <2>3 DEF NeatInv, At
<1>2. ASSUME NEW gw \in Gateways \cup {Unset}, CleanupCalled(gw)
      PROVE  NeatInv'
  <2>1. call' = Begin("cleanup", "scan", gw) /\ handle' = None
    BY <1>2 DEF CleanupCalled
  <2>2. call'.op = "cleanup"
    BY <1>0, <2>1, BeginTypes DEF Ops, Places
  <2>. QED
    BY <2>1, <2>2, NoHandleIsNeat
<1>3. CASE DisableCalled
  <2>1. handle' = None /\ handle.gw \in Gateways
    BY <1>0, <1>3 DEF DisableCalled, ROTypeOK, HandleState
  <2>. DEFINE b == Begin("disable", "main", handle.gw)
  <2>2. b \in CallState /\ b.op = "disable"
    BY <1>0, <2>1, BeginTypes DEF Ops, Places
  <2>3. call' = [b EXCEPT !.held = handle]
    BY <1>3 DEF DisableCalled
  <2>. HIDE DEF b
  <2>4. call'.op = "disable"
    BY <2>2, <2>3 DEF CallState
  <2>. QED
    BY <2>1, <2>4, NoHandleIsNeat
<1>4. CASE Returns
  <2>1. /\ call.at = "return" /\ call' = Rest /\ table' = table
        /\ Rest.at = "rest" /\ Rest.op = "none"
    BY <1>4 DEF Returns, At, Rest
  <2>2. CASE call.op = "enable" /\ call.ok
    <3>1. /\ handle' = [gw |-> call.gw, ifc |-> call.ifc, extra |-> call.ifc]
          /\ neat' => call.clean
      BY <1>4, <2>2 DEF Returns
    <3>2. call.ifc \in Interfaces /\ call.ifc # None
      BY <1>0, <2>1, <2>2 DEF Working, At
    <3>3. ASSUME call.clean PROVE Knows'
      <4>1. Scanned(call.gw) =
               {OverlayRow(h, call.ifc, call.gw) : h \in Half}
        BY <1>0, <2>1, <2>2, <3>2, <3>3 DEF NoResidue, At
      <4>2. Scanned(handle.gw)' = Scanned(call.gw)
        BY <2>1, <3>1 DEF Scanned
      <4>3. HandleRows(handle)' =
               {OverlayRow(h, call.ifc, call.gw) : h \in Half}
        BY <3>1 DEF HandleRows, Half
      <4>. QED
        BY <4>1, <4>2, <4>3 DEF Knows
    <3>. QED
      BY <2>1, <3>1, <3>3 DEF NeatInv, At
  <2>3. CASE call.op = "enable" /\ ~call.ok
    <3>1. handle' = handle /\ (neat' => call.clean /\ neat)
      BY <1>4, <2>3 DEF Returns
    <3>2. ASSUME handle # None, call.clean, neat PROVE Knows'
      <4>1. Scanned(handle.gw)' = Scanned(handle.gw)
        BY <2>1, <3>1 DEF Scanned
      <4>2. call.gw = handle.gw
        BY <2>1, <3>2 DEF NeatInv, At
      <4>3. CASE call.ifc = None
        BY <2>1, <3>1, <3>2, <4>1, <4>3 DEF NeatInv, Knows, At
      <4>4. CASE call.ifc # None
        BY <1>0, <2>1, <2>3, <3>1, <3>2, <4>1, <4>2, <4>4
        DEF NoResidue, Knows, At
      <4>. QED
        BY <4>3, <4>4
    <3>. QED
      BY <2>1, <3>1, <3>2 DEF NeatInv, At
  <2>4. CASE call.op # "enable"
    <3>1. handle = None /\ handle' = handle
      BY <1>4, <2>1, <2>4 DEF Returns, NeatInv, At
    <3>. QED
      BY <2>1, <3>1, NoHandleIsNeat
  <2>. QED
    BY <2>2, <2>3, <2>4
<1>5. CASE Dies
  <2>1. handle' = None /\ call'.op = "none"
    BY <1>5 DEF Dies, Rest
  <2>. QED
    BY <2>1, NoHandleIsNeat
<1>6. CASE LinksChange \/ RowsVanish
  <2>1. /\ table' \subseteq table /\ call.at = "rest"
        /\ UNCHANGED <<handle, call, neat>>
    BY <1>6 DEF LinksChange, RowsVanish, At
  <2>2. Knows => Knows'
    BY <2>1 DEF Knows, Scanned
  <2>. QED
    BY <2>1, <2>2 DEF NeatInv, At
<1>7. ASSUME NEW gw \in Gateways, Adopted(gw) PROVE NeatInv'
  BY <1>7 DEF Adopted, NeatInv, At
<1>. QED
  BY <1>1, <1>2, <1>3, <1>4, <1>5, <1>6, <1>7

(* Between calls the handle knows every route of the tool to its gateway,  *)
(* for any interfaces and gateways, links coming and going, any creation   *)
(* failing and the process dying, unless a deletion or the reading of the  *)
(* table failed in an enable (enable, cleanup_routes_via).                 *)
THEOREM HandleStaysComplete == Spec => []HandleKnowsAll
<1>1. Init => NeatInv
  BY DEF Init, Rest, NeatInv
<1>2. ROInv /\ NeatInv /\ [Next]_roVars => NeatInv'
  <2>. SUFFICES ASSUME ROInv, NeatInv, [Next]_roVars PROVE NeatInv'
    OBVIOUS
  <2>1. CASE UNCHANGED roVars
    BY <2>1 DEF roVars, NeatInv, Knows, Scanned, At
  <2>2. CASE DeleteMain \/ DeleteExtra
    <3>1. /\ call.op = "disable" /\ handle' = handle /\ call.at # "rest"
          /\ call' \in {[call EXCEPT !.at = "extra"],
                        [call EXCEPT !.at = "return", !.ok = TRUE],
                        [call EXCEPT !.at = "return", !.ok = FALSE]}
      BY <2>2 DEF ROInv, Working, DeleteMain, DeleteExtra, Goto, Return, At
    <3>2. call'.op = "disable"
      BY <3>1, CallFields DEF ROInv, CallState
    <3>3. handle = None
      BY <3>1 DEF NeatInv, At
    <3>. QED
      BY <3>1, <3>2, <3>3, NoHandleIsNeat
  <2>. QED
    BY <2>1, <2>2, WorkIsNeat, CallersAreNeat DEF Next
<1>3. NeatInv => HandleKnowsAll
  BY DEF NeatInv, HandleKnowsAll, Knows, At
<1>. QED
  BY <1>1, <1>2, <1>3, ROInvHolds, PTL DEF Spec

-----------------------------------------------------------------------------
(* The proof of CallsKeepContract: a call of the route overlay strategy,   *)
(* taken apart into its system calls, is one of the atomic outcomes that   *)
(* SwitchEngine gives it and that the controller and the health monitor    *)
(* are built on.                                                           *)

(* Windows keeps one row per key; rows to a bypass gateway are the tool's, *)
(* and none of those that version 0.1.7 swapped has a lifetime.            *)
Ordinary(t) ==
    /\ \A r, s \in t : SameKey(r, s) => r = s
    /\ \A r \in t : r.hop \in Gateways =>
          r.netmgmt /\ ~(r.swapped /\ r.valid)

TablesOrdinary == \A t \in Tables : Ordinary(t)

(* The main half of the handle is there with its lifetime, or not at all.  *)
HandleFresh(h, t) ==
    \A r \in t : SameKey(OverlayRow("main", h.ifc, h.gw), r) => r.valid

(* The halves through a gateway, as SwitchEngine sees them.                *)
Halves(t, gw) == {h \in Half : \E r \in Forwarding(t, gw) : r.dest = h}
Others(t, gw) == {r \in t : r.hop # gw}

MayStay == Fails("delete") \/ Fails("query")
MayFailToAdd == Fails("create") \/ Fails("delete")

(* The table, and what a call may change in it: rows to its own gateway.   *)
TableSound ==
    /\ Ordinary(table)
    /\ handle # None => HandleFresh(handle, table)
    /\ ~At("rest") =>
          /\ call.gw \in Gateways \cup {Unset}
          /\ call.op # "cleanup" => call.gw \in Gateways
          /\ Others(table, call.gw) = Others(call.before, call.gw)
          /\ call.op \in {"enable", "disable", "cleanup"}

(* The rows still to be deleted are there; what is not clean has a reason. *)
CleanSound ==
    /\ call.todo \subseteq IF At("sweep") THEN table ELSE {}
    /\ ~call.clean => MayStay
    /\ call.clean =>
          /\ At("sweep") => Scanned(call.gw) \subseteq call.todo
          /\ At("return") /\ call.op = "cleanup" => Scanned(call.gw) = {}

(* No call leaves a half it has not found, but for the one it has added.   *)
EnableFollows ==
    LET now == Halves(table, call.gw)
        found == Halves(call.before, call.gw)
    IN call.op = "enable" =>
          /\ call.at \notin {"rest", "main", "extra"}
          /\ call.ifc \in up \cup {None}
          /\ At("resolve") => table = call.before
          /\ call.at \notin {"rest", "resolve", "return"} =>
                call.ifc \in up
          /\ At("return") /\ call.ifc = None => table = call.before /\ ~call.ok
          /\ Sweeping /\ call.then = "create" => now \subseteq found
          /\ Adding /\ call.half = "main" => now \subseteq found
          /\ Adding /\ call.half = "extra" =>
                /\ now \subseteq found \cup {"main"}
                /\ OverlayRow("main", call.ifc, call.gw) \in table
          /\ At("retry") /\ InTable(Wanted) => Fails("delete")
          /\ Sweeping /\ call.then = "return" =>
                now \subseteq found \cup {"main"} /\ MayFailToAdd
          /\ At("return") /\ call.ifc # None =>
                IF call.ok
                THEN /\ now = Half
                     /\ OverlayRow("main", call.ifc, call.gw) \in table
                ELSE now \subseteq found \cup {"main"} /\ MayFailToAdd

(* A handle that covers all routes to its gateway loses one half, then the *)
(* other; it has lost none only where the main half could not be deleted.  *)
DisableFollows ==
    LET main == OverlayRow("main", call.held.ifc, call.gw)
        now == Halves(table, call.gw)
        found == Halves(call.before, call.gw)
        covered == Covers(call.held, call.before)
    IN call.op = "disable" =>
          /\ call.at \in {"main", "extra", "return"}
          /\ call.held \in HandleState /\ call.held.gw = call.gw
          /\ At("main") => table = call.before /\ HandleFresh(call.held, table)
          /\ At("extra") =>
                /\ table \subseteq call.before /\ ~InTable(main)
                /\ covered => now = found \ {"main"} /\ "main" \in found
          /\ At("return") /\ covered =>
                IF call.ok
                THEN /\ "main" \in found
                     /\ \/ now = {}
                        \/ Fails("delete") /\ now = found \ {"main"}
                ELSE now = found /\ ("main" \notin found \/ Fails("delete"))

(* A cleanup adds nothing and never fails.                                 *)
CleanupFollows ==
    call.op = "cleanup" =>
        /\ call.at \in {"scan", "sweep", "return"} /\ call.ok
        /\ Sweeping => call.then = "return"
        /\ Halves(table, call.gw) \subseteq Halves(call.before, call.gw)

(* CallsKeepContract at every place of a call, not only at its return: with*)
(* ROInv this is inductive.                                                *)
ContractInv ==
    /\ TableSound /\ CleanSound
    /\ EnableFollows /\ DisableFollows /\ CleanupFollows

-----------------------------------------------------------------------------
(* Fewer rows, fewer halves.                                               *)
LEMMA FewerHalves ==
    ASSUME NEW s, NEW t, s \subseteq t, NEW gw
    PROVE  Halves(s, gw) \subseteq Halves(t, gw)
  BY DEF Halves, Forwarding

(* A row of the overlay is one half more.                                  *)
LEMMA OneHalfMore ==
    ASSUME NEW t, NEW h \in Half, NEW i, NEW gw
    PROVE  Halves(t \cup {OverlayRow(h, i, gw)}, gw) = Halves(t, gw) \cup {h}
<1>. DEFINE r == OverlayRow(h, i, gw)
<1>1. r.dest = h /\ r.hop = gw /\ r.valid = TRUE /\ r.swapped = FALSE
  BY DEF OverlayRow
<1>2. r.dest \in Half
  BY <1>1
<1>3. r \in Forwarding(t \cup {r}, gw)
  BY <1>1, <1>2 DEF Forwarding
<1>. HIDE DEF r
<1>4. Forwarding(t \cup {r}, gw) = Forwarding(t, gw) \cup {r}
  BY <1>3 DEF Forwarding
<1>. QED
  BY <1>1, <1>2, <1>4 DEF Halves, r

(* A table stays ordinary when a row is added under a key it does not have,*)
(* and when rows go.                                                       *)
LEMMA StaysOrdinary ==
    ASSUME NEW t, Ordinary(t), NEW s, s \subseteq t
    PROVE  Ordinary(s)
  BY DEF Ordinary

(* The same of a table that gains a row.                                   *)
LEMMA GrowsOrdinary ==
    ASSUME Ordinary(table), NEW h \in Half, NEW i, NEW gw \in Gateways,
           ~InTable(OverlayRow(h, i, gw))
    PROVE  Ordinary(table \cup {OverlayRow(h, i, gw)})
<1>. DEFINE r == OverlayRow(h, i, gw)
<1>1. r.netmgmt = TRUE /\ r.swapped = FALSE
  BY DEF OverlayRow
<1>2. ~\E s \in table : SameKey(r, s)
  BY DEF InTable
<1>3. \A s : SameKey(r, s) <=> SameKey(s, r)
  BY DEF SameKey
<1>. HIDE DEF r
<1>4. \A q, s \in table \cup {r} : SameKey(q, s) => q = s
  BY <1>2, <1>3 DEF Ordinary
<1>5. \A q \in table \cup {r} : q.hop \in Gateways =>
         q.netmgmt /\ ~(q.swapped /\ q.valid)
  BY <1>1 DEF Ordinary
<1>. QED
  BY <1>4, <1>5 DEF Ordinary, r

(* A deletion fails only where the key is missing or deletions may fail.   *)
LEMMA DeletionFails ==
    ASSUME NEW r, NEW o \in Deletion(r), o.ok = FALSE
    PROVE  ~InTable(r) \/ Fails("delete")
<1>. SUFFICES ASSUME InTable(r), ~Fails("delete") PROVE FALSE
  OBVIOUS
<1>1. o = [ok |-> TRUE, t |-> Without(r)]
  BY DEF Deletion
<1>. QED
  BY <1>1

(* A creation fails only where the key is there or creations may fail.     *)
LEMMA CreationFails ==
    ASSUME NEW r, NEW o \in Creation(r), o.ok = FALSE
    PROVE  InTable(r) \/ Fails("create")
<1>. SUFFICES ASSUME ~InTable(r), ~Fails("create") PROVE FALSE
  OBVIOUS
<1>1. o = [ok |-> TRUE, t |-> table \cup {r}]
  BY DEF Creation
<1>. QED
  BY <1>1

-----------------------------------------------------------------------------
(* The machine as SwitchEngine sees it, with these routes.                 *)
WithRoutes(R) ==
    [routes |-> R, conf |-> [i \in Interfaces |-> Router], snap |-> None]

(* It is a record: the routes are replaced, the rest stays.                *)
LEMMA OtherRoutes ==
    ASSUME NEW m, NEW R, m = WithRoutes(R), NEW X
    PROVE  [m EXCEPT !.routes = X] = WithRoutes(X)
  BY DEF WithRoutes

(* Two tables that differ in rows to one gateway only.                     *)
LEMMA SeenRoutes ==
    ASSUME NEW s, NEW t, NEW gw \in Gateways, Others(s, gw) = Others(t, gw)
    PROVE  /\ Seen(s) = WithRoutes((Seen(t).routes \ Engine!Via(gw))
                                       \cup (Halves(s, gw) \X {gw}))
           /\ Seen(t) = WithRoutes(Seen(t).routes)
           /\ \A h : <<h, gw>> \in Seen(t).routes <=> h \in Halves(t, gw)
<1>1. \A hg \in Half \X (Gateways \ {gw}) :
         Forwarding(s, hg[2]) = Forwarding(t, hg[2])
  BY DEF Others, Forwarding
<1>2. Seen(s).routes =
         (Seen(t).routes \ Engine!Via(gw)) \cup (Halves(s, gw) \X {gw})
  BY <1>1 DEF Seen, Halves, Engine!Via, Engine!Half, Half
<1>3. /\ Seen(s) = WithRoutes(Seen(s).routes)
      /\ Seen(t) = WithRoutes(Seen(t).routes)
  BY DEF Seen, WithRoutes
<1>4. \A h : <<h, gw>> \in Seen(t).routes <=> h \in Halves(t, gw)
  BY DEF Seen, Halves
<1>. QED
  BY <1>2, <1>3, <1>4

-----------------------------------------------------------------------------
(* What a call keeps from its beginning to its return, but for the         *)
(* interface, which enable resolves.                                       *)
SameCall ==
    /\ call'.op = call.op /\ call'.gw = call.gw
    /\ call'.before = call.before /\ call'.held = call.held

(* The fields of a call that goes on.                                      *)
LEMMA GotoFields ==
    ASSUME ROTypeOK, NEW p, Goto(p)
    PROVE  /\ SameCall /\ call'.at = p /\ call'.ifc = call.ifc
           /\ call'.half = call.half /\ call'.todo = call.todo
           /\ call'.then = call.then /\ call'.ok = call.ok
           /\ call'.clean = call.clean
  BY DEF ROTypeOK, CallState, Goto, SameCall

(* The fields of a call that returns.                                      *)
LEMMA ReturnFields ==
    ASSUME ROTypeOK, NEW ok, Return(ok)
    PROVE  /\ SameCall /\ call'.at = "return" /\ call'.ifc = call.ifc
           /\ call'.half = call.half /\ call'.todo = call.todo
           /\ call'.ok = ok /\ call'.clean = call.clean
  BY DEF ROTypeOK, CallState, Return, SameCall

(* The fields of a call that begins.                                       *)
LEMMA BeginFields ==
    ASSUME NEW op \in Ops, NEW p \in Places,
           NEW gw \in Gateways \cup {Unset}
    PROVE  /\ Begin(op, p, gw).op = op /\ Begin(op, p, gw).at = p
           /\ Begin(op, p, gw).gw = gw /\ Begin(op, p, gw).ifc = None
           /\ Begin(op, p, gw).before = table
           /\ Begin(op, p, gw).todo = {}
           /\ Begin(op, p, gw).then = "return"
  BY DEF Begin, Rest

(* The flags of a call that begins.                                        *)
LEMMA BeginFlags ==
    ASSUME NEW op \in Ops, NEW p \in Places,
           NEW gw \in Gateways \cup {Unset}
    PROVE  Begin(op, p, gw).ok /\ Begin(op, p, gw).clean
  BY DEF Begin, Rest

(* A step of a call leaves the rows to other gateways, and gives no row    *)
(* another lifetime.                                                       *)
LEMMA StepKeepsTable ==
    ASSUME ROInv, TableSound, call.at # "rest",
           SameCall, call'.at # "rest", handle' = handle,
           NEW r, r.hop = call.gw,
           \/ table' \in {table, Without(r)}
           \/ /\ table' = table \cup {r} /\ ~InTable(r)
              /\ call.gw \in Gateways
              /\ \E half \in Half, i \in Interfaces :
                    r = OverlayRow(half, i, call.gw)
    PROVE  TableSound'
<1>1. /\ Ordinary(table) /\ call.gw \in Gateways \cup {Unset}
      /\ call.op # "cleanup" => call.gw \in Gateways
      /\ Others(table, call.gw) = Others(call.before, call.gw)
      /\ call.op \in {"enable", "disable", "cleanup"}
      /\ handle # None => HandleFresh(handle, table)
  BY DEF TableSound, At
<1>2. CASE table' \in {table, Without(r)}
  <2>1. table' \subseteq table
    BY <1>2 DEF Without
  <2>2. Ordinary(table')
    BY <1>1, <2>1, StaysOrdinary
  <2>3. Others(table', call.gw) = Others(table, call.gw)
    BY <1>2 DEF Others, Without, SameKey
  <2>4. handle # None => HandleFresh(handle, table')
    BY <1>1, <2>1 DEF HandleFresh
  <2>. QED
    BY <1>1, <2>2, <2>3, <2>4 DEF TableSound, SameCall, At
<1>3. CASE /\ table' = table \cup {r} /\ ~InTable(r)
           /\ call.gw \in Gateways
           /\ \E half \in Half, i \in Interfaces :
                 r = OverlayRow(half, i, call.gw)
  <2>1. Ordinary(table')
    BY <1>1, <1>3, GrowsOrdinary
  <2>2. Others(table', call.gw) = Others(table, call.gw)
    BY <1>3 DEF Others
  <2>3. r.valid = TRUE
    BY <1>3 DEF OverlayRow
  <2>4. handle # None => HandleFresh(handle, table')
    BY <1>1, <1>3, <2>3 DEF HandleFresh
  <2>. QED
    BY <1>1, <2>1, <2>2, <2>4 DEF TableSound, SameCall, At
<1>. QED
  BY <1>2, <1>3

-----------------------------------------------------------------------------
(* Initially no call is under way.                                         *)
LEMMA InitHasContract ==
    ASSUME TablesOrdinary
    PROVE  Init => ContractInv
<1>1. /\ Rest.at = "rest" /\ Rest.op = "none" /\ Rest.todo = {}
      /\ Rest.clean = TRUE /\ Rest.then = "return"
  BY DEF Rest
<1>. QED
  BY <1>1
  DEF Init, TablesOrdinary, ContractInv, TableSound, CleanSound,
      EnableFollows, DisableFollows, CleanupFollows, At, Sweeping, Adding

(* Between calls and at their ends.                                        *)
LEMMA RestKeepsContract ==
    ASSUME call'.at = "rest", call'.op = "none", call'.todo = {},
           call'.clean = TRUE, call'.then = "return",
           Ordinary(table'), handle' # None => HandleFresh(handle', table')
    PROVE  ContractInv'
  BY DEF ContractInv, TableSound, CleanSound,
      EnableFollows, DisableFollows, CleanupFollows, At, Sweeping, Adding

(* A key that is in the table has one row.                                 *)
LEMMA KeyIsFresh ==
    ASSUME Ordinary(table), NEW r \in table, NEW h, r.valid,
           r.dest = "main", r.ifc = h.ifc, r.hop = h.gw, r.swapped = FALSE
    PROVE  HandleFresh(h, table)
<1>. DEFINE k == OverlayRow("main", h.ifc, h.gw)
<1>1. k.dest = "main" /\ k.ifc = h.ifc /\ k.hop = h.gw /\ k.swapped = FALSE
  BY DEF OverlayRow
<1>. HIDE DEF k
<1>2. ASSUME NEW s \in table, SameKey(k, s) PROVE s.valid
  <2>1. SameKey(r, s)
    BY <1>1, <1>2 DEF SameKey
  <2>. QED
    BY <2>1 DEF Ordinary
<1>. QED
  BY <1>2 DEF HandleFresh, k

(* The callers keep a handle or drop it, links and rows come and go.       *)
LEMMA CallersKeepContract ==
    ASSUME ROInv, ROInv', ContractInv,
           \/ Returns \/ Dies \/ LinksChange \/ RowsVanish
           \/ \E gw \in Gateways : Adopted(gw)
    PROVE  ContractInv'
<1>0. /\ ROTypeOK /\ TableSound /\ EnableFollows /\ Ordinary(table)
      /\ handle # None => HandleFresh(handle, table)
  BY DEF ROInv, ContractInv, TableSound
<1>1. /\ Rest.at = "rest" /\ Rest.op = "none" /\ Rest.todo = {}
      /\ Rest.clean = TRUE /\ Rest.then = "return"
  BY DEF Rest
<1>2. ASSUME call.at = "rest"
      PROVE  /\ call.op \notin {"enable", "disable", "cleanup"}
             /\ call.todo = {} /\ (~call.clean => MayStay)
  BY <1>2 DEF ContractInv, EnableFollows, DisableFollows, CleanupFollows,
              CleanSound, At
<1>3. ASSUME call.at = "rest", call' = call, Ordinary(table'),
             handle' # None => HandleFresh(handle', table')
      PROVE  ContractInv'
  BY <1>2, <1>3
  DEF ContractInv, TableSound, CleanSound, EnableFollows, DisableFollows,
      CleanupFollows, At, Sweeping, Adding, MayStay
<1>4. CASE Returns
  <2>1. CASE call.op = "enable" /\ call.ok
    <3>1. /\ call.ifc \in Interfaces /\ call.gw \in Gateways
          /\ OverlayRow("main", call.ifc, call.gw) \in table
      BY <1>0, <1>4, <2>1, RouteOverlayAssumption
      DEF Returns, EnableFollows, ROInv, Working, At
    <3>2. handle'.ifc = call.ifc /\ handle'.gw = call.gw
      BY <1>4, <2>1 DEF Returns
    <3>. DEFINE r == OverlayRow("main", call.ifc, call.gw)
    <3>3. /\ r \in table /\ r.valid = TRUE /\ r.dest = "main"
          /\ r.ifc = handle'.ifc /\ r.hop = handle'.gw /\ r.swapped = FALSE
      BY <3>1, <3>2 DEF OverlayRow
    <3>. HIDE DEF r
    <3>4. HandleFresh(handle', table)
      BY <1>0, <3>3, KeyIsFresh
    <3>. QED
      BY <1>0, <1>1, <1>4, <3>4, RestKeepsContract DEF Returns
  <2>2. CASE ~(call.op = "enable" /\ call.ok)
    BY <1>0, <1>1, <1>4, <2>2, RestKeepsContract DEF Returns
  <2>. QED
    BY <2>1, <2>2
<1>5. CASE Dies
  BY <1>0, <1>1, <1>5, RestKeepsContract DEF Dies
<1>6. CASE LinksChange
  BY <1>0, <1>3, <1>6 DEF LinksChange, At
<1>7. CASE RowsVanish
  <2>1. table' \subseteq table /\ handle' = handle /\ call' = call
        /\ call.at = "rest"
    BY <1>7 DEF RowsVanish, At
  <2>2. handle # None => HandleFresh(handle, table')
    BY <1>0, <2>1 DEF HandleFresh
  <2>. QED
    BY <1>0, <1>3, <2>1, <2>2, StaysOrdinary
<1>8. ASSUME NEW gw \in Gateways, Adopted(gw) PROVE ContractInv'
  <2>1. PICK m \in Scanned(gw) :
           /\ m.dest = "main" /\ m.valid
           /\ handle'.gw = gw /\ handle'.ifc = m.ifc
    BY <1>8 DEF Adopted, ExistingHandles
  <2>2. m \in table /\ m.hop = gw /\ m.swapped = FALSE
    BY <1>0, <1>8, <2>1 DEF ROTypeOK, Row, Scanned, Via, Ordinary
  <2>3. HandleFresh(handle', table)
    BY <1>0, <2>1, <2>2, KeyIsFresh
  <2>. QED
    BY <1>0, <1>3, <1>8, <2>3 DEF Adopted, At
<1>. QED
  BY <1>4, <1>5, <1>6, <1>7, <1>8

(* A call begins.                                                          *)
LEMMA CallsBeginContract ==
    ASSUME ROInv, ContractInv,
           \/ DisableCalled
           \/ \E gw \in Gateways : EnableCalled(gw)
           \/ \E gw \in Gateways \cup {Unset} : CleanupCalled(gw)
    PROVE  ContractInv'
<1>0. /\ Ordinary(table) /\ UNCHANGED <<table, up>>
      /\ handle # None => HandleFresh(handle, table)
      /\ handle \in HandleState \cup {None} /\ handle' \in {handle, None}
  BY DEF ROInv, ROTypeOK, ContractInv, TableSound,
         DisableCalled, EnableCalled, CleanupCalled
<1>1. ASSUME NEW gw \in Gateways, EnableCalled(gw) PROVE ContractInv'
  <2>0. call' = Begin("enable", "resolve", gw)
    BY <1>1 DEF EnableCalled
  <2>1. /\ call'.op = "enable" /\ call'.at = "resolve" /\ call'.gw = gw
        /\ call'.ifc = None /\ call'.before = table /\ call'.todo = {}
        /\ call'.clean
    BY <2>0, BeginFields, BeginFlags DEF Ops, Places
  <2>2. TableSound'
    BY <1>0, <1>1, <2>1 DEF TableSound, At, Others
  <2>3. CleanSound'
    BY <2>1 DEF CleanSound, At
  <2>4. EnableFollows'
    BY <1>0, <2>1 DEF EnableFollows, At, Sweeping, Adding
  <2>. QED
    BY <2>1, <2>2, <2>3, <2>4
    DEF ContractInv, DisableFollows, CleanupFollows
<1>2. ASSUME NEW gw \in Gateways \cup {Unset}, CleanupCalled(gw)
      PROVE  ContractInv'
  <2>0. call' = Begin("cleanup", "scan", gw)
    BY <1>2 DEF CleanupCalled
  <2>1. /\ call'.op = "cleanup" /\ call'.at = "scan" /\ call'.gw = gw
        /\ call'.before = table /\ call'.todo = {} /\ call'.clean
        /\ call'.ok /\ call'.then = "return"
    BY <2>0, BeginFields, BeginFlags DEF Ops, Places
  <2>2. TableSound'
    BY <1>0, <1>2, <2>1 DEF TableSound, At, Others
  <2>3. CleanSound'
    BY <2>1 DEF CleanSound, At
  <2>4. CleanupFollows'
    BY <1>0, <2>1 DEF CleanupFollows, Sweeping
  <2>. QED
    BY <2>1, <2>2, <2>3, <2>4
    DEF ContractInv, EnableFollows, DisableFollows
<1>3. CASE DisableCalled
  <2>1. handle \in HandleState /\ handle.gw \in Gateways
    BY <1>0, <1>3 DEF DisableCalled, HandleState
  <2>. DEFINE b == Begin("disable", "main", handle.gw)
  <2>2. /\ b.op = "disable" /\ b.at = "main" /\ b.gw = handle.gw
        /\ b.before = table /\ b.todo = {} /\ b.clean
    BY <2>1, BeginFields, BeginFlags DEF Ops, Places
  <2>3. b \in CallState
    BY <2>1, BeginTypes DEF ROInv, Ops, Places
  <2>. HIDE DEF b
  <2>4. /\ call'.op = "disable" /\ call'.at = "main"
        /\ call'.gw = handle.gw /\ call'.before = table
        /\ call'.todo = {} /\ call'.clean /\ call'.held = handle
    BY <1>3, <2>2, <2>3 DEF DisableCalled, CallState, b
  <2>5. TableSound'
    BY <1>0, <1>3, <2>1, <2>4 DEF TableSound, At, Others, DisableCalled
  <2>6. CleanSound'
    BY <2>4 DEF CleanSound, At
  <2>7. handle # None /\ HandleFresh(handle, table)
    BY <1>0, <1>3 DEF DisableCalled
  <2>8. DisableFollows'
    BY <1>0, <2>1, <2>4, <2>7 DEF DisableFollows, At
  <2>. QED
    BY <2>4, <2>5, <2>6, <2>8
    DEF ContractInv, EnableFollows, CleanupFollows
<1>. QED
  BY <1>1, <1>2, <1>3

-----------------------------------------------------------------------------
(* The interface of a target that is enabled.                              *)
LEMMA ResolveKeepsContract ==
    ASSUME ROInv, ContractInv, Resolve
    PROVE  ContractInv'
<1>0. /\ ROTypeOK /\ TableSound /\ CleanSound /\ EnableFollows
      /\ call.at = "resolve" /\ call.op = "enable"
      /\ UNCHANGED <<table, up, handle>>
      /\ table = call.before /\ call.ifc = None /\ call.todo = {}
      /\ None \notin up /\ call.gw \in Gateways
  BY RouteOverlayAssumption
  DEF ROInv, Working, Calling, ROTypeOK, ContractInv, EnableFollows,
      DisableFollows, CleanupFollows, TableSound, CleanSound, Resolve, At
<1>1. ASSUME NEW i \in up,
             call' = [call EXCEPT !.at = "scan", !.then = "create", !.ifc = i]
      PROVE  ContractInv'
  <2>1. /\ SameCall /\ call'.at = "scan" /\ call'.then = "create"
        /\ call'.ifc = i /\ call'.todo = call.todo
        /\ call'.clean = call.clean
    BY <1>0, <1>1 DEF ROTypeOK, CallState, SameCall
  <2>2. TableSound' /\ CleanSound'
    BY <1>0, <2>1 DEF TableSound, CleanSound, SameCall, At, Others, MayStay
  <2>3. EnableFollows'
    BY <1>0, <2>1 DEF EnableFollows, SameCall, At, Sweeping, Adding
  <2>. QED
    BY <1>0, <2>1, <2>2, <2>3
    DEF ContractInv, DisableFollows, CleanupFollows, SameCall
<1>2. CASE Return(FALSE)
  <2>1. /\ SameCall /\ call'.at = "return" /\ call'.ifc = None
        /\ call'.todo = call.todo /\ call'.clean = call.clean
        /\ call'.ok = FALSE
    BY <1>0, <1>2, ReturnFields
  <2>2. TableSound' /\ CleanSound'
    BY <1>0, <2>1 DEF TableSound, CleanSound, SameCall, At, Others, MayStay
  <2>3. EnableFollows'
    BY <1>0, <2>1 DEF EnableFollows, SameCall, At, Sweeping, Adding
  <2>. QED
    BY <1>0, <2>1, <2>2, <2>3
    DEF ContractInv, DisableFollows, CleanupFollows, SameCall
<1>. QED
  BY <1>1, <1>2 DEF Resolve

(* The deletion of residue: the table only loses rows.                     *)
LEMMA FewerRowsFollow ==
    ASSUME ROInv, ContractInv, SameCall, Sweeping, Sweeping',
           table' \subseteq table, up' = up, call'.ifc = call.ifc,
           call'.then = call.then, call'.ok = call.ok
    PROVE  EnableFollows' /\ DisableFollows' /\ CleanupFollows'
<1>1. Halves(table', call.gw) \subseteq Halves(table, call.gw)
  BY FewerHalves
<1>2. EnableFollows'
  BY <1>1
  DEF ContractInv, EnableFollows, SameCall, Sweeping, Adding, At,
      MayFailToAdd
<1>3. DisableFollows'
  BY DEF ContractInv, DisableFollows, SameCall, Sweeping
<1>4. CleanupFollows'
  BY <1>1 DEF ContractInv, CleanupFollows, SameCall, Sweeping
<1>. QED
  BY <1>2, <1>3, <1>4

(* The rows that are to be deleted have been read, or could not be.        *)
LEMMA ScanKeepsContract ==
    ASSUME ROInv, ContractInv, Scan
    PROVE  ContractInv'
<1>0. /\ ROTypeOK /\ TableSound /\ CleanSound /\ call.at = "scan"
      /\ UNCHANGED <<table, up, handle>>
      /\ Scanned(call.gw) \subseteq table /\ call.todo = {}
      /\ Scanned(call.gw)' = {r \in table : Via(r, call'.gw)}
  BY DEF ROInv, ContractInv, Scan, At, Scanned, CleanSound
<1>1. CASE call' = [call EXCEPT !.at = "sweep", !.todo = Scanned(call.gw)]
  <2>1. /\ SameCall /\ call'.at = "sweep" /\ call'.ifc = call.ifc
        /\ call'.then = call.then /\ call'.ok = call.ok
        /\ call'.todo = Scanned(call.gw) /\ call'.clean = call.clean
    BY <1>0, <1>1 DEF ROTypeOK, CallState, SameCall
  <2>2. TableSound' /\ CleanSound'
    BY <1>0, <2>1
    DEF TableSound, CleanSound, SameCall, At, Others, MayStay, Scanned
  <2>. QED
    BY <1>0, <2>1, <2>2, FewerRowsFollow DEF ContractInv, Sweeping
<1>2. CASE Fails("query") /\ call' = [call EXCEPT !.at = "sweep",
                                                  !.clean = FALSE]
  <2>1. /\ SameCall /\ call'.at = "sweep" /\ call'.ifc = call.ifc
        /\ call'.then = call.then /\ call'.ok = call.ok
        /\ call'.todo = {} /\ call'.clean = FALSE
    BY <1>0, <1>2 DEF ROTypeOK, CallState, SameCall
  <2>2. TableSound' /\ CleanSound'
    BY <1>0, <1>2, <2>1
    DEF TableSound, CleanSound, SameCall, At, Others, MayStay
  <2>. QED
    BY <1>0, <2>1, <2>2, FewerRowsFollow DEF ContractInv, Sweeping
<1>. QED
  BY <1>1, <1>2 DEF Scan

(* A row of the list is gone, or deletions may fail.                       *)
LEMMA SweepKeepsContract ==
    ASSUME ROInv, ContractInv, Sweep
    PROVE  ContractInv'
<1>0. /\ ROTypeOK /\ TableSound /\ CleanSound /\ call.at = "sweep"
      /\ UNCHANGED <<up, handle>> /\ Ordinary(table)
      /\ call.todo \subseteq table /\ call.clean \in BOOLEAN
      /\ \A r \in call.todo : r.hop = call.gw
  BY CallFields
  DEF ROInv, TodoSound, ContractInv, Sweep, At, CleanSound, TableSound
<1>1. PICK r \in call.todo : \E o \in Deletion(r) :
         /\ table' = o.t
         /\ call' = [call EXCEPT !.todo = @ \ {r}, !.clean = @ /\ o.ok]
  BY DEF Sweep
<1>2. PICK o \in Deletion(r) :
         /\ table' = o.t
         /\ call' = [call EXCEPT !.todo = @ \ {r}, !.clean = @ /\ o.ok]
  BY <1>1
<1>3. /\ SameCall /\ call'.at = "sweep" /\ call'.ifc = call.ifc
      /\ call'.then = call.then /\ call'.ok = call.ok
      /\ call'.todo = call.todo \ {r} /\ call'.clean = (call.clean /\ o.ok)
  BY <1>0, <1>2 DEF ROTypeOK, CallState, SameCall
<1>4. \/ o.ok = TRUE /\ table' = Without(r)
      \/ o.ok = FALSE /\ table' = table /\ Fails("delete")
  <2>1. InTable(r)
    BY <1>0 DEF InTable, SameKey
  <2>. QED
    BY <1>2, <2>1, Deletions, DeletionFails
<1>5. table' \subseteq table
  BY <1>4 DEF Without
<1>6. TableSound'
  <2>1. table' \in {table, Without(r)} /\ r.hop = call.gw
    BY <1>0, <1>4
  <2>. QED
    BY <1>0, <1>3, <2>1, StepKeepsTable
<1>7. CleanSound'
  <2>1. CASE o.ok = TRUE /\ table' = Without(r)
    <3>1. \A s \in table : s \in table' \/ s = r
      BY <1>0, <2>1 DEF Without, Ordinary
    <3>2. ~InTable(r)'
      BY <2>1 DEF InTable, Without
    <3>3. r \notin table'
      BY <2>1 DEF Without, SameKey
    <3>4. call'.todo \subseteq table'
      BY <1>0, <1>3, <3>1
    <3>5. ASSUME call.clean
          PROVE  Scanned(call.gw)' \subseteq call'.todo
      BY <1>0, <1>3, <1>5, <3>3, <3>5
      DEF CleanSound, Scanned, SameCall, At
    <3>. QED
      BY <1>0, <1>3, <2>1, <3>4, <3>5 DEF CleanSound, SameCall, At, MayStay
  <2>2. CASE o.ok = FALSE /\ table' = table /\ Fails("delete")
    BY <1>0, <1>3, <2>2 DEF CleanSound, At, MayStay
  <2>. QED
    BY <1>4, <2>1, <2>2
<1>. QED
  BY <1>0, <1>3, <1>5, <1>6, <1>7, FewerRowsFollow DEF ContractInv, Sweeping

(* All residue has been tried.                                             *)
LEMMA SweptKeepsContract ==
    ASSUME ROInv, ContractInv, Swept
    PROVE  ContractInv'
<1>0. /\ ROTypeOK /\ Working /\ TableSound /\ CleanSound /\ EnableFollows
      /\ DisableFollows /\ CleanupFollows
      /\ call.at = "sweep" /\ call.todo = {}
      /\ UNCHANGED <<table, up, handle>> /\ call.then \in {"create", "return"}
      /\ None \notin up
  BY CallFields, RouteOverlayAssumption
  DEF ROInv, ROTypeOK, ContractInv, Swept, At
<1>1. /\ SameCall /\ call'.at = call.then /\ call'.ifc = call.ifc
      /\ call'.half = call.half /\ call'.todo = {}
      /\ call'.ok = call.ok /\ call'.clean = call.clean
  BY <1>0, GotoFields DEF Swept
<1>2. TableSound'
  BY <1>0, <1>1 DEF TableSound, SameCall, At, Others
<1>3. CleanSound'
  <2>1. Scanned(call.gw)' = Scanned(call.gw)
    BY <1>0, <1>1 DEF Scanned, SameCall
  <2>. QED
    BY <1>0, <1>1, <2>1 DEF CleanSound, SameCall, At, MayStay
<1>4. EnableFollows'
  <2>1. CASE call.then = "create"
    BY <1>0, <1>1, <2>1
    DEF Working, EnableFollows, SameCall, At, Sweeping, Adding
  <2>2. CASE call.then = "return"
    BY <1>0, <1>1, <2>2
    DEF Working, EnableFollows, SameCall, At, Sweeping, Adding, MayFailToAdd
  <2>. QED
    BY <1>0, <2>1, <2>2
<1>5. DisableFollows'
  BY <1>0, <1>1 DEF DisableFollows, SameCall
<1>6. CleanupFollows'
  BY <1>0, <1>1 DEF CleanupFollows, SameCall, Sweeping
<1>. QED
  BY <1>2, <1>3, <1>4, <1>5, <1>6 DEF ContractInv

-----------------------------------------------------------------------------
(* What an enable knows while it adds its routes.                          *)
LEMMA AddingFacts ==
    ASSUME ROInv, ContractInv, Adding
    PROVE  /\ ROTypeOK /\ TableSound /\ CleanSound /\ EnableFollows
           /\ Ordinary(table) /\ call.op = "enable" /\ call.todo = {}
           /\ call.gw \in Gateways /\ call.ifc \in up /\ call.ifc # None
           /\ call.ifc \in Interfaces /\ call.half \in Half
           /\ Wanted.hop = call.gw /\ Wanted.dest = call.half
           /\ Wanted = OverlayRow(call.half, call.ifc, call.gw)
<1>1. /\ ROTypeOK /\ Working /\ TableSound /\ CleanSound /\ EnableFollows
      /\ DisableFollows /\ CleanupFollows /\ call.half \in {"main", "extra"}
  BY CallFields DEF ROInv, ContractInv
<1>2. /\ call.at \notin {"rest", "resolve", "return", "sweep"}
      /\ call.at \notin {"main", "extra", "scan"}
  BY DEF Adding
<1>3. call.op = "enable"
  BY <1>1, <1>2
  DEF TableSound, DisableFollows, CleanupFollows, At
<1>4. /\ call.ifc \in up /\ call.ifc \in Interfaces /\ call.gw \in Gateways
      /\ call.todo = {} /\ Ordinary(table)
  BY <1>1, <1>2, <1>3
  DEF TableSound, EnableFollows, CleanSound, Working, At, Calling
<1>5. /\ Wanted.hop = call.gw /\ Wanted.dest = call.half
      /\ Wanted = OverlayRow(call.half, call.ifc, call.gw)
  BY DEF Wanted, OverlayRow
<1>. QED
  BY <1>1, <1>3, <1>4, <1>5, RouteOverlayAssumption DEF Half

(* A route that has been added, or could not be.                           *)
LEMMA AddedKeepsContract ==
    ASSUME ROInv, ContractInv, Adding, NEW o \in Creation(Wanted),
           table' = o.t, Added(o.ok), up' = up, handle' = handle,
           ~o.ok => At("retry")
    PROVE  ContractInv'
<1>. DEFINE now == Halves(table, call.gw)
            found == Halves(call.before, call.gw)
            main == OverlayRow("main", call.ifc, call.gw)
<1>0. /\ ROTypeOK /\ TableSound /\ CleanSound /\ EnableFollows
      /\ Ordinary(table) /\ call.op = "enable" /\ call.todo = {}
      /\ call.gw \in Gateways /\ call.ifc \in up /\ call.ifc # None
      /\ call.ifc \in Interfaces /\ call.half \in Half
      /\ Wanted.hop = call.gw
      /\ Wanted = OverlayRow(call.half, call.ifc, call.gw)
      /\ call.at \notin {"rest", "resolve", "return", "sweep"}
  BY AddingFacts DEF Adding
<1>1. /\ now \subseteq found \cup {"main"}
      /\ call.half = "extra" => main \in table
      /\ call.half \in {"main", "extra"}
  BY <1>0 DEF EnableFollows, Adding, Half
<1>2. CASE o.ok = TRUE
  <2>1. table' = table \cup {Wanted} /\ ~InTable(Wanted)
    BY <1>2, Creations
  <2>2. Halves(table', call.gw) = now \cup {call.half}
    BY <1>0, <2>1, OneHalfMore
  <2>3. CASE call.half = "main"
    <3>1. call' = [call EXCEPT !.at = "create", !.half = "extra"]
      BY <1>2, <2>3 DEF Added
    <3>2. /\ SameCall /\ call'.at = "create" /\ call'.half = "extra"
          /\ call'.ifc = call.ifc /\ call'.todo = {}
          /\ call'.clean = call.clean
      BY <1>0, <3>1 DEF ROTypeOK, CallState, SameCall
    <3>3. TableSound'
      BY <1>0, <2>1, <3>2, StepKeepsTable
    <3>4. CleanSound'
      BY <1>0, <3>2 DEF CleanSound, At, MayStay
    <3>5. /\ main \in table'
          /\ Halves(table', call.gw) \subseteq found \cup {"main"}
      BY <1>0, <1>1, <2>1, <2>2, <2>3
    <3>6. EnableFollows'
      BY <1>0, <3>2, <3>5 DEF EnableFollows, SameCall, At, Sweeping, Adding
    <3>. QED
      BY <1>0, <3>2, <3>3, <3>4, <3>6
      DEF ContractInv, DisableFollows, CleanupFollows, SameCall
  <2>4. CASE call.half = "extra"
    <3>1. Return(TRUE)
      BY <1>2, <2>4 DEF Added
    <3>2. /\ SameCall /\ call'.at = "return" /\ call'.ok = TRUE
          /\ call'.ifc = call.ifc /\ call'.todo = {}
          /\ call'.clean = call.clean
      BY <1>0, <3>1, ReturnFields
    <3>3. TableSound'
      BY <1>0, <2>1, <3>2, StepKeepsTable
    <3>4. CleanSound'
      BY <1>0, <3>2 DEF CleanSound, At, MayStay, SameCall
    <3>5. main \in table' /\ Halves(table', call.gw) = Half
      <4>1. main \in Forwarding(table, call.gw) /\ main.dest = "main"
        BY <1>1, <2>4 DEF Forwarding, OverlayRow, Half
      <4>2. "main" \in now /\ now \subseteq Half
        BY <4>1 DEF Halves, Half
      <4>. QED
        BY <1>1, <2>1, <2>2, <2>4, <4>2 DEF Half
    <3>6. EnableFollows'
      BY <1>0, <3>2, <3>5 DEF EnableFollows, SameCall, At, Sweeping, Adding
    <3>. QED
      BY <1>0, <3>2, <3>3, <3>4, <3>6
      DEF ContractInv, DisableFollows, CleanupFollows, SameCall
  <2>. QED
    BY <1>1, <2>3, <2>4
<1>3. CASE o.ok = FALSE
  <2>1. table' = table
    BY <1>3, Creations
  <2>2. MayFailToAdd
    BY <1>0, <1>3, CreationFails DEF EnableFollows, MayFailToAdd
  <2>3. call' = [call EXCEPT !.at = "scan", !.then = "return", !.ok = FALSE]
    BY <1>3 DEF Added
  <2>4. /\ SameCall /\ call'.at = "scan" /\ call'.then = "return"
        /\ call'.ifc = call.ifc /\ call'.todo = {}
        /\ call'.clean = call.clean
    BY <1>0, <2>3 DEF ROTypeOK, CallState, SameCall
  <2>5. TableSound' /\ CleanSound'
    BY <1>0, <2>1, <2>4
    DEF TableSound, CleanSound, SameCall, At, Others, MayStay
  <2>6. EnableFollows'
    BY <1>0, <1>1, <2>1, <2>2, <2>4
    DEF EnableFollows, SameCall, At, Sweeping, Adding, MayFailToAdd
  <2>. QED
    BY <1>0, <2>4, <2>5, <2>6
    DEF ContractInv, DisableFollows, CleanupFollows, SameCall
<1>. QED
  BY <1>2, <1>3, Creations

(* add_route: create, or else delete and create once more.                 *)
LEMMA AddKeepsContract ==
    ASSUME ROInv, ContractInv, AddRoute \/ ReplaceRoute \/ RetryRoute
    PROVE  ContractInv'
<1>. DEFINE main == OverlayRow("main", call.ifc, call.gw)
<1>0. Adding /\ up' = up /\ handle' = handle
  BY DEF AddRoute, ReplaceRoute, RetryRoute, At, Adding
<1>1. /\ ROTypeOK /\ TableSound /\ CleanSound /\ EnableFollows
      /\ Ordinary(table) /\ call.op = "enable" /\ call.todo = {}
      /\ call.gw \in Gateways /\ call.ifc \in up /\ call.ifc # None
      /\ call.half \in Half /\ Wanted.hop = call.gw
      /\ Wanted.dest = call.half
      /\ Wanted = OverlayRow(call.half, call.ifc, call.gw)
      /\ call.at \notin {"rest", "resolve", "return", "sweep"}
  BY <1>0, AddingFacts DEF Adding
<1>2. ASSUME NEW p \in {"replace", "retry"}, Goto(p),
             table' \in {table, Without(Wanted)},
             p = "retry" => (InTable(Wanted)' => Fails("delete"))
      PROVE  ContractInv'
  <2>1. /\ SameCall /\ call'.at = p /\ call'.ifc = call.ifc
        /\ call'.half = call.half /\ call'.todo = {}
        /\ call'.clean = call.clean
    BY <1>1, <1>2 DEF Goto, ROTypeOK, CallState, SameCall
  <2>2. TableSound'
    <3>1. call.at # "rest" /\ call'.at # "rest"
      BY <1>1, <1>2, <2>1
    <3>. QED
      BY <1>0, <1>1, <1>2, <2>1, <3>1, StepKeepsTable
  <2>3. CleanSound'
    BY <1>1, <1>2, <2>1 DEF CleanSound, At, MayStay
  <2>4. Halves(table', call.gw) \subseteq Halves(table, call.gw)
    <3>1. table' \subseteq table
      BY <1>2 DEF Without
    <3>. QED
      BY <3>1, FewerHalves
  <2>5. call.half = "extra" /\ main \in table => main \in table'
    <3>1. main.dest = "main"
      BY DEF OverlayRow
    <3>. QED
      BY <1>1, <1>2, <3>1 DEF Without, SameKey
  <2>6. Wanted' = Wanted
    BY <2>1 DEF Wanted, SameCall
  <2>7. call.half = "main" \/ call.half = "extra"
    BY <1>1 DEF Half
  <2>8. EnableFollows'
    <3>1. CASE call.half = "main"
      BY <1>0, <1>1, <1>2, <2>1, <2>4, <2>6, <3>1
      DEF EnableFollows, SameCall, At, Sweeping, Adding
    <3>2. CASE call.half = "extra"
      BY <1>0, <1>1, <1>2, <2>1, <2>4, <2>5, <2>6, <3>2
      DEF EnableFollows, SameCall, At, Sweeping, Adding
    <3>. QED
      BY <2>7, <3>1, <3>2
  <2>. QED
    BY <1>1, <2>1, <2>2, <2>3, <2>8
    DEF ContractInv, DisableFollows, CleanupFollows, SameCall
<1>3. CASE AddRoute
  <2>1. PICK o \in Creation(Wanted) :
           table' = o.t /\ IF o.ok THEN Added(TRUE) ELSE Goto("replace")
    BY <1>3 DEF AddRoute
  <2>2. CASE o.ok = TRUE
    BY <1>0, <2>1, <2>2, AddedKeepsContract
  <2>3. CASE o.ok = FALSE
    <3>1. table' = table /\ Goto("replace")
      BY <2>1, <2>3, Creations
    <3>. QED
      BY <1>2, <3>1
  <2>. QED
    BY <2>2, <2>3, Creations
<1>4. CASE ReplaceRoute
  <2>1. PICK o \in Deletion(Wanted) : table' = o.t
    BY <1>4 DEF ReplaceRoute
  <2>2. table' \in {table, Without(Wanted)}
    BY <2>1, Deletions
  <2>3. Goto("retry")
    BY <1>4 DEF ReplaceRoute
  <2>4. Wanted' = Wanted
    BY <1>1, <2>3, GotoFields DEF Wanted, SameCall
  <2>5. InTable(Wanted)' => Fails("delete")
    <3>1. CASE o.ok = TRUE
      <4>1. table' = Without(Wanted)
        BY <2>1, <3>1, Deletions
      <4>. QED
        BY <2>4, <4>1 DEF InTable, Without
    <3>2. CASE o.ok = FALSE
      <4>1. table' = table /\ (~InTable(Wanted) \/ Fails("delete"))
        BY <2>1, <3>2, Deletions, DeletionFails
      <4>. QED
        BY <2>4, <4>1 DEF InTable
    <3>. QED
      BY <3>1, <3>2, Deletions
  <2>. QED
    BY <1>2, <2>2, <2>3, <2>5
<1>5. CASE RetryRoute
  BY <1>0, <1>5, AddedKeepsContract DEF RetryRoute
<1>. QED
  BY <1>3, <1>4, <1>5

-----------------------------------------------------------------------------
(* The routes of a handle that covers all of them, one half less.          *)
LEMMA HalfDeleted ==
    ASSUME ROTypeOK, NEW half \in Half, NEW i, NEW gw,
           OnlyOn(table, gw, i)
    PROVE  /\ Halves(Without(OverlayRow(half, i, gw)), gw) =
                 Halves(table, gw) \ {half}
           /\ ~InTable(OverlayRow(half, i, gw)) =>
                 half \notin Halves(table, gw)
<1>. DEFINE r == OverlayRow(half, i, gw)
<1>1. r.dest = half /\ r.ifc = i /\ r.hop = gw /\ r.swapped = FALSE
  BY DEF OverlayRow
<1>2. ASSUME NEW s \in Forwarding(table, gw)
      PROVE  SameKey(r, s) <=> s.dest = half
  <2>1. s.ifc = i /\ s.hop = gw /\ s.swapped = FALSE
    BY <1>2 DEF OnlyOn, Forwarding, ROTypeOK, Row
  <2>. QED
    BY <1>1, <2>1 DEF SameKey
<1>. HIDE DEF r
<1>3. \A s \in Forwarding(table, gw) : s \in table
  BY DEF Forwarding
<1>4. Forwarding(Without(r), gw) =
         {s \in Forwarding(table, gw) : s.dest # half}
  BY <1>2 DEF Forwarding, Without
<1>5. Halves(Without(r), gw) = Halves(table, gw) \ {half}
  BY <1>4 DEF Halves
<1>6. ~InTable(r) => half \notin Halves(table, gw)
  BY <1>2, <1>3 DEF Halves, InTable
<1>. QED
  BY <1>5, <1>6 DEF r

(* What a disable knows while it deletes.                                  *)
LEMMA DisablingFacts ==
    ASSUME ROInv, ContractInv, call.at \in {"main", "extra"}
    PROVE  /\ ROTypeOK /\ TableSound /\ CleanSound /\ DisableFollows
           /\ Ordinary(table) /\ call.op = "disable" /\ call.todo = {}
           /\ call.gw \in Gateways /\ call.held \in HandleState
           /\ call.held.gw = call.gw
           /\ \A half, i : OverlayRow(half, i, call.gw).hop = call.gw
<1>1. /\ ROTypeOK /\ TableSound /\ CleanSound /\ DisableFollows /\ Working
  BY DEF ROInv, ContractInv
<1>2. /\ call.op = "disable" /\ call.held \in HandleState
      /\ call.gw \in Gateways /\ Ordinary(table) /\ call.todo = {}
  BY <1>1 DEF Working, TableSound, CleanSound, At
<1>3. call.held.gw = call.gw
  BY <1>1, <1>2 DEF DisableFollows
<1>. QED
  BY <1>1, <1>2, <1>3 DEF OverlayRow

(* disable: the main half, or an error that leaves the table as it was.    *)
LEMMA DeleteMainKeepsContract ==
    ASSUME ROInv, ContractInv, DeleteMain
    PROVE  ContractInv'
<1>. DEFINE r == OverlayRow("main", call.held.ifc, call.gw)
            found == Halves(call.before, call.gw)
            covered == Covers(call.held, call.before)
<1>0. /\ ROTypeOK /\ TableSound /\ CleanSound /\ DisableFollows
      /\ Ordinary(table) /\ call.op = "disable" /\ call.todo = {}
      /\ call.gw \in Gateways /\ call.held \in HandleState
      /\ call.held.gw = call.gw /\ r.hop = call.gw
      /\ call.at = "main" /\ UNCHANGED <<up, handle>>
      /\ table = call.before /\ HandleFresh(call.held, table)
  BY DisablingFacts DEF DeleteMain, At, DisableFollows
<1>1. PICK o \in Deletion(r) :
         table' = o.t /\ IF o.ok THEN Goto("extra") ELSE Return(FALSE)
  BY DEF DeleteMain
<1>2. covered =>
         /\ Halves(Without(r), call.gw) = found \ {"main"}
         /\ ~InTable(r) => "main" \notin found
  BY <1>0, HalfDeleted DEF Covers, Half
<1>3. CASE o.ok = TRUE
  <2>1. table' = Without(r) /\ Goto("extra") /\ InTable(r)
    BY <1>1, <1>3, Deletions DEF Deletion
  <2>2. /\ SameCall /\ call'.at = "extra" /\ call'.todo = {}
        /\ call'.clean = call.clean
    BY <1>0, <2>1, GotoFields
  <2>3. TableSound'
    BY <1>0, <2>1, <2>2, StepKeepsTable
  <2>4. CleanSound'
    BY <1>0, <2>2 DEF CleanSound, At, MayStay
  <2>5. "main" \in found
    <3>1. PICK s \in table : SameKey(r, s)
      BY <2>1 DEF InTable
    <3>2. s.valid
      BY <1>0, <3>1 DEF HandleFresh
    <3>3. s.dest = "main" /\ s.hop = call.gw /\ ~s.swapped
      BY <3>1 DEF SameKey, OverlayRow
    <3>. QED
      BY <1>0, <3>1, <3>2, <3>3 DEF Halves, Forwarding, Half
  <2>6. table' \subseteq call.before /\ ~InTable(r)'
    BY <1>0, <2>1, <2>2 DEF Without, InTable, SameCall
  <2>7. DisableFollows'
    BY <1>0, <1>2, <2>1, <2>2, <2>5, <2>6 DEF DisableFollows, SameCall, At
  <2>. QED
    BY <1>0, <2>2, <2>3, <2>4, <2>7
    DEF ContractInv, EnableFollows, CleanupFollows, SameCall
<1>4. CASE o.ok = FALSE
  <2>1. /\ table' = table /\ Return(FALSE)
        /\ ~InTable(r) \/ Fails("delete")
    BY <1>1, <1>4, Deletions, DeletionFails
  <2>2. /\ SameCall /\ call'.at = "return" /\ call'.todo = {}
        /\ call'.clean = call.clean /\ call'.ok = FALSE
    BY <1>0, <2>1, ReturnFields
  <2>3. TableSound' /\ CleanSound'
    BY <1>0, <2>1, <2>2
    DEF TableSound, CleanSound, SameCall, At, Others, MayStay
  <2>4. DisableFollows'
    BY <1>0, <1>2, <2>1, <2>2 DEF DisableFollows, SameCall, At
  <2>. QED
    BY <1>0, <2>2, <2>3, <2>4
    DEF ContractInv, EnableFollows, CleanupFollows, SameCall
<1>. QED
  BY <1>1, <1>3, <1>4, Deletions

(* The extra half, which the call does not insist on.                      *)
LEMMA DeleteExtraKeepsContract ==
    ASSUME ROInv, ContractInv, DeleteExtra
    PROVE  ContractInv'
<1>. DEFINE r == OverlayRow("extra", call.held.extra, call.gw)
            now == Halves(table, call.gw)
            found == Halves(call.before, call.gw)
            covered == Covers(call.held, call.before)
<1>0. /\ ROTypeOK /\ TableSound /\ CleanSound /\ DisableFollows
      /\ Ordinary(table) /\ call.op = "disable" /\ call.todo = {}
      /\ call.gw \in Gateways /\ call.held \in HandleState
      /\ call.held.gw = call.gw /\ r.hop = call.gw
      /\ call.at = "extra" /\ UNCHANGED <<up, handle>>
      /\ table \subseteq call.before
      /\ covered => now = found \ {"main"} /\ "main" \in found
  BY DisablingFacts DEF DeleteExtra, At, DisableFollows
<1>1. PICK o \in Deletion(r) : table' = o.t
  BY DEF DeleteExtra
<1>2. /\ SameCall /\ call'.at = "return" /\ call'.todo = {}
      /\ call'.clean = call.clean /\ call'.ok = TRUE
  BY <1>0, ReturnFields DEF DeleteExtra
<1>3. covered => /\ Halves(Without(r), call.gw) = now \ {"extra"}
                 /\ ~InTable(r) => "extra" \notin now
  <2>1. covered => /\ OnlyOn(table, call.gw, call.held.extra)
    BY <1>0 DEF Covers, OnlyOn, Forwarding
  <2>. QED
    BY <1>0, <2>1, HalfDeleted DEF Half
<1>4. now \subseteq {"main", "extra"}
  BY DEF Halves, Half
<1>5. covered => \/ Halves(table', call.gw) = {}
                 \/ /\ Fails("delete")
                    /\ Halves(table', call.gw) = found \ {"main"}
  <2>1. CASE o.ok = TRUE
    <3>1. table' = Without(r)
      BY <1>1, <2>1, Deletions
    <3>. QED
      BY <1>0, <1>3, <1>4, <3>1
  <2>2. CASE o.ok = FALSE
    <3>1. table' = table /\ (~InTable(r) \/ Fails("delete"))
      BY <1>1, <2>2, Deletions, DeletionFails
    <3>. QED
      BY <1>0, <1>3, <1>4, <3>1
  <2>. QED
    BY <1>1, <2>1, <2>2, Deletions
<1>6. table' \in {table, Without(r)}
  BY <1>1, Deletions
<1>7. TableSound'
  BY <1>0, <1>2, <1>6, StepKeepsTable
<1>8. CleanSound'
  BY <1>0, <1>2 DEF CleanSound, At, MayStay, SameCall
<1>9. DisableFollows'
  BY <1>0, <1>2, <1>5 DEF DisableFollows, SameCall, At
<1>. QED
  BY <1>0, <1>2, <1>7, <1>8, <1>9
  DEF ContractInv, EnableFollows, CleanupFollows, SameCall

(* The invariant of the calls.                                             *)
LEMMA ContractStep ==
    ASSUME ROInv, ROInv', ContractInv, [Next]_roVars
    PROVE  ContractInv'
<1>1. CASE UNCHANGED roVars
  BY <1>1
  DEF roVars, ContractInv, TableSound, CleanSound, EnableFollows,
      DisableFollows, CleanupFollows, At, Sweeping, Adding, Scanned,
      InTable, Wanted, MayStay, MayFailToAdd
<1>. QED
  BY <1>1, CallersKeepContract, CallsBeginContract, ResolveKeepsContract,
     ScanKeepsContract, SweepKeepsContract, SweptKeepsContract,
     AddKeepsContract, DeleteMainKeepsContract, DeleteExtraKeepsContract
  DEF Next

-----------------------------------------------------------------------------
(* The sets of routes that SwitchEngine's outcomes leave.                  *)
LEMMA CleanupLeaves ==
    ASSUME NEW m, NEW R, m = WithRoutes(R), NEW gw,
           NEW kept \in SUBSET Engine!Via(gw), kept = {} \/ MayStay
    PROVE  WithRoutes(R \ (Engine!Via(gw) \ kept)) \in Engine!Cleanup(m, gw)
<1>1. m.routes = R
  BY DEF WithRoutes
<1>2. kept \in {{}} \cup Engine!MayFail({"delete", "query"},
                                        SUBSET Engine!Via(gw))
  BY DEF Engine!MayFail, MayStay, Fails
<1>3. [m EXCEPT !.routes = @ \ (Engine!Via(gw) \ kept)] \in
         Engine!Cleanup(m, gw)
  BY <1>2 DEF Engine!Cleanup
<1>. QED
  BY <1>1, <1>3, OtherRoutes

(* What a call that returns knows of the table.                            *)
LEMMA ReturnFacts ==
    ASSUME ROInv, ContractInv, At("return"), call.gw \in Gateways
    PROVE  /\ call.gw \in Gateways /\ None \notin up
           /\ Seen(table) =
                 WithRoutes((Seen(call.before).routes \ Engine!Via(call.gw))
                            \cup (Halves(table, call.gw) \X {call.gw}))
           /\ Seen(call.before) = WithRoutes(Seen(call.before).routes)
           /\ \A h : <<h, call.gw>> \in Seen(call.before).routes <=>
                     h \in Halves(call.before, call.gw)
           /\ Halves(table, call.gw) \subseteq Half
           /\ Engine!Via(call.gw) = Half \X {call.gw}
           /\ \/ Halves(table, call.gw) = {} \/ MayStay
              \/ call.op = "disable"
              \/ call.op = "enable" /\ (call.ok \/ call.ifc = None)
<1>. DEFINE gw == call.gw
<1>1. /\ ROTypeOK /\ NoResidue /\ call.gw \in Gateways
      /\ Others(table, call.gw) = Others(call.before, call.gw)
      /\ call.op \in {"enable", "disable", "cleanup"}
  BY DEF ROInv, ContractInv, TableSound, At
<1>2. Halves(table, gw) \subseteq Half
  BY DEF Halves
<1>3. Halves(table, gw) # {} => Scanned(gw) # {}
  BY <1>1 DEF ContractInv, TableSound, Ordinary, Halves, Forwarding,
              Scanned, Via
<1>4. ~call.clean => MayStay
  BY DEF ContractInv, CleanSound
<1>5. ASSUME call.clean, call.op = "cleanup" PROVE Scanned(gw) = {}
  BY <1>5 DEF ContractInv, CleanSound
<1>6. ASSUME call.clean, call.op = "enable", call.ifc # None, ~call.ok
      PROVE  Scanned(gw) = {}
  BY <1>1, <1>6 DEF NoResidue
<1>7. \/ Halves(table, gw) = {} \/ MayStay \/ call.op = "disable"
      \/ call.op = "enable" /\ (call.ok \/ call.ifc = None)
  BY <1>1, <1>3, <1>4, <1>5, <1>6
<1>8. Engine!Via(gw) = Half \X {gw} /\ None \notin up
  BY <1>1, RouteOverlayAssumption DEF Engine!Via, Engine!Half, Half, ROTypeOK
<1>9. /\ Seen(table) =
            WithRoutes((Seen(call.before).routes \ Engine!Via(gw))
                          \cup (Halves(table, gw) \X {gw}))
      /\ Seen(call.before) = WithRoutes(Seen(call.before).routes)
      /\ \A h : <<h, gw>> \in Seen(call.before).routes <=>
                h \in Halves(call.before, gw)
  BY <1>1, SeenRoutes
<1>. QED
  BY <1>1, <1>2, <1>7, <1>8, <1>9

(* What an enable has done when it returns.                                *)
LEMMA EnableKeepsContract ==
    ASSUME ROInv, ContractInv, At("return"), call.op = "enable"
    PROVE  [ok |-> call.ok, m |-> Seen(table)] \in Outcomes
<1>. DEFINE m == Seen(call.before)
            gw == call.gw
            R == m.routes
            now == Halves(table, gw)
            target == [mode |-> "RouteOverlay", adapter |-> call.ifc,
                       gw |-> gw]
<1>0. /\ gw \in Gateways /\ None \notin up /\ call.ok \in BOOLEAN
      /\ Seen(table) = WithRoutes((R \ Engine!Via(gw)) \cup (now \X {gw}))
      /\ m = WithRoutes(R)
      /\ \A h : <<h, gw>> \in R <=> h \in Halves(call.before, gw)
      /\ now \subseteq Half /\ Engine!Via(gw) = Half \X {gw}
      /\ now # {} => MayStay \/ call.ok \/ call.ifc = None
      /\ EnableFollows
  BY ReturnFacts, CallFields DEF ROInv, ContractInv, TableSound, At
<1>1. SUFFICES [ok |-> call.ok, m |-> Seen(table)] \in
                  Engine!OverlayEnable(m, target, LinkOf(call.ifc))
  BY DEF Outcomes
<1>2. target.gw = gw
  OBVIOUS
<1>. HIDE DEF target, m, now
<1>3. CASE call.ifc = None
  <2>1. /\ LinkOf(call.ifc) = "unplugged" /\ call.ok = FALSE
        /\ Seen(table) = m
    BY <1>0, <1>3 DEF LinkOf, EnableFollows, At, m
  <2>. QED
    BY <2>1 DEF Engine!OverlayEnable, Engine!Err
<1>4. CASE call.ifc # None
  <2>1. LinkOf(call.ifc) # "unplugged"
    BY <1>0, <1>4 DEF LinkOf, EnableFollows
  <2>2. CASE call.ok = TRUE
    <3>1. now = Half
      BY <1>0, <1>4, <2>2 DEF EnableFollows, At, now
    <3>2. (R \ Engine!Via(gw)) \cup (now \X {gw}) = R \cup Engine!Via(gw)
      BY <1>0, <3>1
    <3>3. [m EXCEPT !.routes = R \cup Engine!Via(gw)] =
             WithRoutes(R \cup Engine!Via(gw))
      BY <1>0, OtherRoutes
    <3>4. Seen(table) = [m EXCEPT !.routes = @ \cup Engine!Via(target.gw)]
      BY <1>0, <1>2, <3>2, <3>3
    <3>. QED
      BY <2>1, <2>2, <3>4 DEF Engine!OverlayEnable, Engine!Ok
  <2>3. CASE call.ok = FALSE
    <3>. DEFINE X == R \cup {<<"main", gw>>}
                kept == now \X {gw}
    <3>1. /\ now \subseteq Halves(call.before, gw) \cup {"main"}
          /\ MayFailToAdd
      BY <1>0, <1>4, <2>3 DEF EnableFollows, At, now
    <3>2. kept \in SUBSET Engine!Via(gw) /\ (kept = {} \/ MayStay)
      BY <1>0, <1>4, <2>3
    <3>3. \A h \in now : <<h, gw>> \in X
      BY <1>0, <3>1
    <3>4. X \ (Engine!Via(gw) \ kept) =
             (R \ Engine!Via(gw)) \cup (now \X {gw})
      <4>1. <<"main", gw>> \in Engine!Via(gw)
        BY <1>0 DEF Half
      <4>. QED
        BY <1>0, <3>3, <4>1
    <3>5. [m EXCEPT !.routes = X] = WithRoutes(X)
      BY <1>0, OtherRoutes
    <3>. DEFINE mx == [m EXCEPT !.routes = X]
    <3>. HIDE DEF X, kept, mx
    <3>6. Seen(table) \in Engine!Cleanup([m EXCEPT !.routes = X], gw)
      <4>1. mx = WithRoutes(X)
        BY <3>5 DEF mx
      <4>2. WithRoutes(X \ (Engine!Via(gw) \ kept)) \in Engine!Cleanup(mx, gw)
        BY <3>2, <4>1, CleanupLeaves
      <4>. QED
        BY <1>0, <3>4, <4>2 DEF mx
    <3>7. X = m.routes \cup {<<"main", target.gw>>}
      BY <1>2 DEF X
    <3>8. {"create", "delete"} \cap Faults # {}
      BY <3>1 DEF MayFailToAdd, Fails
    <3>. QED
      BY <1>2, <2>1, <2>3, <3>6, <3>7, <3>8
      DEF Engine!OverlayEnable, Engine!Err, Engine!MayFail
  <2>. QED
    BY <1>0, <2>2, <2>3
<1>. QED
  BY <1>3, <1>4

(* What a disable of a covering handle has done when it returns.           *)
LEMMA DisableKeepsContract ==
    ASSUME ROInv, ContractInv, At("return"), call.op = "disable",
           Covers(call.held, call.before)
    PROVE  [ok |-> call.ok, m |-> Seen(table)] \in Outcomes
<1>. DEFINE m == Seen(call.before)
            gw == call.gw
            R == m.routes
            now == Halves(table, gw)
            found == Halves(call.before, gw)
            held == [gw |-> gw]
<1>0. /\ gw \in Gateways /\ call.ok \in BOOLEAN
      /\ Seen(table) = WithRoutes((R \ Engine!Via(gw)) \cup (now \X {gw}))
      /\ m = WithRoutes(R)
      /\ \A h : <<h, gw>> \in R <=> h \in found
      /\ now \subseteq Half /\ Engine!Via(gw) = Half \X {gw}
      /\ IF call.ok
         THEN /\ "main" \in found
              /\ now = {} \/ (Fails("delete") /\ now = found \ {"main"})
         ELSE now = found /\ ("main" \notin found \/ Fails("delete"))
  BY ReturnFacts, CallFields
  DEF ROInv, ContractInv, TableSound, DisableFollows, At
<1>1. SUFFICES [ok |-> call.ok, m |-> Seen(table)] \in
                  Engine!OverlayDisable(m, held)
  BY DEF Outcomes
<1>2. held.gw = gw
  OBVIOUS
<1>. HIDE DEF held, m, now, found
<1>3. CASE call.ok = TRUE /\ now = {}
  <2>1. (R \ Engine!Via(gw)) \cup (now \X {gw}) = R \ Engine!Via(gw)
    BY <1>3
  <2>2. Seen(table) = [m EXCEPT !.routes = R \ Engine!Via(gw)]
    BY <1>0, <2>1, OtherRoutes
  <2>3. <<"main", gw>> \in m.routes
    BY <1>0, <1>3
  <2>. QED
    BY <1>2, <1>3, <2>2, <2>3 DEF Engine!OverlayDisable, Engine!Ok
<1>4. CASE call.ok = TRUE /\ Fails("delete") /\ now = found \ {"main"}
  <2>1. (R \ Engine!Via(gw)) \cup (now \X {gw}) = R \ {<<"main", gw>>}
    BY <1>0, <1>4 DEF Half
  <2>2. Seen(table) = [m EXCEPT !.routes = R \ {<<"main", gw>>}]
    BY <1>0, <2>1, OtherRoutes
  <2>3. <<"main", gw>> \in m.routes /\ {"delete"} \cap Faults # {}
    BY <1>0, <1>4 DEF Fails
  <2>. QED
    BY <1>2, <1>4, <2>2, <2>3
    DEF Engine!OverlayDisable, Engine!Ok, Engine!MayFail
<1>5. CASE call.ok = FALSE
  <2>1. (R \ Engine!Via(gw)) \cup (now \X {gw}) = R
    BY <1>0, <1>5
  <2>2. Seen(table) = m
    BY <1>0, <2>1
  <2>3. <<"main", gw>> \notin m.routes \/ {"delete"} \cap Faults # {}
    BY <1>0, <1>5 DEF Fails
  <2>. QED
    BY <1>2, <1>5, <2>2, <2>3
    DEF Engine!OverlayDisable, Engine!Err, Engine!MayFail
<1>. QED
  BY <1>0, <1>3, <1>4, <1>5

(* A cleanup through the unset gateway is none of the tool's overlays.     *)
LEMMA UnsetKeepsContract ==
    ASSUME ROInv, ContractInv, At("return"), call.op = "cleanup",
           call.gw = Unset
    PROVE  [ok |-> call.ok, m |-> Seen(table)] \in Outcomes
<1>. DEFINE m == Seen(call.before)
            R == m.routes
<1>1. /\ Others(table, Unset) = Others(call.before, Unset)
      /\ call.ok = TRUE /\ Unset \notin Gateways
  BY CallFields, RouteOverlayAssumption
  DEF ROInv, ContractInv, TableSound, CleanupFollows, At
<1>2. \A hg \in Half \X Gateways :
         Forwarding(table, hg[2]) = Forwarding(call.before, hg[2])
  BY <1>1 DEF Others, Forwarding
<1>3. Seen(table) = m
  BY <1>2 DEF Seen
<1>4. m = WithRoutes(R) /\ R \cap Engine!Via(Unset) = {}
  BY <1>1 DEF Seen, WithRoutes, Engine!Via
<1>. HIDE DEF m
<1>5. WithRoutes(R \ (Engine!Via(Unset) \ {})) \in Engine!Cleanup(m, Unset)
  BY <1>4, CleanupLeaves
<1>6. R \ (Engine!Via(Unset) \ {}) = R
  BY <1>4
<1>7. m \in Engine!Cleanup(m, Unset)
  BY <1>4, <1>5, <1>6
<1>. QED
  BY <1>1, <1>3, <1>7 DEF Outcomes, Engine!Ok, m

(* What a cleanup has done when it returns.                                *)
LEMMA CleanupKeepsContract ==
    ASSUME ROInv, ContractInv, At("return"), call.op = "cleanup",
           call.gw \in Gateways
    PROVE  [ok |-> call.ok, m |-> Seen(table)] \in Outcomes
<1>. DEFINE m == Seen(call.before)
            gw == call.gw
            R == m.routes
            kept == Halves(table, gw) \X {gw}
<1>0. /\ gw \in Gateways /\ call.ok = TRUE
      /\ Seen(table) = WithRoutes((R \ Engine!Via(gw)) \cup kept)
      /\ m = WithRoutes(R)
      /\ \A h : <<h, gw>> \in R <=> h \in Halves(call.before, gw)
      /\ Halves(table, gw) \subseteq Half /\ Engine!Via(gw) = Half \X {gw}
      /\ Halves(table, gw) \subseteq Halves(call.before, gw)
      /\ Halves(table, gw) = {} \/ MayStay
  BY ReturnFacts, CallFields
  DEF ROInv, ContractInv, CleanupFollows, At
<1>1. kept \in SUBSET Engine!Via(gw) /\ (kept = {} \/ MayStay)
  BY <1>0
<1>2. R \ (Engine!Via(gw) \ kept) = (R \ Engine!Via(gw)) \cup kept
  BY <1>0
<1>. HIDE DEF m, kept
<1>3. Seen(table) \in Engine!Cleanup(m, gw)
  <2>1. WithRoutes(R \ (Engine!Via(gw) \ kept)) \in Engine!Cleanup(m, gw)
    BY <1>0, <1>1, CleanupLeaves
  <2>. QED
    BY <1>0, <1>2, <2>1
<1>. QED
  BY <1>0, <1>3 DEF Outcomes, Engine!Ok, m

-----------------------------------------------------------------------------
(* Which halves SwitchEngine sees through a gateway, on an interface that  *)
(* has all of them.                                                        *)
LEMMA RestKeepsPlaces ==
    ASSUME ROInv, ContractInv, NEW gw \in Gateways, NEW i \in Interfaces,
           OnlyOn(table, gw, i)
    PROVE  InPlace(gw, i) <=>
              /\ IsUp(i)
              /\ \A half \in Half : \E r \in Scanned(gw) :
                    r.dest = half /\ r.valid /\ r.ifc = i
<1>1. LinkOf(i) # "unplugged" <=> IsUp(i)
  BY DEF LinkOf, IsUp
<1>2. Engine!Via(gw) \subseteq Seen(table).routes <=>
         \A half \in Half : half \in Halves(table, gw)
  <2>1. Engine!Via(gw) = Half \X {gw}
    BY DEF Engine!Via, Engine!Half, Half
  <2>2. \A h \in Half : <<h, gw>> \in Seen(table).routes <=>
                           h \in Halves(table, gw)
    <3>1. ASSUME NEW h \in Half
          PROVE  <<h, gw>> \in Seen(table).routes <=> h \in Halves(table, gw)
      <4>1. <<h, gw>>[1] = h /\ <<h, gw>>[2] = gw
        OBVIOUS
      <4>2. <<h, gw>> \in Half \X Gateways
        OBVIOUS
      <4>3. Seen(table).routes =
               {hg \in Half \X Gateways :
                   \E r \in Forwarding(table, hg[2]) : r.dest = hg[1]}
        BY DEF Seen
      <4>. QED
        BY <4>1, <4>2, <4>3 DEF Halves
    <3>. QED
      BY <3>1
  <2>. DEFINE R == Seen(table).routes
  <2>. HIDE DEF R
  <2>3. Half \X {gw} \subseteq R <=> \A h \in Half : <<h, gw>> \in R
    OBVIOUS
  <2>. QED
    BY <2>1, <2>2, <2>3 DEF R
<1>3. \A half \in Half : half \in Halves(table, gw) <=>
         \E r \in Scanned(gw) : r.dest = half /\ r.valid /\ r.ifc = i
  BY DEF ContractInv, TableSound, Ordinary, OnlyOn, Halves, Forwarding,
         Scanned, Via
<1>. QED
  BY <1>1, <1>2, <1>3 DEF InPlace, Engine!OverlayInPlace

(* The calls of the strategy, for any interfaces, gateways and route       *)
(* tables, any system call failing and the process dying at any step, do   *)
(* what SwitchEngine says the strategy does, and between calls is_active   *)
(* and existing_handle_for find what it says they find (enable, disable,   *)
(* cleanup_routes_via, is_active, existing_handle_for), if Windows keeps   *)
(* one row per key and rows to a bypass gateway are the tool's.            *)
THEOREM CallsKeepTheContract ==
    ASSUME TablesOrdinary
    PROVE  Spec => []CallsKeepContract
<1>1. ROInv /\ ContractInv => CallsKeepContract
  <2>. SUFFICES ASSUME ROInv, ContractInv PROVE CallsKeepContract
    OBVIOUS
  <2>1. ASSUME At("return")
        PROVE  \/ [ok |-> call.ok, m |-> Seen(table)] \in Outcomes
               \/ call.op = "disable" /\ ~Covers(call.held, call.before)
    <3>1. /\ call.op \in {"enable", "disable", "cleanup"}
          /\ call.gw \in Gateways \cup {Unset}
      BY <2>1 DEF ContractInv, TableSound, At
    <3>. QED
      BY <2>1, <3>1, EnableKeepsContract, DisableKeepsContract,
         CleanupKeepsContract, UnsetKeepsContract
  <2>2. ASSUME At("rest"), handle # None, Covers(handle, table)
        PROVE  Active(handle) <=> InPlace(handle.gw, handle.ifc)
    <3>1. /\ handle.gw \in Gateways /\ handle.ifc \in Interfaces
          /\ OnlyOn(table, handle.gw, handle.ifc)
      BY <2>2 DEF ROInv, ROTypeOK, HandleState, Covers
    <3>. QED
      BY <3>1, RestKeepsPlaces DEF Active
  <2>3. ASSUME NEW gw \in Gateways, NEW i \in Interfaces,
               OnlyOn(table, gw, i)
        PROVE  ExistingHandles(gw) # {} <=> InPlace(gw, i)
    <3>1. \A r \in Scanned(gw) : r.dest \in Half /\ r.valid => r.ifc = i
      BY <2>3 DEF ContractInv, TableSound, Ordinary, OnlyOn, Forwarding,
                  Scanned, Via
    <3>. DEFINE Live(half) ==
                   {r \in Scanned(gw) :
                       r.dest = half /\ r.valid /\ IsUp(r.ifc)}
    <3>2. ExistingHandles(gw) =
             {[gw |-> gw, ifc |-> m.ifc, extra |-> e.ifc] :
                 m \in Live("main"), e \in Live("extra")}
      BY DEF ExistingHandles
    <3>3. ExistingHandles(gw) # {} <=> Live("main") # {} /\ Live("extra") # {}
      <4>. HIDE DEF Live
      <4>1. ASSUME NEW m \in Live("main"), NEW e \in Live("extra")
            PROVE  ExistingHandles(gw) # {}
        <5>1. [gw |-> gw, ifc |-> m.ifc, extra |-> e.ifc] \in
                 ExistingHandles(gw)
          BY <3>2
        <5>. QED
          BY <5>1
      <4>2. ASSUME NEW h \in ExistingHandles(gw)
            PROVE  Live("main") # {} /\ Live("extra") # {}
        BY <3>2
      <4>. QED
        BY <4>1, <4>2
    <3>. QED
      BY <2>3, <3>1, <3>3, RestKeepsPlaces DEF Half
  <2>. QED
    BY <2>1, <2>2, <2>3 DEF CallsKeepContract
<1>2. Init => ContractInv
  BY InitHasContract
<1>. QED
  BY <1>1, <1>2, ContractStep, ROInvHolds, PTL DEF Spec
=============================================================================

--------------------------- MODULE AdapterReconfig ---------------------------
(***************************************************************************)
(* The adapter strategy on one adapter, netsh command by netsh command: the *)
(* backup the controller takes before an enable, the commands enable and   *)
(* disable run for it and for the health monitor, and what is left of the  *)
(* adapter's own configuration.  What SwitchEngine calls Direct is here    *)
(* the configuration itself.                                               *)
(***************************************************************************)
EXTENDS Naturals, SequencesExt

CONSTANTS
    Originals,   \* configurations the adapter may have had before the tool
    Targets,     \* BypassTarget values for this adapter
    Leases,      \* what the network's DHCP server hands out
    Failing,     \* the operations during which a netsh command may fail
    Nothing

(* A host address is <<network, host>>: the subnet test of enable compares *)
(* networks.  A prefix length stands for the mask mask_from_prefix makes.  *)
SameSubnet(ip, gw) == ip[1] = gw[1]
DefaultPrefix == 24

(* What a snapshot may hold: the adapter's own values, or leased ones.      *)
Snapshots ==
    [dhcp : BOOLEAN, ips : {x.ips : x \in Originals \cup Leases},
     gws : {x.gws : x \in Originals \cup Leases},
     dns : {x.dns : x \in Originals \cup Leases}]

ASSUME AdapterAssumption ==
    /\ Originals # {} /\ Targets # {} /\ Leases # {}
    /\ Failing \subseteq {"enable", "disable", "fallback", "reenable"}
    /\ \A t \in Targets : t.dns \in Seq(Range(t.dns))
    /\ Nothing \notin Snapshots

VARIABLES
    adapter,     \* the adapter's IPv4 configuration
    snap,        \* adapter_snapshot.json
    todo,        \* netsh commands still to run
    doing,       \* the operation they belong to
    bypass,      \* "on" with a handle; "fallen" and "off" without
    target,      \* what the health loop re-enables
    wanted,      \* what the last enable asked for
    original,    \* the configuration the user had (not in the code)
    unbacked     \* re-enabled without a snapshot (not in the code)

arVars == <<adapter, snap, todo, doing, bypass, target, wanted, original,
            unbacked>>

-----------------------------------------------------------------------------
(* netsh and the adapter, external.  `autoDns': servers come from DHCP.    *)
Leased(a, l) == [a EXCEPT !.ips = l.ips, !.gws = l.gws,
                          !.dns = IF a.autoDns THEN l.dns ELSE @]

SetAddress(ip, prefix, gw) ==
    [cmd |-> "address", ip |-> ip, prefix |-> prefix, gw |-> gw]
SetAddressDhcp == [cmd |-> "address dhcp"]
SetFirstDns(d) == [cmd |-> "dns", server |-> d]
AddDns(d) == [cmd |-> "add dns index=2", server |-> d]
SetDnsDhcp == [cmd |-> "dns dhcp"]

(* A disconnected adapter may ignore the switch from DHCP.                 *)
Effects(a, c) ==
    CASE c.cmd = "address" ->
           {[a EXCEPT !.dhcp = FALSE,
                      !.ips = <<[ip |-> c.ip, prefix |-> c.prefix]>>,
                      !.gws = <<c.gw>>,
                      !.dns = IF a.autoDns THEN <<>> ELSE @]}
           \cup {x \in {a} : x.dhcp /\ ~x.up}
      [] c.cmd = "address dhcp" ->
           {Leased([a EXCEPT !.dhcp = TRUE], l) : l \in Leases}
      [] c.cmd = "dns" ->
           {[a EXCEPT !.autoDns = FALSE, !.dns = <<c.server>>]}
      [] c.cmd = "add dns index=2" ->
           {[a EXCEPT !.dns = InsertAt(@, 2, c.server)]}
      [] c.cmd = "dns dhcp" ->
           {[a EXCEPT !.autoDns = TRUE, !.dns = IF a.dhcp THEN l.dns ELSE <<>>]
              : l \in Leases}

(* What the adapter may be after all the commands of cs.                   *)
After(a, cs) ==
    LET after[n \in 0..Len(cs)] ==
          IF n = 0 THEN {a} ELSE UNION {Effects(b, cs[n]) : b \in after[n - 1]}
    IN after[Len(cs)]

(* The same configuration, up to what a DHCP lease decides.                *)
Same(a, b) ==
    /\ a.dhcp = b.dhcp /\ a.autoDns = b.autoDns
    /\ ~a.dhcp => a.ips = b.ips /\ a.gws = b.gws
    /\ ~a.autoDns => a.dns = b.dns

-----------------------------------------------------------------------------
(* set_dns                                                                 *)
SetDns(dns) ==
    IF dns = <<>> THEN <<>>
    ELSE <<SetFirstDns(Head(dns))>>
         \o [i \in 1..(Len(dns) - 1) |-> AddDns(dns[i + 1])]

(* Mutant: the backup is taken for a static one.                           *)
BackupForgetsDhcp(a) ==
    [dhcp |-> FALSE, ips |-> a.ips, gws |-> a.gws, dns |-> a.dns]

(* backup_adapter                                                          *)
BackupOf(a) ==
    [dhcp |-> a.dhcp, ips |-> a.ips, gws |-> a.gws, dns |-> a.dns]

EnsureDhcp(a) == IF a.dhcp THEN <<>> ELSE <<SetAddressDhcp>>

(* Mutant: a snapshot without address or gateway restores nothing.         *)
RestoreComplete(s, a) ==
    IF s.dhcp THEN EnsureDhcp(a) \o <<SetDnsDhcp>>
    ELSE IF s.ips = <<>> \/ s.gws = <<>> THEN <<>>
    ELSE <<SetAddress(Head(s.ips).ip, Head(s.ips).prefix, Head(s.gws))>>
         \o (IF s.dns = <<>> THEN <<SetDnsDhcp>> ELSE SetDns(s.dns))

(* restore_adapter: a snapshot without address or gateway restores DHCP.   *)
RestoreCommands(s, a) ==
    IF s.dhcp \/ s.ips = <<>> \/ s.gws = <<>>
    THEN EnsureDhcp(a) \o <<SetDnsDhcp>>
    ELSE <<SetAddress(Head(s.ips).ip, Head(s.ips).prefix, Head(s.gws))>>
         \o (IF s.dns = <<>> THEN <<SetDnsDhcp>> ELSE SetDns(s.dns))

(* enable: the configured static address, or the adapter's own.            *)
EnableAddress(t, a) == IF t.ip # Nothing THEN t.ip ELSE Head(a.ips).ip

CanEnable(t, a) ==
    /\ a.up
    /\ t.ip # Nothing \/ a.ips # <<>>
    /\ SameSubnet(EnableAddress(t, a), t.gw)

EnableCommands(t, a) ==
    <<SetAddress(EnableAddress(t, a),
                 IF t.prefix = Nothing THEN DefaultPrefix ELSE t.prefix, t.gw)>>
    \o SetDns(IF t.dns = <<>> THEN <<t.gw>> ELSE t.dns)

(* is_active                                                               *)
Active == adapter.up /\ \E i \in DOMAIN adapter.gws : adapter.gws[i] = target.gw

-----------------------------------------------------------------------------
Idle == doing = "nothing"

(* Controller.enable: backup, save, strategy.enable.  A bypass that is on  *)
(* is disabled first; one that has fallen back has no handle, and its loop *)
(* goes on if the enable fails.                                            *)
Enable(t) ==
    /\ Idle /\ bypass # "on"
    /\ wanted' = t
    /\ IF CanEnable(t, adapter)
       THEN /\ snap' = BackupOf(adapter)
            /\ todo' = EnableCommands(t, adapter)
            /\ doing' = "enable"
       ELSE snap' = Nothing /\ UNCHANGED <<todo, doing>>
    /\ UNCHANGED <<adapter, bypass, target, original, unbacked>>

(* health_monitor's reenable, of a bypass that is lost or was given up: no *)
(* backup is taken, and a fallback has used the one there was.             *)
Reenable ==
    /\ Idle
    /\ bypass = "fallen" \/ (bypass = "on" /\ ~Active)
    /\ CanEnable(target, adapter)
    /\ todo' = EnableCommands(target, adapter)
    /\ doing' = "reenable"
    /\ unbacked' = (unbacked \/ snap = Nothing)
    /\ UNCHANGED <<adapter, snap, bypass, target, wanted, original>>

(* The strategy's disable; without a snapshot the adapter stays as it is.  *)
Undo == IF snap = Nothing THEN <<>> ELSE RestoreCommands(snap, adapter)

(* Controller.disable; after a fallback there is no handle to disable.     *)
Disable ==
    /\ Idle /\ bypass # "off"
    /\ bypass' = "off"
    /\ IF bypass = "on" THEN todo' = Undo /\ doing' = "disable"
                         ELSE UNCHANGED <<todo, doing>>
    /\ UNCHANGED <<adapter, snap, target, wanted, original, unbacked>>

(* health_monitor's fallback, which gives up the handle in any case.       *)
Fallback ==
    /\ Idle /\ bypass = "on"
    /\ todo' = Undo
    /\ doing' = "fallback" /\ bypass' = "fallen"
    /\ UNCHANGED <<adapter, snap, target, wanted, original, unbacked>>

RunNetsh ==
    /\ todo # <<>>
    /\ adapter' \in Effects(adapter, Head(todo))
    /\ todo' = Tail(todo)
    /\ UNCHANGED <<snap, doing, bypass, target, wanted, original, unbacked>>

(* Mutant: the snapshot goes although the restore failed.                  *)
SnapshotAfterAlways == Nothing

(* What becomes of the snapshot when a command of the operation fails.     *)
SnapshotAfterFailure == IF doing = "enable" THEN Nothing ELSE snap

NetshFails ==
    /\ todo # <<>> /\ doing \in Failing
    /\ todo' = <<>> /\ doing' = "nothing"
    /\ snap' = SnapshotAfterFailure
    /\ UNCHANGED <<adapter, bypass, target, wanted, original, unbacked>>

Finish ==
    /\ ~Idle /\ todo = <<>>
    /\ doing' = "nothing"
    /\ IF doing \in {"disable", "fallback"}
       THEN snap' = Nothing /\ UNCHANGED <<bypass, target>>
       ELSE /\ bypass' = "on" /\ UNCHANGED snap
            /\ target' = IF doing = "enable" THEN wanted ELSE target
    /\ UNCHANGED <<adapter, todo, wanted, original, unbacked>>

(* The world: leases are renewed, the user edits the adapter, the cable    *)
(* comes and goes.                                                         *)
LeaseRenewed ==
    /\ adapter.dhcp /\ adapter.up
    /\ \E l \in Leases : adapter' = Leased(adapter, l)
    /\ UNCHANGED <<snap, todo, doing, bypass, target, wanted, original,
                   unbacked>>

UserEdits ==
    /\ Idle /\ bypass = "on"
    /\ \E l \in Leases : adapter' = [adapter EXCEPT !.gws = l.gws]
    /\ UNCHANGED <<snap, todo, doing, bypass, target, wanted, original,
                   unbacked>>

CableMoves ==
    /\ adapter' = [adapter EXCEPT !.up = ~@]
    /\ UNCHANGED <<snap, todo, doing, bypass, target, wanted, original,
                   unbacked>>

ARInit ==
    /\ original \in Originals
    /\ adapter = original
    /\ snap = Nothing
    /\ todo = <<>> /\ doing = "nothing" /\ bypass = "off"
    /\ target \in Targets /\ wanted = target
    /\ unbacked = FALSE

ARNext ==
    \/ \E t \in Targets : Enable(t)
    \/ Reenable \/ Disable \/ Fallback \/ RunNetsh \/ NetshFails \/ Finish
    \/ LeaseRenewed \/ UserEdits \/ CableMoves

ARSpec == ARInit /\ [][ARNext]_arVars

-----------------------------------------------------------------------------
(* What the snapshot keeps of an adapter and restore_adapter gives back:   *)
(* DHCP with the servers it brings, or a static configuration with one     *)
(* address, one gateway and at most two servers.                           *)
Single(s) == s # <<>> /\ s = <<Head(s)>>

Restorable(o) ==
    IF o.dhcp THEN o.autoDns
    ELSE /\ Single(o.ips) /\ Single(o.gws)
         /\ o.autoDns <=> o.dns = <<>>
         /\ o.dns = <<>> \/ Single(o.dns) \/ o.dns = <<o.dns[1], o.dns[2]>>

(* What the snapshot promises, it promises to a bypass that was enabled by *)
(* the controller.                                                         *)
Backed == Restorable(original) /\ ~unbacked

(* A disable or a fallback gives back the configuration the user had,      *)
(* after any number of cycles (adapter_reconfig.rs, restore_adapter),      *)
(* unless the loop has re-enabled a bypass that had fallen back: that one  *)
(* has no snapshot (health_monitor.rs, reenable).                          *)
RestoredCompletely ==
    Backed /\ Idle /\ bypass # "on" => Same(adapter, original)

(* Whatever is done to the adapter, the snapshot on disk can undo it, also *)
(* between two netsh commands: while the adapter is not the user's own,    *)
(* the restore commands for the snapshot lead back.  Unless, again, the    *)
(* loop has re-enabled without one.                                        *)
UndoIsPossible ==
    Backed /\ ~Same(adapter, original) =>
        /\ snap # Nothing
        /\ \A a \in After(adapter, RestoreCommands(snap, adapter)) :
              Same(a, original)

(* An adapter the snapshot cannot describe is not given back as it was,    *)
(* but it does leave the bypass: no gateway of a target stays on it        *)
(* (adapter_reconfig.rs, restore_adapter: an incomplete snapshot restores  *)
(* DHCP rather than leave the adapter on the bypass for ever).             *)
BypassLeavesAdapter ==
    ~unbacked /\ Idle /\ bypass # "on" =>
        \A i \in DOMAIN adapter.gws : \A t \in Targets :
            adapter.gws[i] # t.gw
=============================================================================

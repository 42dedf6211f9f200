-------------------------- MODULE MCAdapterReconfig --------------------------
(***************************************************************************)
(* Instances of AdapterReconfig for TLC: kinds of adapter configurations.  *)
(***************************************************************************)
EXTENDS AdapterReconfig

Net(h) == <<"lan", h>>
At24(h) == [ip |-> Net(h), prefix |-> 24]

Conf(dhcp, ips, gws, dns, autoDns) ==
    [dhcp |-> dhcp, ips |-> ips, gws |-> gws, dns |-> dns,
     autoDns |-> autoDns, up |-> TRUE]

TwoLeases == {[ips |-> <<At24(h)>>, gws |-> <<Net(1)>>, dns |-> <<Net(1)>>]
                : h \in {20, 21}}

Dhcp == Conf(TRUE, <<At24(20)>>, <<Net(1)>>, <<Net(1)>>, TRUE)
Static(prefix, dns) ==
    Conf(FALSE, <<[ip |-> Net(9), prefix |-> prefix]>>, <<Net(1)>>, dns,
         dns = <<>>)

Ordinary == {Dhcp, Static(24, <<>>), Static(16, <<Net(1)>>),
             Static(24, <<Net(1), Net(2)>>)}
(* Adapters outside what the snapshot can restore.                         *)
ThreeServers == {Static(24, <<Net(1), Net(2), Net(3)>>)}
NoGateway == {[Static(24, <<>>) EXCEPT !.gws = <<>>]}
DhcpOwnServers == {[Dhcp EXCEPT !.autoDns = FALSE, !.dns = <<Net(2)>>]}
TwoAddresses == {[Static(24, <<>>) EXCEPT !.ips = <<At24(9), At24(10)>>]}

AllKinds == Ordinary \cup ThreeServers \cup NoGateway \cup DhcpOwnServers
                     \cup TwoAddresses

ASSUME /\ \A o \in Ordinary : Restorable(o)
       /\ \A o \in ThreeServers \cup NoGateway \cup DhcpOwnServers
                    \cup TwoAddresses : ~Restorable(o)

BypassTargets ==
    {[gw |-> Net(254), dns |-> d, prefix |-> p, ip |-> i] :
        d \in {<<>>, <<Net(8), Net(7)>>}, p \in {Nothing, 16},
        i \in {Nothing, Net(50)}}
=============================================================================

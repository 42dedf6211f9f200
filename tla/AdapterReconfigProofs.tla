------------------------ MODULE AdapterReconfigProofs ------------------------
(***************************************************************************)
(* Theorems about the adapter strategy: an adapter that the snapshot can   *)
(* describe comes back, and can be brought back between any two netsh      *)
(* commands, as long as the health loop has not re-enabled without one.    *)
(* Adapters, targets, leases and the number of cycles, fallbacks, edits    *)
(* and failed re-enables are unbounded.                                    *)
(***************************************************************************)
EXTENDS AdapterReconfig, SequenceTheorems, TLAPS

(* The fields of an adapter.                                               *)
Shaped(a) ==
    /\ a = [dhcp |-> a.dhcp, ips |-> a.ips, gws |-> a.gws, dns |-> a.dns,
            autoDns |-> a.autoDns, up |-> a.up]
    /\ a.dhcp \in BOOLEAN /\ a.autoDns \in BOOLEAN /\ a.up \in BOOLEAN

(* Adapters as the tool can restore them.                                  *)
OrdinaryAdapter(o) ==
    /\ o \in Originals /\ Shaped(o) /\ Restorable(o)
    /\ LET h == Head(o.ips)
       IN ~o.dhcp => h = [ip |-> h.ip, prefix |-> h.prefix]

(* The originals have the fields of an adapter; only a re-enable fails.    *)
AdaptersShaped ==
    /\ \A o \in Originals :
          /\ Shaped(o)
          /\ LET h == Head(o.ips)
             IN ~o.dhcp /\ o.ips # <<>> => h = [ip |-> h.ip,
                                               prefix |-> h.prefix]
    /\ Failing \subseteq {"reenable"}

(* What DHCP has set comes from a lease, or was there before.              *)
LeaseKnown(a) ==
    a.dhcp => /\ a.ips \in {x.ips : x \in Originals \cup Leases}
              /\ a.gws \in {x.gws : x \in Originals \cup Leases}

(* The adapter is the user's own again, and a backup of it as good as the  *)
(* first.                                                                  *)
Own(o, a) ==
    /\ Same(a, o)
    /\ ~o.dhcp => a.dns = o.dns
    /\ a.dns \in {x.dns : x \in Originals \cup Leases}

(* A snapshot of the user's own adapter.                                   *)
Kept(o, s) ==
    /\ s \in Snapshots
    /\ s.dhcp = o.dhcp
    /\ ~o.dhcp => s.ips = o.ips /\ s.gws = o.gws /\ s.dns = o.dns

(* The address command of the restore, and the adapter after it.           *)
OwnAddress(o) == SetAddress(Head(o.ips).ip, Head(o.ips).prefix, Head(o.gws))
Addressed(o, a) == a.dhcp = FALSE /\ a.ips = o.ips /\ a.gws = o.gws

(* What a restore has still to run, and what it has done.                  *)
LeftOfDhcp(o, a, q) ==
    /\ o.dhcp
    /\ \/ q = <<SetAddressDhcp, SetDnsDhcp>>
       \/ q = <<SetDnsDhcp>> /\ a.dhcp = TRUE

LeftOfStatic(o, a, q) ==
    /\ ~o.dhcp /\ a.dhcp = FALSE
    /\ \/ /\ o.dns = <<>>
          /\ \/ q = <<OwnAddress(o), SetDnsDhcp>>
             \/ q = <<SetDnsDhcp>> /\ Addressed(o, a)
       \/ /\ Single(o.dns)
          /\ \/ q = <<OwnAddress(o), SetFirstDns(Head(o.dns))>>
             \/ q = <<SetFirstDns(Head(o.dns))>> /\ Addressed(o, a)
       \/ /\ o.dns = <<o.dns[1], o.dns[2]>>
          /\ \/ q = <<OwnAddress(o), SetFirstDns(o.dns[1]),
                      AddDns(o.dns[2])>>
             \/ /\ q = <<SetFirstDns(o.dns[1]), AddDns(o.dns[2])>>
                /\ Addressed(o, a)
             \/ /\ q = <<AddDns(o.dns[2])>> /\ Addressed(o, a)
                /\ a.autoDns = FALSE /\ a.dns = <<o.dns[1]>>

LeftToRestore(o, a, q) ==
    \/ q = <<>> /\ Own(o, a)
    \/ LeftOfDhcp(o, a, q)
    \/ LeftOfStatic(o, a, q)

-----------------------------------------------------------------------------
(* What each netsh command does to an adapter.                             *)
LEMMA AddressEffect ==
    ASSUME NEW a, Shaped(a), NEW c, c.cmd = "address", NEW b \in Effects(a, c)
    PROVE  \/ b = a /\ a.dhcp = TRUE
           \/ /\ Shaped(b) /\ b.dhcp = FALSE
              /\ b.ips = <<[ip |-> c.ip, prefix |-> c.prefix]>>
              /\ b.gws = <<c.gw>>
              /\ b.autoDns = a.autoDns
<1>1. \/ b = [a EXCEPT !.dhcp = FALSE,
                       !.ips = <<[ip |-> c.ip, prefix |-> c.prefix]>>,
                       !.gws = <<c.gw>>,
                       !.dns = IF a.autoDns THEN <<>> ELSE a.dns]
      \/ b = a /\ a.dhcp
  BY DEF Effects
<1>2. CASE b = a /\ a.dhcp
  BY <1>2 DEF Shaped
<1>3. CASE b = [a EXCEPT !.dhcp = FALSE,
                         !.ips = <<[ip |-> c.ip, prefix |-> c.prefix]>>,
                         !.gws = <<c.gw>>,
                         !.dns = IF a.autoDns THEN <<>> ELSE a.dns]
  BY <1>3 DEF Shaped
<1>. QED
  BY <1>1, <1>2, <1>3

(* DHCP takes address and gateway from a lease.                            *)
LEMMA AddressDhcpEffect ==
    ASSUME NEW a, Shaped(a), NEW c, c.cmd = "address dhcp",
           NEW b \in Effects(a, c)
    PROVE  Shaped(b) /\ b.dhcp = TRUE /\ LeaseKnown(b)
<1>1. PICK l \in Leases : b = Leased([a EXCEPT !.dhcp = TRUE], l)
  BY DEF Effects
<1>2. b = [dhcp |-> TRUE, ips |-> l.ips, gws |-> l.gws,
           dns |-> IF a.autoDns THEN l.dns ELSE a.dns,
           autoDns |-> a.autoDns, up |-> a.up]
  BY <1>1 DEF Leased, Shaped
<1>. QED
  BY <1>2 DEF LeaseKnown, Shaped

(* The first server replaces the ones there were.                          *)
LEMMA FirstDnsEffect ==
    ASSUME NEW a, Shaped(a), NEW c, c.cmd = "dns", NEW b \in Effects(a, c)
    PROVE  /\ Shaped(b) /\ b.autoDns = FALSE /\ b.dns = <<c.server>>
           /\ b.dhcp = a.dhcp /\ b.ips = a.ips /\ b.gws = a.gws
<1>1. b = [a EXCEPT !.autoDns = FALSE, !.dns = <<c.server>>]
  BY DEF Effects
<1>. QED
  BY <1>1 DEF Shaped

(* A further server is inserted second.                                    *)
LEMMA AddDnsEffect ==
    ASSUME NEW a, Shaped(a), NEW c, c.cmd = "add dns index=2",
           NEW b \in Effects(a, c)
    PROVE  /\ Shaped(b) /\ b.dns = InsertAt(a.dns, 2, c.server)
           /\ b.autoDns = a.autoDns
           /\ b.dhcp = a.dhcp /\ b.ips = a.ips /\ b.gws = a.gws
<1>1. b = [a EXCEPT !.dns = InsertAt(a.dns, 2, c.server)]
  BY DEF Effects
<1>. QED
  BY <1>1 DEF Shaped

(* Servers from DHCP again.                                                *)
LEMMA DnsDhcpEffect ==
    ASSUME NEW a, Shaped(a), NEW c, c.cmd = "dns dhcp", NEW b \in Effects(a, c)
    PROVE  /\ Shaped(b) /\ b.autoDns = TRUE
           /\ b.dhcp = a.dhcp /\ b.ips = a.ips /\ b.gws = a.gws
           /\ a.dhcp = TRUE => b.dns \in {x.dns : x \in Leases}
<1>1. PICK l \in Leases : b = [a EXCEPT !.autoDns = TRUE,
                                !.dns = IF a.dhcp THEN l.dns ELSE <<>>]
  BY DEF Effects
<1>2. b = [dhcp |-> a.dhcp, ips |-> a.ips, gws |-> a.gws,
           dns |-> IF a.dhcp THEN l.dns ELSE <<>>,
           autoDns |-> TRUE, up |-> a.up]
  BY <1>1 DEF Shaped
<1>. QED
  BY <1>2 DEF Shaped

(* Without DHCP there are no servers to take.                              *)
LEMMA DnsDhcpStatic ==
    ASSUME NEW a, Shaped(a), a.dhcp = FALSE,
           NEW c, c.cmd = "dns dhcp", NEW b \in Effects(a, c)
    PROVE  /\ b.autoDns = TRUE /\ b.dns = <<>>
           /\ b.dhcp = a.dhcp /\ b.ips = a.ips /\ b.gws = a.gws
<1>1. PICK l \in Leases : b = [a EXCEPT !.autoDns = TRUE,
                                !.dns = IF a.dhcp THEN l.dns ELSE <<>>]
  BY DEF Effects
<1>2. b = [dhcp |-> a.dhcp, ips |-> a.ips, gws |-> a.gws, dns |-> <<>>,
           autoDns |-> TRUE, up |-> a.up]
  BY <1>1 DEF Shaped
<1>. QED
  BY <1>2

(* Short sequences.                                                        *)
LEMMA ConcatPair == ASSUME NEW x, NEW y PROVE <<x>> \o <<y>> = <<x, y>>
<1>. DEFINE S == {x, y}
            s == <<x>>
            t == <<y>>
            u == <<x, y>>
<1>1. s \in Seq(S) /\ t \in Seq(S) /\ u \in Seq(S)
  OBVIOUS
<1>2. Len(s) = 1 /\ s[1] = x /\ Len(t) = 1 /\ t[1] = y
  OBVIOUS
<1>3. Len(u) = 2 /\ u[1] = x /\ u[2] = y
  OBVIOUS
<1>. HIDE DEF S, s, t, u
<1>4. s \o t = u
  <2>1. /\ s \o t \in Seq(S) /\ Len(s \o t) = 2
        /\ \A i \in 1..2 : (s \o t)[i] = u[i]
    BY <1>1, <1>2, <1>3, ConcatProperties
  <2>. QED
    BY <1>1, <1>3, <2>1, SeqEqual
<1>. QED
  BY <1>4 DEF s, t, u

(* One command in front of two.                                            *)
LEMMA ConcatTriple ==
    ASSUME NEW x, NEW y, NEW z PROVE <<x>> \o <<y, z>> = <<x, y, z>>
<1>. DEFINE S == {x, y, z}
            s == <<x>>
            t == <<y, z>>
            u == <<x, y, z>>
<1>1. s \in Seq(S) /\ t \in Seq(S) /\ u \in Seq(S)
  OBVIOUS
<1>2. Len(s) = 1 /\ s[1] = x /\ Len(t) = 2 /\ t[1] = y /\ t[2] = z
  OBVIOUS
<1>3. Len(u) = 3 /\ u[1] = x /\ u[2] = y /\ u[3] = z
  OBVIOUS
<1>. HIDE DEF S, s, t, u
<1>4. s \o t = u
  <2>1. /\ s \o t \in Seq(S) /\ Len(s \o t) = 3
        /\ \A i \in 1..3 : (s \o t)[i] = u[i]
    <3>0. /\ s \o t \in Seq(S) /\ Len(s \o t) = Len(s) + Len(t)
          /\ \A i \in 1..(Len(s) + Len(t)) :
                (s \o t)[i] = IF i <= Len(s) THEN s[i] ELSE t[i - Len(s)]
      BY <1>1, ConcatProperties
    <3>1. /\ s \o t \in Seq(S) /\ Len(s \o t) = 3
          /\ \A i \in 1..3 :
                (s \o t)[i] = IF i <= 1 THEN s[i] ELSE t[i - 1]
      BY <1>2, <3>0
    <3>2. (s \o t)[1] = x /\ (s \o t)[2] = y /\ (s \o t)[3] = z
      BY <1>2, <3>1
    <3>. QED
      BY <1>3, <3>1, <3>2
  <2>. QED
    BY <1>1, <1>3, <2>1, SeqEqual
<1>. QED
  BY <1>4 DEF s, t, u

(* The second server is inserted behind the first.                         *)
LEMMA SecondServer ==
    ASSUME NEW x, NEW y PROVE InsertAt(<<x>>, 2, y) = <<x, y>>
<1>. DEFINE s == <<x>>
<1>1. s \in Seq({x}) /\ Len(s) = 1
  OBVIOUS
<1>2. SubSeq(s, 1, Len(s)) = s
  BY <1>1, SubSeqFull
<1>3. SubSeq(s, 2, 1) = <<>>
  BY SubSeqEmpty
<1>4. s \o <<y>> = <<x, y>>
  BY ConcatPair
<1>5. <<x, y>> \o <<>> = <<x, y>>
  <2>1. <<x, y>> \in Seq({x, y})
    OBVIOUS
  <2>. QED
    BY <2>1, ConcatEmptySeq
<1>. HIDE DEF s
<1>6. InsertAt(s, 2, y) = (s \o <<y>>) \o <<>>
  <2>1. InsertAt(s, 2, y)
          = SubSeq(s, 1, 2 - 1) \o <<y>> \o SubSeq(s, 2, Len(s))
    BY Zenon DEF InsertAt
  <2>2. 2 - 1 = Len(s) /\ Len(s) = 1
    BY <1>1
  <2>. QED
    BY <1>2, <1>3, <2>1, <2>2
<1>7. InsertAt(s, 2, y) = <<x, y>>
  BY <1>4, <1>5, <1>6
<1>. QED
  BY <1>7 DEF s

(* set_dns for one and for two servers.                                    *)
LEMMA OneServer == ASSUME NEW d PROVE SetDns(<<d>>) = <<SetFirstDns(d)>>
<1>. DEFINE s == <<d>>
<1>1. Len(s) - 1 = 0 /\ Head(s) = d /\ s # <<>>
  OBVIOUS
<1>. HIDE DEF s
<1>2. [i \in 1..0 |-> AddDns(s[i + 1])] = <<>>
  OBVIOUS
<1>3. <<SetFirstDns(d)>> \o <<>> = <<SetFirstDns(d)>>
  OBVIOUS
<1>4. SetDns(s) = <<SetFirstDns(d)>>
  BY <1>1, <1>2, <1>3 DEF SetDns
<1>. QED
  BY <1>4 DEF s

(* The second server follows.                                              *)
LEMMA TwoServers ==
    ASSUME NEW d, NEW e PROVE SetDns(<<d, e>>) = <<SetFirstDns(d), AddDns(e)>>
<1>. DEFINE s == <<d, e>>
<1>1. Len(s) - 1 = 1 /\ Head(s) = d /\ s # <<>> /\ s[2] = e
  OBVIOUS
<1>. HIDE DEF s
<1>2. [i \in 1..1 |-> AddDns(s[i + 1])] = <<AddDns(s[2])>>
  OBVIOUS
<1>3. <<SetFirstDns(d)>> \o <<AddDns(e)>> = <<SetFirstDns(d), AddDns(e)>>
  BY ConcatPair
<1>4. SetDns(s) = <<SetFirstDns(d), AddDns(e)>>
  BY <1>1, <1>2, <1>3 DEF SetDns
<1>. QED
  BY <1>4 DEF s
(* The commands there are.                                                 *)
Names == {"address", "address dhcp", "dns", "add dns index=2", "dns dhcp"}
Runnable(q) == q \in Seq(Range(q)) /\ \A c \in Range(q) : c.cmd \in Names

(* Those of an enable leave a static adapter static.                       *)
EnableNames == {"address", "dns", "add dns index=2"}
Setting(q) ==
    q \in Seq(Range(q)) /\ \A c \in Range(q) : c.cmd \in EnableNames

(* The commands of an enable are commands, and leave static what is.       *)
LEMMA SettingRuns == ASSUME NEW q, Setting(q) PROVE Runnable(q)
BY DEF Setting, Runnable, EnableNames, Names

(* One of them on a static adapter.                                        *)
LEMMA SettingKeepsStatic ==
    ASSUME NEW a, Shaped(a), a.dhcp = FALSE, NEW c, c.cmd \in EnableNames,
           NEW b \in Effects(a, c)
    PROVE  b.dhcp = FALSE
<1>1. CASE c.cmd = "address"
  BY <1>1, AddressEffect
<1>2. CASE c.cmd = "dns"
  BY <1>2, FirstDnsEffect
<1>3. CASE c.cmd = "add dns index=2"
  BY <1>3, AddDnsEffect
<1>. QED
  BY <1>1, <1>2, <1>3 DEF EnableNames

(* Whatever a command does, the adapter stays an adapter.                  *)
LEMMA CommandKeepsShape ==
    ASSUME NEW a, Shaped(a), LeaseKnown(a), NEW c, c.cmd \in Names,
           NEW b \in Effects(a, c)
    PROVE  Shaped(b) /\ LeaseKnown(b)
<1>1. CASE c.cmd = "address"
  BY <1>1, AddressEffect DEF LeaseKnown
<1>2. CASE c.cmd = "address dhcp"
  BY <1>2, AddressDhcpEffect
<1>3. ASSUME c.cmd \in {"dns", "add dns index=2", "dns dhcp"}
      PROVE  Shaped(b) /\ LeaseKnown(b)
  <2>1. Shaped(b) /\ b.dhcp = a.dhcp /\ b.ips = a.ips /\ b.gws = a.gws
    <3>1. CASE c.cmd = "dns"
      BY <3>1, FirstDnsEffect
    <3>2. CASE c.cmd = "add dns index=2"
      BY <3>2, AddDnsEffect
    <3>3. CASE c.cmd = "dns dhcp"
      BY <3>3, DnsDhcpEffect
    <3>. QED
      BY <1>3, <3>1, <3>2, <3>3
  <2>. QED
    BY <2>1 DEF LeaseKnown
<1>. QED
  BY <1>1, <1>2, <1>3 DEF Names

-----------------------------------------------------------------------------
(* Sequences of commands.                                                  *)
LEMMA RunnableSeq ==
    ASSUME NEW S, NEW q \in Seq(S), \A c \in S : c.cmd \in Names
    PROVE  Runnable(q)
BY DEF Runnable, Range

(* What is left after the first command can be run too.                    *)
LEMMA RunnableTail ==
    ASSUME NEW q, Runnable(q), q # <<>>
    PROVE  Head(q).cmd \in Names /\ Runnable(Tail(q))
BY HeadTailProperties, RunnableSeq DEF Runnable

(* After the first command of an enable the rest is of the same kind.      *)
LEMMA SettingTail ==
    ASSUME NEW q, Setting(q), q # <<>>
    PROVE  Head(q).cmd \in EnableNames /\ Setting(Tail(q))
<1>1. ASSUME NEW S, NEW r \in Seq(S), \A c \in S : c.cmd \in EnableNames
      PROVE  Setting(r)
  BY <1>1 DEF Setting, Range
<1>. QED
  BY <1>1, HeadTailProperties DEF Setting

(* The commands of an enable can be run, whatever the target is.           *)
LEMMA EnableSets ==
    ASSUME NEW t \in Targets, NEW a
    PROVE  Setting(EnableCommands(t, a))
<1>. DEFINE prefix == IF t.prefix = Nothing THEN DefaultPrefix ELSE t.prefix
            addr == SetAddress(EnableAddress(t, a), prefix, t.gw)
            dns == IF t.dns = <<>> THEN <<t.gw>> ELSE t.dns
            more == [i \in 1..(Len(dns) - 1) |-> AddDns(dns[i + 1])]
            S == {addr, SetFirstDns(Head(dns))}
                 \cup {AddDns(d) : d \in Range(dns)}
<1>1. dns \in Seq(Range(dns)) /\ dns # <<>>
  <2>1. CASE t.dns = <<>>
    BY <2>1 DEF Range
  <2>2. CASE t.dns # <<>>
    BY <2>2, AdapterAssumption
  <2>. QED
    BY <2>1, <2>2
<1>2. \A c \in S : c.cmd \in EnableNames
  <2>1. \A i, p, g : SetAddress(i, p, g).cmd = "address"
    BY DEF SetAddress
  <2>2. \A d : SetFirstDns(d).cmd = "dns"
    BY DEF SetFirstDns
  <2>3. \A d : AddDns(d).cmd = "add dns index=2"
    BY DEF AddDns
  <2>. HIDE DEF prefix, dns
  <2>4. \A c \in S : c = addr \/ c = SetFirstDns(Head(dns))
                                 \/ \E d \in Range(dns) : c = AddDns(d)
    BY Zenon
  <2>5. \A c \in S : c.cmd \in {"address", "dns", "add dns index=2"}
    <3>1. addr.cmd = "address"
      BY <2>1
    <3>. HIDE DEF addr, S
    <3>. QED
      BY <2>2, <2>3, <2>4, <3>1
  <2>. QED
    BY <2>5 DEF EnableNames
<1>. HIDE DEF dns, addr
<1>3. more \in Seq(S)
  <2>1. Len(dns) \in Nat /\ Len(dns) > 0
    BY <1>1
  <2>2. \A i \in 1..(Len(dns) - 1) : dns[i + 1] \in Range(dns)
    BY <1>1, <2>1 DEF Range
  <2>3. Len(dns) - 1 \in Nat
    BY <2>1
  <2>. QED
    BY <2>2, <2>3, IsASeq
<1>4. EnableCommands(t, a) = <<addr>> \o (<<SetFirstDns(Head(dns))>> \o more)
  BY <1>1 DEF EnableCommands, SetDns, dns, addr
<1>5. EnableCommands(t, a) \in Seq(S)
  BY <1>3, <1>4
<1>. HIDE DEF S
<1>. QED
  BY <1>2, <1>5 DEF Setting, Range

-----------------------------------------------------------------------------
(* A restore, command by command.                                          *)
LEMMA RestoreDhcpStep ==
    ASSUME NEW o, OrdinaryAdapter(o), NEW a, Shaped(a),
           NEW q, LeftOfDhcp(o, a, q), NEW b \in Effects(a, Head(q))
    PROVE  LeftToRestore(o, b, Tail(q))
<1>1. CASE q = <<SetAddressDhcp, SetDnsDhcp>>
  <2>1. Head(q) = SetAddressDhcp /\ Tail(q) = <<SetDnsDhcp>>
    BY <1>1
  <2>2. SetAddressDhcp.cmd = "address dhcp"
    BY DEF SetAddressDhcp
  <2>3. b.dhcp = TRUE
    BY <2>1, <2>2, AddressDhcpEffect
  <2>. QED
    BY <2>1, <2>3 DEF LeftOfDhcp, LeftToRestore
<1>2. CASE q = <<SetDnsDhcp>> /\ a.dhcp = TRUE
  <2>1. Head(q) = SetDnsDhcp /\ Tail(q) = <<>>
    BY <1>2
  <2>2. SetDnsDhcp.cmd = "dns dhcp"
    BY DEF SetDnsDhcp
  <2>3. /\ b.dhcp = TRUE /\ b.autoDns = TRUE
        /\ b.dns \in {x.dns : x \in Leases}
    BY <1>2, <2>1, <2>2, DnsDhcpEffect
  <2>4. o.dhcp = TRUE /\ o.autoDns = TRUE
    BY DEF LeftOfDhcp, OrdinaryAdapter, Shaped, Restorable
  <2>5. Own(o, b)
    BY <2>3, <2>4 DEF Own, Same
  <2>. QED
    BY <2>1, <2>5 DEF LeftToRestore
<1>. QED
  BY <1>1, <1>2 DEF LeftOfDhcp

(* Once the address is set.                                                *)
LEMMA AddressRestored ==
    ASSUME NEW o, OrdinaryAdapter(o), ~o.dhcp,
           NEW a, Shaped(a), a.dhcp = FALSE,
           NEW b \in Effects(a, OwnAddress(o))
    PROVE  Addressed(o, b)
<1>1. /\ OwnAddress(o).cmd = "address" /\ OwnAddress(o).gw = Head(o.gws)
      /\ OwnAddress(o).ip = Head(o.ips).ip
      /\ OwnAddress(o).prefix = Head(o.ips).prefix
  BY DEF OwnAddress, SetAddress
<1>2. /\ b.dhcp = FALSE /\ b.gws = <<Head(o.gws)>>
      /\ b.ips = <<[ip |-> Head(o.ips).ip, prefix |-> Head(o.ips).prefix]>>
  <2>1. PICK c : c = OwnAddress(o)
    OBVIOUS
  <2>2. c.cmd = "address" /\ b \in Effects(a, c)
    BY <1>1, <2>1
  <2>3. /\ b.dhcp = FALSE /\ b.gws = <<c.gw>>
        /\ b.ips = <<[ip |-> c.ip, prefix |-> c.prefix]>>
    BY <2>2, AddressEffect
  <2>. QED
    BY <1>1, <2>1, <2>3
<1>3. o.gws = <<Head(o.gws)>> /\ o.ips = <<Head(o.ips)>>
  BY DEF OrdinaryAdapter, Restorable, Single
<1>4. Head(o.ips) = [ip |-> Head(o.ips).ip, prefix |-> Head(o.ips).prefix]
  BY DEF OrdinaryAdapter
<1>. QED
  BY <1>2, <1>3, <1>4 DEF Addressed

(* Address and servers are back: the adapter is the user's own.            *)
LEMMA AddressedIsOwn ==
    ASSUME NEW o, OrdinaryAdapter(o), ~o.dhcp, NEW a, Addressed(o, a),
           a.autoDns = o.autoDns, a.dns = o.dns
    PROVE  Own(o, a)
<1>1. o.dhcp = FALSE /\ o \in Originals
  BY DEF OrdinaryAdapter, Shaped
<1>. QED
  BY <1>1 DEF Own, Same, Addressed

(* The restore of a static adapter, command by command.                    *)
LEMMA RestoreStaticStep ==
    ASSUME NEW o, OrdinaryAdapter(o), NEW a, Shaped(a),
           NEW q, LeftOfStatic(o, a, q), NEW b \in Effects(a, Head(q))
    PROVE  LeftToRestore(o, b, Tail(q))
<1>0. /\ ~o.dhcp /\ o.dhcp = FALSE /\ a.dhcp = FALSE
      /\ o.autoDns = TRUE \/ o.autoDns = FALSE
  BY DEF LeftOfStatic, OrdinaryAdapter, Shaped
<1>1. o.autoDns <=> o.dns = <<>>
  BY <1>0 DEF OrdinaryAdapter, Restorable
<1>2. /\ SetDnsDhcp.cmd = "dns dhcp"
      /\ \A d : SetFirstDns(d).cmd = "dns" /\ SetFirstDns(d).server = d
      /\ \A d : AddDns(d).cmd = "add dns index=2" /\ AddDns(d).server = d
  BY DEF SetDnsDhcp, SetFirstDns, AddDns
<1>3. CASE /\ o.dns = <<>>
           /\ \/ q = <<OwnAddress(o), SetDnsDhcp>>
              \/ q = <<SetDnsDhcp>> /\ Addressed(o, a)
  <2>1. CASE q = <<OwnAddress(o), SetDnsDhcp>>
    <3>1. Head(q) = OwnAddress(o) /\ Tail(q) = <<SetDnsDhcp>>
      BY <2>1
    <3>2. Addressed(o, b)
      BY <1>0, <3>1, AddressRestored
    <3>. QED
      BY <1>0, <1>3, <3>1, <3>2
      DEF LeftToRestore, LeftOfStatic, Addressed
  <2>2. CASE q = <<SetDnsDhcp>> /\ Addressed(o, a)
    <3>1. Head(q) = SetDnsDhcp /\ Tail(q) = <<>>
      BY <2>2
    <3>2. b.autoDns = TRUE /\ b.dns = <<>> /\ Addressed(o, b)
      <4>1. a.dhcp = FALSE /\ b \in Effects(a, SetDnsDhcp)
        BY <2>2, <3>1 DEF Addressed
      <4>2. /\ b.autoDns = TRUE /\ b.dns = <<>>
            /\ b.dhcp = a.dhcp /\ b.ips = a.ips /\ b.gws = a.gws
        <5>1. PICK c : c = SetDnsDhcp
          OBVIOUS
        <5>2. c.cmd = "dns dhcp" /\ b \in Effects(a, c)
          BY <1>2, <4>1, <5>1
        <5>. QED
          BY <4>1, <5>2, DnsDhcpStatic
      <4>. QED
        BY <2>2, <4>2 DEF Addressed
    <3>3. Own(o, b)
      BY <1>0, <1>1, <1>3, <3>2, AddressedIsOwn
    <3>. QED
      BY <3>1, <3>3 DEF LeftToRestore
  <2>. QED
    BY <1>3, <2>1, <2>2
<1>4. CASE /\ Single(o.dns)
           /\ \/ q = <<OwnAddress(o), SetFirstDns(Head(o.dns))>>
              \/ q = <<SetFirstDns(Head(o.dns))>> /\ Addressed(o, a)
  <2>1. CASE q = <<OwnAddress(o), SetFirstDns(Head(o.dns))>>
    <3>1. /\ Head(q) = OwnAddress(o)
          /\ Tail(q) = <<SetFirstDns(Head(o.dns))>>
      BY <2>1
    <3>2. Addressed(o, b)
      BY <1>0, <3>1, AddressRestored
    <3>. QED
      BY <1>0, <1>4, <3>1, <3>2
      DEF LeftToRestore, LeftOfStatic, Addressed
  <2>2. CASE q = <<SetFirstDns(Head(o.dns))>> /\ Addressed(o, a)
    <3>1. Head(q) = SetFirstDns(Head(o.dns)) /\ Tail(q) = <<>>
      BY <2>2
    <3>2. b.autoDns = FALSE /\ b.dns = <<Head(o.dns)>> /\ Addressed(o, b)
      <4>1. PICK c : c = SetFirstDns(Head(o.dns))
        OBVIOUS
      <4>2. c.cmd = "dns" /\ c.server = Head(o.dns) /\ b \in Effects(a, c)
        BY <1>2, <3>1, <4>1
      <4>3. /\ b.autoDns = FALSE /\ b.dns = <<c.server>>
            /\ b.dhcp = a.dhcp /\ b.ips = a.ips /\ b.gws = a.gws
        BY <4>2, FirstDnsEffect
      <4>. QED
        BY <2>2, <4>2, <4>3 DEF Addressed
    <3>3. o.dns # <<>> /\ o.dns = <<Head(o.dns)>>
      BY <1>4 DEF Single
    <3>4. Own(o, b)
      BY <1>0, <1>1, <3>2, <3>3, AddressedIsOwn
    <3>. QED
      BY <3>1, <3>4 DEF LeftToRestore
  <2>. QED
    BY <1>4, <2>1, <2>2
<1>5. CASE /\ o.dns = <<o.dns[1], o.dns[2]>>
           /\ \/ q = <<OwnAddress(o), SetFirstDns(o.dns[1]),
                       AddDns(o.dns[2])>>
              \/ /\ q = <<SetFirstDns(o.dns[1]), AddDns(o.dns[2])>>
                 /\ Addressed(o, a)
              \/ /\ q = <<AddDns(o.dns[2])>> /\ Addressed(o, a)
                 /\ a.autoDns = FALSE /\ a.dns = <<o.dns[1]>>
  <2>1. CASE q = <<OwnAddress(o), SetFirstDns(o.dns[1]), AddDns(o.dns[2])>>
    <3>1. /\ Head(q) = OwnAddress(o)
          /\ Tail(q) = <<SetFirstDns(o.dns[1]), AddDns(o.dns[2])>>
      BY <2>1
    <3>2. Addressed(o, b)
      BY <1>0, <3>1, AddressRestored
    <3>. QED
      BY <1>0, <1>5, <3>1, <3>2
      DEF LeftToRestore, LeftOfStatic, Addressed
  <2>2. CASE /\ q = <<SetFirstDns(o.dns[1]), AddDns(o.dns[2])>>
             /\ Addressed(o, a)
    <3>1. Head(q) = SetFirstDns(o.dns[1]) /\ Tail(q) = <<AddDns(o.dns[2])>>
      BY <2>2
    <3>2. b.autoDns = FALSE /\ b.dns = <<o.dns[1]>> /\ Addressed(o, b)
      <4>1. PICK c : c = SetFirstDns(o.dns[1])
        OBVIOUS
      <4>2. c.cmd = "dns" /\ c.server = o.dns[1] /\ b \in Effects(a, c)
        BY <1>2, <3>1, <4>1
      <4>3. /\ b.autoDns = FALSE /\ b.dns = <<c.server>>
            /\ b.dhcp = a.dhcp /\ b.ips = a.ips /\ b.gws = a.gws
        BY <4>2, FirstDnsEffect
      <4>. QED
        BY <2>2, <4>2, <4>3 DEF Addressed
    <3>. QED
      BY <1>0, <1>5, <3>1, <3>2
      DEF LeftToRestore, LeftOfStatic, Addressed
  <2>3. CASE /\ q = <<AddDns(o.dns[2])>> /\ Addressed(o, a)
             /\ a.autoDns = FALSE /\ a.dns = <<o.dns[1]>>
    <3>1. Head(q) = AddDns(o.dns[2]) /\ Tail(q) = <<>>
      BY <2>3
    <3>2. /\ b.autoDns = FALSE /\ Addressed(o, b)
          /\ b.dns = InsertAt(<<o.dns[1]>>, 2, o.dns[2])
      <4>1. PICK c : c = AddDns(o.dns[2])
        OBVIOUS
      <4>2. /\ c.cmd = "add dns index=2" /\ c.server = o.dns[2]
            /\ b \in Effects(a, c)
        BY <1>2, <3>1, <4>1
      <4>3. /\ b.dns = InsertAt(a.dns, 2, c.server) /\ b.autoDns = a.autoDns
            /\ b.dhcp = a.dhcp /\ b.ips = a.ips /\ b.gws = a.gws
        BY <4>2, AddDnsEffect
      <4>. QED
        BY <2>3, <4>2, <4>3 DEF Addressed
    <3>3. b.dns = o.dns
      BY <1>5, <3>2, SecondServer
    <3>4. o.dns # <<>>
      BY <1>5
    <3>5. Own(o, b)
      BY <1>0, <1>1, <3>2, <3>3, <3>4, AddressedIsOwn
    <3>. QED
      BY <3>1, <3>5 DEF LeftToRestore
  <2>. QED
    BY <1>5, <2>1, <2>2, <2>3
<1>. QED
  BY <1>3, <1>4, <1>5 DEF LeftOfStatic

(* Both together.                                                          *)
LEMMA RestoreStep ==
    ASSUME NEW o, OrdinaryAdapter(o), NEW a, Shaped(a),
           NEW q, q # <<>>, LeftToRestore(o, a, q),
           NEW b \in Effects(a, Head(q))
    PROVE  LeftToRestore(o, b, Tail(q))
BY RestoreDhcpStep, RestoreStaticStep DEF LeftToRestore

(* What restore_adapter asks of netsh for a snapshot of the user's own     *)
(* adapter, in whatever state the adapter is.                              *)
LEMMA RestoreStart ==
    ASSUME NEW o, OrdinaryAdapter(o), NEW a, Shaped(a), NEW s, Kept(o, s),
           ~o.dhcp => a.dhcp = FALSE
    PROVE  LeftToRestore(o, a, RestoreCommands(s, a))
<1>1. CASE o.dhcp
  <2>1. s.dhcp
    BY <1>1 DEF Kept
  <2>2. RestoreCommands(s, a) = EnsureDhcp(a) \o <<SetDnsDhcp>>
    BY <2>1 DEF RestoreCommands
  <2>3. CASE a.dhcp
    <3>1. RestoreCommands(s, a) = <<SetDnsDhcp>> /\ a.dhcp = TRUE
      BY <2>2, <2>3 DEF EnsureDhcp, Shaped
    <3>. QED
      BY <1>1, <3>1 DEF LeftToRestore, LeftOfDhcp
  <2>4. CASE ~a.dhcp
    <3>1. RestoreCommands(s, a) = <<SetAddressDhcp, SetDnsDhcp>>
      BY <2>2, <2>4, ConcatPair DEF EnsureDhcp
    <3>. QED
      BY <1>1, <3>1 DEF LeftToRestore, LeftOfDhcp
  <2>. QED
    BY <2>3, <2>4
<1>2. CASE ~o.dhcp
  <2>. DEFINE servers == IF o.dns = <<>> THEN <<SetDnsDhcp>>
                         ELSE SetDns(o.dns)
  <2>1. ~s.dhcp /\ s.ips = o.ips /\ s.gws = o.gws /\ s.dns = o.dns
    BY <1>2 DEF Kept
  <2>2. /\ o.ips # <<>> /\ o.gws # <<>>
        /\ o.dns = <<>> \/ Single(o.dns) \/ o.dns = <<o.dns[1], o.dns[2]>>
    BY <1>2 DEF OrdinaryAdapter, Restorable, Single
  <2>3. RestoreCommands(s, a) = <<OwnAddress(o)>> \o servers
    BY <2>1, <2>2 DEF RestoreCommands, OwnAddress
  <2>4. CASE o.dns = <<>>
    <3>1. RestoreCommands(s, a) = <<OwnAddress(o), SetDnsDhcp>>
      BY <2>3, <2>4, ConcatPair
    <3>. QED
      BY <1>2, <2>4, <3>1 DEF LeftToRestore, LeftOfStatic
  <2>5. CASE Single(o.dns)
    <3>1. PICK d : d = Head(o.dns)
      OBVIOUS
    <3>2. o.dns = <<d>> /\ o.dns # <<>>
      BY <2>5, <3>1 DEF Single
    <3>3. servers = <<SetFirstDns(d)>>
      BY <3>2, OneServer
    <3>4. RestoreCommands(s, a) = <<OwnAddress(o), SetFirstDns(Head(o.dns))>>
      BY <2>3, <3>1, <3>3, ConcatPair
    <3>. QED
      BY <1>2, <2>5, <3>4 DEF LeftToRestore, LeftOfStatic
  <2>6. CASE o.dns = <<o.dns[1], o.dns[2]>>
    <3>1. PICK d : d = o.dns[1]
      OBVIOUS
    <3>2. PICK e : e = o.dns[2]
      OBVIOUS
    <3>3. servers = <<SetFirstDns(d), AddDns(e)>>
      <4>1. o.dns = <<d, e>>
        BY <2>6, <3>1, <3>2
      <4>2. o.dns # <<>>
        BY <4>1
      <4>. QED
        BY <4>1, <4>2, TwoServers
    <3>4. RestoreCommands(s, a)
            = <<OwnAddress(o), SetFirstDns(o.dns[1]), AddDns(o.dns[2])>>
      BY <2>3, <3>1, <3>2, <3>3, ConcatTriple
    <3>. QED
      BY <1>2, <2>6, <3>4 DEF LeftToRestore, LeftOfStatic
  <2>. QED
    BY <2>2, <2>4, <2>5, <2>6
<1>. QED
  BY <1>1, <1>2

-----------------------------------------------------------------------------
(* What a few commands make of an adapter, one after the other.            *)
LEMMA AfterOne ==
    ASSUME NEW a, NEW c, NEW b \in After(a, <<c>>)
    PROVE  b \in Effects(a, c)
<1>. DEFINE q == <<c>>
            F(f) == [n \in 0..Len(q) |->
                        IF n = 0 THEN {a}
                        ELSE UNION {Effects(x, q[n]) : x \in f[n - 1]}]
            g == [n \in 0..Len(q) |-> IF n = 0 THEN {a} ELSE Effects(a, c)]
            f == CHOOSE f : f = F(f)
<1>1. Len(q) = 1 /\ q[1] = c
  OBVIOUS
<1>2. After(a, q) = f[Len(q)]
  BY DEF After
<1>. HIDE DEF q
<1>3. g = F(g)
  <2>1. UNION {Effects(x, c) : x \in {a}} = Effects(a, c)
    OBVIOUS
  <2>2. \A n \in 0..1 : g[n] = F(g)[n]
    BY <1>1, <2>1
  <2>. QED
    BY <1>1, <2>2
<1>4. f = F(f)
  <2>. HIDE DEF F, g
  <2>. QED
    BY <1>3, Zenon
<1>. HIDE DEF f
<1>5. f[0] = {a}
  BY <1>1, <1>4
<1>6. f[1] = UNION {Effects(x, c) : x \in f[0]}
  BY <1>1, <1>4
<1>. QED
  BY <1>1, <1>2, <1>5, <1>6 DEF q

(* Two commands.                                                           *)
LEMMA AfterTwo ==
    ASSUME NEW a, NEW c, NEW d, NEW b \in After(a, <<c, d>>)
    PROVE  \E x \in Effects(a, c) : b \in Effects(x, d)
<1>. DEFINE q == <<c, d>>
            F(f) == [n \in 0..Len(q) |->
                        IF n = 0 THEN {a}
                        ELSE UNION {Effects(x, q[n]) : x \in f[n - 1]}]
            one == Effects(a, c)
            two == UNION {Effects(x, d) : x \in one}
            g == [n \in 0..Len(q) |-> IF n = 0 THEN {a}
                                      ELSE IF n = 1 THEN one ELSE two]
            f == CHOOSE f : f = F(f)
<1>1. Len(q) = 2 /\ q[1] = c /\ q[2] = d
  OBVIOUS
<1>2. After(a, q) = f[Len(q)]
  BY DEF After
<1>. HIDE DEF q
<1>3. g = F(g)
  <2>1. UNION {Effects(x, c) : x \in {a}} = one
    OBVIOUS
  <2>. HIDE DEF one, two
  <2>2. g[0] = {a} /\ g[1] = one /\ g[2] = two
    BY <1>1
  <2>3. F(g)[0] = {a}
    BY <1>1
  <2>4. F(g)[1] = one
    BY <1>1, <2>1, <2>2
  <2>5. F(g)[2] = two
    BY <1>1, <2>2 DEF two
  <2>. HIDE DEF two
  <2>6. ASSUME NEW n \in 0..2 PROVE g[n] = F(g)[n]
    <3>1. n = 0 \/ n = 1 \/ n = 2
      OBVIOUS
    <3>. HIDE DEF F, g
    <3>. QED
      BY <2>2, <2>3, <2>4, <2>5, <3>1
  <2>. QED
    BY <1>1, <2>6
<1>4. f = F(f)
  <2>. HIDE DEF F, g
  <2>. QED
    BY <1>3, Zenon
<1>. HIDE DEF f
<1>5. f[0] = {a}
  BY <1>1, <1>4
<1>6. f[1] = UNION {Effects(x, c) : x \in f[0]}
  BY <1>1, <1>4
<1>7. f[2] = UNION {Effects(x, d) : x \in f[1]}
  BY <1>1, <1>4
<1>. QED
  BY <1>1, <1>2, <1>5, <1>6, <1>7 DEF q

(* Three commands.                                                         *)
LEMMA AfterThree ==
    ASSUME NEW a, NEW c, NEW d, NEW e, NEW b \in After(a, <<c, d, e>>)
    PROVE  \E x \in Effects(a, c) : \E y \in Effects(x, d) :
              b \in Effects(y, e)
<1>. DEFINE q == <<c, d, e>>
            F(f) == [n \in 0..Len(q) |->
                        IF n = 0 THEN {a}
                        ELSE UNION {Effects(x, q[n]) : x \in f[n - 1]}]
            one == Effects(a, c)
            two == UNION {Effects(x, d) : x \in one}
            three == UNION {Effects(x, e) : x \in two}
            g == [n \in 0..Len(q) |->
                    IF n = 0 THEN {a} ELSE IF n = 1 THEN one
                    ELSE IF n = 2 THEN two ELSE three]
            f == CHOOSE f : f = F(f)
<1>1. Len(q) = 3 /\ q[1] = c /\ q[2] = d /\ q[3] = e
  OBVIOUS
<1>2. After(a, q) = f[Len(q)]
  BY DEF After
<1>. HIDE DEF q
<1>3. g = F(g)
  <2>1. UNION {Effects(x, c) : x \in {a}} = one
    OBVIOUS
  <2>. HIDE DEF one, two, three
  <2>2. g[0] = {a} /\ g[1] = one /\ g[2] = two /\ g[3] = three
    BY <1>1
  <2>3. F(g)[0] = {a}
    BY <1>1
  <2>4. F(g)[1] = one
    BY <1>1, <2>1, <2>2
  <2>5. F(g)[2] = two
    BY <1>1, <2>2 DEF two
  <2>6. F(g)[3] = three
    BY <1>1, <2>2 DEF three
  <2>7. ASSUME NEW n \in 0..3 PROVE g[n] = F(g)[n]
    <3>1. n = 0 \/ n = 1 \/ n = 2 \/ n = 3
      OBVIOUS
    <3>. HIDE DEF F, g
    <3>. QED
      BY <2>2, <2>3, <2>4, <2>5, <2>6, <3>1
  <2>. QED
    BY <1>1, <2>7
<1>4. f = F(f)
  <2>. HIDE DEF F, g
  <2>. QED
    BY <1>3, Zenon
<1>. HIDE DEF f
<1>5. f[0] = {a}
  BY <1>1, <1>4
<1>6. f[1] = UNION {Effects(x, c) : x \in f[0]}
  BY <1>1, <1>4
<1>7. f[2] = UNION {Effects(x, d) : x \in f[1]}
  BY <1>1, <1>4
<1>8. f[3] = UNION {Effects(x, e) : x \in f[2]}
  BY <1>1, <1>4
<1>. QED
  BY <1>1, <1>2, <1>5, <1>6, <1>7, <1>8 DEF q

(* A restore that runs to its end gives the adapter back.                  *)
LEMMA RestoreGivesBack ==
    ASSUME NEW o, OrdinaryAdapter(o), NEW a, Shaped(a), LeaseKnown(a),
           NEW q, q # <<>>, LeftToRestore(o, a, q), NEW b \in After(a, q)
    PROVE  Own(o, b)
<1>1. /\ \A c, d : <<c, d>> # <<>> /\ Head(<<c, d>>) = c
                   /\ Tail(<<c, d>>) = <<d>>
      /\ \A c : <<c>> # <<>> /\ Head(<<c>>) = c /\ Tail(<<c>>) = <<>>
      /\ \A c, d, e : <<c, d, e>> # <<>> /\ Head(<<c, d, e>>) = c
                      /\ Tail(<<c, d, e>>) = <<d, e>>
  OBVIOUS
<1>2. ASSUME NEW x, LeftToRestore(o, x, <<>>) PROVE Own(o, x)
  <2>1. /\ \A c : <<>> # <<c>>
        /\ \A c, d : <<>> # <<c, d>>
        /\ \A c, d, e : <<>> # <<c, d, e>>
    OBVIOUS
  <2>. QED
    BY <1>2, <2>1 DEF LeftToRestore, LeftOfDhcp, LeftOfStatic
<1>3. /\ SetAddressDhcp.cmd \in Names /\ SetDnsDhcp.cmd \in Names
      /\ \A d : SetFirstDns(d).cmd \in Names
      /\ \A d : AddDns(d).cmd \in Names
      /\ OwnAddress(o).cmd \in Names
  BY DEF Names, SetAddressDhcp, SetDnsDhcp, SetFirstDns, AddDns, OwnAddress,
     SetAddress
<1>. DEFINE Left(x, r) == LeftToRestore(o, x, r) /\ Shaped(x) /\ LeaseKnown(x)
<1>4. ASSUME NEW x, NEW r, Left(x, r), r # <<>>, NEW c, Head(r) = c,
             c.cmd \in Names, NEW y \in Effects(x, c)
      PROVE  Left(y, Tail(r))
  <2>1. Shaped(y) /\ LeaseKnown(y)
    BY <1>4, CommandKeepsShape
  <2>2. y \in Effects(x, Head(r))
    BY <1>4
  <2>3. LeftToRestore(o, y, Tail(r))
    BY <1>4, <2>2, RestoreStep
  <2>. QED
    BY <2>1, <2>3
<1>5. CASE \E c : q = <<c>>
  <2>1. PICK c : q = <<c>>
    BY <1>5
  <2>2. b \in Effects(a, Head(q)) /\ Tail(q) = <<>>
    BY <1>1, <2>1, AfterOne
  <2>. QED
    BY <1>2, <2>2, RestoreStep
<1>6. CASE \E c, d : q = <<c, d>> /\ c.cmd \in Names
  <2>1. PICK c, d : q = <<c, d>> /\ c.cmd \in Names
    BY <1>6
  <2>2. PICK x \in Effects(a, c) : b \in Effects(x, d)
    BY <2>1, AfterTwo
  <2>3. q # <<>> /\ Head(q) = c /\ Tail(q) = <<d>> /\ Left(a, q)
    BY <1>1, <2>1
  <2>. HIDE DEF Left
  <2>4. Left(x, <<d>>)
    BY <1>4, <2>1, <2>3
  <2>5. b \in Effects(x, Head(<<d>>)) /\ Tail(<<d>>) = <<>> /\ <<d>> # <<>>
    BY <1>1, <2>2
  <2>6. LeftToRestore(o, b, <<>>)
    BY <2>4, <2>5, RestoreStep DEF Left
  <2>. QED
    BY <1>2, <2>6
<1>7. CASE \E c, d, e : q = <<c, d, e>> /\ c.cmd \in Names /\ d.cmd \in Names
  <2>1. PICK c, d, e : q = <<c, d, e>> /\ c.cmd \in Names /\ d.cmd \in Names
    BY <1>7
  <2>2. PICK x \in Effects(a, c) :
            \E y \in Effects(x, d) : b \in Effects(y, e)
    BY <2>1, AfterThree
  <2>3. PICK y \in Effects(x, d) : b \in Effects(y, e)
    BY <2>2
  <2>4. q # <<>> /\ Head(q) = c /\ Tail(q) = <<d, e>> /\ Left(a, q)
    BY <1>1, <2>1
  <2>. HIDE DEF Left
  <2>5. Left(x, <<d, e>>)
    BY <1>4, <2>1, <2>4
  <2>6. <<d, e>> # <<>> /\ Head(<<d, e>>) = d /\ Tail(<<d, e>>) = <<e>>
    BY <1>1
  <2>7. Left(y, <<e>>)
    BY <1>4, <2>1, <2>5, <2>6
  <2>8. b \in Effects(y, Head(<<e>>)) /\ Tail(<<e>>) = <<>> /\ <<e>> # <<>>
    BY <1>1, <2>3
  <2>9. LeftToRestore(o, b, <<>>)
    BY <2>7, <2>8, RestoreStep DEF Left
  <2>. QED
    BY <1>2, <2>9
<1>. QED
  BY <1>3, <1>5, <1>6, <1>7 DEF LeftToRestore, LeftOfDhcp, LeftOfStatic

-----------------------------------------------------------------------------
(* At rest with the bypass off, the adapter is the user's own; else the    *)
(* snapshot is one of the user's own, and a restore under way is as far as *)
(* the commands left say.  All of that as long as the snapshot can         *)
(* describe the adapter, and the loop has not re-enabled without one.      *)
ARTypes ==
    /\ OrdinaryAdapter(original)
    /\ Shaped(adapter) /\ LeaseKnown(adapter)
    /\ ~original.dhcp => adapter.dhcp = FALSE
    /\ Runnable(todo) /\ (Idle => todo = <<>>)
    /\ doing \in {"enable", "reenable"} => Setting(todo)
    /\ doing = "reenable" => bypass = "on"
    /\ doing \in {"disable", "fallback"} => bypass # "on"

AtRest == Idle /\ bypass # "on"
Restoring == doing \in {"disable", "fallback"}

SnapshotSound ==
    IF AtRest THEN Own(original, adapter) /\ snap = Nothing
              ELSE Kept(original, snap)

RestoreSound == Restoring => LeftToRestore(original, adapter, todo)

Sound == ARTypes /\ SnapshotSound /\ RestoreSound

ARInv ==
    /\ original \in Originals /\ target \in Targets /\ wanted \in Targets
    /\ doing \in {"nothing", "enable", "disable", "fallback", "reenable"}
    /\ Backed => Sound

(* A backup of the user's own adapter keeps what the restore needs.        *)
LEMMA BackupKeeps ==
    ASSUME NEW o, OrdinaryAdapter(o), NEW a, Shaped(a), LeaseKnown(a),
           Own(o, a)
    PROVE  Kept(o, BackupOf(a))
<1>1. o \in Originals /\ o.dhcp \in BOOLEAN
  BY DEF OrdinaryAdapter, Shaped
<1>2. a.dhcp = o.dhcp /\ a.dns \in {x.dns : x \in Originals \cup Leases}
  BY DEF Own, Same
<1>3. ~o.dhcp => a.ips = o.ips /\ a.gws = o.gws /\ a.dns = o.dns
  BY <1>2 DEF Own, Same
<1>4. /\ a.ips \in {x.ips : x \in Originals \cup Leases}
      /\ a.gws \in {x.gws : x \in Originals \cup Leases}
  BY <1>1, <1>2, <1>3 DEF LeaseKnown
<1>. DEFINE s == BackupOf(a)
<1>5. /\ s.dhcp = a.dhcp /\ s.ips = a.ips /\ s.gws = a.gws /\ s.dns = a.dns
      /\ s \in Snapshots
  BY <1>1, <1>2, <1>4 DEF BackupOf, Snapshots
<1>. HIDE DEF s
<1>6. Kept(o, s)
  BY <1>2, <1>3, <1>5 DEF Kept
<1>. QED
  BY <1>6 DEF s

(* A lease renewed changes nothing that a restore relies on.               *)
LEMMA LeaseKeeps ==
    ASSUME NEW o, OrdinaryAdapter(o), NEW a, Shaped(a), a.dhcp,
           NEW l \in Leases
    PROVE  LET b == Leased(a, l)
           IN  /\ Shaped(b) /\ LeaseKnown(b)
               /\ Own(o, a) => Own(o, b)
               /\ \A q : LeftToRestore(o, a, q) => LeftToRestore(o, b, q)
<1>. DEFINE b == Leased(a, l)
<1>1. b = [dhcp |-> a.dhcp, ips |-> l.ips, gws |-> l.gws,
           dns |-> IF a.autoDns THEN l.dns ELSE a.dns,
           autoDns |-> a.autoDns, up |-> a.up]
  <2>1. b = [a EXCEPT !.ips = l.ips, !.gws = l.gws,
                      !.dns = IF a.autoDns THEN l.dns ELSE a.dns]
    BY DEF Leased
  <2>. QED
    BY <2>1 DEF Shaped
<1>2. /\ b.dhcp = a.dhcp /\ b.autoDns = a.autoDns /\ b.ips = l.ips
      /\ b.gws = l.gws
      /\ b.dns = a.dns \/ (b.autoDns /\ b.dns = l.dns)
  BY <1>1
<1>3. Shaped(b) /\ LeaseKnown(b)
  BY <1>1 DEF Shaped, LeaseKnown
<1>. HIDE DEF b
<1>4. ASSUME Own(o, a) PROVE Own(o, b)
  <2>1. /\ o.dhcp /\ o.autoDns /\ a.dhcp = o.dhcp /\ a.autoDns = o.autoDns
    BY <1>4 DEF Own, Same, OrdinaryAdapter, Restorable
  <2>2. b.dns \in {x.dns : x \in Originals \cup Leases}
    BY <1>2, <1>4 DEF Own
  <2>. QED
    BY <1>2, <2>1, <2>2 DEF Own, Same
<1>5. ASSUME NEW q, LeftToRestore(o, a, q) PROVE LeftToRestore(o, b, q)
  <2>1. CASE q = <<>> /\ Own(o, a)
    BY <1>4, <2>1 DEF LeftToRestore
  <2>2. CASE LeftOfDhcp(o, a, q)
    BY <1>2, <2>2 DEF LeftToRestore, LeftOfDhcp
  <2>3. CASE LeftOfStatic(o, a, q)
    <3>1. ~Addressed(o, a)
      BY DEF Addressed
    <3>2. LeftOfStatic(o, b, q)
      BY <2>3, <3>1 DEF LeftOfStatic
    <3>. QED
      BY <3>2 DEF LeftToRestore
  <2>. QED
    BY <1>5, <2>1, <2>2, <2>3 DEF LeftToRestore
<1>. QED
  BY <1>3, <1>4, <1>5 DEF b

(* Neither does the cable.                                                 *)
LEMMA CableKeeps ==
    ASSUME NEW o, NEW a, Shaped(a), LeaseKnown(a), NEW b,
           b = [a EXCEPT !.up = ~a.up]
    PROVE  /\ Shaped(b) /\ LeaseKnown(b)
           /\ Own(o, a) => Own(o, b)
           /\ \A q : LeftToRestore(o, a, q) => LeftToRestore(o, b, q)
<1>1. b = [dhcp |-> a.dhcp, ips |-> a.ips, gws |-> a.gws, dns |-> a.dns,
           autoDns |-> a.autoDns, up |-> ~a.up]
  BY DEF Shaped
<1>2. /\ b.dhcp = a.dhcp /\ b.autoDns = a.autoDns /\ b.ips = a.ips
      /\ b.gws = a.gws /\ b.dns = a.dns
  BY <1>1
<1>3. Shaped(b)
  BY <1>1 DEF Shaped
<1>4. LeaseKnown(b)
  BY <1>2 DEF LeaseKnown
<1>5. Own(o, a) => Own(o, b)
  BY <1>2 DEF Own, Same
<1>6. ASSUME NEW q, LeftToRestore(o, a, q) PROVE LeftToRestore(o, b, q)
  <2>1. Addressed(o, a) => Addressed(o, b)
    BY <1>2 DEF Addressed
  <2>2. LeftOfStatic(o, a, q) => LeftOfStatic(o, b, q)
    BY <1>2, <2>1 DEF LeftOfStatic
  <2>3. LeftOfDhcp(o, a, q) => LeftOfDhcp(o, b, q)
    BY <1>2 DEF LeftOfDhcp
  <2>. QED
    BY <1>5, <1>6, <2>2, <2>3 DEF LeftToRestore
<1>. QED
  BY <1>3, <1>4, <1>5, <1>6

(* The snapshot is one, and not Nothing.                                   *)
LEMMA KeptIsSnapshot == ASSUME NEW o, NEW s, Kept(o, s) PROVE s # Nothing
BY AdapterAssumption DEF Kept

-----------------------------------------------------------------------------
(* The adapter before the tool.                                            *)
LEMMA ARInitKeeps == ASSUME AdaptersShaped, ARInit PROVE ARInv
<1>1. /\ original \in Originals /\ target \in Targets /\ wanted \in Targets
      /\ doing = "nothing" /\ Idle /\ AtRest /\ ~Restoring /\ todo = <<>>
      /\ adapter = original /\ snap = Nothing
  BY DEF ARInit, Idle, AtRest, Restoring
<1>2. ASSUME Backed PROVE Sound
  <2>1. OrdinaryAdapter(original)
    <3>1. Restorable(original) /\ Shaped(original)
      BY <1>1, <1>2 DEF Backed, AdaptersShaped
    <3>2. ~original.dhcp => original.ips # <<>>
      BY <3>1 DEF Restorable, Single
    <3>. QED
      BY <1>1, <3>1, <3>2 DEF OrdinaryAdapter, AdaptersShaped
  <2>2. /\ Shaped(adapter) /\ LeaseKnown(adapter) /\ Own(original, adapter)
        /\ ~original.dhcp => adapter.dhcp = FALSE
    BY <1>1, <2>1 DEF OrdinaryAdapter, LeaseKnown, Own, Same, Shaped
  <2>3. Runnable(<<>>)
    BY DEF Runnable, Range
  <2>. QED
    BY <1>1, <2>1, <2>2, <2>3
    DEF Sound, ARTypes, SnapshotSound, RestoreSound
<1>. QED
  BY <1>1, <1>2 DEF ARInv

(* The ghost never goes back, and the original never changes.              *)
LEMMA BackedBefore ==
    ASSUME ARInv, ARNext \/ UNCHANGED arVars, Backed'
    PROVE  Backed /\ Sound /\ original' = original
<1>1. original' = original
  BY DEF ARNext, arVars, Enable, Reenable, Disable, Fallback, RunNetsh,
     NetshFails, Finish, LeaseRenewed, UserEdits, CableMoves
<1>2. ~unbacked
  <2>1. CASE Reenable
    BY <2>1, Zenon DEF Reenable, Backed
  <2>2. CASE ~Reenable
    <3>1. unbacked' = unbacked
      BY <2>2 DEF ARNext, arVars, Enable, Disable, Fallback, RunNetsh,
         NetshFails, Finish, LeaseRenewed, UserEdits, CableMoves
    <3>. QED
      BY <3>1 DEF Backed
  <2>. QED
    BY <2>1, <2>2
<1>. QED
  BY <1>1, <1>2 DEF Backed, ARInv

(* What every step keeps, whatever becomes of the adapter.                 *)
LEMMA FrameKept ==
    ASSUME ARInv, ARNext \/ UNCHANGED arVars, Backed' => Sound'
    PROVE  ARInv'
<1>1. /\ original' = original /\ target' \in Targets /\ wanted' \in Targets
      /\ doing' \in {"nothing", "enable", "disable", "fallback", "reenable"}
  BY DEF ARInv, ARNext, arVars, Enable, Reenable, Disable, Fallback, RunNetsh,
     NetshFails, Finish, LeaseRenewed, UserEdits, CableMoves
<1>. QED
  BY <1>1 DEF ARInv

(* An enable: the backup is of the user's own adapter.                     *)
LEMMA EnableKeeps ==
    ASSUME Sound, NEW t \in Targets, Enable(t) PROVE Sound'
<1>1. /\ AtRest /\ Own(original, adapter) /\ Runnable(todo) /\ todo = <<>>
      /\ snap = Nothing /\ doing = "nothing"
  BY DEF Sound, ARTypes, SnapshotSound, AtRest, Enable, Idle
<1>2. CASE CanEnable(t, adapter)
  <2>1. Kept(original, BackupOf(adapter))
    BY <1>1, BackupKeeps DEF Sound, ARTypes
  <2>2. Setting(todo') /\ Runnable(todo')
    BY <1>2, EnableSets, SettingRuns DEF Enable
  <2>3. doing' = "enable" /\ ~Idle' /\ ~AtRest' /\ ~Restoring'
    BY <1>2 DEF Enable, Idle, AtRest, Restoring
  <2>. QED
    BY <1>2, <2>1, <2>2, <2>3
    DEF Enable, Sound, ARTypes, SnapshotSound, RestoreSound
<1>3. CASE ~CanEnable(t, adapter)
  <2>1. Idle' /\ AtRest' /\ ~Restoring' /\ doing' = "nothing"
    BY <1>1, <1>3 DEF Enable, Idle, AtRest, Restoring
  <2>. QED
    BY <1>1, <1>3, <2>1
    DEF Enable, Sound, ARTypes, SnapshotSound, RestoreSound
<1>. QED
  BY <1>2, <1>3

(* The monitor's re-enable takes no backup: of a bypass that is on, the    *)
(* one there is stays; of one that has fallen back there is none.          *)
LEMMA ReenableKeeps ==
    ASSUME ARInv, Sound, Reenable, Backed' PROVE Sound'
<1>1. bypass = "on"
  <2>. SUFFICES ASSUME bypass = "fallen" PROVE FALSE
    BY DEF Reenable
  <2>1. AtRest
    BY DEF Reenable, AtRest
  <2>2. snap = Nothing
    BY <2>1 DEF Sound, SnapshotSound
  <2>. QED
    BY <2>2 DEF Reenable, Backed
<1>2. Kept(original, snap)
  BY <1>1 DEF Sound, SnapshotSound, AtRest
<1>3. Setting(todo') /\ Runnable(todo')
  BY EnableSets, SettingRuns DEF ARInv, Reenable
<1>4. doing' = "reenable" /\ ~Idle' /\ ~AtRest' /\ ~Restoring'
  BY DEF Reenable, Idle, AtRest, Restoring
<1>. QED
  BY <1>1, <1>2, <1>3, <1>4
  DEF Reenable, Sound, ARTypes, SnapshotSound, RestoreSound

(* A restore runs a few known commands.                                    *)
LEMMA LeftRunnable ==
    ASSUME NEW o, NEW a, NEW q, LeftToRestore(o, a, q)
    PROVE  Runnable(q)
<1>1. /\ SetAddressDhcp.cmd \in Names /\ SetDnsDhcp.cmd \in Names
      /\ \A d : SetFirstDns(d).cmd \in Names
      /\ \A d : AddDns(d).cmd \in Names
      /\ OwnAddress(o).cmd \in Names
  BY DEF Names, SetAddressDhcp, SetDnsDhcp, SetFirstDns, AddDns, OwnAddress,
     SetAddress
<1>2. Runnable(<<>>)
  BY DEF Runnable, Range
<1>3. ASSUME NEW c, c.cmd \in Names PROVE Runnable(<<c>>)
  <2>. DEFINE S == {c}
  <2>1. <<c>> \in Seq(S) /\ \A x \in S : x.cmd \in Names
    BY <1>3
  <2>. HIDE DEF S
  <2>. QED
    BY <2>1, RunnableSeq
<1>4. ASSUME NEW c, NEW d, c.cmd \in Names, d.cmd \in Names
      PROVE  Runnable(<<c, d>>)
  <2>. DEFINE S == {c, d}
  <2>1. <<c, d>> \in Seq(S) /\ \A x \in S : x.cmd \in Names
    BY <1>4
  <2>. HIDE DEF S
  <2>. QED
    BY <2>1, RunnableSeq
<1>5. ASSUME NEW c, NEW d, NEW e, c.cmd \in Names, d.cmd \in Names,
             e.cmd \in Names
      PROVE  Runnable(<<c, d, e>>)
  <2>. DEFINE S == {c, d, e}
  <2>1. <<c, d, e>> \in Seq(S) /\ \A x \in S : x.cmd \in Names
    BY <1>5
  <2>. HIDE DEF S
  <2>. QED
    BY <2>1, RunnableSeq
<1>. QED
  BY <1>1, <1>2, <1>3, <1>4, <1>5
  DEF LeftToRestore, LeftOfDhcp, LeftOfStatic

(* What a disable or a fallback starts with the handle there was.          *)
LEMMA UndoStarts ==
    ASSUME Sound, Idle, bypass = "on", todo' = Undo, Restoring',
           bypass' # "on", UNCHANGED <<adapter, snap, original>>
    PROVE  Sound'
<1>1. Kept(original, snap)
  BY DEF Sound, SnapshotSound, AtRest
<1>2. todo' = RestoreCommands(snap, adapter)
  BY <1>1, KeptIsSnapshot DEF Undo
<1>3. LeftToRestore(original, adapter, todo')
  BY <1>1, <1>2, RestoreStart DEF Sound, ARTypes
<1>4. Runnable(todo')
  BY <1>3, LeftRunnable
<1>5. /\ ~Idle' /\ ~AtRest'
      /\ doing' \notin {"enable", "reenable"}
  BY DEF Restoring, Idle, AtRest
<1>. QED
  BY <1>1, <1>3, <1>4, <1>5
  DEF Sound, ARTypes, SnapshotSound, RestoreSound

(* A disable starts from the snapshot, and so does a fallback; a disable   *)
(* after a fallback has nothing to undo.                                   *)
LEMMA DisableKeeps == ASSUME Sound, Disable \/ Fallback PROVE Sound'
<1>1. CASE bypass = "on"
  <2>1. /\ Idle /\ todo' = Undo /\ Restoring' /\ bypass' # "on"
        /\ UNCHANGED <<adapter, snap, original>>
    BY <1>1 DEF Disable, Fallback, Restoring
  <2>. QED
    BY <1>1, <2>1, UndoStarts
<1>2. CASE bypass # "on"
  <2>1. Disable /\ AtRest /\ AtRest' /\ Idle /\ Idle' /\ ~Restoring'
        /\ UNCHANGED <<adapter, snap, original, todo, doing>>
        /\ doing = "nothing"
    BY <1>2 DEF Disable, Fallback, AtRest, Idle, Restoring
  <2>. QED
    BY <2>1 DEF Sound, ARTypes, SnapshotSound, RestoreSound
<1>. QED
  BY <1>1, <1>2

(* One command.                                                            *)
LEMMA NetshKeeps == ASSUME ARInv, Sound, RunNetsh PROVE Sound'
<1>1. /\ ~Idle /\ ~Idle' /\ ~AtRest' /\ Kept(original, snap)
      /\ Restoring' = Restoring /\ doing' = doing
  BY DEF Sound, ARTypes, SnapshotSound, AtRest, RunNetsh, Idle, Restoring
<1>2. Head(todo).cmd \in Names /\ Runnable(todo')
  BY RunnableTail DEF Sound, ARTypes, RunNetsh
<1>3. Shaped(adapter') /\ LeaseKnown(adapter')
  BY <1>2, CommandKeepsShape DEF Sound, ARTypes, RunNetsh
<1>4. Restoring => LeftToRestore(original, adapter', todo')
  BY RestoreStep DEF Sound, ARTypes, RestoreSound, RunNetsh
<1>5. doing \in {"enable", "reenable"} =>
         Head(todo).cmd \in EnableNames /\ Setting(todo')
  BY SettingTail DEF Sound, ARTypes, RunNetsh
<1>6. ~original.dhcp => adapter'.dhcp = FALSE
  <2>. SUFFICES ASSUME ~original.dhcp PROVE adapter'.dhcp = FALSE
    OBVIOUS
  <2>1. CASE doing \in {"enable", "reenable"}
    BY <1>5, <2>1, SettingKeepsStatic DEF Sound, ARTypes, RunNetsh
  <2>2. CASE Restoring
    BY <1>4, <2>2
    DEF LeftToRestore, LeftOfDhcp, LeftOfStatic, Own, Same, Sound, ARTypes,
        OrdinaryAdapter, Shaped
  <2>. QED
    BY <1>1, <2>1, <2>2 DEF ARInv, Idle, Restoring
<1>. QED
  BY <1>1, <1>2, <1>3, <1>4, <1>5, <1>6
  DEF RunNetsh, Sound, ARTypes, SnapshotSound, RestoreSound

(* Only a re-enable fails; the bypass stays on and the snapshot kept.      *)
LEMMA FailureKeeps ==
    ASSUME AdaptersShaped, Sound, NetshFails PROVE Sound'
<1>1. doing = "reenable" /\ bypass = "on"
  BY DEF NetshFails, AdaptersShaped, Sound, ARTypes
<1>2. snap' = snap /\ bypass' = "on"
  BY <1>1 DEF NetshFails, SnapshotAfterFailure
<1>3. Kept(original, snap)
  BY <1>1 DEF Sound, SnapshotSound, AtRest
<1>4. /\ doing' = "nothing" /\ Idle' /\ ~AtRest' /\ ~Restoring'
      /\ todo' = <<>>
  BY <1>2 DEF NetshFails, Idle, AtRest, Restoring
<1>5. Runnable(<<>>)
  BY DEF Runnable, Range
<1>. QED
  BY <1>2, <1>3, <1>4, <1>5
  DEF NetshFails, Sound, ARTypes, SnapshotSound, RestoreSound

(* The end of an operation: after a restore the adapter is the user's own. *)
LEMMA FinishKeeps == ASSUME ARInv, Sound, Finish PROVE Sound'
<1>1. ~Idle /\ Kept(original, snap) /\ todo = <<>> /\ todo' = <<>>
  BY DEF Sound, SnapshotSound, AtRest, Finish
<1>2. /\ doing' = "nothing" /\ Idle' /\ ~Restoring'
      /\ UNCHANGED <<adapter, original>>
  BY DEF Finish, Idle, Restoring
<1>3. CASE Restoring
  <2>1. LeftToRestore(original, adapter, <<>>)
    BY <1>1, <1>3 DEF Sound, RestoreSound
  <2>2. /\ \A c : <<>> # <<c>>
        /\ \A c, d : <<>> # <<c, d>>
        /\ \A c, d, e : <<>> # <<c, d, e>>
    OBVIOUS
  <2>3. Own(original, adapter)
    BY <2>1, <2>2 DEF LeftToRestore, LeftOfDhcp, LeftOfStatic
  <2>4. snap' = Nothing
    BY <1>3 DEF Finish, Restoring
  <2>5. bypass' # "on"
    BY <1>3 DEF Finish, Restoring, Sound, ARTypes
  <2>6. AtRest'
    BY <1>2, <2>5 DEF AtRest
  <2>. QED
    BY <1>1, <1>2, <2>3, <2>4, <2>6
    DEF Sound, ARTypes, SnapshotSound, RestoreSound
<1>4. CASE ~Restoring
  <2>1. bypass' = "on" /\ snap' = snap
    BY <1>4 DEF Finish, Restoring
  <2>2. ~AtRest'
    BY <2>1 DEF AtRest
  <2>. QED
    BY <1>1, <1>2, <2>1, <2>2
    DEF Sound, ARTypes, SnapshotSound, RestoreSound
<1>. QED
  BY <1>3, <1>4

(* Leases, edits by hand, the cable.                                       *)
LEMMA WorldKeeps ==
    ASSUME Sound, LeaseRenewed \/ UserEdits \/ CableMoves \/ UNCHANGED arVars
    PROVE  Sound'
<1>0. OrdinaryAdapter(original) /\ Shaped(adapter) /\ LeaseKnown(adapter)
  BY DEF Sound, ARTypes
<1>1. ASSUME Shaped(adapter'), LeaseKnown(adapter'),
             adapter'.dhcp = adapter.dhcp,
             UNCHANGED <<snap, todo, doing, bypass, original>>,
             AtRest /\ Own(original, adapter) => Own(original, adapter'),
             \A q : Restoring /\ LeftToRestore(original, adapter, q)
                        => LeftToRestore(original, adapter', q)
      PROVE  Sound'
  <2>1. AtRest' = AtRest /\ Idle' = Idle /\ Restoring' = Restoring
    BY <1>1 DEF AtRest, Idle, Restoring
  <2>2. ARTypes'
    BY <1>1, <2>1 DEF Sound, ARTypes
  <2>3. SnapshotSound'
    BY <1>1, <2>1 DEF Sound, SnapshotSound
  <2>4. RestoreSound'
    BY <1>1, <2>1 DEF Sound, RestoreSound
  <2>. QED
    BY <2>2, <2>3, <2>4 DEF Sound
<1>2. CASE LeaseRenewed
  <2>1. PICK l \in Leases : adapter' = Leased(adapter, l)
    BY <1>2 DEF LeaseRenewed
  <2>2. adapter'.dhcp = adapter.dhcp
    <3>1. adapter' = [adapter EXCEPT !.ips = l.ips, !.gws = l.gws,
                        !.dns = IF adapter.autoDns THEN l.dns
                                ELSE adapter.dns]
      BY <2>1 DEF Leased
    <3>. QED
      BY <1>0, <3>1 DEF Shaped
  <2>. QED
    BY <1>0, <1>1, <1>2, <2>1, <2>2, LeaseKeeps DEF LeaseRenewed
<1>3. CASE UserEdits
  <2>1. PICK l \in Leases : adapter' = [adapter EXCEPT !.gws = l.gws]
    BY <1>3 DEF UserEdits
  <2>2. adapter' = [dhcp |-> adapter.dhcp, ips |-> adapter.ips,
                    gws |-> l.gws, dns |-> adapter.dns,
                    autoDns |-> adapter.autoDns, up |-> adapter.up]
    BY <1>0, <2>1 DEF Shaped
  <2>3. /\ Shaped(adapter') /\ LeaseKnown(adapter')
        /\ adapter'.dhcp = adapter.dhcp
    BY <1>0, <2>2 DEF Shaped, LeaseKnown
  <2>4. ~AtRest /\ ~Restoring
    BY <1>3 DEF UserEdits, AtRest, Idle, Restoring
  <2>. QED
    BY <1>1, <1>3, <2>3, <2>4 DEF UserEdits
<1>4. CASE CableMoves
  <2>1. adapter' = [adapter EXCEPT !.up = ~adapter.up]
    BY <1>4 DEF CableMoves
  <2>2. adapter'.dhcp = adapter.dhcp
    BY <1>0, <2>1 DEF Shaped
  <2>. QED
    BY <1>0, <1>1, <1>4, <2>1, <2>2, CableKeeps DEF CableMoves
<1>5. CASE UNCHANGED arVars
  BY <1>0, <1>1, <1>5 DEF arVars
<1>. QED
  BY <1>2, <1>3, <1>4, <1>5

(* While anything is left to undo, the snapshot undoes it.                 *)
LEMMA KeptUndoes ==
    ASSUME Sound, Kept(original, snap),
           NEW a \in After(adapter, RestoreCommands(snap, adapter))
    PROVE  Same(a, original)
<1>. DEFINE q == RestoreCommands(snap, adapter)
<1>1. LeftToRestore(original, adapter, q)
  BY RestoreStart DEF Sound, ARTypes
<1>2. q # <<>>
  <2>1. \A c, s, S : s \in Seq(S) => <<c>> \o s # <<>>
    OBVIOUS
  <2>. QED
    BY <2>1 DEF RestoreCommands, EnsureDhcp
<1>. HIDE DEF q
<1>3. a \in After(adapter, q)
  BY DEF q
<1>. QED
  BY <1>1, <1>2, <1>3, RestoreGivesBack DEF Sound, ARTypes, Own

(* Every step.                                                             *)
LEMMA ARStepKeeps ==
    ASSUME AdaptersShaped, ARInv, ARNext \/ UNCHANGED arVars PROVE ARInv'
<1>1. ASSUME Backed' PROVE Sound'
  <2>1. Sound
    BY <1>1, BackedBefore
  <2>. QED
    BY <1>1, <2>1, EnableKeeps, ReenableKeeps, DisableKeeps, NetshKeeps,
       FailureKeeps, FinishKeeps, WorldKeeps DEF ARNext
<1>. QED
  BY <1>1, FrameKept

-----------------------------------------------------------------------------
(* The adapter strategy keeps what it needs to undo itself: a snapshot of  *)
(* the user's own adapter while the bypass is on or commands are under way.*)
THEOREM AdapterInvHolds == AdaptersShaped /\ ARSpec => []ARInv
<1>. SUFFICES ASSUME AdaptersShaped PROVE ARSpec => []ARInv
  OBVIOUS
<1>1. ARInit => ARInv
  BY ARInitKeeps
<1>2. ARInv /\ [ARNext]_arVars => ARInv'
  BY ARStepKeeps
<1>. QED
  BY <1>1, <1>2, PTL DEF ARSpec

(* A disable or a fallback gives back the configuration the user had,      *)
(* after any number of cycles (adapter_reconfig.rs, restore_adapter),      *)
(* unless the loop has re-enabled what it had given up.                    *)
THEOREM AdapterComesBack ==
    AdaptersShaped /\ ARSpec => []RestoredCompletely
<1>1. ARInv => RestoredCompletely
  BY DEF ARInv, Sound, SnapshotSound, AtRest, RestoredCompletely, Own
<1>. QED
  BY <1>1, AdapterInvHolds, PTL

(* Between any two netsh commands the snapshot can undo what was done.     *)
THEOREM AdapterCanComeBack ==
    AdaptersShaped /\ ARSpec => []UndoIsPossible
<1>1. ARInv => UndoIsPossible
  <2>. SUFFICES ASSUME ARInv, Backed, ~Same(adapter, original) PROVE
         /\ snap # Nothing
         /\ \A a \in After(adapter, RestoreCommands(snap, adapter)) :
               Same(a, original)
    BY DEF UndoIsPossible
  <2>1. Sound
    BY DEF ARInv
  <2>2. Kept(original, snap)
    BY <2>1 DEF Sound, SnapshotSound, Own
  <2>. QED
    BY <2>1, <2>2, KeptIsSnapshot, KeptUndoes
<1>. QED
  BY <1>1, AdapterInvHolds, PTL
=============================================================================

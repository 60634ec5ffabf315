-------------------------- MODULE Datapath_proofs --------------------------
(***************************************************************************)
(* Proofs about Datapath, for any network and any number of changes.       *)
(***************************************************************************)
EXTENDS Datapath, FiniteSetTheorems, WellFoundedInduction, TLAPS

-----------------------------------------------------------------------------
(***************************************************************************)
(* Packets.                                                                *)
(***************************************************************************)

\* A packet on its way has all its fields, and is on the bridge of a chassis.
Fields == {"fate", "at", "table", "in", "tun", "dp", "src", "dst", "reg2", "reg3", "out",
           "reg5", "reg6", "reg7", "flags", "proto", "ethsrc", "ethdst", "ipsrc", "ipdst",
           "ttl", "orig", "up", "commit", "rerouted", "calm"}

IsPacket(p) == p = [f \in Fields |-> p[f]] /\ p.at \in Chassis

\* What was sent up to a controller, and what a connection tracker knows.
IsUpcall(u) ==
    /\ u.op \in {"arp", "unknow_dst", "generate_arp"}
    /\ u.op = "arp" => u.ip \in Addrs /\ u.mac \in Macs
    /\ u.op = "generate_arp" => u.tpa \in Addrs /\ u.spa \in Addrs /\ u.mac \in Macs

IsConnection(e) == e.ip \in Addrs /\ e.xip \in Addrs

\* The addresses a packet has, and what it leaves behind.
Addressed(p) ==
    /\ p.ipsrc \in Addrs /\ p.ipdst \in Addrs /\ p.reg2 \in Addrs /\ p.reg3 \in Addrs
    /\ p.ethsrc \in Macs
    /\ \A u \in p.up : IsUpcall(u)
    /\ \A e \in p.commit : IsConnection(e)

\* A packet was redirected at most once, and bears the mark if it was: in its
\* flags, or, until the first table unpacked it, in the header of the tunnel.
\* reg5 says that the way out is known: to the chassis of the destination, or
\* to a port of this one.
Marked(p) ==
    /\ p.rerouted \in {0, 1}
    /\ p.rerouted = 1 =>
        /\ p.table # REDIRECT_CHASSIS
        /\ IF p.table = 0 THEN p.in \in Chassis /\ "REDIRECT" \in p.tun.flags
           ELSE "REDIRECT" \in p.flags
        /\ p.table = OUTPUT_PKT /\ p.out \in Chassis => "REDIRECT" \in p.tun.flags
    /\ p.reg5 = 1 =>
        \/ p.table \in {LOOKUP_DST_PORT + 1, REDIRECT_CHASSIS, OUTPUT_PKT}
        \/ p.table = LSP_EGRESS_FIRST + 3 /\ p.out \notin Chassis

OnItsWay(p) == IsPacket(p) /\ Addressed(p) /\ Marked(p) /\ p.fate = "run"
Finished(p) ==
    /\ IsPacket(p) /\ Addressed(p) /\ p.rerouted \in {0, 1}
    /\ \/ p.fate = "lost"
       \/ /\ p.fate = "out" /\ p.out \notin {None, Unset}
          /\ p.out \in Chassis /\ p.rerouted = 1 => "REDIRECT" \in p.tun.flags

Sound(p) == OnItsWay(p) \/ Finished(p)

\* Two rules disagreed about the packet, or they send it round for ever.
Halted(p) ==
    /\ IsPacket(p) /\ Addressed(p) /\ p.rerouted \in {0, 1}
    /\ p.fate \in {"ambiguous", "looping"}

-----------------------------------------------------------------------------
(***************************************************************************)
(* The tables.                                                             *)
(***************************************************************************)

TableNumbers ==
    /\ LSP_INGRESS_FIRST = 1 /\ LOOKUP_DST_PORT = 6 /\ LSP_EGRESS_FIRST = 20
    /\ LRP_INGRESS_FIRST = 30 /\ IP_ROUTE = 37 /\ LRP_EGRESS_FIRST = 50 /\ FORWARD_PACKET = 57
    /\ OUTPUT_PKT = 94 /\ REDIRECT_CHASSIS = 95 /\ PIPELINE_FORWARD = 99

LEMMA Numbers == TableNumbers
BY DEF TableNumbers, LSP_INGRESS_FIRST, LOOKUP_DST_PORT, LSP_EGRESS_FIRST, LRP_INGRESS_FIRST,
       IP_ROUTE, LRP_EGRESS_FIRST, FORWARD_PACKET, OUTPUT_PKT, REDIRECT_CHASSIS, PIPELINE_FORWARD

\* What a rule makes of the packet.
LEMMA Rules ==
    /\ \A n, q : Rule(n, q).to = q /\ Rule(n, q).prio = n
    /\ \A b, n, q : \A r \in RuleIf(b, n, q) : b /\ r = Rule(n, q)
    /\ \A q : \A r \in Default(q) : r = Rule(0, q)
BY DEF Rule, RuleIf, Default

LEMMA Dropped == ASSUME NEW p, OnItsWay(p) PROVE Finished(Drop(p))
BY DEF OnItsWay, Finished, Drop, IsPacket, Addressed, Marked

\* A packet that goes on as it came, or with other addresses, or another way
\* out, to a table that does not redirect and does not put out.
Plain(t) == t \notin {0, OUTPUT_PKT, REDIRECT_CHASSIS}

LEMMA Passed ==
    ASSUME NEW p, OnItsWay(p), Plain(p.table), p.reg5 # 1,
           NEW q, IsPacket(q), Addressed(q), q.fate = p.fate, Plain(q.table),
           q.rerouted = p.rerouted, p.flags \subseteq q.flags, q.reg5 = p.reg5
    PROVE  Sound(q)
BY DEF OnItsWay, Marked, Plain, Sound

LEMMA Gone ==
    ASSUME NEW p, OnItsWay(p), Plain(p.table), p.reg5 # 1, NEW t, Plain(t)
    PROVE  Sound(Go(p, t))
<1>1. /\ IsPacket(Go(p, t)) /\ Addressed(Go(p, t)) /\ Go(p, t).fate = p.fate
      /\ Go(p, t).table = t /\ Go(p, t).rerouted = p.rerouted /\ Go(p, t).flags = p.flags
      /\ Go(p, t).reg5 = p.reg5
  BY DEF OnItsWay, IsPacket, Fields, Addressed, Go
<1> QED
  BY <1>1, Passed

\* reg5 is not set in the tables that come before it is, or after it was used.
LEMMA NoWayOut ==
    ASSUME NEW p, OnItsWay(p), p.table \notin {7, 23, 94, 95}
    PROVE  p.reg5 # 1
BY Numbers DEF OnItsWay, Marked, TableNumbers

\* q is p but for some fields.
Alike(p, q, S) == IsPacket(q) /\ \A f \in Fields \ S : q[f] = p[f]

Marks == {"fate", "table", "in", "tun", "out", "reg5", "flags", "rerouted"}

LEMMA OtherwiseSame ==
    ASSUME NEW p, OnItsWay(p), NEW q, NEW S, Alike(p, q, S),
           S \cap Marks = {},
           Addressed(q) \/ S \cap {"ipsrc", "ipdst", "reg2", "reg3", "ethsrc", "up", "commit"} = {}
    PROVE  /\ OnItsWay(q) /\ q.table = p.table /\ q.reg5 = p.reg5 /\ q.flags = p.flags
           /\ q.rerouted = p.rerouted
<1>1. \A f \in Marks : q[f] = p[f]
  BY DEF Alike, Marks, Fields
<1>2. Marked(q) /\ q.fate = "run"
  BY <1>1 DEF OnItsWay, Marked, Marks
<1>3. Addressed(q)
  <2>1. CASE S \cap {"ipsrc", "ipdst", "reg2", "reg3", "ethsrc", "up", "commit"} = {}
    <3>1. \A f \in {"ipsrc", "ipdst", "reg2", "reg3", "ethsrc", "up", "commit"} : q[f] = p[f]
      BY <2>1 DEF Alike, Fields
    <3> QED
      BY <3>1 DEF OnItsWay, Addressed
  <2> QED
    BY <2>1
<1> QED
  BY <1>1, <1>2, <1>3 DEF OnItsWay, Alike, Marks

LEMMA Uploaded ==
    ASSUME NEW p, OnItsWay(p), NEW u, IsUpcall(u)
    PROVE  /\ OnItsWay(Upload(p, u)) /\ Upload(p, u).table = p.table
           /\ Upload(p, u).reg5 = p.reg5 /\ Upload(p, u).flags = p.flags
           /\ Upload(p, u).rerouted = p.rerouted
<1> DEFINE q == Upload(p, u)
<1>1. Alike(p, q, {"up"}) /\ q.up = p.up \cup {u}
  BY DEF OnItsWay, IsPacket, Fields, Alike, Upload
<1> HIDE DEF q
<1>2. Addressed(q)
  BY <1>1 DEF OnItsWay, Addressed, Alike, Fields
<1>3. {"up"} \cap Marks = {}
  BY DEF Marks
<1>4. /\ OnItsWay(q) /\ q.table = p.table /\ q.reg5 = p.reg5 /\ q.flags = p.flags
      /\ q.rerouted = p.rerouted
  BY <1>1, <1>2, <1>3, OtherwiseSame
<1> QED
  BY <1>4 DEF q

LEMMA AskedArp ==
    ASSUME NEW c, NEW p, OnItsWay(p), p.table = 3
    PROVE  \A r \in lsp_arp_controller(c, p) : Sound(r.to)
<1> DEFINE q == upload_arp(p)
<1>1. p.reg5 # 1 /\ Plain(p.table) /\ Plain(4)
  BY NoWayOut, Numbers DEF Plain, TableNumbers
<1>2. OnItsWay(q) /\ q.table = p.table /\ q.reg5 = p.reg5
  <2>1. IsUpcall([op |-> "arp", ip |-> p.ipsrc, mac |-> p.ethsrc])
    BY DEF OnItsWay, Addressed, IsUpcall
  <2> QED
    BY <2>1, Uploaded DEF upload_arp
<1> HIDE DEF q
<1>3. Onward(p) = Go(p, 4) /\ Onward(q) = Go(q, 4)
  BY <1>2 DEF Onward
<1>4. Sound(Onward(p)) /\ Sound(Onward(q)) /\ Sound(Drop(q))
  BY <1>1, <1>2, <1>3, Gone, Dropped DEF Sound
<1> QED
  BY <1>4 DEF lsp_arp_controller, RuleIf, Default, Rule, q

\* The addresses that ARP requests are answered with.
LEMMA KnownAddresses ==
    ASSUME NEW c, NEW x \in _arp_ip_mac(c)
    PROVE  x.ip \in Addrs /\ x.mac \in Macs
<1>1. ASSUME NEW y \in active_lsp(c), x = [ls |-> y.ls, ip |-> y.ip, mac |-> y.mac]
      PROVE  x.ip \in Addrs /\ x.mac \in Macs
  <2>1. y.ip \in Addrs /\ y.mac \in Macs
    BY AddressAssumption DEF active_lsp, lsp_link_lrp, lsp_array, Macs
  <2> QED
    BY <1>1, <2>1
<1>2. ASSUME NEW l, NEW n \in Xlate, x = [ls |-> l.ls, ip |-> n.xip, mac |-> n.xmac]
      PROVE  x.ip \in Addrs /\ x.mac \in Macs
  BY <1>2, AddressAssumption DEF Macs
<1>3. \/ \E y \in active_lsp(c) : x = [ls |-> y.ls, ip |-> y.ip, mac |-> y.mac]
      \/ \E b \in lsp_link_lrp(c) \X Xlate :
            x = [ls |-> b[1].ls, ip |-> b[2].xip, mac |-> b[2].xmac]
  BY DEF _arp_ip_mac
<1> QED
  BY <1>1, <1>2, <1>3

\* A packet that is answered on the spot is one like any other.
LEMMA Answered ==
    ASSUME NEW c, NEW p, OnItsWay(p), NEW q \in arp_feedback_construct(c, p)
    PROVE  /\ OnItsWay(q) /\ q.table = p.table /\ q.reg5 = p.reg5
<1>1. CASE q = p
  BY <1>1
<1>2. ASSUME NEW x \in _arp_ip_mac(c),
             q = [Flag(p, "LOOPBACK") EXCEPT !.proto = "arpr", !.ethdst = p.ethsrc,
                    !.ethsrc = x.mac, !.ipsrc = x.ip, !.ipdst = p.ipsrc, !.dst = p.src]
      PROVE  /\ OnItsWay(q) /\ q.table = p.table /\ q.reg5 = p.reg5
  <2>1. x.ip \in Addrs /\ x.mac \in Macs
    BY KnownAddresses
  <2> DEFINE f == Flag(p, "LOOPBACK")
  <2>2. IsPacket(f) /\ f = [p EXCEPT !.flags = @ \cup {"LOOPBACK"}]
    BY DEF OnItsWay, IsPacket, Fields, Flag
  <2>3. /\ IsPacket(q) /\ q.fate = p.fate /\ q.table = p.table /\ q.in = p.in /\ q.tun = p.tun
        /\ q.reg2 = p.reg2 /\ q.reg3 = p.reg3 /\ q.out = p.out /\ q.reg5 = p.reg5
        /\ q.flags = p.flags \cup {"LOOPBACK"} /\ q.ethsrc = x.mac /\ q.ipsrc = x.ip
        /\ q.ipdst = p.ipsrc /\ q.up = p.up /\ q.commit = p.commit
        /\ q.rerouted = p.rerouted
    BY <1>2, <2>2, ZenonT(30) DEF OnItsWay, IsPacket, Fields
  <2> QED
    BY <2>1, <2>3 DEF OnItsWay, Addressed, Marked
<1> QED
  BY <1>1, <1>2 DEF arp_feedback_construct

LEMMA Flagged ==
    ASSUME NEW p, OnItsWay(p), NEW f
    PROVE  /\ OnItsWay(Flag(p, f)) /\ Flag(p, f).table = p.table /\ Flag(p, f).reg5 = p.reg5
           /\ Flag(p, f).flags = p.flags \cup {f} /\ Flag(p, f).rerouted = p.rerouted
BY DEF OnItsWay, IsPacket, Fields, Addressed, Marked, Flag

LEMMA AnsweredArp ==
    ASSUME NEW c, NEW p, OnItsWay(p), p.table = 4
    PROVE  \A r \in lsp_arp_response(c, p) : Sound(r.to)
<1>1. p.reg5 # 1 /\ Plain(p.table) /\ Plain(5)
  BY NoWayOut, Numbers DEF Plain, TableNumbers
<1>2. ASSUME NEW q, OnItsWay(q), q.table = p.table, q.reg5 = p.reg5
      PROVE  Sound(Onward(q))
  BY <1>1, <1>2, Gone DEF Onward
<1>3. \A q \in arp_feedback_construct(c, p) : Sound(Onward(q))
  BY <1>2, Answered
<1>4. Sound(Onward(p))
  BY <1>2
<1> QED
  BY <1>3, <1>4 DEF lsp_arp_response, Default, Rule

\* The way out becomes known in the table before the one that uses it.
LEMMA WayOutSet ==
    ASSUME NEW q, OnItsWay(q), q.table = 6, NEW o
    PROVE  Sound(Onward([q EXCEPT !.reg5 = 1, !.out = o]))
<1> DEFINE v == [q EXCEPT !.reg5 = 1, !.out = o]
           w == Onward(v)
<1>1. IsPacket(v) /\ v.table = 6 /\ \A f \in Fields \ {"reg5", "out"} : v[f] = q[f]
  BY DEF OnItsWay, IsPacket, Fields
<1> HIDE DEF v
<1>2. IsPacket(w) /\ w.table = 7 /\ \A f \in Fields \ {"table"} : w[f] = v[f]
  BY <1>1 DEF IsPacket, Fields, Onward, Go
<1> HIDE DEF w
<1>3. /\ w.fate = q.fate /\ w.flags = q.flags
      /\ w.reg2 = q.reg2 /\ w.reg3 = q.reg3 /\ w.ethsrc = q.ethsrc /\ w.ipsrc = q.ipsrc
      /\ w.ipdst = q.ipdst /\ w.up = q.up /\ w.commit = q.commit /\ w.rerouted = q.rerouted
  BY <1>1, <1>2 DEF Fields
<1>4. OnItsWay(w)
  BY <1>2, <1>3, Numbers DEF OnItsWay, Addressed, Marked, TableNumbers
<1> QED
  BY <1>4 DEF v, w, Sound

\* The destination is looked up: reg5 is set if the way out is a tunnel, or
\* unknown.
To(p, x) == [p EXCEPT !.dst = PortID(x.ip)]
Unknown(p) == [upload_unknow_dst(p) EXCEPT !.out = None, !.reg5 = 1]
Tunnel(c, p, d) == IF c \in Redirecting THEN Bundle(c, p, {d}) ELSE d

Looks(c, p, r) ==
    \/ \E x : r = Rule(5, Onward(To(p, x))) \/ r = Rule(4, Onward(To(p, x)))
              \/ r = Rule(2, Go(To(p, x), LSP_EGRESS_FIRST))
    \/ \E d \in remote_chassis(c) : \E x :
          r = Rule(3, Onward([To(p, x) EXCEPT !.reg5 = 1, !.out = Tunnel(c, p, d)]))
    \/ r = Rule(0, Onward(Unknown(p))) \/ r = Rule(0, Drop(p))

LEMMA LookupRules ==
    ASSUME NEW c, NEW p, NEW r, r \in lsp_lookup_dst_port(c, p)
    PROVE  Looks(c, p, r)
<1> DEFINE
       X(S) == {x \in S : x.ls = p.dp /\ x.mac = p.ethdst}
       L == {x \in lsp_link_lrp(c) :
                    x.ls = p.dp /\ \E n \in Xlate : n.lr = x.lr /\ n.xmac = p.ethdst}
       T5 == {Rule(5, Onward(To(p, l))) : l \in L}
       T4 == {Rule(4, Onward(To(p, x))) : x \in X(local_lsp(c))}
       T3(d) == {Rule(3, Onward([To(p, x) EXCEPT !.reg5 = 1, !.out = Tunnel(c, p, d)])) :
                    x \in X(remote_lsp(c, d))}
       T2 == {Rule(2, Go(To(p, Patch[x]), LSP_EGRESS_FIRST)) :
                 x \in {y \in local_patchport(c) : Patch[y].ls = p.dp}}
       T0 == Default(IF c \in OnDemand THEN Onward(Unknown(p)) ELSE Drop(p))
<1>1. lsp_lookup_dst_port(c, p)
        = T5 \cup T4 \cup (UNION {T3(d) : d \in remote_chassis(c)}) \cup T2 \cup T0
  BY DEF lsp_lookup_dst_port, To, Unknown, Tunnel
<1>2. r \in T5 => \E x : r = Rule(5, Onward(To(p, x)))
  OBVIOUS
<1>3. r \in T4 => \E x : r = Rule(4, Onward(To(p, x)))
  OBVIOUS
<1>4. \A d : r \in T3(d) =>
        \E x : r = Rule(3, Onward([To(p, x) EXCEPT !.reg5 = 1, !.out = Tunnel(c, p, d)]))
  OBVIOUS
<1>5. r \in T2 => \E x : r = Rule(2, Go(To(p, x), LSP_EGRESS_FIRST))
  OBVIOUS
<1>6. r \in T0 => r = Rule(0, Onward(Unknown(p))) \/ r = Rule(0, Drop(p))
  BY Rules
<1> HIDE DEF T5, T4, T3, T2, T0
<1>7. \/ r \in T5 \/ r \in T4 \/ (\E d \in remote_chassis(c) : r \in T3(d)) \/ r \in T2 \/ r \in T0
  BY <1>1
<1> QED
  <2>1. CASE r \in T5 \/ r \in T4 \/ r \in T2
    BY <2>1, <1>2, <1>3, <1>5 DEF Looks
  <2>2. CASE \E d \in remote_chassis(c) : r \in T3(d)
    BY <2>2, <1>4 DEF Looks
  <2>3. CASE r \in T0
    BY <2>3, <1>6 DEF Looks
  <2> QED
    BY <1>7, <2>1, <2>2, <2>3

LEMMA LookedUp ==
    ASSUME NEW c, NEW p, OnItsWay(p), p.table = 6, NEW r, r \in lsp_lookup_dst_port(c, p)
    PROVE  Sound(r.to)
<1> DEFINE u == upload_unknow_dst(p)
<1>1. p.reg5 # 1 /\ Plain(6) /\ Plain(7) /\ Plain(20) /\ LSP_EGRESS_FIRST = 20
  BY NoWayOut, Numbers DEF Plain, TableNumbers
<1>2. ASSUME NEW x
      PROVE  OnItsWay(To(p, x)) /\ To(p, x).table = 6 /\ To(p, x).reg5 = p.reg5
  <2>1. Alike(p, To(p, x), {"dst"})
    BY DEF OnItsWay, IsPacket, Fields, Alike, To
  <2>2. /\ {"dst"} \cap Marks = {}
        /\ {"dst"} \cap {"ipsrc", "ipdst", "reg2", "reg3", "ethsrc", "up", "commit"} = {}
    BY DEF Marks
  <2> QED
    BY <2>1, <2>2, OtherwiseSame
<1>3. OnItsWay(u) /\ u.table = 6 /\ u.reg5 = p.reg5
  BY Uploaded DEF upload_unknow_dst, IsUpcall
<1>4. Unknown(p) = [u EXCEPT !.reg5 = 1, !.out = None]
  BY <1>3 DEF Unknown, OnItsWay, IsPacket, Fields
<1> HIDE DEF u
<1>5. Sound(Onward(Unknown(p))) /\ Sound(Drop(p))
  BY <1>3, <1>4, WayOutSet, Dropped DEF Sound
<1>6. ASSUME NEW x
      PROVE  Sound(Onward(To(p, x))) /\ Sound(Go(To(p, x), LSP_EGRESS_FIRST))
  BY <1>1, <1>2, Gone DEF Onward
<1>7. ASSUME NEW x, NEW d
      PROVE  Sound(Onward([To(p, x) EXCEPT !.reg5 = 1, !.out = d]))
  BY <1>2, WayOutSet
<1>8. CASE \E x : r = Rule(5, Onward(To(p, x))) \/ r = Rule(4, Onward(To(p, x)))
                  \/ r = Rule(2, Go(To(p, x), LSP_EGRESS_FIRST))
  BY <1>6, <1>8, Rules
<1>9. CASE \E d \in remote_chassis(c) : \E x :
              r = Rule(3, Onward([To(p, x) EXCEPT !.reg5 = 1, !.out = Tunnel(c, p, d)]))
  <2>1. PICK x, d : r = Rule(3, Onward([To(p, x) EXCEPT !.reg5 = 1, !.out = d]))
    BY <1>9
  <2>2. r.to = Onward([To(p, x) EXCEPT !.reg5 = 1, !.out = d])
    BY <2>1, Rules
  <2> QED
    BY <2>2, <1>7
<1>10. CASE r = Rule(0, Onward(Unknown(p))) \/ r = Rule(0, Drop(p))
  BY <1>5, <1>10, Rules
<1> HIDE DEF u
<1>11. Looks(c, p, r)
  BY LookupRules
<1> QED
  BY <1>8, <1>9, <1>10, <1>11 DEF Looks

\* q may go on where p could.
Stands(p, q) == OnItsWay(q) /\ q.table = p.table /\ q.reg5 = p.reg5

\* The tables whose rules hand any packet on to a plain table.
Steady == {1, 2, 3, 4, 5, 20, 21, 30, 31, 32, 33, 34, 35, 36, 37, 38, 39,
           50, 51, 52, 53, 54, 55, 57, 58}

LEMMA Ahead ==
    ASSUME NEW p, OnItsWay(p), p.table \in Steady, NEW q, Stands(p, q)
    PROVE  Sound(Onward(q)) /\ \A t : Plain(t) => Sound(Go(q, t))
<1>1. /\ p.table \notin {7, 23, 94, 95} /\ Plain(p.table) /\ Plain(p.table + 1)
  BY Numbers DEF Steady, Plain, TableNumbers
<1>2. p.reg5 # 1
  BY <1>1, NoWayOut
<1>3. \A t : Plain(t) => Sound(Go(q, t))
  BY <1>1, <1>2, Gone DEF Stands
<1> QED
  BY <1>1, <1>3 DEF Onward, Stands

\* The way out is used: to the chassis at its end, or to the chassis for help.
LEMMA Embedded ==
    ASSUME NEW p, OnItsWay(p), p.table # 0, p.table # 94
    PROVE  Sound(Go(embed_metadata(p), OUTPUT_PKT))
<1> DEFINE q == Go(embed_metadata(p), OUTPUT_PKT)
<1>1. /\ IsPacket(q) /\ q.table = OUTPUT_PKT /\ q.tun.flags = p.flags
      /\ \A f \in Fields \ {"tun", "table"} : q[f] = p[f]
  BY DEF OnItsWay, IsPacket, Fields, Go, embed_metadata
<1> HIDE DEF q
<1>2. /\ q.fate = p.fate /\ q.flags = p.flags /\ q.reg5 = p.reg5
      /\ q.reg2 = p.reg2 /\ q.reg3 = p.reg3 /\ q.ethsrc = p.ethsrc /\ q.ipsrc = p.ipsrc
      /\ q.ipdst = p.ipdst /\ q.up = p.up /\ q.commit = p.commit /\ q.rerouted = p.rerouted
  BY <1>1 DEF Fields
<1>3. OnItsWay(q)
  BY <1>1, <1>2, Numbers DEF OnItsWay, Addressed, Marked, TableNumbers
<1> QED
  BY <1>3 DEF q, Sound

LEMMA AskForHelp ==
    ASSUME NEW p, OnItsWay(p), p.rerouted = 0
    PROVE  Sound(Go(p, REDIRECT_CHASSIS))
<1>1. /\ IsPacket(Go(p, REDIRECT_CHASSIS)) /\ Addressed(Go(p, REDIRECT_CHASSIS))
      /\ Go(p, REDIRECT_CHASSIS).fate = "run" /\ Go(p, REDIRECT_CHASSIS).rerouted = 0
      /\ Go(p, REDIRECT_CHASSIS).table = REDIRECT_CHASSIS
  BY DEF OnItsWay, IsPacket, Fields, Addressed, Go
<1> QED
  BY <1>1, Numbers DEF OnItsWay, Marked, Sound, TableNumbers

LEMMA PutOut ==
    ASSUME NEW c, NEW p, OnItsWay(p), p.table = 7, NEW r, r \in lsp_output_dst_port(c, p),
           \A y \in lsp_output_dst_port(c, p) : y.prio <= r.prio
    PROVE  Sound(r.to)
<1> DEFINE ask == c \in Redirecting /\ p.reg5 = 1 /\ p.out = None
<1>1. \/ r = Rule(4, Drop(p))
      \/ ask /\ r = Rule(3, Go(p, REDIRECT_CHASSIS))
      \/ r = Rule(2, Go(embed_metadata(p), OUTPUT_PKT))
      \/ r = Rule(1, Go(p, LSP_EGRESS_FIRST))
  BY DEF lsp_output_dst_port, RuleIf
<1>2. ask /\ "REDIRECT" \in p.flags => Rule(4, Drop(p)) \in lsp_output_dst_port(c, p)
  BY DEF lsp_output_dst_port, RuleIf
<1>3. p.reg5 = 1 => Rule(2, Go(embed_metadata(p), OUTPUT_PKT)) \in lsp_output_dst_port(c, p)
  BY DEF lsp_output_dst_port, RuleIf
<1>4. CASE r = Rule(4, Drop(p))
  BY <1>4, Dropped, Rules DEF Sound
<1>5. CASE ask /\ r = Rule(3, Go(p, REDIRECT_CHASSIS))
  <2>1. r.to = Go(p, REDIRECT_CHASSIS) /\ r.prio = 3
    BY <1>5, Rules
  <2>2. "REDIRECT" \notin p.flags
    BY <1>2, <1>5, <2>1, Rules
  <2>3. p.rerouted = 0
    BY <2>2 DEF OnItsWay, Marked
  <2> QED
    BY <2>1, <2>3, AskForHelp
<1>6. CASE r = Rule(2, Go(embed_metadata(p), OUTPUT_PKT))
  BY <1>6, Embedded, Rules
<1>7. CASE r = Rule(1, Go(p, LSP_EGRESS_FIRST))
  <2>1. r.to = Go(p, LSP_EGRESS_FIRST) /\ r.prio = 1
    BY <1>7, Rules
  <2>2. p.reg5 # 1
    BY <1>3, <2>1, Rules
  <2>3. Plain(p.table) /\ Plain(LSP_EGRESS_FIRST)
    BY Numbers DEF Plain, TableNumbers
  <2> QED
    BY <2>1, <2>2, <2>3, Gone
<1> QED
  BY <1>1, <1>4, <1>5, <1>6, <1>7

\* A packet may be sent back: the port it came from counts no longer.
LEMMA Returned ==
    ASSUME NEW c, NEW p, OnItsWay(p), p.table = 21, NEW r, r \in lsp_judge_loopback(c, p)
    PROVE  Sound(r.to)
<1> DEFINE q == [p EXCEPT !.in = None]
<1>1. Stands(p, q)
  <2>1. IsPacket(q) /\ \A f \in Fields \ {"in"} : q[f] = p[f]
    BY DEF OnItsWay, IsPacket, Fields
  <2> HIDE DEF q
  <2>2. \A f \in {"fate", "table", "tun", "reg5", "flags", "rerouted", "out", "up", "commit",
                  "ipsrc", "ipdst", "ethsrc", "reg2", "reg3"} : q[f] = p[f]
    BY <2>1 DEF Fields
  <2>3. Addressed(q) /\ Marked(q) /\ q.fate = "run"
    BY <2>2 DEF OnItsWay, Addressed, Marked
  <2> QED
    BY <2>1, <2>2, <2>3 DEF OnItsWay, Stands
<1>2. Stands(p, p) /\ p.table \in Steady
  BY DEF Stands, Steady
<1>3. Sound(Onward(p)) /\ Sound(Onward(q))
  BY <1>1, <1>2, Ahead
<1>4. r.to = Onward(p) \/ r.to = Onward(q)
  BY Rules DEF lsp_judge_loopback
<1> QED
  BY <1>3, <1>4

\* A port of this bridge is no chassis.
LEMMA LocalPorts ==
    ASSUME NEW c, NEW x \in local_bond_lsp(c)
    PROVE  x \notin Chassis
BY NamesAssumption DEF local_bond_lsp, lsp_array, local_patchport, Ports

\* The port of the destination is found on this bridge, and put out to in the
\* next table.
LEMMA PortFound ==
    ASSUME NEW p, OnItsWay(p), p.table = 22, NEW x, x \notin Chassis
    PROVE  Sound(Onward([p EXCEPT !.reg5 = 1, !.out = x]))
<1> DEFINE v == [p EXCEPT !.reg5 = 1, !.out = x]
           w == Onward(v)
<1>1. /\ IsPacket(v) /\ v.table = 22 /\ v.out = x
      /\ \A f \in Fields \ {"reg5", "out"} : v[f] = p[f]
  BY DEF OnItsWay, IsPacket, Fields
<1> HIDE DEF v
<1>2. IsPacket(w) /\ w.table = 23 /\ \A f \in Fields \ {"table"} : w[f] = v[f]
  BY <1>1 DEF IsPacket, Fields, Onward, Go
<1> HIDE DEF w
<1>3. /\ w.fate = p.fate /\ w.flags = p.flags /\ w.out = x
      /\ w.reg2 = p.reg2 /\ w.reg3 = p.reg3 /\ w.ethsrc = p.ethsrc /\ w.ipsrc = p.ipsrc
      /\ w.ipdst = p.ipdst /\ w.up = p.up /\ w.commit = p.commit /\ w.rerouted = p.rerouted
  BY <1>1, <1>2 DEF Fields
<1>4. OnItsWay(w)
  BY <1>2, <1>3, Numbers DEF OnItsWay, Addressed, Marked, TableNumbers
<1> QED
  BY <1>4 DEF v, w, Sound

ToRouter(p, l) == [p EXCEPT !.reg6 = l.lr, !.reg7 = PortID(l.ip)]

LEMMA Forwarded ==
    ASSUME NEW c, NEW p, OnItsWay(p), p.table = 22, NEW r, r \in lsp_forward_packet(c, p)
    PROVE  Sound(r.to)
<1> DEFINE f == Flag(p, "REDIRECT")
<1>1. p.reg5 # 1 /\ Plain(22) /\ Plain(23) /\ Plain(LOOKUP_DST_PORT)
  BY NoWayOut, Numbers DEF Plain, TableNumbers
<1>2. OnItsWay(f) /\ f.table = 22 /\ f.reg5 = p.reg5
  BY Flagged
<1> HIDE DEF f
<1>3. CASE r \in {Rule(3, Onward([p EXCEPT !.reg5 = 1, !.out = x])) :
                     x \in {y \in local_bond_lsp(c) :
                               PortOf(y).ls = p.dp /\ PortID(PortOf(y).ip) = p.dst}}
  <2>1. PICK x \in local_bond_lsp(c) : r = Rule(3, Onward([p EXCEPT !.reg5 = 1, !.out = x]))
    BY <1>3
  <2>2. r.to = Onward([p EXCEPT !.reg5 = 1, !.out = x])
    BY <2>1, Rules
  <2> QED
    BY <2>2, LocalPorts, PortFound
<1>4. CASE r \in {Rule(2, Onward(ToRouter(p, l))) :
                     l \in {x \in lsp_link_lrp(c) : x.ls = p.dp /\ PortID(x.ip) = p.dst}}
  <2>1. PICK l : r = Rule(2, Onward(ToRouter(p, l)))
    BY <1>4
  <2>2. Alike(p, ToRouter(p, l), {"reg6", "reg7"})
    BY DEF OnItsWay, IsPacket, Fields, Alike, ToRouter
  <2>3. /\ {"reg6", "reg7"} \cap Marks = {}
        /\ {"reg6", "reg7"}
             \cap {"ipsrc", "ipdst", "reg2", "reg3", "ethsrc", "up", "commit"} = {}
    BY DEF Marks
  <2>4. /\ OnItsWay(ToRouter(p, l)) /\ ToRouter(p, l).table = 22
        /\ ToRouter(p, l).reg5 = p.reg5
    BY <2>2, <2>3, OtherwiseSame
  <2>5. Onward(ToRouter(p, l)) = Go(ToRouter(p, l), 23)
    BY <2>4 DEF Onward
  <2>6. Sound(Onward(ToRouter(p, l)))
    BY <1>1, <2>4, <2>5, Gone
  <2> QED
    BY <2>1, <2>6, Rules
<1>5. CASE r = Rule(0, Go(f, LOOKUP_DST_PORT))
  BY <1>1, <1>2, <1>5, Gone, Rules
<1>6. CASE r \in {Rule(0, Go(q, LOOKUP_DST_PORT)) :
                     q \in {x \in arp_feedback_construct(c, f) : p.proto = "arpq"}}
  <2>1. PICK q \in arp_feedback_construct(c, f) : r = Rule(0, Go(q, LOOKUP_DST_PORT))
    BY <1>6
  <2>2. OnItsWay(q) /\ q.table = 22 /\ q.reg5 = p.reg5
    BY <1>2, Answered
  <2>3. Sound(Go(q, LOOKUP_DST_PORT))
    BY <1>1, <2>2, Gone
  <2> QED
    BY <2>1, <2>3, Rules
<1>7. \/ r \in {Rule(3, Onward([p EXCEPT !.reg5 = 1, !.out = x])) :
                   x \in {y \in local_bond_lsp(c) :
                             PortOf(y).ls = p.dp /\ PortID(PortOf(y).ip) = p.dst}}
      \/ r \in {Rule(2, Onward(ToRouter(p, l))) :
                   l \in {x \in lsp_link_lrp(c) : x.ls = p.dp /\ PortID(x.ip) = p.dst}}
      \/ r = Rule(0, Go(f, LOOKUP_DST_PORT))
      \/ r \in {Rule(0, Go(q, LOOKUP_DST_PORT)) :
                   q \in {x \in arp_feedback_construct(c, f) : p.proto = "arpq"}}
  BY DEF lsp_forward_packet, ToRouter, RuleIf, f
<1> QED
  BY <1>3, <1>4, <1>5, <1>6, <1>7

ToPipeline(p) == [p EXCEPT !.dp = p.reg6, !.src = p.reg7, !.reg6 = None, !.reg7 = 0]

LEMMA PushedOut ==
    ASSUME NEW c, NEW p, OnItsWay(p), p.table = 23, NEW r, r \in lsp_pushout_packet(c, p),
           \A y \in lsp_pushout_packet(c, p) : y.prio <= r.prio
    PROVE  Sound(r.to)
<1> DEFINE q == ToPipeline(p)
<1>1. \/ p.reg5 = 1 /\ r = Rule(2, Go(p, OUTPUT_PKT))
      \/ r = Rule(1, Go(q, LRP_INGRESS_FIRST))
  BY DEF lsp_pushout_packet, ToPipeline, RuleIf
<1>2. p.reg5 = 1 => Rule(2, Go(p, OUTPUT_PKT)) \in lsp_pushout_packet(c, p)
  BY DEF lsp_pushout_packet, RuleIf
<1>3. CASE p.reg5 = 1 /\ r = Rule(2, Go(p, OUTPUT_PKT))
  <2> DEFINE o == Go(p, OUTPUT_PKT)
  <2>1. p.out \notin Chassis
    BY <1>3, Numbers DEF OnItsWay, Marked, TableNumbers
  <2>2. IsPacket(o) /\ o.table = 94 /\ \A f \in Fields \ {"table"} : o[f] = p[f]
    BY Numbers DEF OnItsWay, IsPacket, Fields, Go, TableNumbers
  <2> HIDE DEF o
  <2>3. \A f \in {"fate", "tun", "reg5", "flags", "rerouted", "out", "up", "commit",
                  "ipsrc", "ipdst", "ethsrc", "reg2", "reg3"} : o[f] = p[f]
    BY <2>2 DEF Fields
  <2>4. OnItsWay(o)
    BY <2>1, <2>2, <2>3, Numbers DEF OnItsWay, Addressed, Marked, TableNumbers
  <2> QED
    BY <1>3, <2>4, Rules DEF Sound, o
<1>4. CASE r = Rule(1, Go(q, LRP_INGRESS_FIRST))
  <2>1. r.to = Go(q, LRP_INGRESS_FIRST) /\ r.prio = 1
    BY <1>4, Rules
  <2>2. p.reg5 # 1
    BY <1>2, <2>1, Rules
  <2>3. Alike(p, q, {"dp", "src", "reg6", "reg7"})
    BY DEF OnItsWay, IsPacket, Fields, Alike, ToPipeline
  <2>4. /\ {"dp", "src", "reg6", "reg7"} \cap Marks = {}
        /\ {"dp", "src", "reg6", "reg7"}
             \cap {"ipsrc", "ipdst", "reg2", "reg3", "ethsrc", "up", "commit"} = {}
    BY DEF Marks
  <2>5. OnItsWay(q) /\ q.table = p.table /\ q.reg5 = p.reg5
    BY <2>3, <2>4, OtherwiseSame
  <2>6. Plain(q.table) /\ Plain(LRP_INGRESS_FIRST)
    BY <2>5, Numbers DEF Plain, TableNumbers
  <2> QED
    BY <2>1, <2>2, <2>5, <2>6, Gone
<1> QED
  BY <1>1, <1>3, <1>4

\* The first table: what comes through a tunnel takes over its header.
Unpacked(p) == Go(Flag(extract_metadata(p), "LOOPBACK"), PIPELINE_FORWARD)
Placed(p, x) == Onward([p EXCEPT !.src = PortID(PortOf(x).ip), !.dp = PortOf(x).ls])

LEMMA Converted ==
    ASSUME NEW c, NEW p, OnItsWay(p), p.table = 0, NEW r, r \in convert_phy_logical(c, p)
    PROVE  Sound(r.to)
<1>1. p.reg5 # 1
  BY NoWayOut
<1>2. CASE r = Rule(2, Unpacked(p))
  <2> DEFINE q == Unpacked(p)
  <2>1. /\ IsPacket(q) /\ q.table = 99 /\ q.flags = p.tun.flags \cup {"LOOPBACK"}
        /\ \A f \in Fields \ {"table", "dp", "src", "dst", "flags"} : q[f] = p[f]
    BY Numbers, ZenonT(30) DEF OnItsWay, IsPacket, Fields, Unpacked, Go, Flag, extract_metadata,
                   TableNumbers
  <2> HIDE DEF q
  <2>2. \A f \in {"fate", "reg5", "rerouted", "up", "commit", "ipsrc", "ipdst", "ethsrc",
                  "reg2", "reg3"} : q[f] = p[f]
    BY <2>1 DEF Fields
  <2>3. Addressed(q) /\ q.fate = "run"
    BY <2>2 DEF OnItsWay, Addressed
  <2>4. Marked(q)
    BY <1>1, <2>1, <2>2, Numbers DEF OnItsWay, Marked, TableNumbers
  <2> QED
    BY <1>2, <2>1, <2>3, <2>4, Rules DEF OnItsWay, Sound, q
<1>3. ASSUME NEW x, x \in local_bond_lsp(c), x = p.in, r = Rule(2, Placed(p, x))
      PROVE  Sound(r.to)
  <2> DEFINE v == [p EXCEPT !.src = PortID(PortOf(x).ip), !.dp = PortOf(x).ls]
             q == Placed(p, x)
  <2>0. IsPacket(v) /\ v.table = 0 /\ \A f \in Fields \ {"dp", "src"} : v[f] = p[f]
    BY DEF OnItsWay, IsPacket, Fields
  <2>1. p.rerouted = 0
    BY <1>3, LocalPorts DEF OnItsWay, Marked
  <2>5. q = Go(v, 1)
    BY <2>0 DEF Placed, Onward
  <2> HIDE DEF v
  <2>2. /\ IsPacket(q) /\ q.table = 1
        /\ \A f \in Fields \ {"table", "dp", "src"} : q[f] = p[f]
    BY <2>0, <2>5 DEF IsPacket, Fields, Go
  <2> HIDE DEF q
  <2>3. \A f \in {"fate", "reg5", "rerouted", "up", "commit", "ipsrc", "ipdst", "ethsrc",
                  "reg2", "reg3"} : q[f] = p[f]
    BY <2>2 DEF Fields
  <2>4. Addressed(q) /\ Marked(q) /\ q.fate = "run"
    BY <1>1, <2>1, <2>3 DEF OnItsWay, Addressed, Marked
  <2> QED
    BY <1>3, <2>2, <2>4, Rules DEF OnItsWay, Sound, q
<1>4. \/ r = Rule(2, Unpacked(p))
      \/ \E x \in local_bond_lsp(c) : x = p.in /\ r = Rule(2, Placed(p, x))
  BY DEF convert_phy_logical, Unpacked, Placed, RuleIf
<1> QED
  BY <1>2, <1>3, <1>4

\* The last one of a bridge.
LEMMA Output ==
    ASSUME NEW c, NEW p, OnItsWay(p), p.table = 94, NEW r, r \in output_pkt_by_reg(c, p),
           \A y \in output_pkt_by_reg(c, p) : y.prio <= r.prio
    PROVE  Sound(r.to)
<1> DEFINE q == [p EXCEPT !.fate = "out"]
<1>1. ASSUME p.out \notin {None, Unset} PROVE Finished(q)
  <2>1. IsPacket(q) /\ q.fate = "out" /\ \A f \in Fields \ {"fate"} : q[f] = p[f]
    BY DEF OnItsWay, IsPacket, Fields
  <2> HIDE DEF q
  <2>2. \A f \in {"out", "tun", "rerouted", "up", "commit", "ipsrc", "ipdst", "ethsrc",
                  "reg2", "reg3"} : q[f] = p[f]
    BY <2>1 DEF Fields
  <2>3. Addressed(q)
    BY <2>2 DEF OnItsWay, Addressed
  <2>4. q.rerouted \in {0, 1}
    BY <2>2 DEF OnItsWay, Marked
  <2>5. q.out \in Chassis /\ q.rerouted = 1 => "REDIRECT" \in q.tun.flags
    BY <2>2, Numbers DEF OnItsWay, Marked, TableNumbers
  <2>6. q.out \notin {None, Unset}
    BY <1>1, <2>2
  <2> QED
    BY <2>1, <2>3, <2>4, <2>5, <2>6 DEF Finished
<1>2. p.out = None => r.to = Drop(p)
  <2>1. p.out = None => Rule(1, Drop(p)) \in output_pkt_by_reg(c, p)
    BY DEF output_pkt_by_reg, RuleIf
  <2>2. p.out = None => r.prio # 0
    BY <2>1, Rules
  <2>3. r.prio = 0 \/ r = Rule(1, Drop(p))
    BY Rules DEF output_pkt_by_reg
  <2> QED
    BY <2>2, <2>3, Rules
<1>3. r.to = Drop(p) \/ (r.to = q /\ p.out # Unset)
  BY Rules DEF output_pkt_by_reg
<1> QED
  BY <1>1, <1>2, <1>3, Dropped DEF Sound

\* An edge is asked for help: only of a packet that was not yet redirected.
LEMMA Redirected ==
    ASSUME NEW c, NEW p, OnItsWay(p), p.table = 95, NEW r, r \in redirect_other_chassis(c, p)
    PROVE  Sound(r.to)
<1> DEFINE g == Bundle(c, p, gateway_ofport(c))
           v == [Flag(p, "REDIRECT") EXCEPT
                    !.out = g, !.rerouted = IF @ < 2 THEN @ + 1 ELSE @]
           q == Go(embed_metadata(v), OUTPUT_PKT)
<1>1. p.rerouted = 0
  BY Numbers DEF OnItsWay, Marked, TableNumbers
<1> HIDE DEF g
<1>2. /\ IsPacket(v) /\ v.flags = p.flags \cup {"REDIRECT"} /\ v.rerouted = 1
      /\ \A f \in Fields \ {"flags", "out", "rerouted"} : v[f] = p[f]
  <2> DEFINE u == Flag(p, "REDIRECT")
  <2>1. /\ IsPacket(u) /\ u.flags = p.flags \cup {"REDIRECT"} /\ u.rerouted = 0
        /\ \A f \in Fields \ {"flags"} : u[f] = p[f]
    BY <1>1 DEF OnItsWay, IsPacket, Fields, Flag
  <2> HIDE DEF u
  <2>2. v = [u EXCEPT !.out = g, !.rerouted = IF @ < 2 THEN @ + 1 ELSE @]
    BY DEF u
  <2>3. v = [u EXCEPT !.out = g, !.rerouted = 1]
    BY <2>1, <2>2
  <2> HIDE DEF v
  <2> QED
    BY <2>1, <2>3 DEF IsPacket, Fields
<1> HIDE DEF v
<1>3. /\ IsPacket(q) /\ q.table = 94 /\ q.tun.flags = v.flags
      /\ \A f \in Fields \ {"tun", "table"} : q[f] = v[f]
  BY <1>2, Numbers DEF IsPacket, Fields, embed_metadata, Go, TableNumbers
<1> HIDE DEF q
<1>4. /\ q.flags = p.flags \cup {"REDIRECT"} /\ q.rerouted = 1 /\ q.fate = "run"
      /\ q.reg5 = p.reg5 /\ "REDIRECT" \in q.tun.flags
  BY <1>2, <1>3 DEF Fields, OnItsWay
<1>5. Addressed(q)
  <2>1. \A f \in {"up", "commit", "ipsrc", "ipdst", "ethsrc", "reg2", "reg3"} : q[f] = p[f]
    BY <1>2, <1>3 DEF Fields
  <2> QED
    BY <2>1 DEF OnItsWay, Addressed
<1>6. Marked(q)
  BY <1>3, <1>4, Numbers DEF Marked, TableNumbers
<1>7. Sound(q)
  BY <1>3, <1>4, <1>5, <1>6 DEF Sound, OnItsWay
<1>8. r.to = q \/ r.to = Drop(p)
  BY Rules DEF redirect_other_chassis, g, v, q
<1> QED
  BY <1>7, <1>8, Dropped DEF Sound

LEMMA Pipelined ==
    ASSUME NEW c, NEW p, OnItsWay(p), p.table = 99, NEW r, r \in pipeline_forward(c, p)
    PROVE  Sound(r.to)
<1>1. p.reg5 # 1 /\ Plain(99) /\ Plain(IP_ROUTE) /\ Plain(LSP_EGRESS_FIRST)
  BY NoWayOut, Numbers DEF Plain, TableNumbers
<1>2. Sound(Go(p, IP_ROUTE)) /\ Sound(Go(p, LSP_EGRESS_FIRST))
  BY <1>1, Gone
<1> QED
  BY <1>2, Rules DEF pipeline_forward

(***************************************************************************)
(* The tables of a router.                                                 *)
(***************************************************************************)

\* The fields that these tables rewrite.
Headers == {"proto", "ipsrc", "ipdst", "ethsrc", "ethdst", "ttl", "dp", "src", "dst",
            "reg2", "reg3", "commit"}

LEMMA Rewritten ==
    ASSUME NEW p, OnItsWay(p), NEW q, Alike(p, q, Headers),
           q.ipsrc \in Addrs, q.ipdst \in Addrs, q.reg2 \in Addrs, q.reg3 \in Addrs,
           q.ethsrc \in Macs, \A e \in q.commit : IsConnection(e)
    PROVE  Stands(p, q)
<1>1. q.up = p.up
  BY DEF Alike, Headers, Fields
<1>2. Addressed(q)
  BY <1>1 DEF OnItsWay, Addressed
<1>3. Headers \cap Marks = {}
  BY DEF Headers, Marks
<1> QED
  BY <1>2, <1>3, OtherwiseSame DEF Stands

LEMMA StandsFlagged ==
    ASSUME NEW p, OnItsWay(p), NEW f
    PROVE  /\ Stands(p, Flag(p, f)) /\ Alike(p, Flag(p, f), {"flags"})
           /\ Flag(p, f).ipsrc = p.ipsrc /\ Flag(p, f).ipdst = p.ipdst
           /\ Flag(p, f).reg2 = p.reg2 /\ Flag(p, f).reg3 = p.reg3
           /\ Flag(p, f).ethsrc = p.ethsrc /\ Flag(p, f).commit = p.commit
<1>1. Alike(p, Flag(p, f), {"flags"})
  BY DEF OnItsWay, IsPacket, Fields, Flag, Alike
<1> QED
  BY <1>1, Flagged DEF Stands, Alike, Fields

Echo(p) ==
    [Flag(p, "LOOPBACK") EXCEPT !.proto = "ip", !.ipsrc = p.ipdst, !.ipdst = p.ipsrc,
                                !.ttl = 255, !.dst = p.src]

LEMMA EchoStands == ASSUME NEW p, OnItsWay(p) PROVE Stands(p, Echo(p))
<1> DEFINE f == Flag(p, "LOOPBACK")
           q == Echo(p)
<1>1. /\ OnItsWay(f) /\ f.table = p.table /\ f.reg5 = p.reg5 /\ f.reg2 = p.reg2
      /\ f.reg3 = p.reg3 /\ f.ethsrc = p.ethsrc /\ f.commit = p.commit
  BY StandsFlagged DEF Stands
<1>2. q = [f EXCEPT !.proto = "ip", !.ipsrc = p.ipdst, !.ipdst = p.ipsrc,
                    !.ttl = 255, !.dst = p.src]
  BY DEF Echo
<1> HIDE DEF f, q
<1>3. IsPacket(f)
  BY <1>1 DEF OnItsWay
<1>4. /\ IsPacket(q) /\ q.ipsrc = p.ipdst /\ q.ipdst = p.ipsrc
      /\ \A x \in Fields \ {"proto", "ipsrc", "ipdst", "ttl", "dst"} : q[x] = f[x]
  <2>1. f = [x \in Fields |-> f[x]]
    BY <1>3 DEF IsPacket
  <2>2. q = [x \in Fields |-> IF x = "proto" THEN "ip" ELSE IF x = "ipsrc" THEN p.ipdst
                              ELSE IF x = "ipdst" THEN p.ipsrc ELSE IF x = "ttl" THEN 255
                              ELSE IF x = "dst" THEN p.src ELSE f[x]]
    BY <1>2, <2>1
  <2>3. {"proto", "ipsrc", "ipdst", "ttl", "dst"} \subseteq Fields
        /\ "at" \in Fields \ {"proto", "ipsrc", "ipdst", "ttl", "dst"}
    BY DEF Fields
  <2> QED
    BY <1>3, <2>2, <2>3 DEF IsPacket
<1>5. /\ q.reg2 = p.reg2 /\ q.reg3 = p.reg3 /\ q.ethsrc = p.ethsrc /\ q.commit = p.commit
  BY <1>1, <1>4 DEF Fields
<1>6. Alike(f, q, Headers)
  BY <1>4 DEF Alike, Headers
<1>7. Stands(f, q)
  BY <1>1, <1>4, <1>5, <1>6, Rewritten DEF OnItsWay, Addressed
<1> QED
  BY <1>1, <1>7 DEF Stands, q

LEMMA PingAnswered ==
    ASSUME NEW c, NEW p, OnItsWay(p), p.table = 31, NEW r, r \in lrp_pkt_response(c, p)
    PROVE  Sound(r.to)
<1>1. Stands(p, Echo(p)) /\ Stands(p, p) /\ p.table \in Steady
  BY EchoStands DEF Stands, Steady
<1>2. Sound(Onward(Echo(p))) /\ Sound(Onward(p))
  BY <1>1, Ahead
<1>3. r = Rule(3, Onward(Echo(p))) \/ r = Rule(0, Onward(p))
  BY DEF lrp_pkt_response, Echo, RuleIf
<1> QED
  BY <1>2, <1>3, Rules

LEMMA TtlDecreased ==
    ASSUME NEW c, NEW p, OnItsWay(p), p.table = 32, NEW r, r \in lrp_drop_unexpect(c, p)
    PROVE  Sound(r.to)
<1> DEFINE q == [p EXCEPT !.ttl = @ - 1]
<1>1. /\ Alike(p, q, Headers) /\ q.ipsrc = p.ipsrc /\ q.ipdst = p.ipdst
      /\ q.reg2 = p.reg2 /\ q.reg3 = p.reg3 /\ q.ethsrc = p.ethsrc /\ q.commit = p.commit
  BY DEF OnItsWay, IsPacket, Fields, Alike, Headers
<1> HIDE DEF q
<1>2. Stands(p, q) /\ p.table \in Steady
  BY <1>1, Rewritten DEF OnItsWay, Addressed, Steady
<1>3. r.to = Drop(p) \/ r.to = Onward(q)
  BY Rules DEF lrp_drop_unexpect, q
<1> QED
  BY <1>2, <1>3, Ahead, Dropped DEF Sound

\* What the connection tracker puts in the place of an address is one.
LEMMA RestoredAddress ==
    ASSUME NEW c, \A e \in ct[c] : IsConnection(e), NEW p, OnItsWay(p), NEW type,
           NEW a \in Addrs, NEW by, NEW to \in {"ip", "xip"}
    PROVE  Restored(c, p, type, a, by, to) \in Addrs
<1>1. \A e \in Tracked(c, p, type) : e[to] \in Addrs
  BY DEF Tracked, OnItsWay, Addressed, IsConnection
<1>2. CASE \E e \in Tracked(c, p, type) : e[by] = a
  <2> DEFINE e == CHOOSE e \in Tracked(c, p, type) : e[by] = a
  <2>1. e \in Tracked(c, p, type)
    BY <1>2
  <2>2. Restored(c, p, type, a, by, to) = e[to]
    BY <1>2 DEF Restored
  <2> HIDE DEF e
  <2> QED
    BY <1>1, <2>1, <2>2
<1>3. CASE ~\E e \in Tracked(c, p, type) : e[by] = a
  BY <1>3 DEF Restored
<1> QED
  BY <1>2, <1>3

\* NAT of a destination, of a source.
LEMMA ToAddress ==
    ASSUME NEW p, OnItsWay(p), NEW a \in Addrs
    PROVE  Stands(p, [p EXCEPT !.ipdst = a]) /\ Stands(p, [p EXCEPT !.ipsrc = a])
<1> DEFINE q == [p EXCEPT !.ipdst = a]
           s == [p EXCEPT !.ipsrc = a]
<1>1. /\ Alike(p, q, Headers) /\ q.ipsrc = p.ipsrc /\ q.ipdst = a
      /\ q.reg2 = p.reg2 /\ q.reg3 = p.reg3 /\ q.ethsrc = p.ethsrc /\ q.commit = p.commit
  BY DEF OnItsWay, IsPacket, Fields, Alike, Headers
<1>2. /\ Alike(p, s, Headers) /\ s.ipsrc = a /\ s.ipdst = p.ipdst
      /\ s.reg2 = p.reg2 /\ s.reg3 = p.reg3 /\ s.ethsrc = p.ethsrc /\ s.commit = p.commit
  BY DEF OnItsWay, IsPacket, Fields, Alike, Headers
<1> HIDE DEF q, s
<1>3. Stands(p, q)
  BY <1>1, Rewritten DEF OnItsWay, Addressed
<1>4. Stands(p, s)
  BY <1>2, Rewritten DEF OnItsWay, Addressed
<1> QED
  BY <1>3, <1>4 DEF q, s

LEMMA Committed ==
    ASSUME NEW p, OnItsWay(p), NEW n \in Xlate, NEW ip \in Addrs
    PROVE  Stands(p, Commit(p, n, ip))
<1> DEFINE q == Commit(p, n, ip)
           e == [conn |-> p.orig.conn, type |-> n.type, ip |-> ip, xip |-> n.xip]
<1>1. IsConnection(e)
  BY AddressAssumption DEF IsConnection
<1>2. q = [p EXCEPT !.commit = p.commit \cup {e}]
  BY DEF Commit
<1> HIDE DEF q, e
<1>3. /\ Alike(p, q, Headers) /\ q.ipsrc = p.ipsrc /\ q.ipdst = p.ipdst
      /\ q.reg2 = p.reg2 /\ q.reg3 = p.reg3 /\ q.ethsrc = p.ethsrc
      /\ q.commit = p.commit \cup {e}
  BY <1>2 DEF OnItsWay, IsPacket, Fields, Alike, Headers
<1>4. \A x \in q.commit : IsConnection(x)
  BY <1>1, <1>3 DEF OnItsWay, Addressed
<1>5. Stands(p, q)
  BY <1>3, <1>4, Rewritten DEF OnItsWay, Addressed
<1> QED
  BY <1>5 DEF q

\* A connection is remembered with the packet, and the packet marked.
LEMMA Tracking ==
    ASSUME NEW p, OnItsWay(p), NEW n \in Xlate, NEW ip \in Addrs, NEW a \in Addrs, NEW f
    PROVE  /\ Stands(p, [Commit(Flag(p, f), n, ip) EXCEPT !.ipdst = a])
           /\ Stands(p, [Commit(Flag(p, f), n, ip) EXCEPT !.ipsrc = a])
<1>1. Stands(p, Flag(p, f))
  BY StandsFlagged
<1>2. Stands(p, Commit(Flag(p, f), n, ip))
  BY <1>1, Committed DEF Stands
<1> QED
  BY <1>2, ToAddress DEF Stands

LEMMA Xlated ==
    ASSUME NEW c, NEW r, NEW type, NEW n, n \in lnat_data(c, r, type)
    PROVE  n \in Xlate /\ n.ip \in Addrs /\ n.xip \in Addrs /\ n.xmac \in Macs
BY AddressAssumption DEF lnat_data, Macs

\* Three of the NAT tables rewrite for a fixed address, for what the tracker
\* knows, or not at all.
LEMMA DestinationRestored ==
    ASSUME NEW c, \A e \in ct[c] : IsConnection(e), NEW p, OnItsWay(p), p.table = 33,
           NEW r, r \in lunsnat_xlate_stage1(c, p)
    PROVE  Sound(r.to)
<1> DEFINE a == Restored(c, p, "snat", p.ipdst, "xip", "ip")
           q == [p EXCEPT !.ipdst = a]
<1>1. p.table \in Steady /\ Stands(p, p)
  BY DEF Steady, Stands
<1>2. Sound(Onward(q))
  <2>1. a \in Addrs
    BY RestoredAddress DEF OnItsWay, Addressed
  <2> QED
    BY <1>1, <2>1, ToAddress, Ahead
<1>3. CASE r \in {Rule(2, Onward([p EXCEPT !.ipdst = n.ip])) :
                     n \in {x \in OneToOne(c, p) : IsIP(p) /\ x.xip = p.ipdst}}
  <2>1. PICK n \in OneToOne(c, p) : r = Rule(2, Onward([p EXCEPT !.ipdst = n.ip]))
    BY <1>3
  <2>2. n.ip \in Addrs
    BY Xlated DEF OneToOne
  <2>3. Sound(Onward([p EXCEPT !.ipdst = n.ip]))
    BY <1>1, <2>2, ToAddress, Ahead
  <2> QED
    BY <2>1, <2>3, Rules
<1>4. CASE r = Rule(1, Onward(q))
  BY <1>2, <1>4, Rules
<1>5. CASE r = Rule(0, Onward(p))
  BY <1>1, <1>5, Ahead, Rules
<1>6. \/ r \in {Rule(2, Onward([p EXCEPT !.ipdst = n.ip])) :
                   n \in {x \in OneToOne(c, p) : IsIP(p) /\ x.xip = p.ipdst}}
      \/ r = Rule(1, Onward(q)) \/ r = Rule(0, Onward(p))
  BY DEF lunsnat_xlate_stage1, RuleIf, Default
<1> QED
  BY <1>3, <1>4, <1>5, <1>6

LEMMA DestinationTranslated ==
    ASSUME NEW c, NEW p, OnItsWay(p), p.table = 35, NEW r, r \in ldnat_xlate_stage1(c, p)
    PROVE  Sound(r.to)
<1> DEFINE To1(n) == [Commit(Flag(p, "NAT"), n, n.ip) EXCEPT !.ipdst = n.ip]
           N == {x \in lnat_data(c, p.dp, "dnat") :
                    IsIP(p) /\ x.len = AddrWidth /\ x.xip = p.ipdst}
<1>1. p.table \in Steady /\ Stands(p, p)
  BY DEF Steady, Stands
<1>2. ASSUME NEW n \in N PROVE Sound(Onward(To1(n)))
  <2>1. n \in Xlate /\ n.ip \in Addrs
    BY Xlated
  <2>2. Stands(p, To1(n))
    BY <2>1, Tracking
  <2> QED
    BY <1>1, <2>2, Ahead
<1>3. r \in {Rule(AddrWidth + 1, Onward(To1(n))) : n \in N} \/ r = Rule(0, Onward(p))
  BY DEF ldnat_xlate_stage1, Default
<1>4. Sound(Onward(p))
  BY <1>1, Ahead
<1> HIDE DEF To1, N
<1>5. r = Rule(0, Onward(p)) \/ \E n \in N : r = Rule(AddrWidth + 1, Onward(To1(n)))
  BY <1>3
<1> QED
  BY <1>2, <1>4, <1>5, Rules

LEMMA SourceRestored ==
    ASSUME NEW c, \A e \in ct[c] : IsConnection(e), NEW p, OnItsWay(p), p.table = 51,
           NEW r, r \in lundnat_xlate_stage1(c, p)
    PROVE  Sound(r.to)
<1> DEFINE f == Flag(p, "NAT")
           a == Restored(c, p, "dnat", f.ipsrc, "ip", "xip")
           q == [f EXCEPT !.ipsrc = a]
<1>1. p.table \in Steady /\ Stands(p, p)
  BY DEF Steady, Stands
<1>2. Sound(Onward(q))
  <2>1. Stands(p, f)
    BY StandsFlagged
  <2>2. f.ipsrc \in Addrs
    BY <2>1 DEF OnItsWay, Addressed, Stands
  <2>3. a \in Addrs
    BY <2>2, RestoredAddress
  <2>4. Stands(p, q)
    BY <2>1, <2>3, ToAddress DEF Stands
  <2> QED
    BY <1>1, <2>4, Ahead
<1>3. CASE r \in {Rule(2, Onward([p EXCEPT !.ipsrc = n.xip])) :
                     n \in {x \in OneToOne(c, p) : IsIP(p) /\ x.ip = p.ipsrc}}
  <2>1. PICK n \in OneToOne(c, p) : r = Rule(2, Onward([p EXCEPT !.ipsrc = n.xip]))
    BY <1>3
  <2>2. n.xip \in Addrs
    BY Xlated DEF OneToOne
  <2>3. Sound(Onward([p EXCEPT !.ipsrc = n.xip]))
    BY <1>1, <2>2, ToAddress, Ahead
  <2> QED
    BY <2>1, <2>3, Rules
<1>4. CASE r = Rule(1, Onward(q))
  BY <1>2, <1>4, Rules
<1>5. CASE r = Rule(0, Onward(p))
  BY <1>1, <1>5, Ahead, Rules
<1>6. \/ r \in {Rule(2, Onward([p EXCEPT !.ipsrc = n.xip])) :
                   n \in {x \in OneToOne(c, p) : IsIP(p) /\ x.ip = p.ipsrc}}
      \/ r = Rule(1, Onward(q)) \/ r = Rule(0, Onward(p))
  BY DEF lundnat_xlate_stage1, RuleIf, Default
<1> QED
  BY <1>3, <1>4, <1>5, <1>6

LEMMA SourceTranslated ==
    ASSUME NEW c, NEW p, OnItsWay(p), p.table = 53, NEW r, r \in lsnat_xlate_stage1(c, p)
    PROVE  Sound(r.to)
<1> DEFINE By1(n) == [Commit(Flag(p, "NAT"), n, p.ipsrc) EXCEPT !.ipsrc = n.xip]
           N == {x \in lnat_data(c, p.dp, "snat") : IsIP(p) /\ InNet(p.ipsrc, x.ip, x.len)}
<1>1. p.table \in Steady /\ Stands(p, p)
  BY DEF Steady, Stands
<1>2. ASSUME NEW n \in N PROVE Sound(Onward(By1(n)))
  <2>1. n \in Xlate /\ n.xip \in Addrs /\ p.ipsrc \in Addrs
    BY Xlated DEF OnItsWay, Addressed
  <2>2. Stands(p, By1(n))
    BY <2>1, Tracking, ZenonT(30)
  <2> QED
    BY <1>1, <2>2, Ahead
<1>3. r \in {Rule(n.len + 1, Onward(By1(n))) : n \in N} \/ r = Rule(0, Onward(p))
  BY DEF lsnat_xlate_stage1, Default
<1>4. Sound(Onward(p))
  BY <1>1, Ahead
<1> HIDE DEF By1, N
<1>5. r = Rule(0, Onward(p)) \/ \E n \in N : r = Rule(n.len + 1, Onward(By1(n)))
  BY <1>3
<1> QED
  BY <1>2, <1>4, <1>5, Rules

LEMMA SourceMac ==
    ASSUME NEW c, NEW p, OnItsWay(p), p.table \in {52, 54}, NEW type,
           NEW r, r \in xlate_src_mac(c, p, type)
    PROVE  Sound(r.to)
<1> DEFINE By1(n) == [p EXCEPT !.ethsrc = n.xmac]
           N == {x \in lnat_data(c, p.dp, type) :
                    IsIP(p) /\ "NAT" \in p.flags /\ x.xip = p.ipsrc}
<1>1. p.table \in Steady /\ Stands(p, p)
  BY DEF Steady, Stands
<1>2. ASSUME NEW n, n \in N PROVE Sound(Onward(By1(n)))
  <2>1. n.xmac \in Macs
    BY <1>2, Xlated
  <2>2. /\ Alike(p, By1(n), Headers) /\ By1(n).ipsrc = p.ipsrc /\ By1(n).ipdst = p.ipdst
        /\ By1(n).reg2 = p.reg2 /\ By1(n).reg3 = p.reg3 /\ By1(n).ethsrc = n.xmac
        /\ By1(n).commit = p.commit
    BY DEF OnItsWay, IsPacket, Fields, Alike, Headers
  <2> HIDE DEF By1
  <2>3. Stands(p, By1(n))
    BY <2>1, <2>2, Rewritten DEF OnItsWay, Addressed
  <2> QED
    BY <1>1, <2>3, Ahead
<1>3. r \in {Rule(1, Onward(By1(n))) : n \in N} \/ r = Rule(0, Onward(p))
  BY DEF xlate_src_mac, Default
<1>4. Sound(Onward(p))
  BY <1>1, Ahead
<1> HIDE DEF By1, N
<1>5. r = Rule(0, Onward(p)) \/ \E n \in N : r = Rule(1, Onward(By1(n)))
  BY <1>3
<1> QED
  BY <1>2, <1>4, <1>5, Rules

\* A packet leaves a router through one of its ports.
LeftThrough(p, l, hop) ==
    [p EXCEPT !.dst = PortID(l.ip), !.ethsrc = l.mac, !.reg2 = hop, !.reg3 = l.ip]

LEMMA RoutedOn ==
    ASSUME NEW p, OnItsWay(p), p.table \in {37, 38}, NEW l \in Link, NEW hop \in Addrs
    PROVE  Sound(Routed(p, l, hop))
<1> DEFINE q == LeftThrough(p, l, hop)
<1>1. /\ Alike(p, q, Headers) /\ q.ipsrc = p.ipsrc /\ q.ipdst = p.ipdst /\ q.reg2 = hop
      /\ q.reg3 = l.ip /\ q.ethsrc = l.mac /\ q.commit = p.commit
  BY DEF OnItsWay, IsPacket, Fields, Alike, Headers, LeftThrough
<1>2. l.ip \in Addrs /\ l.mac \in Macs
  BY AddressAssumption DEF Macs
<1> HIDE DEF q
<1>3. Stands(p, q)
  BY <1>1, <1>2, Rewritten DEF OnItsWay, Addressed
<1>4. p.table \in Steady
  BY DEF Steady
<1>5. Sound(Onward(q))
  BY <1>3, <1>4, Ahead
<1> QED
  BY <1>5 DEF q, Routed, LeftThrough

LEMMA TunnelChosen ==
    ASSUME NEW p, OnItsWay(p), p.table = 37, NEW d
    PROVE  Sound(Onward([p EXCEPT !.out = d]))
<1> DEFINE q == [p EXCEPT !.out = d]
<1>1. IsPacket(q) /\ q.table = p.table /\ \A f \in Fields \ {"out"} : q[f] = p[f]
  BY DEF OnItsWay, IsPacket, Fields
<1> HIDE DEF q
<1>2. \A f \in {"fate", "reg5", "flags", "rerouted", "up", "commit", "ipsrc", "ipdst",
                "ethsrc", "reg2", "reg3"} : q[f] = p[f]
  BY <1>1 DEF Fields
<1>3. p.reg5 # 1
  BY NoWayOut
<1>4. Addressed(q) /\ Marked(q) /\ q.fate = "run"
  BY <1>1, <1>2, <1>3, Numbers DEF OnItsWay, Addressed, Marked, TableNumbers
<1>5. Stands(p, q) /\ p.table \in Steady
  BY <1>1, <1>2, <1>4 DEF OnItsWay, Stands, Steady
<1> QED
  BY <1>5, Ahead DEF q

LEMMA IpRouted ==
    ASSUME NEW c, NEW p, OnItsWay(p), p.table = 37, NEW r, r \in lrp_ip_route(c, p)
    PROVE  Sound(r.to)
<1> DEFINE here == {x \in Route : IsIP(p) /\ x.lr = p.dp /\ InNet(p.ipdst, x.ip, x.len)}
           L == {x \in lsp_link_lrp(c) : IsIP(p) /\ x.lr = p.dp /\ InNet(p.ipdst, x.ip, x.len)}
           S == {x \in here : _static_route_changed(c, x)}
           E == {x \in here : c \notin Gateway /\ ecmp_aggregate_outport(c, x) # {}}
           d(s) == Bundle(c, p, ecmp_aggregate_outport(c, s))
<1>1. /\ \A l \in L : l \in Link
      /\ \A s \in S : s.out \in Link /\ s.hop \in Addrs
      /\ p.ipdst \in Addrs
  BY AddressAssumption DEF lsp_link_lrp, OnItsWay, Addressed
<1>2. lrp_ip_route(c, p)
        = {Rule(_cal_priority(l.len, 0, l.idx), Routed(p, l, p.ipdst)) : l \in L}
          \cup {Rule(_cal_priority(s.len, 1, s.idx), Routed(p, s.out, s.hop)) : s \in S}
          \cup {Rule(_cal_priority(s.len, 2, 0), Onward([p EXCEPT !.out = d(s)])) : s \in E}
          \cup Default(Drop(p))
  BY DEF lrp_ip_route
<1> HIDE DEF here, L, S, E, d
<1>3. CASE \E l \in L : r = Rule(_cal_priority(l.len, 0, l.idx), Routed(p, l, p.ipdst))
  BY <1>1, <1>3, RoutedOn, Rules
<1>4. CASE \E s \in S : r = Rule(_cal_priority(s.len, 1, s.idx), Routed(p, s.out, s.hop))
  BY <1>1, <1>4, RoutedOn, Rules
<1>5. CASE \E s \in E : r = Rule(_cal_priority(s.len, 2, 0), Onward([p EXCEPT !.out = d(s)]))
  <2>1. PICK s \in E : r = Rule(_cal_priority(s.len, 2, 0), Onward([p EXCEPT !.out = d(s)]))
    BY <1>5
  <2>2. r.to = Onward([p EXCEPT !.out = d(s)])
    BY <2>1, Rules
  <2> QED
    BY <2>2, TunnelChosen
<1>6. CASE r \in Default(Drop(p))
  BY <1>6, Dropped, Rules DEF Sound
<1> QED
  BY <1>2, <1>3, <1>4, <1>5, <1>6

LEMMA EcmpJudged ==
    ASSUME NEW c, NEW p, OnItsWay(p), p.table = 38, NEW r, r \in lrp_ecmp_judge(c, p)
    PROVE  Sound(r.to)
<1> DEFINE S == {x \in Route : /\ c \notin Gateway /\ IsIP(p) /\ x.lr = p.dp
                               /\ InNet(p.ipdst, x.ip, x.len)
                               /\ p.out \in next_hop_ovsport(c, x.out)}
<1>1. \A s \in S : s.out \in Link /\ s.hop \in Addrs
  BY AddressAssumption
<1>2. \/ r \in {Rule(_cal_priority(s.len, 2, 0), Routed(p, s.out, s.hop)) : s \in S}
      \/ r = Rule(1, Drop(p)) \/ r = Rule(0, Onward(p))
  BY DEF lrp_ecmp_judge, RuleIf, Default
<1> HIDE DEF S
<1>3. CASE \E s \in S : r = Rule(_cal_priority(s.len, 2, 0), Routed(p, s.out, s.hop))
  BY <1>1, <1>3, RoutedOn, Rules
<1>4. CASE r = Rule(1, Drop(p))
  BY <1>4, Dropped, Rules DEF Sound
<1>5. CASE r = Rule(0, Onward(p))
  <2>1. Stands(p, p) /\ p.table \in Steady
    BY DEF Stands, Steady
  <2> QED
    BY <1>5, <2>1, Ahead, Rules
<1> QED
  BY <1>2, <1>3, <1>4, <1>5

\* The link address of the next hop.
LEMMA HeadedFor ==
    ASSUME NEW p, OnItsWay(p), p.table = 55, NEW m
    PROVE  Sound(Onward([p EXCEPT !.ethdst = m]))
<1> DEFINE q == [p EXCEPT !.ethdst = m]
<1>1. /\ Alike(p, q, Headers) /\ q.ipsrc = p.ipsrc /\ q.ipdst = p.ipdst
      /\ q.reg2 = p.reg2 /\ q.reg3 = p.reg3 /\ q.ethsrc = p.ethsrc /\ q.commit = p.commit
  BY DEF OnItsWay, IsPacket, Fields, Alike, Headers
<1> HIDE DEF q
<1>2. Stands(p, q) /\ p.table \in Steady
  BY <1>1, Rewritten DEF OnItsWay, Addressed, Steady
<1> QED
  BY <1>2, Ahead DEF q

LEMMA DestinationMac ==
    ASSUME NEW c, NEW p, OnItsWay(p), p.table = 55, NEW r, r \in lrp_update_eth_dst(c, p)
    PROVE  Sound(r.to)
<1> DEFINE X == {y \in UNION {opposite_side_changed_lsp(c, l) : l \in LinksOf(c, p)} :
                    IsIP(p) /\ y.ip = p.reg2}
           m == IF \E e \in arp[c] : e[1] = p.reg2 /\ IsIP(p)
                THEN (CHOOSE e \in arp[c] : e[1] = p.reg2)[2] ELSE NoMac
<1>1. \/ r \in {Rule(3, Onward([p EXCEPT !.ethdst = x.mac])) : x \in X}
      \/ r = Rule(2, Onward([p EXCEPT !.ethdst = m]))
  BY DEF lrp_update_eth_dst, search_ip_mac
<1> HIDE DEF X, m
<1>2. \E n, a : r = Rule(n, Onward([p EXCEPT !.ethdst = a]))
  BY <1>1, ZenonT(30)
<1>3. PICK n, a : r = Rule(n, Onward([p EXCEPT !.ethdst = a]))
  BY <1>2
<1>4. r.to = Onward([p EXCEPT !.ethdst = a])
  BY <1>3, Rules
<1> QED
  BY <1>4, HeadedFor

\* The next hop is not known: the network is asked, or an edge, once.
LEMMA UnknownHandled ==
    ASSUME NEW c, NEW p, OnItsWay(p), p.table = 56,
           NEW r, r \in lrp_handle_unknow_dst_pkt(c, p),
           \A y \in lrp_handle_unknow_dst_pkt(c, p) : y.prio <= r.prio
    PROVE  Sound(r.to)
<1> DEFINE unknown == p.ethdst = NoMac
           ask == IF c \in OnDemand THEN upload_unknow_dst(p) ELSE p
           f == Flag(ask, "REDIRECT")
<1>1. p.reg5 # 1 /\ Plain(56) /\ Plain(57)
  BY NoWayOut, Numbers DEF Plain, TableNumbers
<1>2. OnItsWay(ask) /\ ask.table = 56 /\ ask.rerouted = p.rerouted
  BY Uploaded DEF upload_unknow_dst, IsUpcall
<1>3. OnItsWay(generate_arp(p))
  <2>1. IsUpcall([op |-> "generate_arp", dp |-> p.dp, dst |-> p.dst, tpa |-> p.reg2,
                  spa |-> p.reg3, mac |-> p.ethsrc])
    BY DEF IsUpcall, OnItsWay, Addressed
  <2> QED
    BY <2>1, Uploaded DEF generate_arp
<1>4. Sound(Drop(p)) /\ Sound(Drop(generate_arp(p))) /\ Sound(Drop(ask))
  BY <1>2, <1>3, Dropped DEF Sound
<1>5. Sound(Onward(p))
  BY <1>1, Gone DEF Onward
<1>6. \/ \E n : r = Rule(n, Drop(p)) \/ r = Rule(n, Drop(generate_arp(p)))
                \/ r = Rule(n, Drop(ask)) \/ r = Rule(n, Onward(p))
      \/ unknown /\ r = Rule(2, Go(f, REDIRECT_CHASSIS))
  BY DEF lrp_handle_unknow_dst_pkt, RuleIf, Default
<1>7. unknown /\ "REDIRECT" \in p.flags => Rule(4, Drop(p)) \in lrp_handle_unknow_dst_pkt(c, p)
  BY DEF lrp_handle_unknow_dst_pkt, RuleIf
<1>8. OnItsWay(f) /\ f.rerouted = p.rerouted
  BY <1>2, Flagged
<1> HIDE DEF ask, f
<1>9. CASE \E n : r = Rule(n, Drop(p)) \/ r = Rule(n, Drop(generate_arp(p)))
                  \/ r = Rule(n, Drop(ask)) \/ r = Rule(n, Onward(p))
  BY <1>4, <1>5, <1>9, Rules
<1>10. CASE unknown /\ r = Rule(2, Go(f, REDIRECT_CHASSIS))
  <2>1. r.prio = 2 /\ r.to = Go(f, REDIRECT_CHASSIS)
    BY <1>10, Rules
  <2>2. "REDIRECT" \notin p.flags
    BY <1>7, <1>10, <2>1, Rules
  <2>3. p.rerouted = 0
    BY <2>2 DEF OnItsWay, Marked
  <2> QED
    BY <1>8, <2>1, <2>3, AskForHelp
<1> QED
  BY <1>6, <1>9, <1>10

LEMMA HandedToSwitch ==
    ASSUME NEW c, NEW p, OnItsWay(p), p.table = 57, NEW r, r \in lrp_forward_packet(c, p)
    PROVE  Sound(r.to)
<1>1. PICK l : r = Rule(3, Onward([p EXCEPT !.dp = l.ls, !.src = PortID(l.ip)]))
  BY DEF lrp_forward_packet
<1> DEFINE q == [p EXCEPT !.dp = l.ls, !.src = PortID(l.ip)]
<1>2. /\ Alike(p, q, Headers) /\ q.ipsrc = p.ipsrc /\ q.ipdst = p.ipdst
      /\ q.reg2 = p.reg2 /\ q.reg3 = p.reg3 /\ q.ethsrc = p.ethsrc /\ q.commit = p.commit
  BY DEF OnItsWay, IsPacket, Fields, Alike, Headers
<1>3. r.to = Onward(q)
  BY <1>1, Rules
<1> HIDE DEF q
<1>4. Stands(p, q) /\ p.table \in Steady
  BY <1>2, Rewritten DEF OnItsWay, Addressed, Steady
<1> QED
  BY <1>3, <1>4, Ahead

(***************************************************************************)
(* A visit.                                                                *)
(***************************************************************************)

\* The tables without rules of their own.
LEMMA PassedThrough ==
    ASSUME NEW p, OnItsWay(p), p.table \in Steady
    PROVE  /\ Sound(Onward(p)) /\ Sound(Onward([p EXCEPT !.dst = 0]))
           /\ Sound(Go(p, LRP_EGRESS_FIRST)) /\ Sound(Go(p, LSP_INGRESS_FIRST))
<1> DEFINE q == [p EXCEPT !.dst = 0]
<1>1. /\ Alike(p, q, Headers) /\ q.ipsrc = p.ipsrc /\ q.ipdst = p.ipdst
      /\ q.reg2 = p.reg2 /\ q.reg3 = p.reg3 /\ q.ethsrc = p.ethsrc /\ q.commit = p.commit
  BY DEF OnItsWay, IsPacket, Fields, Alike, Headers
<1> HIDE DEF q
<1>2. Stands(p, q) /\ Stands(p, p)
  BY <1>1, Rewritten DEF OnItsWay, Addressed, Stands
<1>3. Plain(LRP_EGRESS_FIRST) /\ Plain(LSP_INGRESS_FIRST)
  BY Numbers DEF Plain, TableNumbers
<1> QED
  BY <1>2, <1>3, Ahead DEF q

\* The rule of the highest priority among rules.
Best(r, rules) == r \in rules /\ \A y \in rules : y.prio <= r.prio

\* The rules of a table.
OfSwitch(c, p, B) ==
    /\ p.table = 22 /\ B # {} => p.dp \in Switch
    /\ \/ p.table = 3 /\ B = lsp_arp_controller(c, p)
       \/ p.table = 4 /\ B = lsp_arp_response(c, p)
       \/ p.table = 6 /\ B = lsp_lookup_dst_port(c, p)
       \/ p.table = 7 /\ B = lsp_output_dst_port(c, p)
       \/ p.table = 21 /\ B = lsp_judge_loopback(c, p)
       \/ p.table = 22 /\ B = lsp_forward_packet(c, p)
       \/ p.table = 23 /\ B = lsp_pushout_packet(c, p)
       \/ p.table = 1 /\ B = Default(Onward([p EXCEPT !.dst = 0]))
       \/ p.table \in {2, 5, 20} /\ B = Default(Onward(p))
       \/ B = {}

LEMMA SwitchTable ==
    ASSUME NEW c, NEW p, NEW B, B = build_flows_lsp(c, p)
    PROVE  OfSwitch(c, p, B)
BY DEF build_flows_lsp, OfSwitch

OfRouter(c, p, B) ==
    /\ p.table = 31 => B \in {{}, lrp_pkt_response(c, p)}
    /\ p.table = 32 => B \in {{}, lrp_drop_unexpect(c, p)}
    /\ p.table = 33 => B \in {{}, lunsnat_xlate_stage1(c, p)}
    /\ p.table = 35 => B \in {{}, ldnat_xlate_stage1(c, p)}
    /\ p.table = 37 => B \in {{}, lrp_ip_route(c, p)}
    /\ p.table = 38 => B \in {{}, lrp_ecmp_judge(c, p)}
    /\ p.table = 51 => B \in {{}, lundnat_xlate_stage1(c, p)}
    /\ p.table = 52 => B \in {{}, xlate_src_mac(c, p, "dnat")}
    /\ p.table = 53 => B \in {{}, lsnat_xlate_stage1(c, p)}
    /\ p.table = 54 => B \in {{}, xlate_src_mac(c, p, "snat")}
    /\ p.table = 55 => B \in {{}, lrp_update_eth_dst(c, p)}
    /\ p.table = 56 => B \in {{}, lrp_handle_unknow_dst_pkt(c, p)}
    /\ p.table = 57 => B \in {{}, lrp_forward_packet(c, p)}
    /\ p.table \in {30, 34, 36, 39, 50, 58}
         => B \in {{}, Default(Onward([p EXCEPT !.dst = 0])), Default(Onward(p)),
                   Default(Go(p, LRP_EGRESS_FIRST)), Default(Go(p, LSP_INGRESS_FIRST))}
    /\ p.table \notin {30, 31, 32, 33, 34, 35, 36, 37, 38, 39,
                       50, 51, 52, 53, 54, 55, 56, 57, 58} => B = {}

LEMMA RouterTable ==
    ASSUME NEW c, NEW p, NEW B, B = build_flows_lrp(c, p)
    PROVE  OfRouter(c, p, B)
<1>1. /\ p.table = 31 => B \in {{}, lrp_pkt_response(c, p)}
      /\ p.table = 32 => B \in {{}, lrp_drop_unexpect(c, p)}
      /\ p.table = 33 => B \in {{}, lunsnat_xlate_stage1(c, p)}
      /\ p.table = 35 => B \in {{}, ldnat_xlate_stage1(c, p)}
  <2>1. CASE p.table = 31
    BY <2>1, SMTT(30) DEF build_flows_lrp
  <2>2. CASE p.table = 32
    BY <2>2, SMTT(30) DEF build_flows_lrp
  <2>3. CASE p.table = 33
    BY <2>3, SMTT(30) DEF build_flows_lrp
  <2>4. CASE p.table = 35
    BY <2>4, SMTT(30) DEF build_flows_lrp
  <2> QED
    BY <2>1, <2>2, <2>3, <2>4
<1>2. /\ p.table = 37 => B \in {{}, lrp_ip_route(c, p)}
      /\ p.table = 38 => B \in {{}, lrp_ecmp_judge(c, p)}
      /\ p.table = 51 => B \in {{}, lundnat_xlate_stage1(c, p)}
  <2>1. CASE p.table = 37
    BY <2>1, SMTT(30) DEF build_flows_lrp
  <2>2. CASE p.table = 38
    BY <2>2, SMTT(30) DEF build_flows_lrp
  <2>3. CASE p.table = 51
    BY <2>3, SMTT(30) DEF build_flows_lrp
  <2> QED
    BY <2>1, <2>2, <2>3
<1>3. /\ p.table = 52 => B \in {{}, xlate_src_mac(c, p, "dnat")}
      /\ p.table = 53 => B \in {{}, lsnat_xlate_stage1(c, p)}
      /\ p.table = 54 => B \in {{}, xlate_src_mac(c, p, "snat")}
  <2>1. CASE p.table = 52
    BY <2>1, SMTT(30) DEF build_flows_lrp
  <2>2. CASE p.table = 53
    BY <2>2, SMTT(30) DEF build_flows_lrp
  <2>3. CASE p.table = 54
    BY <2>3, SMTT(30) DEF build_flows_lrp
  <2> QED
    BY <2>1, <2>2, <2>3
<1>4. /\ p.table = 55 => B \in {{}, lrp_update_eth_dst(c, p)}
      /\ p.table = 56 => B \in {{}, lrp_handle_unknow_dst_pkt(c, p)}
      /\ p.table = 57 => B \in {{}, lrp_forward_packet(c, p)}
  <2>1. CASE p.table = 55
    BY <2>1, SMTT(30) DEF build_flows_lrp
  <2>2. CASE p.table = 56
    BY <2>2, SMTT(30) DEF build_flows_lrp
  <2>3. CASE p.table = 57
    BY <2>3, SMTT(30) DEF build_flows_lrp
  <2> QED
    BY <2>1, <2>2, <2>3
<1>5. p.table \in {30, 34, 36, 39, 50, 58}
         => B \in {{}, Default(Onward([p EXCEPT !.dst = 0])), Default(Onward(p)),
                   Default(Go(p, LRP_EGRESS_FIRST)), Default(Go(p, LSP_INGRESS_FIRST))}
  <2>1. CASE p.table \in {30, 34, 36}
    BY <2>1, SMTT(30) DEF build_flows_lrp
  <2>2. CASE p.table \in {39, 50, 58}
    BY <2>2, SMTT(30) DEF build_flows_lrp
  <2> QED
    BY <2>1, <2>2
<1>6. p.table \notin 30..39 \cup 50..58 => B = {}
  BY DEF build_flows_lrp
<1>7. p.table \in 30..39 \cup 50..58
         => p.table \in {30, 31, 32, 33, 34, 35, 36, 37, 38, 39,
                        50, 51, 52, 53, 54, 55, 56, 57, 58}
  OBVIOUS
<1> QED
  BY <1>1, <1>2, <1>3, <1>4, <1>5, <1>6, <1>7 DEF OfRouter

LEMMA SwitchTables ==
    ASSUME NEW c, NEW p, OnItsWay(p), NEW r, Best(r, build_flows_lsp(c, p))
    PROVE  Sound(r.to)
<1>0. PICK B : B = build_flows_lsp(c, p)
  OBVIOUS
<1>1. r \in B /\ \A y \in B : y.prio <= r.prio
  BY <1>0 DEF Best
<1>2. CASE p.table = 3 /\ B = lsp_arp_controller(c, p)
  BY <1>1, <1>2, AskedArp
<1>3. CASE p.table = 4 /\ B = lsp_arp_response(c, p)
  BY <1>1, <1>3, AnsweredArp
<1>4. CASE p.table = 6 /\ B = lsp_lookup_dst_port(c, p)
  BY <1>1, <1>4, LookedUp
<1>5. CASE p.table = 7 /\ B = lsp_output_dst_port(c, p)
  BY <1>1, <1>5, PutOut
<1>6. CASE p.table = 21 /\ B = lsp_judge_loopback(c, p)
  BY <1>1, <1>6, Returned
<1>7. CASE p.table = 22 /\ B = lsp_forward_packet(c, p)
  BY <1>1, <1>7, Forwarded
<1>8. CASE p.table = 23 /\ B = lsp_pushout_packet(c, p)
  BY <1>1, <1>8, PushedOut
<1>9. CASE p.table = 1 /\ B = Default(Onward([p EXCEPT !.dst = 0]))
  <2>1. p.table \in Steady
    BY <1>9 DEF Steady
  <2> QED
    BY <1>1, <1>9, <2>1, PassedThrough, Rules
<1>10. CASE p.table \in {2, 5, 20} /\ B = Default(Onward(p))
  <2>1. p.table \in Steady
    BY <1>10 DEF Steady
  <2>2. r.to = Onward(p)
    BY <1>1, <1>10, Rules
  <2> QED
    BY <2>1, <2>2, PassedThrough
<1>11. CASE B = {}
  BY <1>1, <1>11
<1> QED
  BY <1>0, <1>2, <1>3, <1>4, <1>5, <1>6, <1>7, <1>8, <1>9, <1>10, <1>11, SwitchTable
     DEF OfSwitch

LEMMA RouterTables ==
    ASSUME NEW c, \A e \in ct[c] : IsConnection(e), NEW p, OnItsWay(p),
           NEW r, Best(r, build_flows_lrp(c, p))
    PROVE  Sound(r.to)
<1>0. PICK B : B = build_flows_lrp(c, p)
  OBVIOUS
<1>1. r \in B /\ \A y \in B : y.prio <= r.prio
  BY <1>0 DEF Best
<1>2. CASE p.table = 31 /\ B = lrp_pkt_response(c, p)
  BY <1>1, <1>2, PingAnswered
<1>3. CASE p.table = 32 /\ B = lrp_drop_unexpect(c, p)
  BY <1>1, <1>3, TtlDecreased
<1>4. CASE p.table = 33 /\ B = lunsnat_xlate_stage1(c, p)
  BY <1>1, <1>4, DestinationRestored
<1>5. CASE p.table = 35 /\ B = ldnat_xlate_stage1(c, p)
  BY <1>1, <1>5, DestinationTranslated
<1>6. CASE p.table = 37 /\ B = lrp_ip_route(c, p)
  BY <1>1, <1>6, IpRouted
<1>7. CASE p.table = 38 /\ B = lrp_ecmp_judge(c, p)
  BY <1>1, <1>7, EcmpJudged
<1>8. CASE p.table = 51 /\ B = lundnat_xlate_stage1(c, p)
  BY <1>1, <1>8, SourceRestored
<1>9. CASE p.table \in {52, 54} /\ \E type : B = xlate_src_mac(c, p, type)
  BY <1>1, <1>9, SourceMac
<1>10. CASE p.table = 53 /\ B = lsnat_xlate_stage1(c, p)
  BY <1>1, <1>10, SourceTranslated
<1>11. CASE p.table = 55 /\ B = lrp_update_eth_dst(c, p)
  BY <1>1, <1>11, DestinationMac
<1>12. CASE p.table = 56 /\ B = lrp_handle_unknow_dst_pkt(c, p)
  BY <1>1, <1>12, UnknownHandled
<1>13. CASE p.table = 57 /\ B = lrp_forward_packet(c, p)
  BY <1>1, <1>13, HandedToSwitch
<1>14. CASE p.table \in {30, 34, 36, 39, 50, 58}
            /\ B \in {Default(Onward([p EXCEPT !.dst = 0])), Default(Onward(p)),
                      Default(Go(p, LRP_EGRESS_FIRST)), Default(Go(p, LSP_INGRESS_FIRST))}
  <2>1. p.table \in Steady
    BY <1>14 DEF Steady
  <2> QED
    BY <1>1, <1>14, <2>1, PassedThrough, Rules
<1>15. CASE B = {}
  BY <1>1, <1>15
<1> QED
  BY <1>0, <1>2, <1>3, <1>4, <1>5, <1>6, <1>7, <1>8, <1>9, <1>10, <1>11, <1>12, <1>13,
     <1>14, <1>15, RouterTable DEF OfRouter

LEMMA OtherTables ==
    ASSUME NEW c, NEW p, OnItsWay(p),
           NEW r, Best(r, build_flows_phy(c, p) \cup build_flows_mid(c, p))
    PROVE  Sound(r.to)
<1>1. r \in build_flows_phy(c, p) \/ r \in build_flows_mid(c, p)
  BY DEF Best
<1>2. CASE r \in build_flows_phy(c, p)
  <2>1. \/ p.table = 0 /\ r \in convert_phy_logical(c, p)
        \/ /\ p.table = 94 /\ r \in output_pkt_by_reg(c, p)
           /\ \A y \in output_pkt_by_reg(c, p) : y.prio <= r.prio
    BY <1>2, Numbers DEF build_flows_phy, TableNumbers, Best
  <2> QED
    BY <2>1, Converted, Output
<1>3. CASE r \in build_flows_mid(c, p)
  <2>1. \/ p.table = 95 /\ r \in redirect_other_chassis(c, p)
        \/ p.table = 99 /\ r \in pipeline_forward(c, p)
    BY <1>3, Numbers DEF build_flows_mid, TableNumbers
  <2> QED
    BY <2>1, Redirected, Pipelined
<1> QED
  BY <1>1, <1>2, <1>3

\* One table, any number of tables.  Rules are decisive if there is one of
\* the highest priority and the others of that priority do the same.
Decisive(rules) ==
    \E r \in rules : /\ \A y \in rules : y.prio <= r.prio
                     /\ \A y \in rules : r.prio <= y.prio => y.to = r.to

LEMMA OneTable ==
    ASSUME NEW c, \A e \in ct[c] : IsConnection(e), NEW p, OnItsWay(p)
    PROVE  /\ Sound(Resubmit(c, p)) \/ Halted(Resubmit(c, p))
           /\ Sound(Resubmit(c, p)) \/ Resubmit(c, p) = [p EXCEPT !.fate = "ambiguous"]
           /\ build_flows(c, p) = {} \/ Decisive(build_flows(c, p)) => Sound(Resubmit(c, p))
<1> DEFINE rules == build_flows(c, p)
           best == {r.to : r \in {x \in rules : \A y \in rules : y.prio <= x.prio}}
<1>1. \A r : Best(r, rules) => Sound(r.to)
  BY SwitchTables, RouterTables, OtherTables DEF build_flows
<1>2. \A q \in best : Sound(q)
  BY <1>1 DEF Best
<1>3. Sound(Drop(p))
  BY Dropped DEF Sound
<1>4. Halted([p EXCEPT !.fate = "ambiguous"])
  <2> DEFINE q == [p EXCEPT !.fate = "ambiguous"]
  <2>1. IsPacket(q) /\ Addressed(q) /\ q.rerouted = p.rerouted /\ q.fate = "ambiguous"
    BY DEF OnItsWay, IsPacket, Fields, Addressed
  <2> HIDE DEF q
  <2>2. Halted(q)
    BY <2>1 DEF Halted, OnItsWay, Marked
  <2> QED
    BY <2>2 DEF q
<1>5. Resubmit(c, p) = IF rules = {} THEN Drop(p)
                       ELSE IF Cardinality(best) = 1 THEN CHOOSE q \in best : TRUE
                       ELSE [p EXCEPT !.fate = "ambiguous"]
  BY DEF Resubmit
<1>6. ASSUME Decisive(rules) PROVE Cardinality(best) = 1
  <2>1. PICK r \in rules : /\ \A y \in rules : y.prio <= r.prio
                           /\ \A y \in rules : r.prio <= y.prio => y.to = r.to
    BY <1>6 DEF Decisive
  <2>2. best = {r.to}
    BY <2>1
  <2> QED
    BY <2>2, FS_Singleton
<1> HIDE DEF rules, best
<1>7. CASE Cardinality(best) = 1
  <2>1. best # {}
    BY <1>7, FS_EmptySet
  <2>2. (CHOOSE q \in best : TRUE) \in best
    BY <2>1
  <2> QED
    BY <1>2, <1>3, <1>5, <1>7, <2>2
<1>8. CASE Cardinality(best) # 1
  BY <1>3, <1>4, <1>5, <1>6, <1>8 DEF rules
<1> QED
  BY <1>7, <1>8

LEMMA ManyTables ==
    ASSUME NEW c, \A e \in ct[c] : IsConnection(e), NEW p, Sound(p)
    PROVE  Sound(Tables256(c, p)) \/ Halted(Tables256(c, p))
<1> DEFINE Kept(q) == Sound(q) \/ Halted(q)
<1>1. \A q : Kept(q) => Kept(Tables1(c, q))
  BY OneTable DEF Tables1, Sound, Finished, Halted
<1> HIDE DEF Kept
<1>2. \A q : Kept(q) => Kept(Tables4(c, q))
  BY <1>1 DEF Tables4, FourTimes
<1>3. \A q : Kept(q) => Kept(Tables16(c, q))
  BY <1>2 DEF Tables16, FourTimes
<1>4. \A q : Kept(q) => Kept(Tables64(c, q))
  BY <1>3 DEF Tables64, FourTimes
<1>5. \A q : Kept(q) => Kept(Tables256(c, q))
  BY <1>4 DEF Tables256, FourTimes
<1> QED
  BY <1>5 DEF Kept

LEMMA Visited ==
    ASSUME NEW c, \A e \in ct[c] : IsConnection(e), NEW p, OnItsWay(p)
    PROVE  Finished(Visit(c, p)) \/ Halted(Visit(c, p))
<1> DEFINE q == Tables256(c, p)
           s == [q EXCEPT !.fate = "looping"]
<1>1. Sound(q) \/ Halted(q)
  BY ManyTables DEF Sound
<1>2. Visit(c, p) = IF q.fate = "run" THEN s ELSE q
  BY DEF Visit
<1> HIDE DEF q
<1>3. CASE q.fate = "run"
  <2>1. OnItsWay(q)
    BY <1>1, <1>3 DEF Sound, Finished, Halted
  <2>2. IsPacket(s) /\ Addressed(s) /\ s.rerouted = q.rerouted /\ s.fate = "looping"
    BY <2>1 DEF OnItsWay, IsPacket, Fields, Addressed
  <2> HIDE DEF s
  <2>3. Halted(s)
    BY <2>1, <2>2 DEF Halted, OnItsWay, Marked
  <2> QED
    BY <1>2, <1>3, <2>3
<1>4. CASE q.fate # "run"
  BY <1>1, <1>2, <1>4 DEF Sound, OnItsWay
<1> QED
  BY <1>3, <1>4

(***************************************************************************)
(* The network.                                                            *)
(***************************************************************************)

\* What is remembered of a packet that is over.
Remembered(p) ==
    /\ p = [f \in {"fate", "to", "orig", "calm", "rerouted"} |-> p[f]]
    /\ p.fate \in {"delivered", "lost", "ambiguous", "looping"}
    /\ p.rerouted \in {0, 1}

ThePacket(p) ==
    \/ p = NoPkt
    \/ OnItsWay(p)
    \/ Finished(p) /\ p.fate = "out"
    \/ Remembered(p)

\* The inductive invariant.
IInv ==
    /\ ViewTypeOK
    /\ arp \in [Chassis -> SUBSET (Addrs \X Macs)]
    /\ upcall = [c \in Chassis |-> upcall[c]]
    /\ \A c \in Chassis : \A u \in upcall[c] : IsUpcall(u)
    /\ ct = [c \in Chassis |-> ct[c]]
    /\ \A c \in Chassis : \A e \in ct[c] : IsConnection(e)
    /\ ThePacket(pkt)

LEMMA InvariantImplies == IInv => TypeOK /\ RedirectedAtMostOnce
<1> SUFFICES ASSUME IInv PROVE TypeOK /\ RedirectedAtMostOnce
  OBVIOUS
<1>1. pkt.fate \in {"none", "run", "out", "delivered", "lost", "ambiguous", "looping"}
  BY DEF IInv, ThePacket, NoPkt, OnItsWay, Remembered
<1>2. pkt = NoPkt \/ pkt.rerouted \in {0, 1}
  BY DEF IInv, ThePacket, OnItsWay, Marked, Finished, Remembered
<1> QED
  BY <1>1, <1>2 DEF IInv, TypeOK, RedirectedAtMostOnce

\* The network and the views.
LEMMA ViewsStart == ViewInit => ViewTypeOK
<1> SUFFICES ASSUME ViewInit PROVE ViewTypeOK
  OBVIOUS
<1>1. plugged \in [Vms -> Chassis]
  BY ChassisAssumption DEF ViewInit
<1>2. db \in [at : [Vms -> Chassis], chassis : SUBSET Chassis]
  BY <1>1 DEF ViewInit
<1>3. view \in [Chassis -> [at : [Vms -> Chassis], chassis : SUBSET Chassis]]
  BY <1>2 DEF ViewInit
<1>4. \A c \in Chassis : BornTouched(c, db) \subseteq Vms \cup Chassis
  BY <1>2 DEF BornTouched
<1>5. touched \in [Chassis -> SUBSET (Vms \cup Chassis)]
  BY <1>4 DEF ViewInit
<1> QED
  BY <1>1, <1>2, <1>3, <1>5, BoundsAssumption DEF ViewInit, ViewTypeOK

LEMMA ViewsChange == ASSUME ViewTypeOK, Change PROVE ViewTypeOK'
<1>1. changes \in 0..MaxChanges
  BY DEF ViewTypeOK
<1>2. changes < MaxChanges => changes + 1 \in 0..MaxChanges
  BY <1>1, BoundsAssumption
<1>3. ASSUME NEW v \in Movable, NEW c \in Chassis, Move(v, c) PROVE ViewTypeOK'
  <2>1. plugged' \in [Vms -> Chassis] /\ changes' \in 0..MaxChanges
    BY <1>2, <1>3 DEF ViewTypeOK, Move
  <2> QED
    BY <1>3, <2>1 DEF ViewTypeOK, Move
<1>4. ASSUME NEW v \in Movable, NEW c \in Chassis, Publish(c, v) PROVE ViewTypeOK'
  <2>1. db' \in [at : [Vms -> Chassis], chassis : SUBSET Chassis]
    BY <1>4 DEF ViewTypeOK, Publish
  <2> QED
    BY <1>4, <2>1 DEF ViewTypeOK, Publish
<1>5. ASSUME NEW d \in Deletable, DeleteChassis(d) PROVE ViewTypeOK'
  <2>1. db' \in [at : [Vms -> Chassis], chassis : SUBSET Chassis]
    BY <1>5 DEF ViewTypeOK, DeleteChassis
  <2>2. changes' \in 0..MaxChanges
    BY <1>2, <1>5 DEF DeleteChassis
  <2> QED
    BY <1>5, <2>1, <2>2 DEF ViewTypeOK, DeleteChassis
<1>6. ASSUME NEW e \in Breakable, LinkDown(e) PROVE ViewTypeOK'
  <2>1. changes' \in 0..MaxChanges
    BY <1>2, <1>6 DEF LinkDown
  <2> QED
    BY <1>6, <2>1 DEF ViewTypeOK, LinkDown
<1>7. ASSUME NEW e \in Breakable, LinkUp(e) PROVE ViewTypeOK'
  BY <1>7 DEF ViewTypeOK, LinkUp
<1> QED
  BY <1>3, <1>4, <1>5, <1>6, <1>7 DEF Change

LEMMA ViewsSync == ASSUME ViewTypeOK, NEW c \in Chassis, Sync(c) PROVE ViewTypeOK'
<1>1. view' \in [Chassis -> [at : [Vms -> Chassis], chassis : SUBSET Chassis]]
  BY DEF ViewTypeOK, Sync
<1>2. TouchedAfter(c, db) \subseteq Vms \cup Chassis
  BY DEF ViewTypeOK, TouchedAfter, BornTouched
<1>3. touched' \in [Chassis -> SUBSET (Vms \cup Chassis)]
  BY <1>2 DEF ViewTypeOK, Sync
<1> QED
  BY <1>1, <1>3 DEF ViewTypeOK, Sync

\* A packet enters a bridge.
LEMMA Entered ==
    ASSUME NEW c \in Chassis, NEW in, NEW o, o.ipsrc \in Addrs, o.ipdst \in Addrs,
           o.ethsrc \in Macs
    PROVE  OnItsWay(Entering(c, in, o))
<1> DEFINE p == Entering(c, in, o)
<1>1. /\ IsPacket(p) /\ p.fate = "run" /\ p.table = 0 /\ p.reg5 = 0 /\ p.rerouted = 0
      /\ p.ipsrc = o.ipsrc /\ p.ipdst = o.ipdst /\ p.ethsrc = o.ethsrc /\ p.reg2 = 0
      /\ p.reg3 = 0 /\ p.up = {} /\ p.commit = {}
  BY DEF Entering, IsPacket, Fields
<1> HIDE DEF p
<1> QED
  BY <1>1, AddressAssumption DEF OnItsWay, Addressed, Marked, p

\* A packet comes through a tunnel: what marks it is in the header.
Arriving ==
    [Entering(pkt.out, pkt.at, pkt.orig) EXCEPT
        !.tun = pkt.tun, !.proto = pkt.proto, !.ethsrc = pkt.ethsrc, !.ethdst = pkt.ethdst,
        !.ipsrc = pkt.ipsrc, !.ipdst = pkt.ipdst, !.ttl = pkt.ttl, !.calm = pkt.calm,
        !.rerouted = pkt.rerouted]

LEMMA Arrived ==
    ASSUME Finished(pkt), pkt.fate = "out", pkt.out \in Chassis
    PROVE  OnItsWay(Arriving)
<1> DEFINE p == Entering(pkt.out, pkt.at, pkt.orig)
           q == Arriving
           S == {"tun", "proto", "ethsrc", "ethdst", "ipsrc", "ipdst", "ttl", "calm", "rerouted"}
<1>1. /\ IsPacket(p) /\ p.fate = "run" /\ p.table = 0 /\ p.in = pkt.at /\ p.reg5 = 0
      /\ p.reg2 = 0 /\ p.reg3 = 0 /\ p.up = {} /\ p.commit = {}
  BY DEF Entering, IsPacket, Fields
<1>2. q = [p EXCEPT
             !.tun = pkt.tun, !.proto = pkt.proto, !.ethsrc = pkt.ethsrc, !.ethdst = pkt.ethdst,
             !.ipsrc = pkt.ipsrc, !.ipdst = pkt.ipdst, !.ttl = pkt.ttl, !.calm = pkt.calm,
             !.rerouted = pkt.rerouted]
  BY DEF Arriving
<1> HIDE DEF p, q
<1>3. p = [x \in Fields |-> p[x]]
  BY <1>1 DEF IsPacket
<1>4. q = [x \in Fields |-> IF x \in S THEN pkt[x] ELSE p[x]]
  BY <1>2, <1>3
<1>5. S \subseteq Fields /\ "at" \in Fields \ S
  BY DEF Fields
<1>6. q = [x \in Fields |-> q[x]] /\ \A x \in S : q[x] = pkt[x]
  BY <1>4, <1>5
<1>7. \A x \in Fields \ S : q[x] = p[x]
  BY <1>4
<1>8. /\ IsPacket(q) /\ q.fate = "run" /\ q.table = 0 /\ q.in = pkt.at /\ q.reg5 = 0
      /\ q.reg2 = 0 /\ q.reg3 = 0 /\ q.up = {} /\ q.commit = {}
  <2>1. q.at = p.at
    BY <1>5, <1>7
  <2>2. {"fate", "table", "in", "reg5", "reg2", "reg3", "up", "commit"} \subseteq Fields \ S
    BY DEF Fields
  <2> HIDE DEF S
  <2> QED
    BY <1>1, <1>6, <1>7, <2>1, <2>2 DEF IsPacket
<1>9. /\ q.tun = pkt.tun /\ q.ipsrc = pkt.ipsrc /\ q.ipdst = pkt.ipdst
      /\ q.ethsrc = pkt.ethsrc /\ q.rerouted = pkt.rerouted
  BY <1>6
<1>10. Addressed(q)
  BY <1>8, <1>9, AddressAssumption DEF Addressed, Finished
<1>11. Marked(q)
  BY <1>8, <1>9, Numbers DEF Marked, Finished, IsPacket, TableNumbers
<1> QED
  BY <1>8, <1>10, <1>11 DEF OnItsWay, q

LEMMA InitInvariant == Init => IInv
<1> SUFFICES ASSUME Init PROVE IInv
  OBVIOUS
<1> QED
  BY ViewsStart DEF Init, IInv, ThePacket

LEMMA SendStep == ASSUME IInv, NEW o \in Traffic, Send(o) PROVE IInv'
<1>1. HomeOf(o.from) \in Chassis
  BY NamesAssumption DEF IInv, ViewTypeOK, HomeOf, Ports
<1>2. o.ipsrc \in Addrs /\ o.ipdst \in Addrs /\ o.ethsrc \in Macs
  BY AddressAssumption DEF Macs
<1>3. OnItsWay(pkt')
  BY <1>1, <1>2, Entered DEF Send
<1> QED
  BY <1>3 DEF IInv, ThePacket, Send, viewVars, ViewTypeOK

LEMMA TranslateStep == ASSUME IInv, Translate PROVE IInv'
<1> DEFINE c == pkt.at
           q == Visit(c, pkt)
           v == [q EXCEPT !.up = {}, !.commit = {}]
<1>1. OnItsWay(pkt)
  BY DEF Translate, IInv, ThePacket, NoPkt, Finished, Remembered
<1>2. c \in Chassis
  BY <1>1 DEF OnItsWay, IsPacket
<1>3. Finished(q) \/ Halted(q)
  BY <1>1, <1>2, Visited DEF IInv
<1>4. /\ pkt' = IF q.fate = "out" THEN v ELSE Over(q, q.fate, IF q.fate = "ambiguous" THEN q.dp ELSE None)
      /\ upcall' = [upcall EXCEPT ![c] = @ \cup q.up]
      /\ ct' = [ct EXCEPT ![c] = @ \cup q.commit]
      /\ UNCHANGED viewVars /\ UNCHANGED arp
  BY DEF Translate
<1> HIDE DEF q, c
<1>5. /\ \A u \in q.up : IsUpcall(u)
      /\ \A e \in q.commit : IsConnection(e)
  BY <1>3 DEF Finished, Halted, Addressed
<1>6. /\ upcall' = [d \in Chassis |-> upcall'[d]]
      /\ \A d \in Chassis : \A u \in upcall'[d] : IsUpcall(u)
  BY <1>2, <1>4, <1>5 DEF IInv
<1>7. /\ ct' = [d \in Chassis |-> ct'[d]]
      /\ \A d \in Chassis : \A e \in ct'[d] : IsConnection(e)
  BY <1>2, <1>4, <1>5 DEF IInv
<1>8. ThePacket(pkt')
  <2>1. CASE q.fate = "out"
    <3>1. /\ IsPacket(v) /\ v.up = {} /\ v.commit = {}
          /\ \A f \in Fields \ {"up", "commit"} : v[f] = q[f]
      BY <1>3 DEF Finished, Halted, IsPacket, Fields
    <3> HIDE DEF v
    <3>2. \A f \in {"fate", "out", "tun", "rerouted", "ipsrc", "ipdst", "ethsrc", "reg2",
                    "reg3"} : v[f] = q[f]
      BY <3>1 DEF Fields
    <3>3. Finished(v) /\ v.fate = "out"
      BY <1>3, <2>1, <3>1, <3>2 DEF Finished, Halted, Addressed
    <3> QED
      BY <1>4, <2>1, <3>3 DEF ThePacket
  <2>2. CASE q.fate # "out"
    <3>1. q.fate \in {"lost", "ambiguous", "looping"} /\ q.rerouted \in {0, 1}
      BY <1>3, <2>2 DEF Finished, Halted
    <3>2. Remembered(pkt')
      BY <1>4, <2>2, <3>1 DEF Remembered, Over
    <3> QED
      BY <3>2 DEF ThePacket
  <2> QED
    BY <2>1, <2>2
<1> QED
  BY <1>4, <1>6, <1>7, <1>8 DEF IInv, viewVars, ViewTypeOK

LEMMA TransmitStep == ASSUME IInv, Transmit PROVE IInv'
<1>1. Finished(pkt) /\ pkt.fate = "out"
  BY DEF Transmit, IInv, ThePacket, NoPkt, OnItsWay, Remembered
<1>2. \A fate \in {"lost", "delivered"} : \A to : Remembered(Over(pkt, fate, to))
  BY <1>1 DEF Finished, Over, Remembered
<1>3. ThePacket(pkt')
  <2>1. CASE pkt.out \in Chassis /\ {pkt.at, pkt.out} \notin broken
    <3>1. pkt' = Arriving
      BY <2>1 DEF Transmit, Arriving
    <3> QED
      BY <1>1, <2>1, <3>1, Arrived DEF ThePacket
  <2>2. CASE ~(pkt.out \in Chassis /\ {pkt.at, pkt.out} \notin broken)
    <3>1. \E fate \in {"lost", "delivered"} : \E to : pkt' = Over(pkt, fate, to)
      BY <2>2 DEF Transmit
    <3> QED
      BY <1>2, <3>1 DEF ThePacket
  <2> QED
    BY <2>1, <2>2
<1> QED
  BY <1>3 DEF IInv, Transmit, viewVars, ViewTypeOK

LEMMA ControllerStep == ASSUME IInv, NEW c \in Chassis, Controller(c) PROVE IInv'
<1>1. PICK u \in upcall[c] :
          /\ upcall' = [upcall EXCEPT ![c] = @ \ {u}]
          /\ LearnArp(c, u) \/ TouchUnknown(c, u) \/ SendArp(c, u)
  BY DEF Controller
<1>2. IsUpcall(u)
  BY DEF IInv
<1>3. /\ upcall' = [d \in Chassis |-> upcall'[d]]
      /\ \A d \in Chassis : \A w \in upcall'[d] : IsUpcall(w)
  BY <1>1 DEF IInv
<1>4. CASE LearnArp(c, u)
  <2>1. arp' \in [Chassis -> SUBSET (Addrs \X Macs)]
    BY <1>2, <1>4 DEF LearnArp, IInv, IsUpcall
  <2> QED
    BY <1>3, <1>4, <2>1 DEF LearnArp, IInv, viewVars, ViewTypeOK
<1>5. CASE TouchUnknown(c, u)
  <2>1. TouchedBy(c, u.ip) \subseteq Vms \cup Chassis
    BY DEF IInv, ViewTypeOK, TouchedBy, Wanted
  <2>2. touched' \in [Chassis -> SUBSET (Vms \cup Chassis)]
    BY <1>5, <2>1 DEF TouchUnknown, IInv, ViewTypeOK
  <2>3. ViewTypeOK'
    BY <1>5, <2>2 DEF TouchUnknown, IInv, ViewTypeOK
  <2> QED
    BY <1>3, <1>5, <2>3 DEF TouchUnknown, IInv
<1>6. CASE SendArp(c, u)
  <2> DEFINE o == [from |-> c, proto |-> "arpq", ethsrc |-> u.mac, ethdst |-> AnyMac,
                   ipsrc |-> u.spa, ipdst |-> u.tpa, conn |-> None, ttl |-> 0]
             p == Entering(c, None, o)
             q == [p EXCEPT !.table = FORWARD_PACKET, !.dp = u.dp, !.dst = u.dst]
  <2>1. o.ipsrc \in Addrs /\ o.ipdst \in Addrs /\ o.ethsrc \in Macs
    BY <1>2, <1>6 DEF SendArp, IsUpcall
  <2>2. OnItsWay(p) /\ p.reg5 = 0 /\ p.rerouted = 0
    <3>1. OnItsWay(p)
      BY <2>1, Entered
    <3> QED
      BY <3>1 DEF Entering
  <2>3. pkt' = q
    BY <1>6 DEF SendArp
  <2> HIDE DEF o, p
  <2>4. /\ IsPacket(q) /\ q.table = 57
        /\ \A f \in Fields \ {"table", "dp", "dst"} : q[f] = p[f]
    BY <2>2, Numbers DEF OnItsWay, IsPacket, Fields, TableNumbers
  <2> HIDE DEF q
  <2>5. \A f \in {"fate", "reg5", "rerouted", "up", "commit", "ipsrc", "ipdst", "ethsrc",
                  "reg2", "reg3"} : q[f] = p[f]
    BY <2>4 DEF Fields
  <2>6. OnItsWay(q)
    BY <2>2, <2>4, <2>5 DEF OnItsWay, Addressed, Marked
  <2> QED
    BY <1>3, <1>6, <2>3, <2>6 DEF SendArp, IInv, ThePacket, viewVars, ViewTypeOK
<1> QED
  BY <1>1, <1>4, <1>5, <1>6

LEMMA ChangeStep == ASSUME IInv, ChangeNetwork PROVE IInv'
<1> DEFINE q == [pkt EXCEPT !.calm = FALSE]
<1>1. ViewTypeOK'
  BY ViewsChange DEF ChangeNetwork, IInv
<1>2. CASE IsPacket(pkt)
  <2>1. IsPacket(q) /\ \A f \in Fields \ {"calm"} : q[f] = pkt[f]
    BY <1>2 DEF IsPacket, Fields
  <2> HIDE DEF q
  <2>2. \A f \in Fields \ {"calm"} : q[f] = pkt[f]
    BY <2>1
  <2>3. \A f \in {"fate", "table", "in", "tun", "reg5", "flags", "rerouted", "out", "up",
                  "commit", "ipsrc", "ipdst", "ethsrc", "reg2", "reg3"} : q[f] = pkt[f]
    BY <2>2 DEF Fields
  <2>4. (OnItsWay(pkt) => OnItsWay(q)) /\ (Finished(pkt) => Finished(q))
    BY <2>1, <2>3 DEF OnItsWay, Finished, Addressed, Marked
  <2>5. q.fate = pkt.fate
    BY <2>3
  <2>6. ThePacket(pkt')
    <3>1. pkt' = IF pkt = NoPkt THEN pkt ELSE q
      BY DEF ChangeNetwork, q
    <3>2. OnItsWay(pkt) \/ (Finished(pkt) /\ pkt.fate = "out") \/ pkt = NoPkt \/ Remembered(pkt)
      BY DEF IInv, ThePacket
    <3>3. ~Remembered(pkt)
      BY <1>2 DEF IsPacket, Remembered, Fields
    <3> QED
      BY <2>4, <2>5, <3>1, <3>2, <3>3 DEF ThePacket
  <2> QED
    BY <1>1, <2>6 DEF ChangeNetwork, IInv
<1>3. CASE Remembered(pkt)
  <2>1. Remembered(q)
    BY <1>3 DEF Remembered
  <2>2. ThePacket(pkt')
    BY <1>3, <2>1 DEF ChangeNetwork, ThePacket
  <2> QED
    BY <1>1, <2>2 DEF ChangeNetwork, IInv
<1>4. CASE pkt = NoPkt
  BY <1>1, <1>4 DEF ChangeNetwork, IInv, ThePacket
<1> QED
  BY <1>2, <1>3, <1>4 DEF IInv, ThePacket, OnItsWay, Finished

LEMMA InvariantStep == IInv /\ [Next]_vars => IInv'
<1> SUFFICES ASSUME IInv, [Next]_vars PROVE IInv'
  OBVIOUS
<1>1. ASSUME NEW c \in Chassis, SyncView(c) PROVE IInv'
  <2>1. ViewTypeOK'
    BY <1>1, ViewsSync DEF SyncView, IInv
  <2> QED
    BY <1>1, <2>1 DEF SyncView, IInv
<1>2. CASE Collect
  BY <1>2 DEF Collect, IInv, ThePacket, viewVars, ViewTypeOK
<1>3. CASE UNCHANGED vars
  BY <1>3 DEF vars, IInv, viewVars, ViewTypeOK
<1> QED
  BY <1>1, <1>2, <1>3, SendStep, TranslateStep, TransmitStep, ControllerStep, ChangeStep
     DEF Next

LEMMA Invariance == Spec => []IInv
BY InitInvariant, InvariantStep, PTL DEF Spec

\* Packets, tables and views keep their types: what the tables and the NAT
\* make of an address is an address, and what is learnt is a binding.
THEOREM TypeCorrect == Spec => []TypeOK
BY Invariance, InvariantImplies, PTL

\* A packet is handed to an edge for help at most once, whatever the network,
\* the options of the chassis, the links that break and the views that are
\* stale: the mark it bears is kept by every table and crosses the tunnels.
THEOREM RedirectedOnce == Spec => []RedirectedAtMostOnce
BY Invariance, InvariantImplies, PTL

(***************************************************************************)
(* Tenants: a packet stays in the part of the network it was sent in.      *)
(***************************************************************************)

PortsIn(D) == {x \in Ports : PortOf(x).ls \in D}

\* The datapaths that a packet is on, was told to go to or carries in the
\* header of the tunnel, the port it came through and the one it leaves
\* through: all are in part D.
Inside(D, p) ==
    /\ p.orig \in Traffic
    /\ p.dp \in D \cup {None} /\ p.reg6 \in D \cup {None} /\ p.tun.dp \in D \cup {None}
    /\ p.in \in Chassis \cup {None} \cup PortsIn(D)
    /\ p.out \in Chassis \cup {None, Unset} \cup PortsIn(D)

\* From p to q a packet leaves no part that routers do not connect with others.
Moves(p, q) == q.orig = p.orig /\ \A D \in Closed : Inside(D, p) => Inside(D, q)

\* The fields that say where it is.
Whereabouts == {"dp", "reg6", "tun", "in", "out", "orig"}
Rewrites(p, q) == IsPacket(q) /\ \A f \in Whereabouts : q[f] = p[f]

LEMMA RewritesMoves == ASSUME NEW p, NEW q, Rewrites(p, q) PROVE Moves(p, q)
BY DEF Rewrites, Whereabouts, Moves, Inside

LEMMA RewritesTwice ==
    ASSUME NEW p, NEW q, Rewrites(p, q), NEW s, Rewrites(q, s) PROVE Rewrites(p, s)
BY DEF Rewrites

LEMMA MovesTwice == ASSUME NEW p, NEW q, Moves(p, q), NEW s, Moves(q, s) PROVE Moves(p, s)
BY DEF Moves

LEMMA Rewriting ==
    ASSUME NEW p, IsPacket(p)
    PROVE  /\ Rewrites(p, p) /\ Rewrites(p, Onward(p)) /\ Rewrites(p, Drop(p))
           /\ \A x : /\ Rewrites(p, Go(p, x)) /\ Rewrites(p, Flag(p, x))
                     /\ Rewrites(p, Upload(p, x))
           /\ \A x : /\ Rewrites(p, [p EXCEPT !.dst = x]) /\ Rewrites(p, [p EXCEPT !.ttl = x])
                     /\ Rewrites(p, [p EXCEPT !.ipsrc = x]) /\ Rewrites(p, [p EXCEPT !.ipdst = x])
                     /\ Rewrites(p, [p EXCEPT !.ethsrc = x]) /\ Rewrites(p, [p EXCEPT !.ethdst = x])
           /\ \A n, ip : Rewrites(p, Commit(p, n, ip))
<1>1. Rewrites(p, p)
  BY DEF Rewrites
<1>2. ASSUME NEW x
      PROVE  Rewrites(p, Go(p, x)) /\ Rewrites(p, Flag(p, x)) /\ Rewrites(p, Upload(p, x))
  BY DEF Rewrites, Whereabouts, IsPacket, Fields, Go, Flag, Upload
<1>3. Rewrites(p, Drop(p)) /\ Rewrites(p, Onward(p))
  BY <1>2 DEF Rewrites, Whereabouts, IsPacket, Fields, Drop, Onward
<1>4. ASSUME NEW x
      PROVE  /\ Rewrites(p, [p EXCEPT !.dst = x]) /\ Rewrites(p, [p EXCEPT !.ttl = x])
             /\ Rewrites(p, [p EXCEPT !.ipsrc = x]) /\ Rewrites(p, [p EXCEPT !.ipdst = x])
             /\ Rewrites(p, [p EXCEPT !.ethsrc = x]) /\ Rewrites(p, [p EXCEPT !.ethdst = x])
  <2>1. Rewrites(p, [p EXCEPT !.dst = x]) /\ Rewrites(p, [p EXCEPT !.ttl = x])
    BY DEF Rewrites, Whereabouts, IsPacket, Fields
  <2>2. Rewrites(p, [p EXCEPT !.ipsrc = x]) /\ Rewrites(p, [p EXCEPT !.ipdst = x])
    BY DEF Rewrites, Whereabouts, IsPacket, Fields
  <2>3. Rewrites(p, [p EXCEPT !.ethsrc = x]) /\ Rewrites(p, [p EXCEPT !.ethdst = x])
    BY DEF Rewrites, Whereabouts, IsPacket, Fields
  <2> QED
    BY <2>1, <2>2, <2>3
<1>5. ASSUME NEW n, NEW ip PROVE Rewrites(p, Commit(p, n, ip))
  BY DEF Rewrites, Whereabouts, IsPacket, Fields, Commit
<1> QED
  BY <1>1, <1>2, <1>3, <1>4, <1>5

\* A packet that was rewritten is handed on, or given up.
LEMMA HandedOn ==
    ASSUME NEW p, NEW q, Rewrites(p, q)
    PROVE  Rewrites(p, Onward(q)) /\ Rewrites(p, Drop(q)) /\ \A t : Rewrites(p, Go(q, t))
BY Rewriting, RewritesTwice DEF Rewrites

\* The tables that leave a packet where it is.
LEMMA AnswerRewrites ==
    ASSUME NEW c, NEW p, IsPacket(p), NEW q \in arp_feedback_construct(c, p)
    PROVE  Rewrites(p, q)
<1> DEFINE f == Flag(p, "LOOPBACK")
<1>1. Rewrites(p, p) /\ Rewrites(p, f)
  BY Rewriting
<1> HIDE DEF f
<1>2. ASSUME NEW x, q = [f EXCEPT !.proto = "arpr", !.ethdst = p.ethsrc, !.ethsrc = x.mac,
                           !.ipsrc = x.ip, !.ipdst = p.ipsrc, !.dst = p.src]
      PROVE  Rewrites(p, q)
  <2>1. IsPacket(q) /\ \A g \in Whereabouts : q[g] = f[g]
    BY <1>1, <1>2, ZenonT(30) DEF Rewrites, Whereabouts, IsPacket, Fields
  <2> QED
    BY <1>1, <2>1 DEF Rewrites
<1> QED
  BY <1>1, <1>2 DEF arp_feedback_construct, f

LEMMA ArpTablesRewrite ==
    ASSUME NEW c, NEW p, IsPacket(p),
           NEW r, r \in lsp_arp_controller(c, p) \/ r \in lsp_arp_response(c, p)
    PROVE  Rewrites(p, r.to)
<1>1. Rewrites(p, p) /\ Rewrites(p, upload_arp(p))
  BY Rewriting DEF upload_arp
<1>2. \A q \in arp_feedback_construct(c, p) : Rewrites(p, Onward(q))
  BY AnswerRewrites, HandedOn
<1>3. /\ Rewrites(p, Onward(p)) /\ Rewrites(p, Onward(upload_arp(p)))
      /\ Rewrites(p, Drop(upload_arp(p)))
  BY <1>1, HandedOn
<1>4. CASE r \in lsp_arp_controller(c, p)
  BY <1>3, <1>4, Rules DEF lsp_arp_controller
<1>5. CASE r \in lsp_arp_response(c, p)
  BY <1>2, <1>3, <1>5, Rules DEF lsp_arp_response
<1> QED
  BY <1>4, <1>5

LEMMA PingRewrites ==
    ASSUME NEW c, NEW p, IsPacket(p),
           NEW r, r \in lrp_pkt_response(c, p) \/ r \in lrp_drop_unexpect(c, p)
    PROVE  Rewrites(p, r.to)
<1> DEFINE f == Flag(p, "LOOPBACK")
           t == [p EXCEPT !.ttl = @ - 1]
<1>1. Rewrites(p, p) /\ Rewrites(p, f)
  BY Rewriting
<1>2. Rewrites(p, t)
  BY Rewriting
<1>3. Echo(p) = [f EXCEPT !.proto = "ip", !.ipsrc = p.ipdst, !.ipdst = p.ipsrc,
                          !.ttl = 255, !.dst = p.src]
  BY DEF Echo
<1> HIDE DEF f
<1>4. Rewrites(f, Echo(p))
  <2>1. IsPacket(f)
    BY <1>1 DEF Rewrites
  <2>2. IsPacket(Echo(p)) /\ \A g \in Whereabouts : Echo(p)[g] = f[g]
    BY <1>3, <2>1, ZenonT(30) DEF Whereabouts, IsPacket, Fields
  <2> QED
    BY <2>2 DEF Rewrites
<1>5. Rewrites(p, Echo(p))
  BY <1>1, <1>4, RewritesTwice
<1> HIDE DEF t
<1>6. /\ Rewrites(p, Onward(Echo(p))) /\ Rewrites(p, Onward(p)) /\ Rewrites(p, Onward(t))
      /\ Rewrites(p, Drop(p))
  BY <1>1, <1>2, <1>5, HandedOn
<1>7. r \in lrp_pkt_response(c, p) => r.to = Onward(Echo(p)) \/ r.to = Onward(p)
  <2>1. r \in lrp_pkt_response(c, p) => r = Rule(3, Onward(Echo(p))) \/ r = Rule(0, Onward(p))
    BY DEF lrp_pkt_response, Echo, RuleIf
  <2> QED
    BY <2>1, Rules
<1>8. r \in lrp_drop_unexpect(c, p) => r.to = Drop(p) \/ r.to = Onward(t)
  BY Rules DEF lrp_drop_unexpect, t
<1> QED
  BY <1>6, <1>7, <1>8

\* NAT.
LEMMA NatRewrites ==
    ASSUME NEW p, IsPacket(p), NEW n, NEW ip, NEW a, NEW f
    PROVE  /\ Rewrites(p, [Commit(Flag(p, f), n, ip) EXCEPT !.ipdst = a])
           /\ Rewrites(p, [Commit(Flag(p, f), n, ip) EXCEPT !.ipsrc = a])
           /\ Rewrites(p, [Flag(p, f) EXCEPT !.ipsrc = a])
<1> DEFINE g == Flag(p, f)
           h == Commit(g, n, ip)
<1>1. Rewrites(p, g) /\ IsPacket(g)
  BY Rewriting DEF Rewrites
<1> HIDE DEF g
<1>2. Rewrites(g, [g EXCEPT !.ipsrc = a])
  BY <1>1, Rewriting
<1>3. Rewrites(g, h)
  BY <1>1, Rewriting
<1> HIDE DEF h
<1>4. IsPacket(h)
  BY <1>3 DEF Rewrites
<1>5. Rewrites(h, [h EXCEPT !.ipdst = a]) /\ Rewrites(h, [h EXCEPT !.ipsrc = a])
  BY <1>4, Rewriting
<1>6. /\ Rewrites(p, [h EXCEPT !.ipdst = a]) /\ Rewrites(p, [h EXCEPT !.ipsrc = a])
      /\ Rewrites(p, [g EXCEPT !.ipsrc = a])
  BY <1>1, <1>2, <1>3, <1>5, RewritesTwice
<1> QED
  BY <1>6 DEF g, h

LEMMA DestinationRewrites ==
    ASSUME NEW c, NEW p, IsPacket(p),
           NEW r, r \in lunsnat_xlate_stage1(c, p) \/ r \in ldnat_xlate_stage1(c, p)
    PROVE  Rewrites(p, r.to)
<1> DEFINE To0 == Onward(p)
           To1(a) == Onward([p EXCEPT !.ipdst = a])
           To2(n) == Onward([Commit(Flag(p, "NAT"), n, n.ip) EXCEPT !.ipdst = n.ip])
           D == {x \in lnat_data(c, p.dp, "dnat") :
                    IsIP(p) /\ x.len = AddrWidth /\ x.xip = p.ipdst}
<1>1. /\ Rewrites(p, To0)
      /\ \A a : Rewrites(p, To1(a))
      /\ \A n : Rewrites(p, To2(n))
  BY Rewriting, NatRewrites, HandedOn
<1>2. r \in lunsnat_xlate_stage1(c, p) =>
        \/ r \in {Rule(2, To1(n.ip)) : n \in {x \in OneToOne(c, p) : IsIP(p) /\ x.xip = p.ipdst}}
        \/ r = Rule(1, To1(Restored(c, p, "snat", p.ipdst, "xip", "ip")))
        \/ r = Rule(0, To0)
  BY DEF lunsnat_xlate_stage1, RuleIf, Default
<1>3. r \in ldnat_xlate_stage1(c, p) =>
        r \in {Rule(AddrWidth + 1, To2(n)) : n \in D} \/ r = Rule(0, To0)
  BY DEF ldnat_xlate_stage1, Default
<1> HIDE DEF To0, To1, To2, D
<1>4. \E k : \/ r = Rule(k, To0) \/ (\E a : r = Rule(k, To1(a)))
             \/ (\E n : r = Rule(k, To2(n)))
  BY <1>2, <1>3
<1> QED
  BY <1>1, <1>4, Rules

LEMMA SourceRewrites ==
    ASSUME NEW c, NEW p, IsPacket(p), NEW type,
           NEW r, \/ r \in lundnat_xlate_stage1(c, p) \/ r \in lsnat_xlate_stage1(c, p)
                  \/ r \in xlate_src_mac(c, p, type)
    PROVE  Rewrites(p, r.to)
<1> DEFINE To0 == Onward(p)
           To1(a) == Onward([p EXCEPT !.ipsrc = a])
           To2(n) == Onward([Commit(Flag(p, "NAT"), n, p.ipsrc) EXCEPT !.ipsrc = n.xip])
           To3(a) == Onward([p EXCEPT !.ethsrc = a])
           To4(a) == Onward([Flag(p, "NAT") EXCEPT !.ipsrc = a])
           O == {x \in OneToOne(c, p) : IsIP(p) /\ x.ip = p.ipsrc}
           S == {x \in lnat_data(c, p.dp, "snat") : IsIP(p) /\ InNet(p.ipsrc, x.ip, x.len)}
           M == {x \in lnat_data(c, p.dp, type) :
                    IsIP(p) /\ "NAT" \in p.flags /\ x.xip = p.ipsrc}
           f == Flag(p, "NAT")
<1>1. /\ Rewrites(p, To0)
      /\ \A a : Rewrites(p, To1(a)) /\ Rewrites(p, To3(a)) /\ Rewrites(p, To4(a))
      /\ \A n : Rewrites(p, To2(n))
  BY Rewriting, NatRewrites, HandedOn
<1>2. r \in lundnat_xlate_stage1(c, p) =>
        \/ r \in {Rule(2, To1(n.xip)) : n \in O}
        \/ r = Rule(1, To4(Restored(c, p, "dnat", f.ipsrc, "ip", "xip")))
        \/ r = Rule(0, To0)
  BY DEF lundnat_xlate_stage1, RuleIf, Default
<1>3. r \in lsnat_xlate_stage1(c, p) =>
        r \in {Rule(n.len + 1, To2(n)) : n \in S} \/ r = Rule(0, To0)
  BY DEF lsnat_xlate_stage1, Default
<1>4. r \in xlate_src_mac(c, p, type) =>
        r \in {Rule(1, To3(n.xmac)) : n \in M} \/ r = Rule(0, To0)
  BY DEF xlate_src_mac, Default
<1> HIDE DEF To0, To1, To2, To3, To4, O, S, M, f
<1>5. \E k : \/ r = Rule(k, To0) \/ (\E a : r = Rule(k, To1(a)))
             \/ (\E n : r = Rule(k, To2(n))) \/ (\E a : r = Rule(k, To3(a)))
             \/ (\E a : r = Rule(k, To4(a)))
  BY <1>2, <1>3, <1>4
<1> QED
  BY <1>1, <1>5, Rules

\* A tunnel leads to a chassis.
LEMMA Tunnels ==
    ASSUME ViewTypeOK, NEW c \in Chassis
    PROVE  /\ remote_chassis(c) \subseteq Chassis /\ gateway_ofport(c) \subseteq Chassis
           /\ \A r : ecmp_aggregate_outport(c, r) \subseteq Chassis
<1>1. remote_chassis(c) \subseteq Chassis
  BY DEF ViewTypeOK, remote_chassis, chassis_array
<1>2. \A l : next_hop_ovsport(c, l) \subseteq Chassis
  BY <1>1 DEF next_hop_ovsport
<1> QED
  BY <1>1, <1>2 DEF gateway_ofport, ecmp_aggregate_outport

LEMMA BundleChooses ==
    ASSUME NEW c, NEW p, p.orig \in Traffic, NEW S, S \subseteq Chassis
    PROVE  Bundle(c, p, S) \in S \cup {None}
<1> DEFINE live == {d \in S : Live(c, d)}
           w == Weight[p.orig.conn]
<1>1. Bundle(c, p, S) = IF live = {} THEN None ELSE CHOOSE d \in live : \A e \in live : w[d] >= w[e]
  BY DEF Bundle
<1>2. live \subseteq S /\ live \in SUBSET Chassis
  OBVIOUS
<1> HIDE DEF live
<1>3. CASE live # {}
  <2>1. \E d \in live : \A e \in live : w[d] >= w[e]
    BY <1>2, <1>3, WeightAssumption
  <2>2. (CHOOSE d \in live : \A e \in live : w[d] >= w[e]) \in live
    BY <2>1
  <2> QED
    BY <1>1, <1>2, <1>3, <2>2
<1> QED
  BY <1>1, <1>3

\* A way out is chosen: a tunnel, or none.
LEMMA WayOutMoves ==
    ASSUME NEW p, IsPacket(p), NEW d, p.orig \in Traffic => d \in Chassis \cup {None}
    PROVE  /\ Moves(p, Onward([p EXCEPT !.out = d]))
           /\ Moves(p, Onward([p EXCEPT !.reg5 = 1, !.out = d]))
<1> DEFINE q == [p EXCEPT !.out = d]
           s == [p EXCEPT !.reg5 = 1, !.out = d]
<1>1. /\ IsPacket(q) /\ q.out = d /\ \A f \in Whereabouts \ {"out"} : q[f] = p[f]
      /\ IsPacket(s) /\ s.out = d /\ \A f \in Whereabouts \ {"out"} : s[f] = p[f]
  BY DEF IsPacket, Fields, Whereabouts
<1> HIDE DEF q, s
<1>2. Moves(p, q) /\ Moves(p, s)
  BY <1>1 DEF Moves, Inside, Whereabouts
<1>3. Moves(q, Onward(q)) /\ Moves(s, Onward(s))
  BY <1>1, Rewriting, RewritesMoves
<1>4. Moves(p, Onward(q)) /\ Moves(p, Onward(s))
  BY <1>2, <1>3, MovesTwice
<1> QED
  BY <1>4 DEF q, s

LEMMA RoutedRewrites ==
    ASSUME NEW p, IsPacket(p), NEW l, NEW hop
    PROVE  Rewrites(p, Routed(p, l, hop))
<1> DEFINE q == LeftThrough(p, l, hop)
<1>1. Rewrites(p, q)
  BY DEF LeftThrough, Rewrites, Whereabouts, IsPacket, Fields
<1> HIDE DEF q
<1>2. Rewrites(p, Onward(q))
  BY <1>1, HandedOn
<1> QED
  BY <1>2 DEF q, Routed, LeftThrough

LEMMA RouteMoves ==
    ASSUME ViewTypeOK, NEW c \in Chassis, NEW p, IsPacket(p), NEW r, r \in lrp_ip_route(c, p)
    PROVE  Moves(p, r.to)
<1> DEFINE here == {x \in Route : IsIP(p) /\ x.lr = p.dp /\ InNet(p.ipdst, x.ip, x.len)}
           L == {x \in lsp_link_lrp(c) : IsIP(p) /\ x.lr = p.dp /\ InNet(p.ipdst, x.ip, x.len)}
           S == {x \in here : _static_route_changed(c, x)}
           E == {x \in here : c \notin Gateway /\ ecmp_aggregate_outport(c, x) # {}}
           d(s) == Bundle(c, p, ecmp_aggregate_outport(c, s))
<1>1. lrp_ip_route(c, p)
        = {Rule(_cal_priority(l.len, 0, l.idx), Routed(p, l, p.ipdst)) : l \in L}
          \cup {Rule(_cal_priority(s.len, 1, s.idx), Routed(p, s.out, s.hop)) : s \in S}
          \cup {Rule(_cal_priority(s.len, 2, 0), Onward([p EXCEPT !.out = d(s)])) : s \in E}
          \cup Default(Drop(p))
  BY DEF lrp_ip_route
<1>2. \A s : p.orig \in Traffic => d(s) \in Chassis \cup {None}
  BY Tunnels, BundleChooses
<1> HIDE DEF here, L, S, E, d
<1>3. \/ \E n, l, hop : r = Rule(n, Routed(p, l, hop))
      \/ \E n, s : r = Rule(n, Onward([p EXCEPT !.out = d(s)]))
      \/ r \in Default(Drop(p))
  BY <1>1
<1>4. \A l, hop : Moves(p, Routed(p, l, hop))
  BY RoutedRewrites, RewritesMoves
<1>5. \A s : Moves(p, Onward([p EXCEPT !.out = d(s)]))
  BY <1>2, WayOutMoves
<1>6. Moves(p, Drop(p))
  BY Rewriting, RewritesMoves
<1>7. CASE \E n, l, hop : r = Rule(n, Routed(p, l, hop))
  BY <1>4, <1>7, Rules
<1>8. CASE \E n, s : r = Rule(n, Onward([p EXCEPT !.out = d(s)]))
  <2>1. PICK n, s : r = Rule(n, Onward([p EXCEPT !.out = d(s)]))
    BY <1>8
  <2>2. r.to = Onward([p EXCEPT !.out = d(s)])
    BY <2>1, Rules
  <2> QED
    BY <1>5, <2>2
<1>9. CASE r \in Default(Drop(p))
  <2>1. r.to = Drop(p)
    BY <1>9, Rules
  <2> QED
    BY <1>6, <2>1
<1> QED
  BY <1>3, <1>7, <1>8, <1>9

LEMMA JudgeRewrites ==
    ASSUME NEW c, NEW p, IsPacket(p), NEW r, r \in lrp_ecmp_judge(c, p)
    PROVE  Rewrites(p, r.to)
<1> DEFINE S == {x \in Route : /\ c \notin Gateway /\ IsIP(p) /\ x.lr = p.dp
                               /\ InNet(p.ipdst, x.ip, x.len)
                               /\ p.out \in next_hop_ovsport(c, x.out)}
<1>1. \/ r \in {Rule(_cal_priority(s.len, 2, 0), Routed(p, s.out, s.hop)) : s \in S}
      \/ r = Rule(1, Drop(p)) \/ r = Rule(0, Onward(p))
  BY DEF lrp_ecmp_judge, RuleIf, Default
<1> HIDE DEF S
<1>2. \/ \E n, l, hop : r = Rule(n, Routed(p, l, hop))
      \/ r = Rule(1, Drop(p)) \/ r = Rule(0, Onward(p))
  BY <1>1
<1>3. Rewrites(p, Drop(p)) /\ Rewrites(p, Onward(p))
  BY Rewriting
<1> QED
  BY <1>2, <1>3, RoutedRewrites, Rules

LEMMA NextHopRewrites ==
    ASSUME NEW c, NEW p, IsPacket(p),
           NEW r, r \in lrp_update_eth_dst(c, p) \/ r \in lrp_handle_unknow_dst_pkt(c, p)
    PROVE  Rewrites(p, r.to)
<1> DEFINE X == {y \in UNION {opposite_side_changed_lsp(c, l) : l \in LinksOf(c, p)} :
                    IsIP(p) /\ y.ip = p.reg2}
           m == IF \E e \in arp[c] : e[1] = p.reg2 /\ IsIP(p)
                THEN (CHOOSE e \in arp[c] : e[1] = p.reg2)[2] ELSE NoMac
           To1(a) == Onward([p EXCEPT !.ethdst = a])
           ask == IF c \in OnDemand THEN upload_unknow_dst(p) ELSE p
           f == Flag(ask, "REDIRECT")
           g == generate_arp(p)
<1>1. r \in lrp_update_eth_dst(c, p) =>
        r \in {Rule(3, To1(x.mac)) : x \in X} \/ r = Rule(2, To1(m))
  BY DEF lrp_update_eth_dst, search_ip_mac
<1>2. r \in lrp_handle_unknow_dst_pkt(c, p) =>
        \E n : \/ r = Rule(n, Drop(p)) \/ r = Rule(n, Drop(g)) \/ r = Rule(n, Drop(ask))
               \/ r = Rule(n, Onward(p)) \/ r = Rule(n, Go(f, REDIRECT_CHASSIS))
  BY DEF lrp_handle_unknow_dst_pkt, RuleIf, Default
<1>3. \A a : Rewrites(p, To1(a))
  BY Rewriting, HandedOn
<1>4. Rewrites(p, p) /\ Rewrites(p, ask) /\ Rewrites(p, g)
  BY Rewriting DEF upload_unknow_dst, generate_arp
<1> HIDE DEF ask
<1>5. Rewrites(ask, f)
  BY <1>4, Rewriting DEF Rewrites
<1> HIDE DEF X, m, To1, f, g
<1>6. /\ Rewrites(p, Drop(p)) /\ Rewrites(p, Drop(g)) /\ Rewrites(p, Drop(ask))
      /\ Rewrites(p, Onward(p)) /\ Rewrites(p, Go(f, REDIRECT_CHASSIS))
  BY <1>4, <1>5, HandedOn, RewritesTwice
<1>7. CASE r \in lrp_update_eth_dst(c, p)
  <2>1. \E n, a : r = Rule(n, To1(a))
    BY <1>1, <1>7
  <2> QED
    BY <1>3, <2>1, Rules
<1>8. CASE r \in lrp_handle_unknow_dst_pkt(c, p)
  BY <1>2, <1>6, <1>8, Rules
<1> QED
  BY <1>7, <1>8

\* From a router to the switch across one of its ports.
LEMMA HandedMoves ==
    ASSUME NEW c, NEW p, IsPacket(p), p.dp \in Router, NEW r, r \in lrp_forward_packet(c, p)
    PROVE  Moves(p, r.to)
<1>1. PICK l \in LinksOf(c, p) :
          r = Rule(3, Onward([p EXCEPT !.dp = l.ls, !.src = PortID(l.ip)]))
  BY DEF lrp_forward_packet
<1> DEFINE q == [p EXCEPT !.dp = l.ls, !.src = PortID(l.ip)]
<1>2. l \in Link /\ l.lr = p.dp
  BY <1>1 DEF LinksOf, lsp_link_lrp
<1>3. IsPacket(q) /\ q.dp = l.ls /\ \A f \in Whereabouts \ {"dp"} : q[f] = p[f]
  BY DEF IsPacket, Fields, Whereabouts
<1>4. r.to = Onward(q)
  BY <1>1, Rules
<1> HIDE DEF q
<1>5. \A D \in Closed : p.dp \in D \cup {None} => q.dp \in D
  BY <1>2, <1>3, NamesAssumption DEF Closed
<1>6. Moves(p, q)
  BY <1>3, <1>5 DEF Moves, Inside, Whereabouts
<1>7. Moves(q, Onward(q))
  BY <1>3, Rewriting, RewritesMoves
<1> QED
  BY <1>4, <1>6, <1>7, MovesTwice

\* The destination is looked up.
LEMMA LookupMoves ==
    ASSUME ViewTypeOK, NEW c \in Chassis, NEW p, IsPacket(p),
           NEW r, r \in lsp_lookup_dst_port(c, p)
    PROVE  Moves(p, r.to)
<1> DEFINE u == upload_unknow_dst(p)
<1>1. \A x : Rewrites(p, To(p, x)) /\ IsPacket(To(p, x))
  BY DEF To, Rewrites, Whereabouts, IsPacket, Fields
<1>2. \A x : Moves(p, Onward(To(p, x))) /\ Moves(p, Go(To(p, x), LSP_EGRESS_FIRST))
  BY <1>1, HandedOn, RewritesMoves
<1>3. \A d \in remote_chassis(c) : p.orig \in Traffic => Tunnel(c, p, d) \in Chassis \cup {None}
  BY Tunnels, BundleChooses DEF Tunnel
<1>4. ASSUME NEW d \in remote_chassis(c), NEW x
      PROVE  Moves(p, Onward([To(p, x) EXCEPT !.reg5 = 1, !.out = Tunnel(c, p, d)]))
  <2> DEFINE t == To(p, x)
             e == Tunnel(c, p, d)
  <2>1. IsPacket(t) /\ Moves(p, t) /\ t.orig = p.orig
    BY <1>1, RewritesMoves DEF Moves
  <2>2. p.orig \in Traffic => e \in Chassis \cup {None}
    BY <1>3
  <2> HIDE DEF t, e
  <2>3. Moves(t, Onward([t EXCEPT !.reg5 = 1, !.out = e]))
    BY <2>1, <2>2, WayOutMoves
  <2>4. Moves(p, Onward([t EXCEPT !.reg5 = 1, !.out = e]))
    BY <2>1, <2>3, MovesTwice
  <2> QED
    BY <2>4 DEF t, e
<1>5. Moves(p, Onward(Unknown(p))) /\ Moves(p, Drop(p))
  <2>1. IsPacket(u) /\ Moves(p, u)
    BY Rewriting, RewritesMoves DEF upload_unknow_dst, Rewrites
  <2>2. Unknown(p) = [u EXCEPT !.reg5 = 1, !.out = None]
    BY <2>1 DEF Unknown, IsPacket, Fields
  <2> HIDE DEF u
  <2>3. Moves(u, Onward(Unknown(p)))
    BY <2>1, <2>2, WayOutMoves
  <2> QED
    BY <2>1, <2>3, MovesTwice, Rewriting, RewritesMoves
<1>6. CASE \E x : r = Rule(5, Onward(To(p, x))) \/ r = Rule(4, Onward(To(p, x)))
                  \/ r = Rule(2, Go(To(p, x), LSP_EGRESS_FIRST))
  BY <1>2, <1>6, Rules
<1>7. CASE \E d \in remote_chassis(c) : \E x :
              r = Rule(3, Onward([To(p, x) EXCEPT !.reg5 = 1, !.out = Tunnel(c, p, d)]))
  <2>1. PICK d \in remote_chassis(c) : \E x :
            r = Rule(3, Onward([To(p, x) EXCEPT !.reg5 = 1, !.out = Tunnel(c, p, d)]))
    BY <1>7
  <2>2. PICK x : r = Rule(3, Onward([To(p, x) EXCEPT !.reg5 = 1, !.out = Tunnel(c, p, d)]))
    BY <2>1
  <2>3. r.to = Onward([To(p, x) EXCEPT !.reg5 = 1, !.out = Tunnel(c, p, d)])
    BY <2>2, Rules
  <2> QED
    BY <1>4, <2>3
<1>8. CASE r = Rule(0, Onward(Unknown(p))) \/ r = Rule(0, Drop(p))
  BY <1>5, <1>8, Rules
<1>9. Looks(c, p, r)
  BY LookupRules
<1> QED
  BY <1>6, <1>7, <1>8, <1>9 DEF Looks

\* The header of the tunnel names the datapath the packet is on.
LEMMA EmbedMoves ==
    ASSUME NEW p, IsPacket(p), NEW t
    PROVE  Moves(p, Go(embed_metadata(p), t))
<1> DEFINE q == embed_metadata(p)
<1>1. IsPacket(q) /\ q.tun.dp = p.dp /\ \A f \in Whereabouts \ {"tun"} : q[f] = p[f]
  BY DEF IsPacket, Fields, Whereabouts, embed_metadata
<1> HIDE DEF q
<1>2. Moves(p, q)
  BY <1>1 DEF Moves, Inside, Whereabouts
<1>3. Moves(q, Go(q, t))
  BY <1>1, Rewriting, RewritesMoves
<1>4. Moves(p, Go(q, t))
  BY <1>2, <1>3, MovesTwice
<1> QED
  BY <1>4 DEF q

LEMMA PutOutMoves ==
    ASSUME NEW c, NEW p, IsPacket(p), NEW r, r \in lsp_output_dst_port(c, p)
    PROVE  Moves(p, r.to)
<1>1. \/ r = Rule(4, Drop(p)) \/ r = Rule(3, Go(p, REDIRECT_CHASSIS))
      \/ r = Rule(2, Go(embed_metadata(p), OUTPUT_PKT)) \/ r = Rule(1, Go(p, LSP_EGRESS_FIRST))
  BY DEF lsp_output_dst_port, RuleIf
<1>2. /\ Moves(p, Drop(p)) /\ Moves(p, Go(p, REDIRECT_CHASSIS))
      /\ Moves(p, Go(p, LSP_EGRESS_FIRST))
  BY Rewriting, RewritesMoves
<1> QED
  BY <1>1, <1>2, EmbedMoves, Rules

LEMMA LoopbackMoves ==
    ASSUME NEW c, NEW p, IsPacket(p), NEW r, r \in lsp_judge_loopback(c, p)
    PROVE  Moves(p, r.to)
<1> DEFINE q == [p EXCEPT !.in = None]
<1>1. IsPacket(q) /\ q.in = None /\ \A f \in Whereabouts \ {"in"} : q[f] = p[f]
  BY DEF IsPacket, Fields, Whereabouts
<1>2. r.to = Onward(p) \/ r.to = Onward(q)
  BY Rules DEF lsp_judge_loopback
<1> HIDE DEF q
<1>3. Moves(p, q)
  BY <1>1 DEF Moves, Inside, Whereabouts
<1>4. Moves(p, Onward(p)) /\ Moves(q, Onward(q))
  BY <1>1, Rewriting, RewritesMoves
<1> QED
  BY <1>2, <1>3, <1>4, MovesTwice

\* The port of the destination, or the router port, is on the same switch.
LEMMA ForwardMoves ==
    ASSUME NEW c, NEW p, IsPacket(p), p.dp \in Switch, NEW r, r \in lsp_forward_packet(c, p)
    PROVE  Moves(p, r.to)
<1> DEFINE f == Flag(p, "REDIRECT")
           Port(x) == [p EXCEPT !.reg5 = 1, !.out = x]
           X == {y \in local_bond_lsp(c) : PortOf(y).ls = p.dp /\ PortID(PortOf(y).ip) = p.dst}
           L == {x \in lsp_link_lrp(c) : x.ls = p.dp /\ PortID(x.ip) = p.dst}
           A == {q \in arp_feedback_construct(c, f) : p.proto = "arpq"}
<1>1. \A D \in Closed : p.dp \in D \cup {None} => p.dp \in D
  BY NamesAssumption
<1>2. \/ r \in {Rule(3, Onward(Port(x))) : x \in X}
      \/ r \in {Rule(2, Onward(ToRouter(p, l))) : l \in L}
      \/ r = Rule(0, Go(f, LOOKUP_DST_PORT))
      \/ r \in {Rule(0, Go(q, LOOKUP_DST_PORT)) : q \in A}
  BY DEF lsp_forward_packet, ToRouter, RuleIf
<1>3. ASSUME NEW x \in X PROVE Moves(p, Onward(Port(x)))
  <2> DEFINE q == Port(x)
  <2>1. x \in Ports /\ PortOf(x).ls = p.dp
    BY DEF local_bond_lsp, lsp_array, local_patchport, Ports
  <2>2. IsPacket(q) /\ q.out = x /\ \A g \in Whereabouts \ {"out"} : q[g] = p[g]
    BY DEF IsPacket, Fields, Whereabouts
  <2> HIDE DEF q
  <2>3. Moves(p, q)
    BY <1>1, <2>1, <2>2 DEF Moves, Inside, PortsIn, Whereabouts
  <2>4. Moves(q, Onward(q))
    BY <2>2, Rewriting, RewritesMoves
  <2>5. Moves(p, Onward(q))
    BY <2>3, <2>4, MovesTwice
  <2> QED
    BY <2>5 DEF q
<1>4. ASSUME NEW l \in L PROVE Moves(p, Onward(ToRouter(p, l)))
  <2> DEFINE q == ToRouter(p, l)
  <2>1. l \in Link /\ l.ls = p.dp
    BY DEF lsp_link_lrp
  <2>2. IsPacket(q) /\ q.reg6 = l.lr /\ \A g \in Whereabouts \ {"reg6"} : q[g] = p[g]
    BY DEF IsPacket, Fields, Whereabouts, ToRouter
  <2> HIDE DEF q
  <2>3. \A D \in Closed : p.dp \in D \cup {None} => q.reg6 \in D
    BY <1>1, <2>1, <2>2 DEF Closed
  <2>4. Moves(p, q)
    BY <2>2, <2>3 DEF Moves, Inside, Whereabouts
  <2>5. Moves(q, Onward(q))
    BY <2>2, Rewriting, RewritesMoves
  <2>6. Moves(p, Onward(q))
    BY <2>4, <2>5, MovesTwice
  <2> QED
    BY <2>6 DEF q
<1>5. Rewrites(p, f)
  BY Rewriting
<1> HIDE DEF f
<1>6. \A q \in A : Rewrites(p, q)
  BY <1>5, AnswerRewrites, RewritesTwice DEF Rewrites
<1>7. Moves(p, Go(f, LOOKUP_DST_PORT)) /\ \A q \in A : Moves(p, Go(q, LOOKUP_DST_PORT))
  BY <1>5, <1>6, HandedOn, RewritesMoves
<1> HIDE DEF Port, X, L, A
<1> QED
  BY <1>2, <1>3, <1>4, <1>7, Rules

LEMMA PushMoves ==
    ASSUME NEW c, NEW p, IsPacket(p), NEW r, r \in lsp_pushout_packet(c, p)
    PROVE  Moves(p, r.to)
<1> DEFINE q == ToPipeline(p)
<1>1. r.to = Go(p, OUTPUT_PKT) \/ r.to = Go(q, LRP_INGRESS_FIRST)
  BY Rules DEF lsp_pushout_packet, ToPipeline
<1>2. /\ IsPacket(q) /\ q.dp = p.reg6 /\ q.reg6 = None
      /\ \A f \in Whereabouts \ {"dp", "reg6"} : q[f] = p[f]
  BY DEF IsPacket, Fields, Whereabouts, ToPipeline
<1> HIDE DEF q
<1>3. Moves(p, q)
  BY <1>2 DEF Moves, Inside, Whereabouts
<1>4. Moves(q, Go(q, LRP_INGRESS_FIRST)) /\ Moves(p, Go(p, OUTPUT_PKT))
  BY <1>2, Rewriting, RewritesMoves
<1> QED
  BY <1>1, <1>3, <1>4, MovesTwice

\* The first table, and the last ones.
LEMMA ConvertMoves ==
    ASSUME NEW c, NEW p, IsPacket(p), NEW r, r \in convert_phy_logical(c, p)
    PROVE  Moves(p, r.to)
<1>1. CASE r = Rule(2, Unpacked(p))
  <2> DEFINE q == Unpacked(p)
  <2>1. IsPacket(q) /\ q.dp = p.tun.dp /\ \A f \in Whereabouts \ {"dp"} : q[f] = p[f]
    BY ZenonT(30) DEF IsPacket, Fields, Whereabouts, Unpacked, Go, Flag, extract_metadata
  <2> HIDE DEF q
  <2>2. Moves(p, q)
    BY <2>1 DEF Moves, Inside, Whereabouts
  <2> QED
    BY <1>1, <2>2, Rules DEF q
<1>2. ASSUME NEW x, x \in local_bond_lsp(c), x = p.in, r = Rule(2, Placed(p, x))
      PROVE  Moves(p, r.to)
  <2> DEFINE q == [p EXCEPT !.src = PortID(PortOf(x).ip), !.dp = PortOf(x).ls]
  <2>1. IsPacket(q) /\ q.dp = PortOf(x).ls /\ \A f \in Whereabouts \ {"dp"} : q[f] = p[f]
    BY DEF IsPacket, Fields, Whereabouts
  <2>2. r.to = Onward(q)
    BY <1>2, Rules DEF Placed
  <2> HIDE DEF q
  <2>3. x \in Ports
    BY <1>2 DEF local_bond_lsp, lsp_array, local_patchport, Ports
  <2>4. \A D \in Closed : Inside(D, p) => q.dp \in D
    BY <1>2, <2>1, <2>3, NamesAssumption DEF Inside, PortsIn
  <2>5. Moves(p, q)
    BY <2>1, <2>4 DEF Moves, Inside, Whereabouts
  <2>6. Moves(q, Onward(q))
    BY <2>1, Rewriting, RewritesMoves
  <2> QED
    BY <2>2, <2>5, <2>6, MovesTwice
<1>3. \/ r = Rule(2, Unpacked(p))
      \/ \E x \in local_bond_lsp(c) : x = p.in /\ r = Rule(2, Placed(p, x))
  BY DEF convert_phy_logical, Unpacked, Placed, RuleIf
<1> QED
  BY <1>1, <1>2, <1>3

LEMMA OutputRewrites ==
    ASSUME NEW c, NEW p, IsPacket(p),
           NEW r, r \in output_pkt_by_reg(c, p) \/ r \in pipeline_forward(c, p)
    PROVE  Rewrites(p, r.to)
<1> DEFINE q == [p EXCEPT !.fate = "out"]
<1>1. Rewrites(p, q)
  BY DEF Rewrites, Whereabouts, IsPacket, Fields
<1>2. r \in output_pkt_by_reg(c, p) => r.to = Drop(p) \/ r.to = q
  BY Rules DEF output_pkt_by_reg
<1>3. r \in pipeline_forward(c, p) => \E t : r.to = Go(p, t)
  BY Rules DEF pipeline_forward
<1> HIDE DEF q
<1> QED
  BY <1>1, <1>2, <1>3, Rewriting

LEMMA RedirectMoves ==
    ASSUME ViewTypeOK, NEW c \in Chassis, NEW p, IsPacket(p),
           NEW r, r \in redirect_other_chassis(c, p)
    PROVE  Moves(p, r.to)
<1> DEFINE g == Bundle(c, p, gateway_ofport(c))
           u == Flag(p, "REDIRECT")
           v == [u EXCEPT !.out = g, !.rerouted = IF @ < 2 THEN @ + 1 ELSE @]
<1>1. p.orig \in Traffic => g \in Chassis \cup {None}
  BY Tunnels, BundleChooses
<1>2. r.to = Go(embed_metadata(v), OUTPUT_PKT) \/ r.to = Drop(p)
  BY Rules DEF redirect_other_chassis
<1>3. Rewrites(p, u)
  BY Rewriting
<1> HIDE DEF g, u
<1>4. IsPacket(v) /\ v.out = g /\ \A f \in Whereabouts \ {"out"} : v[f] = u[f]
  BY <1>3 DEF Rewrites, IsPacket, Fields, Whereabouts
<1> HIDE DEF v
<1>5. \A f \in Whereabouts \ {"out"} : v[f] = p[f]
  BY <1>3, <1>4 DEF Rewrites
<1>6. Moves(p, v)
  BY <1>1, <1>4, <1>5 DEF Moves, Inside, Whereabouts
<1>7. Moves(p, Go(embed_metadata(v), OUTPUT_PKT))
  BY <1>4, <1>6, EmbedMoves, MovesTwice
<1>8. Moves(p, Drop(p))
  BY Rewriting, RewritesMoves
<1> QED
  BY <1>2, <1>7, <1>8

LEMMA SwitchMoves ==
    ASSUME ViewTypeOK, NEW c \in Chassis, NEW p, IsPacket(p), NEW r, r \in build_flows_lsp(c, p)
    PROVE  Moves(p, r.to)
<1> DEFINE q == [p EXCEPT !.dst = 0]
<1>1. Moves(p, Onward(p)) /\ Moves(p, Onward(q))
  <2>1. Rewrites(p, p) /\ Rewrites(p, q)
    BY Rewriting
  <2> HIDE DEF q
  <2>2. Rewrites(p, Onward(p)) /\ Rewrites(p, Onward(q))
    BY <2>1, HandedOn
  <2> QED
    BY <2>2, RewritesMoves
<1>2. \/ r \in Default(Onward(p)) \/ r \in Default(Onward(q))
      \/ r \in lsp_arp_controller(c, p) \/ r \in lsp_arp_response(c, p)
      \/ r \in lsp_lookup_dst_port(c, p) \/ r \in lsp_output_dst_port(c, p)
      \/ r \in lsp_judge_loopback(c, p)
      \/ p.dp \in Switch /\ r \in lsp_forward_packet(c, p)
      \/ r \in lsp_pushout_packet(c, p)
  BY DEF build_flows_lsp
<1>3. r \in Default(Onward(p)) \/ r \in Default(Onward(q)) => Moves(p, r.to)
  <2>1. r \in Default(Onward(p)) \/ r \in Default(Onward(q)) => r.to \in {Onward(p), Onward(q)}
    BY Rules
  <2> QED
    BY <1>1, <2>1
<1>4. r \in lsp_arp_controller(c, p) \/ r \in lsp_arp_response(c, p) => Moves(p, r.to)
  BY ArpTablesRewrite, RewritesMoves
<1> QED
  BY <1>2, <1>3, <1>4, LookupMoves, PutOutMoves, LoopbackMoves, ForwardMoves, PushMoves

LEMMA RouterMoves ==
    ASSUME ViewTypeOK, NEW c \in Chassis, NEW p, IsPacket(p), NEW r, r \in build_flows_lrp(c, p)
    PROVE  Moves(p, r.to)
<1> DEFINE q == [p EXCEPT !.dst = 0]
           T == {Onward(p), Onward(q), Go(p, LRP_EGRESS_FIRST), Go(p, LSP_INGRESS_FIRST)}
<1>1. \A s \in T : Moves(p, s)
  <2>1. Rewrites(p, p) /\ Rewrites(p, q)
    BY Rewriting
  <2> HIDE DEF q
  <2>2. \A s \in T : Rewrites(p, s)
    BY <2>1, HandedOn
  <2> QED
    BY <2>2, RewritesMoves
<1>2. \/ \E s \in T : r \in Default(s)
      \/ r \in lrp_pkt_response(c, p) \/ r \in lrp_drop_unexpect(c, p)
      \/ r \in lunsnat_xlate_stage1(c, p) \/ r \in ldnat_xlate_stage1(c, p)
      \/ r \in lrp_ip_route(c, p) \/ r \in lrp_ecmp_judge(c, p)
      \/ r \in lundnat_xlate_stage1(c, p) \/ r \in lsnat_xlate_stage1(c, p)
      \/ r \in xlate_src_mac(c, p, "dnat") \/ r \in xlate_src_mac(c, p, "snat")
      \/ r \in lrp_update_eth_dst(c, p) \/ r \in lrp_handle_unknow_dst_pkt(c, p)
      \/ p.dp \in lr_array(c) /\ r \in lrp_forward_packet(c, p)
  BY SMTT(30) DEF build_flows_lrp
<1>3. (\E s \in T : r \in Default(s)) => Moves(p, r.to)
  BY <1>1, Rules
<1> HIDE DEF T
<1>4. r \in lrp_pkt_response(c, p) \/ r \in lrp_drop_unexpect(c, p) => Moves(p, r.to)
  BY PingRewrites, RewritesMoves
<1>5. r \in lunsnat_xlate_stage1(c, p) \/ r \in ldnat_xlate_stage1(c, p) => Moves(p, r.to)
  BY DestinationRewrites, RewritesMoves
<1>6. \/ r \in lundnat_xlate_stage1(c, p) \/ r \in lsnat_xlate_stage1(c, p)
      \/ r \in xlate_src_mac(c, p, "dnat") \/ r \in xlate_src_mac(c, p, "snat")
      => Moves(p, r.to)
  BY SourceRewrites, RewritesMoves
<1>7. r \in lrp_ecmp_judge(c, p) => Moves(p, r.to)
  BY JudgeRewrites, RewritesMoves
<1>8. r \in lrp_update_eth_dst(c, p) \/ r \in lrp_handle_unknow_dst_pkt(c, p) => Moves(p, r.to)
  BY NextHopRewrites, RewritesMoves
<1>9. lr_array(c) \subseteq Router
  BY DEF lr_array
<1> QED
  BY <1>2, <1>3, <1>4, <1>5, <1>6, <1>7, <1>8, <1>9, RouteMoves, HandedMoves

\* One table, any number of tables, a visit.
LEMMA OneTableMoves ==
    ASSUME ViewTypeOK, NEW c \in Chassis, NEW p, IsPacket(p)
    PROVE  Moves(p, Resubmit(c, p))
<1> DEFINE rules == build_flows(c, p)
           best == {r.to : r \in {x \in rules : \A y \in rules : y.prio <= x.prio}}
<1>1. \A r \in build_flows_phy(c, p) : Moves(p, r.to)
  BY ConvertMoves, OutputRewrites, RewritesMoves DEF build_flows_phy
<1>2. \A r \in build_flows_mid(c, p) : Moves(p, r.to)
  BY RedirectMoves, OutputRewrites, RewritesMoves DEF build_flows_mid
<1>3. \A r \in rules : Moves(p, r.to)
  BY <1>1, <1>2, SwitchMoves, RouterMoves DEF build_flows
<1>4. \A q \in best : Moves(p, q)
  BY <1>3
<1>5. Moves(p, Drop(p))
  BY Rewriting, RewritesMoves
<1>6. Moves(p, [p EXCEPT !.fate = "ambiguous"])
  <2>1. Rewrites(p, [p EXCEPT !.fate = "ambiguous"])
    BY DEF Rewrites, Whereabouts, IsPacket, Fields
  <2> QED
    BY <2>1, RewritesMoves
<1>7. Resubmit(c, p) = IF rules = {} THEN Drop(p)
                       ELSE IF Cardinality(best) = 1 THEN CHOOSE q \in best : TRUE
                       ELSE [p EXCEPT !.fate = "ambiguous"]
  BY DEF Resubmit
<1> HIDE DEF rules, best
<1>8. CASE Cardinality(best) = 1
  <2>1. best # {}
    BY <1>8, FS_EmptySet
  <2>2. (CHOOSE q \in best : TRUE) \in best
    BY <2>1
  <2> QED
    BY <1>4, <1>5, <1>7, <1>8, <2>2
<1> QED
  BY <1>5, <1>6, <1>7, <1>8

LEMMA VisitMoves ==
    ASSUME ViewTypeOK, NEW c \in Chassis, \A e \in ct[c] : IsConnection(e), NEW p, OnItsWay(p)
    PROVE  Moves(p, Visit(c, p))
<1> DEFINE Kept(q) == Sound(q) \/ Halted(q)
           Good(q, s) == Kept(q) => Kept(s) /\ Moves(q, s)
           v == Tables256(c, p)
<1>1. \A q : Moves(q, q)
  BY DEF Moves
<1>2. \A q, s, t : Good(q, s) /\ Good(s, t) => Good(q, t)
  BY MovesTwice
<1>3. \A q : Good(q, Tables1(c, q))
  BY <1>1, OneTable, OneTableMoves DEF Tables1, Sound, OnItsWay, Finished, Halted
<1> HIDE DEF Good, Kept
<1>4. \A q : Good(q, q)
  BY <1>1 DEF Good
<1>5. \A q : Good(q, Tables4(c, q))
  BY <1>2, <1>3, <1>4 DEF Tables4, FourTimes
<1>6. \A q : Good(q, Tables16(c, q))
  BY <1>2, <1>4, <1>5 DEF Tables16, FourTimes
<1>7. \A q : Good(q, Tables64(c, q))
  BY <1>2, <1>4, <1>6 DEF Tables64, FourTimes
<1>8. \A q : Good(q, Tables256(c, q))
  BY <1>2, <1>4, <1>7 DEF Tables256, FourTimes
<1>9. Kept(v) /\ Moves(p, v)
  BY <1>8 DEF Good, Kept, Sound
<1>10. Moves(v, [v EXCEPT !.fate = "looping"])
  <2> HIDE DEF v
  <2>1. Rewrites(v, [v EXCEPT !.fate = "looping"])
    BY <1>9 DEF Kept, Sound, OnItsWay, Finished, Halted, Rewrites, Whereabouts, IsPacket, Fields
  <2> QED
    BY <2>1, RewritesMoves
<1>11. Visit(c, p) = IF v.fate = "run" THEN [v EXCEPT !.fate = "looping"] ELSE v
  BY DEF Visit
<1> HIDE DEF v
<1> QED
  BY <1>9, <1>10, <1>11, MovesTwice

\* A packet on its way stays where routers connect it with its sender.
Travelling == pkt.fate \in {"run", "out"} /\ pkt.orig \in Traffic
StaysInside ==
    Travelling => \A D \in Closed : PortOf(pkt.orig.from).ls \in D => Inside(D, pkt)

LEMMA FromInside ==
    ASSUME NEW p, NEW q, Moves(p, q), p.orig \in Traffic,
           \A D \in Closed : PortOf(p.orig.from).ls \in D => Inside(D, p)
    PROVE  \A D \in Closed : PortOf(q.orig.from).ls \in D => Inside(D, q)
BY DEF Moves

LEMMA SendInside == ASSUME NEW o \in Traffic, Send(o) PROVE StaysInside'
<1> DEFINE p == Entering(HomeOf(o.from), o.from, o)
<1>1. /\ p.orig = o /\ p.dp = None /\ p.reg6 = None /\ p.tun.dp = None /\ p.in = o.from
      /\ p.out = Unset
  BY DEF Entering, NoTunnel
<1>2. o.from \in Ports
  BY NamesAssumption
<1>3. pkt' = p
  BY DEF Send
<1> HIDE DEF p
<1>4. \A D \in Closed : PortOf(o.from).ls \in D => Inside(D, p)
  BY <1>1, <1>2 DEF Inside, PortsIn
<1> QED
  BY <1>1, <1>3, <1>4 DEF StaysInside

LEMMA TranslateMoves ==
    ASSUME IInv, Translate
    PROVE  /\ OnItsWay(pkt) /\ pkt'.orig = pkt.orig
           /\ \/ pkt'.fate = "out" /\ Moves(pkt, pkt')
              \/ pkt'.fate \in {"lost", "ambiguous", "looping"}
<1> DEFINE c == pkt.at
           q == Visit(c, pkt)
           v == [q EXCEPT !.up = {}, !.commit = {}]
<1>1. OnItsWay(pkt)
  BY DEF Translate, IInv, ThePacket, NoPkt, Finished, Remembered
<1>2. c \in Chassis
  BY <1>1 DEF OnItsWay, IsPacket
<1>3. (Finished(q) \/ Halted(q)) /\ Moves(pkt, q)
  BY <1>1, <1>2, Visited, VisitMoves DEF IInv
<1>4. pkt' = IF q.fate = "out" THEN v ELSE Over(q, q.fate, IF q.fate = "ambiguous" THEN q.dp ELSE None)
  BY DEF Translate
<1> HIDE DEF q, c
<1>5. Rewrites(q, v) /\ v.fate = q.fate
  BY <1>3 DEF Finished, Halted, Rewrites, Whereabouts, IsPacket, Fields
<1>6. Moves(pkt, v)
  BY <1>3, <1>5, RewritesMoves, MovesTwice
<1> HIDE DEF v
<1>7. CASE q.fate = "out"
  BY <1>1, <1>4, <1>5, <1>6, <1>7 DEF Moves
<1>8. CASE q.fate # "out"
  BY <1>1, <1>3, <1>4, <1>8 DEF Moves, Finished, Halted, Over
<1> QED
  BY <1>7, <1>8

LEMMA TranslateInside == ASSUME IInv, StaysInside, Translate PROVE StaysInside'
<1> SUFFICES ASSUME Travelling'
             PROVE  \A D \in Closed : PortOf(pkt'.orig.from).ls \in D => Inside(D, pkt')
  BY DEF StaysInside
<1>1. pkt.fate = "run" /\ pkt.orig = pkt'.orig /\ Moves(pkt, pkt')
  BY TranslateMoves DEF Travelling, OnItsWay
<1> QED
  BY <1>1, FromInside DEF StaysInside, Travelling

LEMMA ArrivingInside ==
    ASSUME Finished(pkt), pkt.fate = "out", NEW D, Inside(D, pkt)
    PROVE  Inside(D, Arriving)
<1> DEFINE p == Entering(pkt.out, pkt.at, pkt.orig)
           q == Arriving
           S == {"tun", "proto", "ethsrc", "ethdst", "ipsrc", "ipdst", "ttl", "calm", "rerouted"}
<1>1. /\ p = [x \in Fields |-> p[x]] /\ p.dp = None /\ p.reg6 = None /\ p.in = pkt.at
      /\ p.out = Unset /\ p.orig = pkt.orig
  BY DEF Entering, Fields
<1>2. q = [p EXCEPT
             !.tun = pkt.tun, !.proto = pkt.proto, !.ethsrc = pkt.ethsrc, !.ethdst = pkt.ethdst,
             !.ipsrc = pkt.ipsrc, !.ipdst = pkt.ipdst, !.ttl = pkt.ttl, !.calm = pkt.calm,
             !.rerouted = pkt.rerouted]
  BY DEF Arriving
<1> HIDE DEF p, q
<1>3. q = [x \in Fields |-> IF x \in S THEN pkt[x] ELSE p[x]]
  BY <1>1, <1>2
<1>4. "tun" \in Fields \cap S /\ {"dp", "reg6", "in", "out", "orig"} \subseteq Fields \ S
  BY DEF Fields
<1>5. q.tun = pkt.tun /\ \A x \in {"dp", "reg6", "in", "out", "orig"} : q[x] = p[x]
  <2> HIDE DEF S
  <2> QED
    BY <1>3, <1>4
<1>6. pkt.at \in Chassis
  BY DEF Finished, IsPacket
<1> QED
  BY <1>1, <1>5, <1>6 DEF Inside, q

LEMMA TransmitMoves ==
    ASSUME IInv, Transmit
    PROVE  /\ Finished(pkt) /\ pkt.fate = "out"
           /\ \/ pkt.out \in Chassis /\ pkt' = Arriving
              \/ pkt.out \in Chassis /\ pkt' = Over(pkt, "lost", None)
              \/ /\ pkt.out \notin Chassis
                 /\ \E fate \in {"delivered", "lost"} : pkt' = Over(pkt, fate, pkt.out)
<1>1. Finished(pkt) /\ pkt.fate = "out"
  BY DEF Transmit, IInv, ThePacket, NoPkt, OnItsWay, Remembered
<1> QED
  BY <1>1 DEF Transmit, Arriving

LEMMA TransmitInside == ASSUME IInv, StaysInside, Transmit PROVE StaysInside'
<1> SUFFICES ASSUME Travelling'
             PROVE  \A D \in Closed : PortOf(pkt'.orig.from).ls \in D => Inside(D, pkt')
  BY DEF StaysInside
<1>1. Finished(pkt) /\ pkt.fate = "out"
  BY TransmitMoves
<1>2. pkt' = Arriving
  BY TransmitMoves DEF Travelling, Over
<1>3. Arriving.orig = pkt.orig
  BY DEF Arriving, Entering
<1> QED
  BY <1>1, <1>2, <1>3, ArrivingInside DEF StaysInside, Travelling

\* A message got to a port that routers connect with its sender.
Received ==
    pkt.fate = "delivered" /\ pkt.orig \in Traffic => pkt.to \in Connected(pkt.orig)

\* The inductive invariant of the tenants.
TInv == IInv /\ StaysInside /\ Received

\* A packet that every part with its sender holds is bound for its own zone.
LEMMA Reached ==
    ASSUME NEW p, p.orig \in Traffic, p.out \notin Chassis, p.out \notin {None, Unset},
           \A D \in Closed : PortOf(p.orig.from).ls \in D => Inside(D, p)
    PROVE  p.out \in Connected(p.orig)
<1> DEFINE s == PortOf(p.orig.from).ls
           all == Switch \cup Router
<1>1. s \in Switch
  BY NamesAssumption
<1>2. all \in Closed
  BY NamesAssumption DEF Closed
<1>3. \A D \in Closed : s \in D => p.out \in PortsIn(D)
  BY DEF Inside
<1>4. p.out \in Ports /\ PortOf(p.out).ls \in all
  BY <1>1, <1>2, <1>3 DEF PortsIn
<1>5. \A D \in Closed : s \in D => PortOf(p.out).ls \in D
  BY <1>3 DEF PortsIn
<1>6. Zone[s] = {t \in all : \A D \in Closed : s \in D => t \in D}
  BY <1>1 DEF Zone
<1> QED
  BY <1>4, <1>5, <1>6 DEF Connected

\* The fate of a packet tells whether there is one.
LEMMA FateTells == IInv => (pkt = NoPkt <=> pkt.fate = "none")
BY DEF IInv, ThePacket, NoPkt, OnItsWay, Remembered

\* What the controllers, the agents and the operators do leaves the message alone.
LEMMA ControllerMoves ==
    ASSUME IInv, NEW c \in Chassis, Controller(c)
    PROVE  \/ pkt' = pkt
           \/ pkt = NoPkt /\ pkt'.fate = "run" /\ pkt'.orig \notin Traffic
<1>1. PICK u \in upcall[c] : LearnArp(c, u) \/ TouchUnknown(c, u) \/ SendArp(c, u)
  BY DEF Controller
<1>2. CASE SendArp(c, u)
  <2> DEFINE o == [from |-> c, proto |-> "arpq", ethsrc |-> u.mac, ethdst |-> AnyMac,
                   ipsrc |-> u.spa, ipdst |-> u.tpa, conn |-> None, ttl |-> 0]
             p == Entering(c, None, o)
  <2>1. o.from = c /\ p.orig = o /\ p.fate = "run" /\ IsPacket(p)
    BY DEF Entering, IsPacket, Fields
  <2>2. pkt = NoPkt /\ pkt' = [p EXCEPT !.table = FORWARD_PACKET, !.dp = u.dp, !.dst = u.dst]
    BY <1>2 DEF SendArp
  <2> HIDE DEF o, p
  <2>3. pkt'.orig = o /\ pkt'.fate = "run"
    BY <2>1, <2>2 DEF IsPacket, Fields
  <2>4. o \notin Traffic
    BY <2>1, NamesAssumption
  <2> QED
    BY <2>2, <2>3, <2>4
<1> QED
  BY <1>1, <1>2 DEF LearnArp, TouchUnknown

LEMMA ChangeMoves ==
    ASSUME IInv, ChangeNetwork
    PROVE  /\ pkt'.fate = pkt.fate /\ pkt'.orig = pkt.orig
           /\ pkt.fate = "delivered" => pkt'.to = pkt.to
           /\ pkt.fate \in {"run", "out"} => Moves(pkt, pkt')
<1> DEFINE q == [pkt EXCEPT !.calm = FALSE]
<1>1. pkt' = pkt \/ pkt' = q
  BY DEF ChangeNetwork
<1>2. pkt = NoPkt \/ IsPacket(pkt) \/ Remembered(pkt)
  BY DEF IInv, ThePacket, OnItsWay, Finished
<1>3. CASE pkt' = pkt
  BY <1>3 DEF Moves
<1>4. CASE pkt = NoPkt
  BY <1>4 DEF ChangeNetwork, NoPkt
<1>5. CASE IsPacket(pkt) /\ pkt' = q
  <2>1. Rewrites(pkt, q) /\ q.fate = pkt.fate /\ q.orig = pkt.orig
    BY <1>5 DEF Rewrites, Whereabouts, IsPacket, Fields
  <2>2. pkt.fate # "delivered"
    BY <1>5 DEF IInv, ThePacket, NoPkt, OnItsWay, Finished, Remembered, IsPacket, Fields
  <2> HIDE DEF q
  <2> QED
    BY <1>5, <2>1, <2>2, RewritesMoves
<1>6. CASE Remembered(pkt) /\ pkt' = q
  BY <1>6 DEF Remembered
<1> QED
  BY <1>1, <1>2, <1>3, <1>4, <1>5, <1>6

LEMMA InitTenants == Init => TInv
BY InitInvariant DEF Init, TInv, StaysInside, Travelling, Received, NoPkt

LEMMA TenantsStep == TInv /\ [Next]_vars => TInv'
<1> SUFFICES ASSUME TInv, [Next]_vars PROVE StaysInside' /\ Received'
  BY InvariantStep DEF TInv
<1>1. IInv /\ StaysInside /\ Received
  BY DEF TInv
<1>2. CASE \E o \in Traffic : Send(o)
  <2>1. pkt'.fate = "run"
    BY <1>2 DEF Send, Entering
  <2> QED
    BY <1>2, <2>1, SendInside DEF Received
<1>3. CASE Translate
  <2>1. pkt'.fate # "delivered"
    BY <1>1, <1>3, TranslateMoves
  <2> QED
    BY <1>1, <1>3, <2>1, TranslateInside DEF Received
<1>4. CASE Transmit
  <2>1. ASSUME pkt'.fate = "delivered", pkt'.orig \in Traffic PROVE pkt'.to \in Connected(pkt'.orig)
    <3>1. Finished(pkt) /\ pkt.fate = "out"
      BY <1>1, <1>4, TransmitMoves
    <3>2. pkt.out \notin Chassis /\ \E fate : pkt' = Over(pkt, fate, pkt.out)
      <4>1. Arriving.fate = "run" /\ Over(pkt, "lost", None).fate = "lost"
        BY DEF Arriving, Entering, Over
      <4> QED
        BY <1>1, <1>4, <2>1, <4>1, TransmitMoves
    <3>3. pkt'.to = pkt.out /\ pkt'.orig = pkt.orig
      BY <3>2 DEF Over
    <3>4. pkt.out \notin {None, Unset}
      BY <3>1 DEF Finished
    <3> QED
      BY <1>1, <2>1, <3>1, <3>2, <3>3, <3>4, Reached DEF StaysInside, Travelling
  <2> QED
    BY <1>1, <1>4, <2>1, TransmitInside DEF Received
<1>5. CASE \E c \in Chassis : Controller(c)
  <2>1. CASE pkt' = pkt
    BY <1>1, <2>1 DEF StaysInside, Travelling, Received
  <2>2. CASE pkt'.fate = "run" /\ pkt'.orig \notin Traffic
    BY <2>2 DEF StaysInside, Travelling, Received
  <2> QED
    BY <1>1, <1>5, <2>1, <2>2, ControllerMoves
<1>6. CASE ChangeNetwork
  <2>1. /\ pkt'.fate = pkt.fate /\ pkt'.orig = pkt.orig
        /\ pkt.fate = "delivered" => pkt'.to = pkt.to
        /\ pkt.fate \in {"run", "out"} => Moves(pkt, pkt')
    BY <1>1, <1>6, ChangeMoves
  <2>2. Received'
    BY <1>1, <2>1 DEF Received
  <2>3. StaysInside'
    BY <1>1, <2>1, FromInside DEF StaysInside, Travelling
  <2> QED
    BY <2>2, <2>3
<1>7. CASE Collect
  BY <1>7 DEF Collect, StaysInside, Travelling, Received, NoPkt
<1>8. CASE UNCHANGED vars \/ \E c \in Chassis : SyncView(c)
  BY <1>1, <1>8 DEF vars, SyncView, StaysInside, Travelling, Received
<1> QED
  BY <1>2, <1>3, <1>4, <1>5, <1>6, <1>7, <1>8 DEF Next

\* What a step of the packet is to its sender.
LEMMA SettledSteps ==
    ASSUME TInv, TInv', pkt.fate \in {"run", "out"}, pkt'.orig = pkt.orig,
           pkt'.fate \in {"run", "out", "ambiguous", "looping", "lost", "delivered"}
    PROVE  [Tenants!Next]_(Tenants!vars)
<1> USE DEF Tenants!vars, Tenants!Next, Tenants!Settle
<1>1. pkt # NoPkt /\ pkt' # NoPkt
  BY FateTells DEF TInv, NoPkt
<1>2. CASE pkt.orig \notin Traffic
  BY <1>2 DEF Underway, Outcome, Sent
<1>3. CASE pkt.orig \in Traffic
  <2>1. Underway = pkt.orig /\ Underway' = pkt.orig /\ Underway # None /\ Outcome = None
    BY <1>1, <1>3, NamesAssumption DEF Underway, Outcome, Sent
  <2>2. CASE pkt'.fate \in {"run", "out", "ambiguous", "looping"}
    BY <1>1, <1>3, <2>1, <2>2 DEF Outcome, Sent
  <2>3. CASE pkt'.fate = "lost"
    <3>1. Outcome' = "nobody"
      BY <1>1, <1>3, <2>3 DEF Outcome, Sent
    <3> QED
      BY <2>1, <3>1
  <2>4. CASE pkt'.fate = "delivered"
    <3>1. Outcome' = pkt'.to /\ pkt'.to \in Connected(pkt.orig)
      BY <1>1, <1>3, <2>4 DEF Outcome, Sent, TInv, Received
    <3> QED
      BY <2>1, <3>1
  <2> QED
    BY <2>2, <2>3, <2>4
<1> QED
  BY <1>2, <1>3

LEMMA UnseenSteps ==
    ASSUME pkt'.fate = pkt.fate, pkt'.orig = pkt.orig,
           pkt.fate = "delivered" => pkt'.to = pkt.to, pkt = NoPkt <=> pkt' = NoPkt
    PROVE  UNCHANGED Tenants!vars
BY DEF Tenants!vars, Underway, Outcome, Sent

LEMMA TenantsRefined ==
    ASSUME TInv, TInv', [Next]_vars PROVE [Tenants!Next]_(Tenants!vars)
<1>1. IInv /\ IInv' /\ (pkt = NoPkt <=> pkt.fate = "none") /\ (pkt' = NoPkt <=> pkt'.fate = "none")
  BY FateTells DEF TInv, NoPkt, IInv, ThePacket, OnItsWay, Remembered
<1>2. ASSUME NEW o \in Traffic, Send(o) PROVE Tenants!Send
  <2>1. pkt = NoPkt /\ pkt'.fate = "run" /\ pkt'.orig = o
    BY <1>2 DEF Send, Entering
  <2>2. Underway = None
    BY <2>1 DEF Underway, Sent
  <2>3. Underway' = o /\ Outcome' = None
    BY <1>1, <2>1 DEF Underway, Outcome, Sent
  <2> QED
    BY <2>2, <2>3 DEF Tenants!Send
<1>3. CASE Translate
  <2>1. /\ pkt.fate = "run" /\ pkt'.orig = pkt.orig
        /\ pkt'.fate \in {"out", "lost", "ambiguous", "looping"}
    BY <1>1, <1>3, TranslateMoves DEF OnItsWay
  <2> QED
    BY <2>1, SettledSteps
<1>4. CASE Transmit
  <2>1. /\ pkt.fate = "out" /\ pkt'.orig = pkt.orig
        /\ pkt'.fate \in {"run", "lost", "delivered"}
    <3>1. Arriving.fate = "run" /\ Arriving.orig = pkt.orig
      BY DEF Arriving, Entering
    <3>2. \A f, x : Over(pkt, f, x).fate = f /\ Over(pkt, f, x).orig = pkt.orig
      BY DEF Over
    <3> QED
      BY <1>1, <1>4, <3>1, <3>2, TransmitMoves
  <2> QED
    BY <2>1, SettledSteps
<1>5. CASE Collect
  <2>1. pkt.fate \in {"delivered", "lost"} /\ pkt' = NoPkt /\ pkt # NoPkt
    BY <1>5 DEF Collect, NoPkt
  <2>2. Underway' = None /\ Outcome' = None
    BY <2>1 DEF Underway, Outcome, Sent
  <2>3. CASE pkt.orig \in Traffic
    <3>1. /\ Outcome \in {pkt.to, "nobody"}
          /\ Outcome = pkt.to => pkt.fate = "delivered" \/ Outcome = "nobody"
      BY <2>1, <2>3 DEF Outcome, Sent
    <3>2. Outcome # None
      BY <2>3, <3>1, NamesAssumption DEF TInv, Received, Connected
    <3> QED
      BY <2>2, <3>2 DEF Tenants!Next, Tenants!Forget
  <2>4. CASE pkt.orig \notin Traffic
    BY <2>2, <2>4 DEF Tenants!vars, Underway, Outcome, Sent
  <2> QED
    BY <2>3, <2>4
<1>6. ASSUME NEW c \in Chassis, Controller(c) PROVE UNCHANGED Tenants!vars
  <2>1. CASE pkt' = pkt
    BY <2>1, UnseenSteps
  <2>2. CASE pkt = NoPkt /\ pkt'.orig \notin Traffic
    BY <2>2 DEF Tenants!vars, Underway, Outcome, Sent
  <2> QED
    BY <1>1, <1>6, <2>1, <2>2, ControllerMoves
<1>7. CASE ChangeNetwork
  BY <1>1, <1>7, ChangeMoves, UnseenSteps
<1>8. CASE UNCHANGED vars \/ \E c \in Chassis : SyncView(c)
  <2>1. pkt' = pkt
    BY <1>8 DEF vars, SyncView
  <2> QED
    BY <2>1, UnseenSteps
<1> QED
  BY <1>2, <1>3, <1>4, <1>5, <1>6, <1>7, <1>8 DEF Next, Tenants!Next

LEMMA TenantsInvariance == Spec => []TInv
BY InitTenants, TenantsStep, PTL DEF Spec

\* Whatever the chassis believe of each other, whichever links are down and
\* whatever an edge is asked for: a message of a user ends once at most, and
\* gets to no port that routers do not connect with its sender.
THEOREM TenantsApart == Spec => KeepsTenantsApart
<1>1. Init => Tenants!Init
  BY DEF Init, Tenants!Init, Underway, Outcome, Sent
<1>2. TInv /\ TInv' /\ [Next]_vars => [Tenants!Next]_(Tenants!vars)
  BY TenantsRefined
<1> QED
  BY <1>1, <1>2, TenantsInvariance, PTL DEF Spec, KeepsTenantsApart
-----------------------------------------------------------------------------
(***************************************************************************)
(* Rules that agree.  Of the rules that match a packet those of one        *)
(* priority do the same, because what they are made of differs.            *)
(***************************************************************************)

Agree(rules) == \A x, y \in rules : x.prio = y.prio => x.to = y.to
Ranked(rules) == \E top \in Nat : \A x \in rules : x.prio \in 0..top
Orderly(rules) == Agree(rules) /\ Ranked(rules)

LEMMA LeastNatural ==
    ASSUME NEW S \in SUBSET Nat, S # {}
    PROVE  \E x \in S : \A y \in S : x <= y
<1> DEFINE R == OpToRel(<, Nat)
<1>1. \E x \in S : \A y \in S : ~(<<y, x>> \in R)
  <2>1. IsWellFoundedOn(R, Nat)
    BY NatLessThanWellFounded
  <2> HIDE DEF R
  <2> QED
    BY <2>1, WFMin
<1>2. R = {ss \in Nat \X Nat : ss[1] < ss[2]}
  BY DEF OpToRel
<1>3. \A x, y \in Nat : y < x => <<y, x>> \in R
  <2> HIDE DEF R
  <2> QED
    BY <1>2
<1> HIDE DEF R
<1>4. PICK x \in S : \A y \in S : ~(<<y, x>> \in R)
  BY <1>1
<1>5. \A y \in S : ~(y < x)
  BY <1>3, <1>4
<1>6. \A y \in S : x <= y
  BY <1>5
<1> QED
  BY <1>6

\* Priorities have a top, so one of the rules is the first; if those of one
\* priority agree, it decides.
LEMMA Decided ==
    ASSUME NEW rules, rules # {}, Orderly(rules)
    PROVE  Decisive(rules)
<1>1. PICK top \in Nat : \A x \in rules : x.prio \in 0..top
  BY DEF Orderly, Ranked
<1> DEFINE S == {top - x.prio : x \in rules}
<1>2. S \in SUBSET Nat /\ S # {}
  BY <1>1
<1>3. PICK n \in S : \A m \in S : n <= m
  <2> HIDE DEF S
  <2> QED
    BY <1>2, LeastNatural
<1>4. PICK r \in rules : n = top - r.prio
  BY <1>3
<1>5. ASSUME NEW y \in rules PROVE y.prio <= r.prio
  <2>1. n <= top - y.prio
    BY <1>3
  <2>2. y.prio \in 0..top /\ r.prio \in 0..top
    BY <1>1
  <2> HIDE DEF S
  <2> QED
    BY <1>4, <2>1, <2>2
<1>6. \A y \in rules : r.prio <= y.prio => y.prio = r.prio
  BY <1>1, <1>5
<1> QED
  BY <1>5, <1>6 DEF Orderly, Agree, Decisive

LEMMA OneRule == \A q : Orderly(Default(q)) /\ Orderly({})
<1>1. \A q : \A x \in Default(q) : x.prio \in 0..0
  BY DEF Default, Rule
<1> QED
  BY <1>1 DEF Orderly, Agree, Ranked, Default

\* The tables of a switch.
LEMMA PlainTablesAgree ==
    ASSUME NEW c, NEW p
    PROVE  /\ Orderly(output_pkt_by_reg(c, p)) /\ Orderly(redirect_other_chassis(c, p))
           /\ Orderly(pipeline_forward(c, p)) /\ Orderly(lsp_arp_controller(c, p))
           /\ Orderly(lsp_output_dst_port(c, p)) /\ Orderly(lsp_judge_loopback(c, p))
           /\ Orderly(lsp_pushout_packet(c, p)) /\ Orderly(lrp_pkt_response(c, p))
           /\ Orderly(lrp_drop_unexpect(c, p)) /\ Orderly(lrp_handle_unknow_dst_pkt(c, p))
<1>1. \A n, q : \A x \in {Rule(n, q)} : x.prio = n /\ x.to = q
  BY Rules
<1>2. \A b, n, q : \A x \in RuleIf(b, n, q) : b /\ x.prio = n /\ x.to = q
  BY Rules
<1>3. \A q : \A x \in Default(q) : x.prio = 0 /\ x.to = q
  BY Rules
<1>4. ASSUME NEW T, \A x \in T : x.prio \in 0..5, Agree(T) PROVE Orderly(T)
  BY <1>4 DEF Orderly, Ranked
<1>5. Orderly(output_pkt_by_reg(c, p)) /\ Orderly(redirect_other_chassis(c, p))
  <2>1. \A x \in output_pkt_by_reg(c, p) \cup redirect_other_chassis(c, p) : x.prio \in 0..5
    BY <1>2, <1>3 DEF output_pkt_by_reg, redirect_other_chassis
  <2>2. Agree(output_pkt_by_reg(c, p))
    BY <1>2, <1>3 DEF Agree, output_pkt_by_reg
  <2>3. Agree(redirect_other_chassis(c, p))
    BY <1>2, <1>3 DEF Agree, redirect_other_chassis
  <2> QED
    BY <1>4, <2>1, <2>2, <2>3
<1>6. Orderly(pipeline_forward(c, p)) /\ Orderly(lsp_arp_controller(c, p))
  <2>1. \A x \in pipeline_forward(c, p) \cup lsp_arp_controller(c, p) : x.prio \in 0..5
    BY <1>2, <1>3 DEF pipeline_forward, lsp_arp_controller
  <2>2. Agree(pipeline_forward(c, p))
    BY <1>2, <1>3 DEF Agree, pipeline_forward
  <2>3. Agree(lsp_arp_controller(c, p))
    BY <1>2, <1>3 DEF Agree, lsp_arp_controller
  <2> QED
    BY <1>4, <2>1, <2>2, <2>3
<1>7. Orderly(lsp_output_dst_port(c, p)) /\ Orderly(lsp_pushout_packet(c, p))
  <2>1. \A x \in lsp_output_dst_port(c, p) \cup lsp_pushout_packet(c, p) : x.prio \in 0..5
    BY <1>1, <1>2 DEF lsp_output_dst_port, lsp_pushout_packet
  <2>2. Agree(lsp_output_dst_port(c, p))
    BY <1>1, <1>2 DEF Agree, lsp_output_dst_port
  <2>3. Agree(lsp_pushout_packet(c, p))
    BY <1>1, <1>2 DEF Agree, lsp_pushout_packet
  <2> QED
    BY <1>4, <2>1, <2>2, <2>3
<1>8. Orderly(lsp_judge_loopback(c, p))
  BY OneRule DEF lsp_judge_loopback
<1>9. Orderly(lrp_pkt_response(c, p)) /\ Orderly(lrp_drop_unexpect(c, p))
  <2>1. ASSUME NEW b, NEW d, NEW q, NEW t PROVE Orderly(RuleIf(b, 3, q) \cup RuleIf(d, 0, t))
    <3>1. \A x \in RuleIf(b, 3, q) \cup RuleIf(d, 0, t) : x.prio \in 0..5
      BY <1>2
    <3>2. Agree(RuleIf(b, 3, q) \cup RuleIf(d, 0, t))
      BY <1>2 DEF Agree
    <3> QED
      BY <1>4, <3>1, <3>2
  <2>2. \E b, d, q, t : lrp_pkt_response(c, p) = RuleIf(b, 3, q) \cup RuleIf(d, 0, t)
    BY DEF lrp_pkt_response
  <2>3. Orderly(lrp_drop_unexpect(c, p))
    <3>1. \A x \in lrp_drop_unexpect(c, p) : x.prio \in 0..5
      BY <1>2 DEF lrp_drop_unexpect
    <3>2. Agree(lrp_drop_unexpect(c, p))
      BY <1>2 DEF Agree, lrp_drop_unexpect
    <3> QED
      BY <1>4, <3>1, <3>2
  <2> QED
    BY <2>1, <2>2, <2>3
<1>10. Orderly(lrp_handle_unknow_dst_pkt(c, p))
  <2> DEFINE unknown == p.ethdst = NoMac
             ask == IF c \in OnDemand THEN upload_unknow_dst(p) ELSE p
             far == \E l \in LinksOf(c, p), x \in local_patchport(c) : Patch[x].ls = l.ls
             flagged == "REDIRECT" \in p.flags
             r4 == RuleIf(unknown /\ flagged, 4, Drop(p))
             r3 == RuleIf(unknown /\ IsIP(p) /\ far, 3, Drop(generate_arp(p)))
             there == Go(Flag(ask, "REDIRECT"), REDIRECT_CHASSIS)
             r2 == RuleIf(unknown /\ IsIP(p) /\ c \in Redirecting, 2, there)
             other == RuleIf(unknown /\ IsIP(p) /\ c \notin Redirecting /\ c \in OnDemand,
                             2, Drop(ask))
             r1 == RuleIf(unknown, 1, Drop(p))
             T == r4 \cup r3 \cup r2 \cup other \cup r1 \cup Default(Onward(p))
  <2>1. lrp_handle_unknow_dst_pkt(c, p) = T
    BY DEF lrp_handle_unknow_dst_pkt
  <2> HIDE DEF unknown, ask, far, flagged
  <2>2. /\ \A x \in r4 : x.prio = 4 /\ x.to = Drop(p)
        /\ \A x \in r3 : x.prio = 3 /\ x.to = Drop(generate_arp(p))
        /\ \A x \in r2 : x.prio = 2 /\ x.to = there /\ c \in Redirecting
        /\ \A x \in other : x.prio = 2 /\ x.to = Drop(ask) /\ c \notin Redirecting
        /\ \A x \in r1 : x.prio = 1 /\ x.to = Drop(p)
        /\ \A x \in Default(Onward(p)) : x.prio = 0 /\ x.to = Onward(p)
    BY DEF RuleIf, Default, Rule
  <2> HIDE DEF r4, r3, r2, other, r1, there
  <2>3. \A x \in T : x.prio \in 0..5
    BY <2>2
  <2>4. Agree(T)
    BY <2>2 DEF Agree
  <2> QED
    BY <1>4, <2>1, <2>3, <2>4
<1> QED
  BY <1>5, <1>6, <1>7, <1>8, <1>9, <1>10

\* The ports of a switch, whoever has them: no two share an address.
Of(x) == [ls |-> x.ls, ip |-> x.ip, mac |-> x.mac]
AllLsp == {Of(PortOf(x)) : x \in Ports} \cup {Of(l) : l \in Link}

LEMMA SamePort ==
    ASSUME NEW x, NEW y, Of(x) \in AllLsp, Of(y) \in AllLsp, x.ls = y.ls,
           x.ip = y.ip \/ x.mac = y.mac
    PROVE  x.ip = y.ip /\ x.mac = y.mac
BY PortsAssumption DEF AllLsp, Of

LEMMA KnownPorts ==
    ASSUME NEW c
    PROVE  /\ \A x \in active_lsp(c) \cup local_lsp(c) : Of(x) \in AllLsp
           /\ \A d : \A x \in remote_lsp(c, d) : Of(x) \in AllLsp
           /\ \A x \in Ports : Of(PortOf(x)) \in AllLsp
           /\ \A l \in Link : Of(l) \in AllLsp
<1>1. (\A x \in Ports : Of(PortOf(x)) \in AllLsp) /\ (\A l \in Link : Of(l) \in AllLsp)
  BY DEF AllLsp
<1>2. \A v \in Vms : v \in Ports /\ PortOf(v) = Vm[v]
  BY DEF Ports, PortOf
<1>3. /\ lsp_array(c) \subseteq Vms /\ lsp_link_lrp(c) \subseteq Link
      /\ local_bond_lsp(c) \subseteq Ports
  BY DEF lsp_array, lsp_link_lrp, local_bond_lsp, local_patchport, Ports
<1>4. \A x : Of([ls |-> x.ls, ip |-> x.ip, mac |-> x.mac]) = Of(x)
  BY DEF Of
<1>5. \A x \in active_lsp(c) : Of(x) \in AllLsp
  BY <1>1, <1>2, <1>3, <1>4 DEF active_lsp
<1>6. \A x \in local_lsp(c) : Of(x) \in AllLsp
  BY <1>1, <1>3, <1>4 DEF local_lsp
<1>7. \A d : \A x \in remote_lsp(c, d) : Of(x) \in AllLsp
  BY <1>1, <1>2, <1>3, <1>4 DEF remote_lsp
<1> QED
  BY <1>1, <1>5, <1>6, <1>7

\* Sets of rules of one priority, all from things of one kind.
LEMMA OnePriority ==
    ASSUME NEW rules, NEW n \in Nat, \A x \in rules : x.prio = n,
           \A x, y \in rules : x.to = y.to
    PROVE  Orderly(rules)
BY DEF Orderly, Agree, Ranked

\* What it means that nothing clashes on a switch or a router.
LEMMA NoClash ==
    ASSUME NEW d, ~Clash(d)
    PROVE  /\ \A a, b \in SwitchPorts(d) : PortID(a) = PortID(b) => a = b
           /\ \A a, b \in RouterPorts(d) : PortID(a) = PortID(b) => a = b
           /\ \A l \in Link, n \in Xlate :
                 l.ls = d /\ n.lr = l.lr => n.xip \notin SwitchPorts(d)
           /\ \A l, m \in Link, n, k \in Xlate :
                 l.ls = d /\ m.ls = d /\ n.lr = l.lr /\ k.lr = m.lr /\ n.xmac = k.xmac
                 => l = m
<1>1. ~ClashOnSwitch(d) /\ ~ClashOnRouter(d)
  BY DEF Clash
<1>2. ~SameId(SwitchPorts(d)) /\ ~SameId(RouterPorts(d))
  BY <1>1 DEF ClashOnSwitch, ClashOnRouter
<1>3. /\ \A a, b \in SwitchPorts(d) : PortID(a) = PortID(b) => a = b
      /\ \A a, b \in RouterPorts(d) : PortID(a) = PortID(b) => a = b
  BY <1>2 DEF SameId
<1> QED
  BY <1>1, <1>3 DEF ClashOnSwitch

\* An address asked for on a switch has one answer: ports differ, and NAT's
\* addresses are no port's.
LEMMA OneAnswer ==
    ASSUME NEW c, NEW p, ~Clash(p.dp), NEW q \in arp_feedback_construct(c, p),
           NEW s \in arp_feedback_construct(c, p)
    PROVE  q = s
<1> DEFINE answers == {x \in _arp_ip_mac(c) : p.proto = "arpq" /\ x.ls = p.dp /\ x.ip = p.ipdst}
           natted == {[ls |-> b[1].ls, ip |-> b[2].xip, mac |-> b[2].xmac] :
                         b \in {x \in lsp_link_lrp(c) \X Xlate : x[1].lr = x[2].lr}}
           ports == {[ls |-> x.ls, ip |-> x.ip, mac |-> x.mac] : x \in active_lsp(c)}
<1>1. \A x \in answers : x.ls = p.dp /\ x.ip = p.ipdst /\ x \in ports \cup natted
  BY DEF _arp_ip_mac
<1>2. \A x \in ports : \E y \in active_lsp(c) : x.ls = y.ls /\ x.ip = y.ip /\ x.mac = y.mac
  OBVIOUS
<1>3. \A x \in natted : \E l \in lsp_link_lrp(c), n \in Xlate :
         l.lr = n.lr /\ x.ls = l.ls /\ x.ip = n.xip /\ x.mac = n.xmac
  OBVIOUS
<1>4. lsp_link_lrp(c) \subseteq Link /\ lsp_array(c) \subseteq Vms
  BY DEF lsp_link_lrp, lsp_array
<1>5. \A x \in active_lsp(c) : \/ \E v \in Vms : x.ls = Vm[v].ls /\ x.ip = Vm[v].ip
                               \/ \E l \in Link : x.ls = l.ls /\ x.ip = l.ip
  BY <1>4 DEF active_lsp
<1>6. ASSUME NEW x \in answers, NEW y \in answers PROVE x.mac = y.mac
  <2> HIDE DEF answers, natted, ports
  <2>1. CASE x \in ports /\ y \in ports
    BY <1>1, <1>2, <2>1, KnownPorts, SamePort
  <2>2. CASE x \in natted /\ y \in natted
    <3>1. PICK l \in Link, n \in Xlate :
             l.lr = n.lr /\ x.ls = l.ls /\ x.ip = n.xip /\ x.mac = n.xmac
      BY <1>3, <1>4, <2>2
    <3>2. PICK m \in Link, k \in Xlate :
             m.lr = k.lr /\ y.ls = m.ls /\ y.ip = k.xip /\ y.mac = k.xmac
      BY <1>3, <1>4, <2>2
    <3> QED
      BY <1>1, <3>1, <3>2, NatAssumption
  <2>3. ASSUME NEW u \in answers, NEW w \in answers, u \in ports, w \in natted PROVE FALSE
    <3>1. PICK l \in Link, n \in Xlate : l.lr = n.lr /\ w.ls = l.ls /\ w.ip = n.xip
      BY <1>3, <1>4, <2>3
    <3>2. u.ls = l.ls /\ u.ip = n.xip
      BY <1>1, <2>3, <3>1
    <3>3. \/ \E v \in Vms : u.ls = Vm[v].ls /\ u.ip = Vm[v].ip
          \/ \E m \in Link : u.ls = m.ls /\ u.ip = m.ip
      BY <1>2, <1>5, <2>3
    <3>4. u.ip \in SwitchPorts(u.ls)
      BY <3>3 DEF SwitchPorts
    <3>5. u.ls = p.dp
      BY <1>1
    <3> QED
      BY <3>1, <3>2, <3>4, <3>5, NoClash
  <2> QED
    BY <1>1, <2>1, <2>2, <2>3
<1>7. \A x \in answers : x.ip = p.ipdst
  OBVIOUS
<1>8. arp_feedback_construct(c, p) =
         IF answers = {} THEN {p}
         ELSE {[Flag(p, "LOOPBACK") EXCEPT !.proto = "arpr", !.ethdst = p.ethsrc,
                  !.ethsrc = x.mac, !.ipsrc = x.ip, !.ipdst = p.ipsrc, !.dst = p.src] :
               x \in answers}
  BY DEF arp_feedback_construct
<1> DEFINE A(mac, ip) == [Flag(p, "LOOPBACK") EXCEPT !.proto = "arpr", !.ethdst = p.ethsrc,
                            !.ethsrc = mac, !.ipsrc = ip, !.ipdst = p.ipsrc, !.dst = p.src]
<1>9. arp_feedback_construct(c, p) = IF answers = {} THEN {p} ELSE {A(x.mac, x.ip) : x \in answers}
  BY <1>8
<1> HIDE DEF answers, A
<1> QED
  BY <1>6, <1>7, <1>9

LEMMA ResponsesAgree ==
    ASSUME NEW c, NEW p, ~Clash(p.dp)
    PROVE  Orderly(lsp_arp_response(c, p))
<1>1. CASE p.proto = "arpq"
  <2>1. lsp_arp_response(c, p) = {Rule(2, Onward(q)) : q \in arp_feedback_construct(c, p)}
    BY <1>1 DEF lsp_arp_response
  <2>2. \A x \in lsp_arp_response(c, p) : x.prio = 2
    BY <2>1, Rules
  <2>3. \A x, y \in lsp_arp_response(c, p) : x.to = y.to
    BY <2>1, OneAnswer
  <2> QED
    BY <2>2, <2>3, OnePriority
<1>2. CASE p.proto # "arpq"
  BY <1>2, OneRule DEF lsp_arp_response
<1> QED
  BY <1>1, <1>2

\* A port lives on one chassis, as each chassis sees it, so one tunnel leads there.
LEMMA OneHome ==
    ASSUME NEW c, NEW d, NEW e, NEW x \in remote_lsp(c, d), NEW y \in remote_lsp(c, e),
           x.ls = y.ls, x.mac = y.mac
    PROVE  x.ip = y.ip /\ d = e
<1>1. Of(x) \in AllLsp /\ Of(y) \in AllLsp
  BY KnownPorts
<1>2. \A v \in Vms : v \in Ports /\ PortOf(v) = Vm[v]
  BY DEF Ports, PortOf
<1>3. ASSUME NEW z, NEW f, z \in remote_lsp(c, f)
      PROVE  \/ \E v \in Vms : z = Vm[v] /\ view[c].at[v] = f
             \/ \E l \in Link : z.ls = l.ls /\ z.mac = l.mac /\ RouterOn[l.lr] = f
  BY <1>3 DEF remote_lsp, lsp_array, lsp_link_lrp
<1>4. x.ip = y.ip
  BY <1>1, SamePort
<1>5. CASE \E v \in Vms : x = Vm[v] /\ view[c].at[v] = d
  <2>1. PICK v \in Vms : x = Vm[v] /\ view[c].at[v] = d
    BY <1>5
  <2>2. PICK w \in Vms : y = Vm[w] /\ view[c].at[w] = e
    BY <1>2, <1>3, <2>1, PortsAssumption
  <2> QED
    BY <1>2, <1>4, <2>1, <2>2, PortsAssumption
<1>6. CASE \E l \in Link : x.ls = l.ls /\ x.mac = l.mac /\ RouterOn[l.lr] = d
  <2>1. PICK l \in Link : x.ls = l.ls /\ x.mac = l.mac /\ RouterOn[l.lr] = d
    BY <1>6
  <2>2. PICK m \in Link : y.ls = m.ls /\ y.mac = m.mac /\ RouterOn[m.lr] = e
    <3>1. ASSUME NEW w \in Vms, y = Vm[w] PROVE FALSE
      <4>1. w \in Ports /\ PortOf(w).ls = l.ls /\ PortOf(w).mac = l.mac
        BY <1>2, <2>1, <3>1
      <4> QED
        BY <4>1, PortsAssumption
    <3> QED
      BY <1>3, <3>1
  <2> QED
    BY <1>4, <2>1, <2>2, PortsAssumption
<1> QED
  BY <1>3, <1>5, <1>6

LEMMA LookupsAgree ==
    ASSUME NEW c, NEW p, ~Clash(p.dp)
    PROVE  Orderly(lsp_lookup_dst_port(c, p))
<1> DEFINE
       X(S) == {x \in S : x.ls = p.dp /\ x.mac = p.ethdst}
       L == {x \in lsp_link_lrp(c) :
                    x.ls = p.dp /\ \E n \in Xlate : n.lr = x.lr /\ n.xmac = p.ethdst}
       P == {y \in local_patchport(c) : Patch[y].ls = p.dp}
       Out(q, d) == Onward([q EXCEPT !.reg5 = 1, !.out = Tunnel(c, p, d)])
       T5 == {Rule(5, Onward(To(p, l))) : l \in L}
       T4 == {Rule(4, Onward(To(p, x))) : x \in X(local_lsp(c))}
       T3(d) == {Rule(3, Out(To(p, x), d)) : x \in X(remote_lsp(c, d))}
       T2 == {Rule(2, Go(To(p, Patch[x]), LSP_EGRESS_FIRST)) : x \in P}
       T0 == Default(IF c \in OnDemand THEN Onward(Unknown(p)) ELSE Drop(p))
       all3 == UNION {T3(d) : d \in remote_chassis(c)}
       all == T5 \cup T4 \cup all3 \cup T2 \cup T0
<1>1. lsp_lookup_dst_port(c, p) = all
  BY DEF lsp_lookup_dst_port, To, Unknown, Tunnel
<1>2. \A x, y : x.ip = y.ip => To(p, x) = To(p, y)
  BY DEF To
<1>3. \A l, m \in L : l = m
  BY NoClash DEF lsp_link_lrp
<1>4. \A x, y \in X(local_lsp(c)) : x.ip = y.ip
  BY KnownPorts, SamePort
<1>5. ASSUME NEW d, NEW e, NEW x \in X(remote_lsp(c, d)), NEW y \in X(remote_lsp(c, e))
      PROVE  x.ip = y.ip /\ d = e
  BY OneHome
<1>6. \A x, y \in P : x = y
  BY PortsAssumption DEF local_patchport
<1> HIDE DEF X, L, P, Out
<1>7. \A r \in T5 : r.prio = 5 /\ \A s \in T5 : r.to = s.to
  BY <1>3, Rules
<1>8. \A r \in T4 : r.prio = 4 /\ \A s \in T4 : r.to = s.to
  BY <1>2, <1>4, Rules
<1>9. \A r \in all3 : r.prio = 3 /\ \A s \in all3 : r.to = s.to
  <2>1. \A r \in all3 : \E d, x : x \in X(remote_lsp(c, d)) /\ r = Rule(3, Out(To(p, x), d))
    OBVIOUS
  <2> HIDE DEF all3
  <2>2. ASSUME NEW r \in all3, NEW s \in all3 PROVE r.prio = 3 /\ r.to = s.to
    <3>1. PICK d, x : x \in X(remote_lsp(c, d)) /\ r = Rule(3, Out(To(p, x), d))
      BY <2>1
    <3>2. PICK e, y : y \in X(remote_lsp(c, e)) /\ s = Rule(3, Out(To(p, y), e))
      BY <2>1
    <3>3. To(p, x) = To(p, y) /\ d = e
      BY <1>2, <1>5, <3>1, <3>2
    <3> QED
      BY <3>1, <3>2, <3>3, Rules
  <2> QED
    BY <2>2
<1>10. \A r \in T2 : r.prio = 2 /\ \A s \in T2 : r.to = s.to
  BY <1>6, Rules
<1>11. \A r \in T0 : r.prio = 0 /\ \A s \in T0 : r.to = s.to
  BY Rules
<1> HIDE DEF T5, T4, all3, T2, T0
<1>12. \A r \in all : r.prio \in 0..5
  BY <1>7, <1>8, <1>9, <1>10, <1>11
<1>13. Agree(all)
  BY <1>7, <1>8, <1>9, <1>10, <1>11 DEF Agree
<1> QED
  BY <1>1, <1>12, <1>13 DEF Orderly, Ranked

\* The port behind a port ID.
LEMMA PortsById ==
    ASSUME NEW c, NEW p, ~Clash(p.dp)
    PROVE  /\ \A l, m \in {x \in Link : x.ls = p.dp /\ PortID(x.ip) = p.dst} : l = m
           /\ \A l, m \in LinksOf(c, p) : l = m
           /\ \A x, y \in {z \in local_bond_lsp(c) :
                              PortOf(z).ls = p.dp /\ PortID(PortOf(z).ip) = p.dst} : x = y
<1>1. \A l \in Link : l.ip \in SwitchPorts(l.ls) /\ l.ip \in RouterPorts(l.lr)
  BY DEF SwitchPorts, RouterPorts
<1>2. \A x \in Ports : PortOf(x).ip \in SwitchPorts(PortOf(x).ls)
  BY DEF SwitchPorts, Ports, PortOf
<1>3. /\ \A a, b \in SwitchPorts(p.dp) : PortID(a) = PortID(b) => a = b
      /\ \A a, b \in RouterPorts(p.dp) : PortID(a) = PortID(b) => a = b
  BY NoClash
<1>4. \A l, m \in {x \in Link : x.ls = p.dp /\ PortID(x.ip) = p.dst} : l = m
  BY <1>1, <1>3, PortsAssumption
<1>5. \A l, m \in LinksOf(c, p) : l = m
  BY <1>1, <1>3, PortsAssumption DEF LinksOf, lsp_link_lrp
<1>6. local_bond_lsp(c) \subseteq Ports
  BY DEF local_bond_lsp, local_patchport, lsp_array, Ports
<1>7. \A x, y \in {z \in local_bond_lsp(c) :
                      PortOf(z).ls = p.dp /\ PortID(PortOf(z).ip) = p.dst} : x = y
  BY <1>2, <1>3, <1>6, PortsAssumption
<1> QED
  BY <1>4, <1>5, <1>7

LEMMA ForwardsAgree ==
    ASSUME NEW c, NEW p, IsPacket(p), ~Clash(p.dp)
    PROVE  Orderly(lsp_forward_packet(c, p))
<1> DEFINE
       B == {y \in local_bond_lsp(c) : PortOf(y).ls = p.dp /\ PortID(PortOf(y).ip) = p.dst}
       L == {x \in lsp_link_lrp(c) : x.ls = p.dp /\ PortID(x.ip) = p.dst}
       ToPort(x) == Onward([p EXCEPT !.reg5 = 1, !.out = x])
       T3 == {Rule(3, ToPort(x)) : x \in B}
       T2 == {Rule(2, Onward(ToRouter(p, l))) : l \in L}
       T1 == RuleIf(IsIP(p), 0, Go(Flag(p, "REDIRECT"), LOOKUP_DST_PORT))
       A == {r \in arp_feedback_construct(c, Flag(p, "REDIRECT")) : p.proto = "arpq"}
       T0 == {Rule(0, Go(q, LOOKUP_DST_PORT)) : q \in A}
       all == T3 \cup T2 \cup T1 \cup T0
<1>1. lsp_forward_packet(c, p) = all
  BY DEF lsp_forward_packet, ToRouter
<1>2. (\A x, y \in B : x = y) /\ (\A l, m \in L : l = m)
  BY PortsById DEF lsp_link_lrp
<1>3. \A q, s \in A : q = s
  <2>1. Flag(p, "REDIRECT").dp = p.dp
    BY DEF IsPacket, Fields, Flag
  <2> QED
    BY <2>1, OneAnswer
<1>4. T1 = {} \/ T0 = {}
  BY DEF RuleIf, IsIP
<1> HIDE DEF B, L, A, ToPort
<1>5. \A r \in T3 : r.prio = 3 /\ \A s \in T3 : r.to = s.to
  BY <1>2, Rules
<1>6. \A r \in T2 : r.prio = 2 /\ \A s \in T2 : r.to = s.to
  BY <1>2, Rules
<1>7. \A r \in T1 : r.prio = 0 /\ \A s \in T1 : r.to = s.to
  BY DEF RuleIf, Rule
<1>8. \A r \in T0 : r.prio = 0 /\ \A s \in T0 : r.to = s.to
  BY <1>3, Rules
<1> HIDE DEF T3, T2, T1, T0
<1>9. \A r \in all : r.prio \in 0..5
  BY <1>5, <1>6, <1>7, <1>8
<1>10. Agree(all)
  BY <1>4, <1>5, <1>6, <1>7, <1>8 DEF Agree
<1> QED
  BY <1>1, <1>9, <1>10 DEF Orderly, Ranked

\* NAT: of one type and network a router has one rule, and one address
\* outside stands for one inside.
LEMMA OneToOneOnce ==
    ASSUME NEW c, NEW p, ~Clash(p.dp), NEW n \in OneToOne(c, p), NEW m \in OneToOne(c, p),
           n.ip = m.ip \/ n.xip = m.xip
    PROVE  n = m
<1>1. ASSUME NEW x \in OneToOne(c, p)
      PROVE  /\ x \in Xlate /\ x.lr = p.dp /\ x.type = "snat" /\ x.len = AddrWidth
             /\ \E y \in Xlate : /\ y.lr = p.dp /\ y.type = "dnat" /\ y.len = AddrWidth
                                 /\ y.ip = x.ip /\ y.xip = x.xip
  BY DEF OneToOne, lnat_data
<1>2. n.ip = m.ip
  <2>1. PICK x \in Xlate : /\ x.lr = p.dp /\ x.type = "dnat" /\ x.len = AddrWidth
                            /\ x.ip = n.ip /\ x.xip = n.xip
    BY <1>1
  <2>2. PICK y \in Xlate : /\ y.lr = p.dp /\ y.type = "dnat" /\ y.len = AddrWidth
                            /\ y.ip = m.ip /\ y.xip = m.xip
    BY <1>1
  <2>3. n.xip = m.xip => x = y
    BY <2>1, <2>2 DEF Clash, ClashOnRouter
  <2> QED
    BY <2>1, <2>2, <2>3
<1> QED
  BY <1>1, <1>2, NatAssumption

LEMMA DestinationsAgree ==
    ASSUME NEW c, NEW p, ~Clash(p.dp)
    PROVE  Orderly(lunsnat_xlate_stage1(c, p)) /\ Orderly(ldnat_xlate_stage1(c, p))
<1>1. Orderly(lunsnat_xlate_stage1(c, p))
  <2> DEFINE
         N == {x \in OneToOne(c, p) : IsIP(p) /\ x.xip = p.ipdst}
         To2(n) == Onward([p EXCEPT !.ipdst = n.ip])
         T2 == {Rule(2, To2(n)) : n \in N}
         b == IsIP(p) /\ \E n \in lnat_data(c, p.dp, "snat") : n.xip = p.ipdst
         q == Onward([p EXCEPT !.ipdst = Restored(c, p, "snat", @, "xip", "ip")])
         T1 == RuleIf(b, 1, q)
         T0 == Default(Onward(p))
  <2>1. lunsnat_xlate_stage1(c, p) = T2 \cup T1 \cup T0
    BY DEF lunsnat_xlate_stage1
  <2>2. \A n, m \in N : n = m
    BY OneToOneOnce
  <2> HIDE DEF N, To2, b, q
  <2>3. \A r \in T2 : r.prio = 2 /\ \A s \in T2 : r.to = s.to
    BY <2>2, Rules
  <2>4. \A r \in T1 : r.prio = 1 /\ \A s \in T1 : r.to = s.to
    BY DEF RuleIf, Rule
  <2>5. \A r \in T0 : r.prio = 0 /\ \A s \in T0 : r.to = s.to
    BY Rules
  <2> HIDE DEF T2, T1, T0
  <2> QED
    BY <2>1, <2>3, <2>4, <2>5 DEF Orderly, Agree, Ranked
<1>2. Orderly(ldnat_xlate_stage1(c, p))
  <2> DEFINE
         N == {x \in lnat_data(c, p.dp, "dnat") :
                  IsIP(p) /\ x.len = AddrWidth /\ x.xip = p.ipdst}
         To2(n) == Onward([Commit(Flag(p, "NAT"), n, n.ip) EXCEPT !.ipdst = n.ip])
         T2 == {Rule(AddrWidth + 1, To2(n)) : n \in N}
         T0 == Default(Onward(p))
  <2>1. ldnat_xlate_stage1(c, p) = T2 \cup T0
    BY DEF ldnat_xlate_stage1
  <2>2. \A n, m \in N : n = m
    BY DEF lnat_data, Clash, ClashOnRouter
  <2>3. AddrWidth \in Nat
    BY RoutesAssumption
  <2> HIDE DEF N, To2
  <2>4. \A r \in T2 : r.prio = AddrWidth + 1 /\ \A s \in T2 : r.to = s.to
    BY <2>2, Rules
  <2>5. \A r \in T0 : r.prio = 0 /\ \A s \in T0 : r.to = s.to
    BY Rules
  <2> HIDE DEF T2, T0
  <2>6. \A r \in T2 \cup T0 : r.prio \in 0..(AddrWidth + 1)
    BY <2>3, <2>4, <2>5
  <2>7. Agree(T2 \cup T0)
    BY <2>3, <2>4, <2>5 DEF Agree
  <2> QED
    BY <2>1, <2>3, <2>6, <2>7 DEF Orderly, Ranked
<1> QED
  BY <1>1, <1>2

LEMMA SourcesAgree ==
    ASSUME NEW c, NEW p, ~Clash(p.dp)
    PROVE  /\ Orderly(lundnat_xlate_stage1(c, p)) /\ Orderly(lsnat_xlate_stage1(c, p))
           /\ \A type : Orderly(xlate_src_mac(c, p, type))
<1>1. Orderly(lundnat_xlate_stage1(c, p))
  <2> DEFINE
         N == {x \in OneToOne(c, p) : IsIP(p) /\ x.ip = p.ipsrc}
         To2(n) == Onward([p EXCEPT !.ipsrc = n.xip])
         T2 == {Rule(2, To2(n)) : n \in N}
         b == IsIP(p) /\ \E n \in lnat_data(c, p.dp, "dnat") : n.ip = p.ipsrc
         q == Onward([Flag(p, "NAT") EXCEPT !.ipsrc = Restored(c, p, "dnat", @, "ip", "xip")])
         T1 == RuleIf(b, 1, q)
         T0 == Default(Onward(p))
  <2>1. lundnat_xlate_stage1(c, p) = T2 \cup T1 \cup T0
    BY DEF lundnat_xlate_stage1
  <2>2. \A n, m \in N : n = m
    BY OneToOneOnce
  <2> HIDE DEF N, To2, b, q
  <2>3. \A r \in T2 : r.prio = 2 /\ \A s \in T2 : r.to = s.to
    BY <2>2, Rules
  <2>4. \A r \in T1 : r.prio = 1 /\ \A s \in T1 : r.to = s.to
    BY DEF RuleIf, Rule
  <2>5. \A r \in T0 : r.prio = 0 /\ \A s \in T0 : r.to = s.to
    BY Rules
  <2> HIDE DEF T2, T1, T0
  <2> QED
    BY <2>1, <2>3, <2>4, <2>5 DEF Orderly, Agree, Ranked
<1>2. Orderly(lsnat_xlate_stage1(c, p))
  <2> DEFINE
         N == {x \in lnat_data(c, p.dp, "snat") : IsIP(p) /\ InNet(p.ipsrc, x.ip, x.len)}
         To2(n) == Onward([Commit(Flag(p, "NAT"), n, p.ipsrc) EXCEPT !.ipsrc = n.xip])
         T2 == {Rule(n.len + 1, To2(n)) : n \in N}
         T0 == Default(Onward(p))
  <2>1. lsnat_xlate_stage1(c, p) = T2 \cup T0
    BY DEF lsnat_xlate_stage1
  <2>2. \A n, m \in N : n.len = m.len => To2(n) = To2(m)
    <3>1. ASSUME NEW n \in N, NEW m \in N, n.len = m.len PROVE n.xip = m.xip
      <4>1. SameNet(n, m)
        BY <3>1 DEF lnat_data, SameNet, InNet
      <4> QED
        BY <4>1 DEF lnat_data, Clash, ClashOnRouter
    <3>2. \A n, m \in N : n.type = m.type
      BY DEF lnat_data
    <3> HIDE DEF N
    <3> QED
      BY <3>1, <3>2 DEF Commit
  <2>3. AddrWidth \in Nat /\ \A n \in N : n.len \in 0..AddrWidth
    BY RoutesAssumption, NatAssumption DEF lnat_data
  <2> HIDE DEF N, To2
  <2>4. \A r \in T2 : \E n \in N : r.prio = n.len + 1 /\ r.to = To2(n)
    BY Rules
  <2>5. \A r \in T0 : r.prio = 0 /\ \A s \in T0 : r.to = s.to
    BY Rules
  <2> HIDE DEF T2, T0
  <2>6. \A r \in T2 \cup T0 : r.prio \in 0..(AddrWidth + 1)
    BY <2>3, <2>4, <2>5
  <2>7. \A r, s \in T2 : r.prio = s.prio => r.to = s.to
    BY <2>2, <2>3, <2>4
  <2>8. \A r \in T2 : r.prio # 0
    BY <2>3, <2>4
  <2>9. Agree(T2 \cup T0)
    BY <2>5, <2>7, <2>8 DEF Agree
  <2> QED
    BY <2>1, <2>3, <2>6, <2>9 DEF Orderly, Ranked
<1>3. ASSUME NEW type PROVE Orderly(xlate_src_mac(c, p, type))
  <2> DEFINE
         N == {x \in lnat_data(c, p.dp, type) : IsIP(p) /\ "NAT" \in p.flags /\ x.xip = p.ipsrc}
         To1(mac) == Onward([p EXCEPT !.ethsrc = mac])
         T1 == {Rule(1, To1(n.xmac)) : n \in N}
         T0 == Default(Onward(p))
  <2>1. xlate_src_mac(c, p, type) = T1 \cup T0
    BY DEF xlate_src_mac
  <2>2. \A n, m \in N : n.xmac = m.xmac
    BY NatAssumption DEF lnat_data
  <2> HIDE DEF N, To1
  <2>3. \A r \in T1 : r.prio = 1 /\ \A s \in T1 : r.to = s.to
    BY <2>2, Rules
  <2>4. \A r \in T0 : r.prio = 0 /\ \A s \in T0 : r.to = s.to
    BY Rules
  <2> HIDE DEF T1, T0
  <2> QED
    BY <2>1, <2>3, <2>4 DEF Orderly, Agree, Ranked
<1> QED
  BY <1>1, <1>2, <1>3

\* A priority tells the prefix, the level and the number.
Levelled(rule, level, len, idx) ==
    /\ len \in 0..AddrWidth /\ idx \in 0..63 /\ (len = 0 /\ level = 0 => idx # 0)
    /\ rule.prio = _cal_priority(len, level, idx)

LEMMA PriorityTells ==
    ASSUME NEW x, NEW y, NEW level \in 0..2, NEW level2 \in 0..2,
           NEW len, NEW len2, NEW idx, NEW idx2, AddrWidth \in Nat,
           Levelled(x, level, len, idx), Levelled(y, level2, len2, idx2), x.prio = y.prio
    PROVE  len = len2 /\ level = level2 /\ idx = idx2
BY DEF Levelled, _cal_priority

LEMMA PriorityRange ==
    ASSUME NEW x, NEW level \in 0..2, NEW len, NEW idx, AddrWidth \in Nat,
           Levelled(x, level, len, idx)
    PROVE  /\ x.prio \in 0..(1024 * (AddrWidth + 1)) /\ x.prio # 0
           /\ level = 2 => x.prio # 1
BY DEF Levelled, _cal_priority

LEMMA RoutesAgree ==
    ASSUME NEW c, NEW p, ~Clash(p.dp)
    PROVE  Orderly(lrp_ip_route(c, p))
<1> DEFINE
       here == {r \in Route : IsIP(p) /\ r.lr = p.dp /\ InNet(p.ipdst, r.ip, r.len)}
       L == {x \in lsp_link_lrp(c) : IsIP(p) /\ x.lr = p.dp /\ InNet(p.ipdst, x.ip, x.len)}
       S == {x \in here : _static_route_changed(c, x)}
       E == {x \in here : c \notin Gateway /\ ecmp_aggregate_outport(c, x) # {}}
       Balanced(r) == Onward([p EXCEPT !.out = Bundle(c, p, ecmp_aggregate_outport(c, r))])
       T0 == {Rule(_cal_priority(l.len, 0, l.idx), Routed(p, l, p.ipdst)) : l \in L}
       T1 == {Rule(_cal_priority(r.len, 1, r.idx), Routed(p, r.out, r.hop)) : r \in S}
       T2 == {Rule(_cal_priority(r.len, 2, 0), Balanced(r)) : r \in E}
       D == Default(Drop(p))
       all == T0 \cup T1 \cup T2 \cup D
<1>1. lrp_ip_route(c, p) = all
  BY DEF lrp_ip_route
<1>2. L \subseteq Link /\ S \subseteq Route /\ E \subseteq Route
  BY DEF lsp_link_lrp
<1>3. \A l, m \in L : l.len = m.len /\ l.idx = m.idx => l = m
  BY <1>2, RoutesAssumption DEF SameNet, InNet
<1>4. \A r, s \in S : r.len = s.len /\ r.idx = s.idx => r = s
  BY <1>2, RoutesAssumption DEF SameNet, InNet
<1>5. ASSUME NEW r \in E, NEW s \in E, r.len = s.len PROVE Balanced(r) = Balanced(s)
  <2>1. SameNet(r, s) /\ r.lr = p.dp /\ r \in Route /\ s \in Route
    BY <1>2, <1>5 DEF SameNet, InNet
  <2> HIDE DEF E
  <2>2. r.lr = s.lr /\ r.ip = s.ip
    BY <2>1 DEF SameNet, Clash, ClashOnRouter
  <2>3. ecmp_aggregate_outport(c, r) = ecmp_aggregate_outport(c, s)
    BY <1>5, <2>2 DEF ecmp_aggregate_outport
  <2> QED
    BY <2>3
<1>6. /\ AddrWidth \in Nat
      /\ \A l \in L : l.len \in 0..AddrWidth /\ l.idx \in 0..63 /\ (l.len = 0 => l.idx # 0)
      /\ \A r \in S \cup E : r.len \in 0..AddrWidth /\ r.idx \in 0..63
  BY <1>2, RoutesAssumption DEF Clash, ClashOnRouter
<1> HIDE DEF here, L, S, E, Balanced
<1>7. ASSUME NEW x \in T0
      PROVE  \E l \in L : Levelled(x, 0, l.len, l.idx) /\ x.to = Routed(p, l, p.ipdst)
  <2>1. PICK l \in L : x = Rule(_cal_priority(l.len, 0, l.idx), Routed(p, l, p.ipdst))
    OBVIOUS
  <2>2. l.len \in 0..AddrWidth /\ l.idx \in 0..63 /\ (l.len = 0 => l.idx # 0)
    BY <1>6
  <2> QED
    BY <2>1, <2>2, Rules DEF Levelled
<1>8. ASSUME NEW x \in T1
      PROVE  \E r \in S : Levelled(x, 1, r.len, r.idx) /\ x.to = Routed(p, r.out, r.hop)
  <2>1. PICK r \in S : x = Rule(_cal_priority(r.len, 1, r.idx), Routed(p, r.out, r.hop))
    OBVIOUS
  <2>2. r.len \in 0..AddrWidth /\ r.idx \in 0..63 /\ ~(1 = 0)
    BY <1>6
  <2> QED
    BY <2>1, <2>2, Rules DEF Levelled
<1>9. ASSUME NEW x \in T2
      PROVE  \E r \in E : Levelled(x, 2, r.len, 0) /\ x.to = Balanced(r)
  <2>1. PICK r \in E : x = Rule(_cal_priority(r.len, 2, 0), Balanced(r))
    OBVIOUS
  <2>2. r.len \in 0..AddrWidth /\ 0 \in 0..63 /\ ~(2 = 0)
    BY <1>6
  <2> QED
    BY <2>1, <2>2, Rules DEF Levelled
<1>10. \A x \in D : x.prio = 0 /\ x.to = Drop(p)
  BY Rules
<1> HIDE DEF T0, T1, T2, D
<1>11. 0 \in 0..2 /\ 1 \in 0..2 /\ 2 \in 0..2
  OBVIOUS
<1> DEFINE At(x, n) == \E len, idx : Levelled(x, n, len, idx)
<1>12. (\A x \in T0 : At(x, 0)) /\ (\A x \in T1 : At(x, 1)) /\ (\A x \in T2 : At(x, 2))
  BY <1>7, <1>8, <1>9
<1>13. \A x : \A n \in 0..2 :
          At(x, n) => x.prio \in 0..(1024 * (AddrWidth + 1)) /\ x.prio # 0
  BY <1>6, PriorityRange
<1>14. \A x, y : \A n, m \in 0..2 : At(x, n) /\ At(y, m) /\ x.prio = y.prio => n = m
  BY <1>6, PriorityTells
<1> HIDE DEF At
<1>15. Ranked(all)
  <2>1. \A x \in all : x.prio \in 0..(1024 * (AddrWidth + 1))
    BY <1>6, <1>10, <1>11, <1>12, <1>13
  <2>2. 1024 * (AddrWidth + 1) \in Nat
    BY <1>6
  <2> QED
    BY <2>1, <2>2 DEF Ranked
<1>16. ASSUME NEW x \in all, NEW y \in all, x.prio = y.prio PROVE x.to = y.to
  <2>1. CASE x \in T0 /\ y \in T0
    <3>1. PICK l \in L : Levelled(x, 0, l.len, l.idx) /\ x.to = Routed(p, l, p.ipdst)
      BY <1>7, <2>1
    <3>2. PICK m \in L : Levelled(y, 0, m.len, m.idx) /\ y.to = Routed(p, m, p.ipdst)
      BY <1>7, <2>1
    <3>3. l.len = m.len /\ l.idx = m.idx
      BY <1>6, <1>11, <1>16, <3>1, <3>2, PriorityTells
    <3> QED
      BY <1>3, <3>1, <3>2, <3>3
  <2>2. CASE x \in T1 /\ y \in T1
    <3>1. PICK r \in S : Levelled(x, 1, r.len, r.idx) /\ x.to = Routed(p, r.out, r.hop)
      BY <1>8, <2>2
    <3>2. PICK s \in S : Levelled(y, 1, s.len, s.idx) /\ y.to = Routed(p, s.out, s.hop)
      BY <1>8, <2>2
    <3>3. r.len = s.len /\ r.idx = s.idx
      BY <1>6, <1>11, <1>16, <3>1, <3>2, PriorityTells
    <3> QED
      BY <1>4, <3>1, <3>2, <3>3
  <2>3. CASE x \in T2 /\ y \in T2
    <3>1. PICK r \in E : Levelled(x, 2, r.len, 0) /\ x.to = Balanced(r)
      BY <1>9, <2>3
    <3>2. PICK s \in E : Levelled(y, 2, s.len, 0) /\ y.to = Balanced(s)
      BY <1>9, <2>3
    <3>3. r.len = s.len
      BY <1>6, <1>11, <1>16, <3>1, <3>2, PriorityTells
    <3> QED
      BY <1>5, <3>1, <3>2, <3>3
  <2>4. CASE x \in D /\ y \in D
    BY <1>10, <2>4
  <2>5. \A z \in all : \/ z \in T0
                       \/ z \in T1
                       \/ z \in T2
                       \/ z \in D
    OBVIOUS
  <2>6. /\ ~(0 = 1) /\ ~(0 = 2) /\ ~(1 = 2)
        /\ \A z \in T0 : At(z, 0) /\ z.prio # 0
        /\ \A z \in T1 : At(z, 1) /\ z.prio # 0
        /\ \A z \in T2 : At(z, 2) /\ z.prio # 0
    BY <1>11, <1>12, <1>13
  <2>7. CASE x \in D \/ y \in D
    BY <1>10, <1>16, <2>4, <2>5, <2>6, <2>7
  <2>8. CASE x \notin D /\ y \notin D
    BY <1>11, <1>14, <1>16, <2>1, <2>2, <2>3, <2>5, <2>6, <2>8
  <2> QED
    BY <2>7, <2>8
<1>17. Agree(all)
  BY <1>16 DEF Agree
<1> HIDE DEF all
<1> QED
  BY <1>1, <1>15, <1>17 DEF Orderly

LEMMA JudgesAgree ==
    ASSUME NEW c, NEW p, ~Clash(p.dp), remote_chassis(c) \subseteq Chassis
    PROVE  Orderly(lrp_ecmp_judge(c, p))
<1> DEFINE
       R == {x \in Route : /\ c \notin Gateway /\ IsIP(p) /\ x.lr = p.dp
                           /\ InNet(p.ipdst, x.ip, x.len)
                           /\ p.out \in next_hop_ovsport(c, x.out)}
       b == c \notin Gateway /\ p.out = None
       T2 == {Rule(_cal_priority(r.len, 2, 0), Routed(p, r.out, r.hop)) : r \in R}
       T1 == RuleIf(b, 1, Drop(p))
       D == Default(Onward(p))
       all == T2 \cup T1 \cup D
<1>1. lrp_ecmp_judge(c, p) = all
  BY DEF lrp_ecmp_judge
<1>2. AddrWidth \in Nat /\ 2 \in 0..2 /\ \A r \in R : r.len \in 0..AddrWidth
  BY RoutesAssumption
<1>3. ASSUME NEW r \in R
      PROVE  \E l \in Link : l.ls = r.out.ls /\ l.lr # r.out.lr /\ RouterOn[l.lr] = p.out
  BY DEF next_hop_ovsport, next_hop_lr, lsp_link_lrp
<1>4. \A r \in R : p.out # None
  BY ChassisAssumption DEF next_hop_ovsport
<1>5. ASSUME NEW r \in R, NEW s \in R, r.len = s.len
      PROVE  r.out = s.out /\ r.hop = s.hop
  <2>1. SameNet(r, s) /\ r.lr = p.dp /\ r \in Route /\ s \in Route
    BY <1>5 DEF SameNet, InNet
  <2>2. p.out \in Roads(r) /\ p.out \in Roads(s)
    BY <1>3, <1>4 DEF Roads
  <2> HIDE DEF R
  <2> QED
    BY <2>1, <2>2 DEF Clash, ClashOnRouter
<1> HIDE DEF R, b
<1>6. ASSUME NEW x \in T2
      PROVE  \E r \in R : Levelled(x, 2, r.len, 0) /\ x.to = Routed(p, r.out, r.hop)
  <2>1. PICK r \in R : x = Rule(_cal_priority(r.len, 2, 0), Routed(p, r.out, r.hop))
    OBVIOUS
  <2>2. r.len \in 0..AddrWidth /\ 0 \in 0..63 /\ ~(2 = 0)
    BY <1>2
  <2> QED
    BY <2>1, <2>2, Rules DEF Levelled
<1>7. \A x \in T1 : x.prio = 1 /\ x.to = Drop(p)
  BY DEF RuleIf, Rule
<1>8. \A x \in D : x.prio = 0 /\ x.to = Onward(p)
  BY Rules
<1> HIDE DEF T2, T1, D
<1>9. \A x \in T2 : x.prio \in 0..(1024 * (AddrWidth + 1)) /\ x.prio # 0 /\ x.prio # 1
  BY <1>2, <1>6, PriorityRange
<1>10. Ranked(all)
  <2>1. 1024 * (AddrWidth + 1) \in Nat /\ 1 \in 0..(1024 * (AddrWidth + 1))
                                       /\ 0 \in 0..(1024 * (AddrWidth + 1))
    BY <1>2
  <2> QED
    BY <1>7, <1>8, <1>9, <2>1 DEF Ranked
<1>11. ASSUME NEW x \in T2, NEW y \in T2, x.prio = y.prio PROVE x.to = y.to
  <2>1. PICK r \in R : Levelled(x, 2, r.len, 0) /\ x.to = Routed(p, r.out, r.hop)
    BY <1>6
  <2>2. PICK s \in R : Levelled(y, 2, s.len, 0) /\ y.to = Routed(p, s.out, s.hop)
    BY <1>6
  <2>3. r.len = s.len
    BY <1>2, <1>11, <2>1, <2>2, PriorityTells
  <2> QED
    BY <1>5, <2>1, <2>2, <2>3
<1>12. Agree(all)
  BY <1>7, <1>8, <1>9, <1>11 DEF Agree
<1> HIDE DEF all
<1> QED
  BY <1>1, <1>10, <1>12 DEF Orderly

\* The port with an address across a router port has one link address.
LEMMA MacsAgree ==
    ASSUME NEW c, NEW p, ~Clash(p.dp)
    PROVE  Orderly(lrp_update_eth_dst(c, p))
<1> DEFINE
       X == {y \in UNION {opposite_side_changed_lsp(c, l) : l \in LinksOf(c, p)} :
                IsIP(p) /\ y.ip = p.reg2}
       To3(mac) == Onward([p EXCEPT !.ethdst = mac])
       T3 == {Rule(3, To3(x.mac)) : x \in X}
       T2 == {Rule(2, Onward(search_ip_mac(c, p)))}
<1>1. lrp_update_eth_dst(c, p) = T3 \cup T2
  BY DEF lrp_update_eth_dst
<1>2. \A l \in Link : Of(l) \in AllLsp
  BY KnownPorts
<1>3. \A x \in DOMAIN Patch : Of(Patch[x]) \in AllLsp
  BY PortsAssumption DEF Ports, PortOf, AllLsp
<1>4. \A v \in Vms : Of(Vm[v]) \in AllLsp
  BY DEF Ports, PortOf, AllLsp
<1>5. ASSUME NEW l, NEW y \in opposite_side_changed_lsp(c, l)
      PROVE  y.ls = l.ls /\ Of(y) \in AllLsp
  BY <1>2, <1>3, <1>4 DEF opposite_side_changed_lsp, lsp_array
<1>6. ASSUME NEW x \in X, NEW y \in X PROVE x.mac = y.mac
  <2>1. PICK l \in LinksOf(c, p) : x \in opposite_side_changed_lsp(c, l)
    OBVIOUS
  <2>2. PICK m \in LinksOf(c, p) : y \in opposite_side_changed_lsp(c, m)
    OBVIOUS
  <2>3. l = m
    BY PortsById
  <2>4. x.ip = y.ip
    OBVIOUS
  <2> HIDE DEF X
  <2> QED
    BY <1>5, <2>1, <2>2, <2>3, <2>4, SamePort
<1> HIDE DEF X, To3
<1>7. \A x \in T3 : x.prio = 3 /\ \A y \in T3 : x.to = y.to
  BY <1>6, Rules
<1>8. \A x \in T2 : x.prio = 2 /\ \A y \in T2 : x.to = y.to
  BY Rules
<1> HIDE DEF T3, T2
<1> QED
  BY <1>1, <1>7, <1>8 DEF Orderly, Agree, Ranked

LEMMA HandoversAgree ==
    ASSUME NEW c, NEW p
    PROVE  /\ ~Clash(p.dp) => Orderly(lrp_forward_packet(c, p))
           /\ Orderly(convert_phy_logical(c, p))
<1>1. ASSUME ~Clash(p.dp) PROVE Orderly(lrp_forward_packet(c, p))
  <2> DEFINE To3(l) == Onward([p EXCEPT !.dp = l.ls, !.src = PortID(l.ip)])
             T3 == {Rule(3, To3(l)) : l \in LinksOf(c, p)}
  <2>1. lrp_forward_packet(c, p) = T3
    BY DEF lrp_forward_packet
  <2>2. \A l, m \in LinksOf(c, p) : l = m
    BY <1>1, PortsById
  <2> HIDE DEF To3
  <2>3. \A x \in T3 : x.prio = 3 /\ \A y \in T3 : x.to = y.to
    BY <2>2, Rules
  <2> HIDE DEF T3
  <2> QED
    BY <2>1, <2>3, OnePriority
<1>2. Orderly(convert_phy_logical(c, p))
  <2> DEFINE b == p.in \in Chassis
             q == Go(Flag(extract_metadata(p), "LOOPBACK"), PIPELINE_FORWARD)
             T1 == RuleIf(b, 2, q)
             X == local_bond_lsp(c) \cap {p.in}
             To2(x) == Onward([p EXCEPT !.src = PortID(PortOf(x).ip), !.dp = PortOf(x).ls])
             T2 == {Rule(2, To2(x)) : x \in X}
  <2>1. convert_phy_logical(c, p) = T1 \cup T2
    BY DEF convert_phy_logical
  <2>2. b => X = {}
    BY NamesAssumption
       DEF local_bond_lsp, local_patchport, lsp_array, Ports
  <2>3. \A x, y \in X : x = y
    OBVIOUS
  <2> HIDE DEF b, q, X, To2
  <2>4. \A x \in T1 : b /\ x.prio = 2 /\ \A y \in T1 : x.to = y.to
    BY DEF RuleIf, Rule
  <2>5. \A x \in T2 : X # {} /\ x.prio = 2 /\ \A y \in T2 : x.to = y.to
    BY <2>3, Rules
  <2> HIDE DEF T1, T2
  <2> QED
    BY <2>1, <2>2, <2>4, <2>5 DEF Orderly, Agree, Ranked
<1> QED
  BY <1>1, <1>2

\* All tables, and so a visit.
LEMMA FlowsAgree ==
    ASSUME NEW c, NEW p, IsPacket(p), ~Clash(p.dp), remote_chassis(c) \subseteq Chassis
    PROVE  Orderly(build_flows(c, p))
<1>0. Orderly({}) /\ \A q : Orderly(Default(q))
  BY OneRule
<1>1. Orderly(build_flows_lsp(c, p))
  <2> DEFINE T == {lsp_arp_controller(c, p), lsp_arp_response(c, p), lsp_lookup_dst_port(c, p),
                   lsp_output_dst_port(c, p), lsp_judge_loopback(c, p),
                   lsp_pushout_packet(c, p)}
  <2>1. PICK B : B = build_flows_lsp(c, p)
    OBVIOUS
  <2>2. OfSwitch(c, p, B)
    BY <2>1, SwitchTable
  <2>3. p.dp \in Switch => Orderly(lsp_forward_packet(c, p))
    BY ForwardsAgree
  <2>4. \A rules \in T : Orderly(rules)
    BY PlainTablesAgree, ResponsesAgree, LookupsAgree
  <2>5. Orderly(B)
    BY <1>0, <2>2, <2>3, <2>4 DEF OfSwitch
  <2> QED
    BY <2>1, <2>5
<1>2. Orderly(build_flows_lrp(c, p))
  <2> DEFINE T3 == {lrp_pkt_response(c, p), lrp_drop_unexpect(c, p),
                    lunsnat_xlate_stage1(c, p), ldnat_xlate_stage1(c, p), lrp_ip_route(c, p),
                    lrp_ecmp_judge(c, p)}
             T5 == {lundnat_xlate_stage1(c, p), lsnat_xlate_stage1(c, p),
                    xlate_src_mac(c, p, "dnat"), xlate_src_mac(c, p, "snat"),
                    lrp_update_eth_dst(c, p), lrp_handle_unknow_dst_pkt(c, p),
                    lrp_forward_packet(c, p)}
  <2>1. PICK B : B = build_flows_lrp(c, p)
    OBVIOUS
  <2>2. OfRouter(c, p, B)
    BY <2>1, RouterTable
  <2>3. CASE p.table \in {30, 31, 32, 33, 34, 35, 36, 37, 38, 39}
    <3>1. \A rules \in T3 : Orderly(rules)
      BY PlainTablesAgree, DestinationsAgree, RoutesAgree, JudgesAgree
    <3>2. Orderly(B)
      BY <1>0, <2>2, <2>3, <3>1 DEF OfRouter
    <3> QED
      BY <2>1, <3>2
  <2>4. CASE p.table \in {50, 51, 52, 53, 54, 55, 56, 57, 58}
    <3>1. \A rules \in T5 : Orderly(rules)
      BY PlainTablesAgree, SourcesAgree, MacsAgree, HandoversAgree
    <3>2. Orderly(B)
      BY <1>0, <2>2, <2>4, <3>1 DEF OfRouter
    <3> QED
      BY <2>1, <3>2
  <2>5. CASE p.table \notin {30, 31, 32, 33, 34, 35, 36, 37, 38, 39,
                              50, 51, 52, 53, 54, 55, 56, 57, 58}
    BY <1>0, <2>1, <2>2, <2>5 DEF OfRouter
  <2> QED
    BY <2>3, <2>4, <2>5
<1>3. Orderly(build_flows_phy(c, p) \cup build_flows_mid(c, p))
  <2> DEFINE phy == build_flows_phy(c, p)
             mid == build_flows_mid(c, p)
  <2>1. /\ phy \in {{}, convert_phy_logical(c, p), output_pkt_by_reg(c, p)}
        /\ p.table \in {95, 99} => phy = {}
    BY Numbers DEF build_flows_phy, TableNumbers
  <2>2. /\ mid \in {{}, redirect_other_chassis(c, p), pipeline_forward(c, p)}
        /\ p.table \notin {95, 99} => mid = {}
    BY Numbers DEF build_flows_mid, TableNumbers
  <2> HIDE DEF phy, mid
  <2>3. \A rules \in {convert_phy_logical(c, p), output_pkt_by_reg(c, p),
                      redirect_other_chassis(c, p), pipeline_forward(c, p)} : Orderly(rules)
    BY PlainTablesAgree, HandoversAgree
  <2>4. phy \cup mid \in {phy, mid}
    BY <2>1, <2>2
  <2>5. Orderly(phy) /\ Orderly(mid)
    BY <1>0, <2>1, <2>2, <2>3
  <2> QED
    BY <2>4, <2>5 DEF phy, mid
<1> QED
  BY <1>1, <1>2, <1>3 DEF build_flows

\* The bridge gave up where the rules of a switch or a router clash.
GaveUp(q) == IsPacket(q) /\ q.fate = "ambiguous" /\ Clash(q.dp)

LEMMA VisitDecides ==
    ASSUME NEW c, \A e \in ct[c] : IsConnection(e), NEW p, OnItsWay(p),
           remote_chassis(c) \subseteq Chassis
    PROVE  Visit(c, p).fate = "ambiguous" => Clash(Visit(c, p).dp)
<1> DEFINE Told(q) == Sound(q) \/ GaveUp(q)
<1>1. ASSUME NEW q, OnItsWay(q) PROVE Told(Resubmit(c, q))
  <2>0. IsPacket(q)
    BY <1>1 DEF OnItsWay
  <2>1. CASE ~Clash(q.dp)
    <3>1. build_flows(c, q) = {} \/ Decisive(build_flows(c, q))
      BY <2>0, <2>1, FlowsAgree, Decided
    <3> QED
      BY <1>1, <3>1, OneTable
  <2>2. CASE Clash(q.dp)
    <3>1. Sound(Resubmit(c, q)) \/ Resubmit(c, q) = [q EXCEPT !.fate = "ambiguous"]
      BY <1>1, OneTable
    <3>2. GaveUp([q EXCEPT !.fate = "ambiguous"])
      <4> DEFINE s == [q EXCEPT !.fate = "ambiguous"]
      <4>1. IsPacket(s) /\ s.fate = "ambiguous" /\ s.dp = q.dp
        BY <1>1, <2>0 DEF OnItsWay, IsPacket, Fields
      <4> HIDE DEF s
      <4>2. GaveUp(s)
        BY <2>2, <4>1 DEF GaveUp
      <4> QED
        BY <4>2 DEF s
    <3> QED
      BY <3>1, <3>2
  <2> QED
    BY <2>1, <2>2
<1>2. \A q : Told(q) => Told(Tables1(c, q))
  BY <1>1 DEF Tables1, Sound, Finished, GaveUp
<1> HIDE DEF Told
<1>3. \A q : Told(q) => Told(Tables4(c, q))
  BY <1>2 DEF Tables4, FourTimes
<1>4. \A q : Told(q) => Told(Tables16(c, q))
  BY <1>3 DEF Tables16, FourTimes
<1>5. \A q : Told(q) => Told(Tables64(c, q))
  BY <1>4 DEF Tables64, FourTimes
<1>6. \A q : Told(q) => Told(Tables256(c, q))
  BY <1>5 DEF Tables256, FourTimes
<1> DEFINE v == Tables256(c, p)
<1>7. Sound(v) \/ GaveUp(v)
  BY <1>6 DEF Told, Sound
<1>8. Visit(c, p) = IF v.fate = "run" THEN [v EXCEPT !.fate = "looping"] ELSE v
  BY DEF Visit
<1> HIDE DEF v
<1>9. CASE v.fate = "run"
  <2>1. IsPacket(v)
    BY <1>7, <1>9 DEF Sound, OnItsWay, Finished, GaveUp
  <2>2. Visit(c, p).fate = "looping"
    BY <1>8, <1>9, <2>1 DEF IsPacket, Fields
  <2> QED
    BY <2>2
<1>10. CASE v.fate # "run"
  BY <1>7, <1>8, <1>10 DEF Sound, OnItsWay, Finished, GaveUp
<1> QED
  BY <1>9, <1>10

\* A step that does not translate gives a packet no such end.
LEMMA AgreeStep == IInv /\ RulesAgree /\ [Next]_vars => RulesAgree'
<1> SUFFICES ASSUME IInv, RulesAgree, [Next]_vars PROVE RulesAgree'
  OBVIOUS
<1>1. CASE Translate
  <2> DEFINE c == pkt.at
             q == Visit(c, pkt)
             v == [q EXCEPT !.up = {}, !.commit = {}]
  <2>1. OnItsWay(pkt)
    BY <1>1 DEF Translate, IInv, ThePacket, NoPkt, Finished, Remembered
  <2>2. c \in Chassis
    BY <2>1 DEF OnItsWay, IsPacket
  <2>3. remote_chassis(c) \subseteq Chassis
    BY <2>2 DEF IInv, ViewTypeOK, remote_chassis, chassis_array
  <2>4. Finished(q) \/ Halted(q)
    BY <2>1, <2>2, Visited DEF IInv
  <2>5. q.fate = "ambiguous" => Clash(q.dp)
    BY <2>1, <2>2, <2>3, VisitDecides DEF IInv
  <2>6. pkt' = IF q.fate = "out" THEN v ELSE Over(q, q.fate, IF q.fate = "ambiguous" THEN q.dp ELSE None)
    BY <1>1 DEF Translate
  <2> HIDE DEF q, c
  <2>7. v.fate = q.fate
    BY <2>4 DEF Finished, Halted, IsPacket, Fields
  <2> HIDE DEF v
  <2>8. CASE q.fate = "ambiguous"
    BY <2>5, <2>6, <2>8 DEF RulesAgree, Over
  <2>9. CASE q.fate # "ambiguous"
    <3>1. pkt'.fate = q.fate
      BY <2>6, <2>7, <2>9 DEF Over
    <3> QED
      BY <2>9, <3>1 DEF RulesAgree
  <2> QED
    BY <2>8, <2>9
<1>2. CASE Transmit
  <2>1. IsPacket(pkt)
    BY <1>2 DEF Transmit, IInv, ThePacket, NoPkt, OnItsWay, Finished, Remembered
  <2>2. CASE pkt.out \in Chassis /\ {pkt.at, pkt.out} \notin broken
    <3>1. pkt' = Arriving
      BY <1>2, <2>2 DEF Transmit, Arriving
    <3>2. OnItsWay(Arriving)
      BY <1>2, <2>2, Arrived DEF Transmit, IInv, ThePacket, NoPkt, OnItsWay, Remembered
    <3> QED
      BY <3>1, <3>2 DEF RulesAgree, OnItsWay
  <2>3. CASE ~(pkt.out \in Chassis /\ {pkt.at, pkt.out} \notin broken)
    BY <1>2, <2>3 DEF Transmit, RulesAgree, Over
  <2> QED
    BY <2>2, <2>3
<1>3. ASSUME NEW c \in Chassis, Controller(c) PROVE RulesAgree'
  <2>1. PICK u \in upcall[c] : LearnArp(c, u) \/ TouchUnknown(c, u) \/ SendArp(c, u)
    BY <1>3 DEF Controller
  <2>2. SendArp(c, u) => pkt'.fate = "run"
    BY DEF SendArp, Entering
  <2>3. LearnArp(c, u) \/ TouchUnknown(c, u) => pkt' = pkt
    BY DEF LearnArp, TouchUnknown
  <2> QED
    BY <2>1, <2>2, <2>3 DEF RulesAgree
<1>4. CASE ChangeNetwork
  <2> DEFINE q == [pkt EXCEPT !.calm = FALSE]
  <2>1. CASE pkt = NoPkt
    BY <1>4, <2>1 DEF ChangeNetwork, RulesAgree, NoPkt
  <2>2. CASE OnItsWay(pkt) \/ (Finished(pkt) /\ pkt.fate = "out")
    <3>1. IsPacket(pkt) /\ pkt.fate \in {"run", "out"}
      BY <2>2 DEF OnItsWay, Finished
    <3>2. q.fate = pkt.fate
      BY <3>1 DEF IsPacket, Fields
    <3>3. pkt' \in {pkt, q}
      BY <1>4 DEF ChangeNetwork
    <3> HIDE DEF q
    <3> QED
      BY <3>1, <3>2, <3>3 DEF RulesAgree
  <2>3. CASE Remembered(pkt)
    <3>1. q.fate = pkt.fate /\ q.to = pkt.to
      BY <2>3 DEF Remembered
    <3>2. pkt' \in {pkt, q}
      BY <1>4 DEF ChangeNetwork
    <3>3. Clash(pkt'.to) <=> Clash(pkt.to)
      BY <3>1, <3>2
    <3> HIDE DEF q
    <3> QED
      BY <3>1, <3>2, <3>3 DEF RulesAgree
  <2> QED
    BY <2>1, <2>2, <2>3 DEF IInv, ThePacket
<1>5. ASSUME NEW o \in Traffic, Send(o) PROVE RulesAgree'
  BY <1>5 DEF Send, Entering, RulesAgree
<1>6. CASE Collect
  BY <1>6 DEF Collect, NoPkt, RulesAgree
<1>7. ASSUME NEW c \in Chassis, SyncView(c) PROVE RulesAgree'
  BY <1>7 DEF SyncView, RulesAgree
<1>8. CASE UNCHANGED vars
  BY <1>8 DEF vars, RulesAgree
<1> QED
  BY <1>1, <1>2, <1>3, <1>4, <1>5, <1>6, <1>7, <1>8 DEF Next

\* In every network of entities that the zoo's index lets stand side by
\* side, on every chassis, whatever it counts in and however old its view is:
\* of the rules that match a packet two of the highest priority do different
\* things only in a table of a switch or router that is itself configured in
\* one of the ways of Clash.  Of everything an operator can configure, nothing
\* else lets what Open vSwitch does depend on the rule that it finds first.
THEOREM RulesNeverContradict == Spec => []RulesAgree
<1>1. Init => RulesAgree
  BY DEF Init, NoPkt, RulesAgree
<1> QED
  BY <1>1, AgreeStep, Invariance, PTL DEF Spec
=============================================================================

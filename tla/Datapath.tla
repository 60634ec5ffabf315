------------------------------ MODULE Datapath ------------------------------
(***************************************************************************)
(* A packet crosses the OpenFlow tables of the chassis.                    *)
(*                                                                         *)
(* Every table that lcp/lflow.py assembles is an operator (c, p): the      *)
(* rules of the table on chassis c that match packet p, each with its      *)
(* priority and the packet after its actions.  The rules are those that    *)
(* follow from the view of c at that moment.  A visit of a packet to a     *)
(* chassis is one step; tunnels, agents, controllers and links interleave  *)
(* with the visits.  Left out: the tracing rules, the UNTUNNEL shortcut.   *)
(***************************************************************************)
EXTENDS LogicalView

CONSTANTS
    Unset,      \* an output register never written
    NoMac,      \* 00:00:00:00:00:00
    AnyMac,     \* ff:ff:ff:ff:ff:ff
    Traffic,    \* what is sent: [from, proto, ethsrc, ethdst, ipsrc, ipdst, conn, ttl]
    Weight,     \* hrw: Weight[conn][d], how much the hash of a connection favours d
    MaxPending  \* bound: upcalls that wait when a packet is sent

VARIABLES
    pkt,     \* the packet on its way, or NoPkt
    upcall,  \* upcall[c]: what the rules of c sent up to the controller
    arp,     \* arp[c]: the rules of SEARCH_IP_MAC: <<ip, mac>>
    ct       \* ct[c]: the NAT connections Open vSwitch tracks: [conn, type, ip, xip]

vars == <<viewVars, pkt, upcall, arp, ct>>

Ports == Vms \cup DOMAIN Patch
Addrs == 0..(2^AddrWidth - 1)

\* A port is not named like a chassis: the bridge tells a tunnel by its name.
\* None, the zero of a register, names no datapath, no port and no message.
ASSUME NamesAssumption ==
    /\ Ports \cap Chassis = {}
    /\ None \notin Switch \cup Router /\ None \notin Ports
    /\ None \notin Traffic /\ None # "nobody"
    /\ \A x \in Ports : PortOf(x).ls \in Switch
    /\ \A l \in Link : l.ls \in Switch /\ l.lr \in Router
    /\ \A x \in DOMAIN Patch : Patch[x].on \in Chassis
    /\ \A o \in Traffic : o.from \in Ports

ASSUME AddressAssumption ==
    /\ 0 \in Addrs
    /\ \A v \in Vms : Vm[v].ip \in Addrs
    /\ \A l \in Link : l.ip \in Addrs
    /\ \A r \in Route : r.hop \in Addrs /\ r.out \in Link
    /\ \A n \in Xlate : n.ip \in Addrs /\ n.xip \in Addrs
    /\ \A o \in Traffic : o.ipsrc \in Addrs /\ o.ipdst \in Addrs

\* Among any chassis the hash of a connection favours one most.
ASSUME WeightAssumption ==
    \A o \in Traffic : \A S \in SUBSET Chassis :
        S # {} => \E d \in S : \A e \in S : Weight[o.conn][d] >= Weight[o.conn][e]

\* What the zoo's index and its numbers see to (ls_view_ip, ls_view_mac,
\* lr_view_ip, lr_view_lnat, ilk_idx: EntityZoo!UniqueInZoo, IlkDistinct).
\* What nothing sees to is no assumption here: see Clash.
ASSUME PortsAssumption ==
    /\ Vms \cap DOMAIN Patch = {}
    \* The address of every patch port is 255.255.255.255.
    /\ \A x, y \in DOMAIN Patch : x # y => Patch[x].ls # Patch[y].ls
    /\ \A x, y \in Ports : x # y /\ PortOf(x).ls = PortOf(y).ls
                         => PortOf(x).ip # PortOf(y).ip /\ PortOf(x).mac # PortOf(y).mac
    /\ \A l, m \in Link : l # m /\ l.ls = m.ls => l.ip # m.ip /\ l.mac # m.mac
    /\ \A l, m \in Link : l # m /\ l.lr = m.lr => l.ip # m.ip
    /\ \A x \in Ports, l \in Link :
          PortOf(x).ls = l.ls => PortOf(x).ip # l.ip /\ PortOf(x).mac # l.mac

\* Two ports or two static routes of a router that lead to one network.
SameNet(x, y) == x.lr = y.lr /\ x.len = y.len /\ InNet(x.ip, y.ip, x.len)
ASSUME RoutesAssumption ==
    /\ AddrWidth \in Nat
    /\ \A x \in Link \cup Route : x.len \in 0..AddrWidth /\ x.idx \in 0..63
    /\ \A l, m \in Link : l # m /\ SameNet(l, m) => l.idx # m.idx
    /\ \A r, s \in Route : r # s /\ SameNet(r, s) => r.idx # s.idx

ASSUME NatAssumption ==
    /\ \A n \in Xlate : n.len \in 0..AddrWidth
    /\ \A n, m \in Xlate : n.xip = m.xip => n.xmac = m.xmac    \* _gen_mac_by_ip
    /\ \A n, m \in Xlate : n # m /\ n.lr = m.lr /\ n.type = m.type /\ n.len = m.len
                           => n.ip # m.ip

-----------------------------------------------------------------------------
(* Packets: registers, headers, and what happened to the packet            *)

\* flow_common.py: the tables a rule names; resubmit_next is the one after.
LSP_INGRESS_FIRST == 1
LOOKUP_DST_PORT == 6
LSP_EGRESS_FIRST == 20
LRP_INGRESS_FIRST == 30
IP_ROUTE == 37
LRP_EGRESS_FIRST == 50
FORWARD_PACKET == 57
OUTPUT_PKT == 94
REDIRECT_CHASSIS == 95
PIPELINE_FORWARD == 99

NoPkt == [fate |-> "none"]
NoTunnel == [dp |-> None, src |-> 0, dst |-> 0, flags |-> {}]

\* A packet that enters the bridge of c through port in: all registers are
\* zero.  reg4 is out, reg6 and reg7 the next router and its port.
Entering(c, in, o) ==
    [fate |-> "run", at |-> c, table |-> 0, in |-> in, tun |-> NoTunnel,
     dp |-> None, src |-> 0, dst |-> 0, reg2 |-> 0, reg3 |-> 0, out |-> Unset,
     reg5 |-> 0, reg6 |-> None, reg7 |-> 0, flags |-> {},
     proto |-> o.proto, ethsrc |-> o.ethsrc, ethdst |-> o.ethdst,
     ipsrc |-> o.ipsrc, ipdst |-> o.ipdst, ttl |-> o.ttl, orig |-> o,
     up |-> {}, commit |-> {}, rerouted |-> 0, calm |-> Settled]

IsIP(p) == p.proto \in {"ip", "echo"}
Go(p, t) == [p EXCEPT !.table = t]                          \* resubmit_table
Onward(p) == Go(p, p.table + 1)                             \* resubmit_next
Drop(p) == [p EXCEPT !.fate = "lost"]
Flag(p, f) == [p EXCEPT !.flags = @ \cup {f}]
Upload(p, u) == [p EXCEPT !.up = @ \cup {u}]
upload_arp(p) == Upload(p, [op |-> "arp", ip |-> p.ipsrc, mac |-> p.ethsrc])
upload_unknow_dst(p) == Upload(p, [op |-> "unknow_dst", ip |-> p.ipdst])
generate_arp(p) ==
    Upload(p, [op |-> "generate_arp", dp |-> p.dp, dst |-> p.dst, tpa |-> p.reg2,
               spa |-> p.reg3, mac |-> p.ethsrc])

\* bundle_load with hrw: the live slave the hash favours most
Bundle(c, p, slaves) ==
    LET live == {d \in slaves : Live(c, d)}
        w == Weight[p.orig.conn]
    IN IF live = {} THEN None ELSE CHOOSE d \in live : \A e \in live : w[d] >= w[e]

\* The rules of a table that match: each with the packet that it makes.
Rule(prio, q) == [prio |-> prio, to |-> q]
RuleIf(match, prio, q) == IF match THEN {Rule(prio, q)} ELSE {}
Default(q) == {Rule(0, q)}
_cal_priority(len, level, idx) == len * 1024 + level * 64 + idx

-----------------------------------------------------------------------------
(* physical_flow.py and middle_table.py                                    *)

extract_metadata(p) ==
    [p EXCEPT !.dp = p.tun.dp, !.src = p.tun.src, !.dst = p.tun.dst, !.flags = p.tun.flags]
embed_metadata(p) ==
    [p EXCEPT !.tun = [dp |-> p.dp, src |-> p.src, dst |-> p.dst, flags |-> p.flags]]

\* The flow-based tunnel port takes what comes from a chassis not known.
convert_phy_logical(c, p) ==
    RuleIf(p.in \in Chassis, 2,
           Go(Flag(extract_metadata(p), "LOOPBACK"), PIPELINE_FORWARD))
    \cup {Rule(2, Onward([p EXCEPT !.src = PortID(PortOf(x).ip), !.dp = PortOf(x).ls])) :
               x \in local_bond_lsp(c) \cap {p.in}}

pipeline_forward(c, p) ==
    RuleIf(IsIP(p) /\ p.ethdst = NoMac /\ "REDIRECT" \in p.flags, 1, Go(p, IP_ROUTE))
    \cup Default(Go(p, LSP_EGRESS_FIRST))

_arp_ip_mac(c) ==
    {[ls |-> x.ls, ip |-> x.ip, mac |-> x.mac] : x \in active_lsp(c)}
    \cup {[ls |-> b[1].ls, ip |-> b[2].xip, mac |-> b[2].xmac] :
              b \in {x \in lsp_link_lrp(c) \X Xlate : x[1].lr = x[2].lr}}

\* A request that has an answer turns around, any other packet stays.
arp_feedback_construct(c, p) ==
    LET answers == {x \in _arp_ip_mac(c) : p.proto = "arpq" /\ x.ls = p.dp /\ x.ip = p.ipdst}
    IN IF answers = {} THEN {p}
       ELSE {[Flag(p, "LOOPBACK") EXCEPT !.proto = "arpr", !.ethdst = p.ethsrc,
                !.ethsrc = x.mac, !.ipsrc = x.ip, !.ipdst = p.ipsrc, !.dst = p.src] :
             x \in answers}

\* Open vSwitch never outputs to the port a packet came in through.
output_pkt_by_reg(c, p) ==
    RuleIf(p.out = None, 1, Drop(p))
    \cup Default(IF p.out \in {p.in, Unset} THEN Drop(p) ELSE [p EXCEPT !.fate = "out"])

\* gateway_ofport: the tunnels to chassis that a router is pinned to
gateway_ofport(c) == {RouterOn[r] : r \in lr_array(c)} \cap remote_chassis(c)
redirect_other_chassis(c, p) ==
    RuleIf(gateway_ofport(c) # {}, 1,
           Go(embed_metadata([Flag(p, "REDIRECT") EXCEPT
                  !.out = Bundle(c, p, gateway_ofport(c)),
                  !.rerouted = IF @ < 2 THEN @ + 1 ELSE @]), OUTPUT_PKT))
    \cup Default(Drop(p))

-----------------------------------------------------------------------------
(* lsp_ingress.py                                                          *)

lsp_arp_controller(c, p) ==
    RuleIf(c \in Gateway /\ p.proto = "arpr", 2, Drop(upload_arp(p)))
    \cup RuleIf(c \notin OnDemand /\ p.proto = "arpq", 1, Onward(upload_arp(p)))
    \cup Default(Onward(p))

lsp_arp_response(c, p) ==
    IF p.proto = "arpq" THEN {Rule(2, Onward(q)) : q \in arp_feedback_construct(c, p)}
    ELSE Default(Onward(p))

lsp_lookup_dst_port(c, p) ==
    LET To(x) == [p EXCEPT !.dst = PortID(x.ip)]
        ls_lsp(S) == {x \in S : x.ls = p.dp /\ x.mac = p.ethdst}
        tunnel(d) == IF c \in Redirecting THEN Bundle(c, p, {d}) ELSE d
    IN {Rule(5, Onward(To(l))) :
            l \in {x \in lsp_link_lrp(c) :
                      x.ls = p.dp /\ \E n \in Xlate : n.lr = x.lr /\ n.xmac = p.ethdst}}
       \cup {Rule(4, Onward(To(x))) : x \in ls_lsp(local_lsp(c))}
       \cup (UNION {{Rule(3, Onward([To(x) EXCEPT !.reg5 = 1, !.out = tunnel(d)])) :
                         x \in ls_lsp(remote_lsp(c, d))} : d \in remote_chassis(c)})
       \cup {Rule(2, Go(To(Patch[x]), LSP_EGRESS_FIRST)) :
                 x \in {y \in local_patchport(c) : Patch[y].ls = p.dp}}
       \cup Default(IF c \in OnDemand
                    THEN Onward([upload_unknow_dst(p) EXCEPT !.out = None, !.reg5 = 1])
                    ELSE Drop(p))

\* Mutant of lsp_output_dst_port: a redirected packet is not dropped.
lsp_output_redirect(c, p) ==
    RuleIf(c \in Redirecting /\ p.reg5 = 1 /\ p.out = None, 3, Go(p, REDIRECT_CHASSIS))
    \cup RuleIf(p.reg5 = 1, 2, Go(embed_metadata(p), OUTPUT_PKT))
    \cup {Rule(1, Go(p, LSP_EGRESS_FIRST))}
lsp_output_dst_port(c, p) ==
    RuleIf(c \in Redirecting /\ p.reg5 = 1 /\ p.out = None /\ "REDIRECT" \in p.flags,
           4, Drop(p))
    \cup RuleIf(c \in Redirecting /\ p.reg5 = 1 /\ p.out = None, 3, Go(p, REDIRECT_CHASSIS))
    \cup RuleIf(p.reg5 = 1, 2, Go(embed_metadata(p), OUTPUT_PKT))
    \cup {Rule(1, Go(p, LSP_EGRESS_FIRST))}

-----------------------------------------------------------------------------
(* lsp_egress.py                                                           *)

lsp_judge_loopback(c, p) ==
    Default(Onward(IF "LOOPBACK" \in p.flags THEN [p EXCEPT !.in = None] ELSE p))

\* The source says of the last two that the ttl is decreased; no action does.
\* Mutant of lsp_forward_packet: the switch of a port is not matched.
lsp_forward_any(c, p) ==
    {Rule(3, Onward([p EXCEPT !.reg5 = 1, !.out = x])) :
        x \in {y \in local_bond_lsp(c) : PortID(PortOf(y).ip) = p.dst}}
    \cup {Rule(2, Onward([p EXCEPT !.reg6 = l.lr, !.reg7 = PortID(l.ip)])) :
              l \in {x \in lsp_link_lrp(c) : x.ls = p.dp /\ PortID(x.ip) = p.dst}}
    \cup RuleIf(IsIP(p), 0, Go(Flag(p, "REDIRECT"), LOOKUP_DST_PORT))
lsp_forward_packet(c, p) ==
    {Rule(3, Onward([p EXCEPT !.reg5 = 1, !.out = x])) :
        x \in {y \in local_bond_lsp(c) :
                  PortOf(y).ls = p.dp /\ PortID(PortOf(y).ip) = p.dst}}
    \cup {Rule(2, Onward([p EXCEPT !.reg6 = l.lr, !.reg7 = PortID(l.ip)])) :
              l \in {x \in lsp_link_lrp(c) : x.ls = p.dp /\ PortID(x.ip) = p.dst}}
    \cup RuleIf(IsIP(p), 0, Go(Flag(p, "REDIRECT"), LOOKUP_DST_PORT))
    \cup {Rule(0, Go(q, LOOKUP_DST_PORT)) :
              q \in {r \in arp_feedback_construct(c, Flag(p, "REDIRECT")) : p.proto = "arpq"}}

lsp_pushout_packet(c, p) ==
    RuleIf(p.reg5 = 1, 2, Go(p, OUTPUT_PKT))
    \cup {Rule(1, Go([p EXCEPT !.dp = p.reg6, !.src = p.reg7, !.reg6 = None, !.reg7 = 0],
                    LRP_INGRESS_FIRST))}

-----------------------------------------------------------------------------
(* lrp_ingress.py, nat.py and ecmp.py                                      *)

\* On a gateway a pinned router answers only while its chassis is registered.
_live_lsp_link_lrp(c) ==
    {l \in lsp_link_lrp(c) :
        c \in Gateway => RouterOn[l.lr] \in {None} \cup chassis_array(c)}

lrp_pkt_response(c, p) ==
    RuleIf(\E l \in _live_lsp_link_lrp(c) : l.lr = p.dp /\ l.ip = p.ipdst /\ p.proto = "echo",
           3, Onward([Flag(p, "LOOPBACK") EXCEPT !.proto = "ip", !.ipsrc = p.ipdst,
                        !.ipdst = p.ipsrc, !.ttl = 255, !.dst = p.src]))
    \cup RuleIf(IsIP(p), 0, Onward(p))

lrp_drop_unexpect(c, p) ==
    RuleIf(IsIP(p), 0, IF p.ttl <= 1 THEN Drop(p) ELSE Onward([p EXCEPT !.ttl = @ - 1]))

\* The connection of p that NAT of this type has rewritten, if it is known.
Tracked(c, p, type) == {e \in ct[c] \cup p.commit : e.conn = p.orig.conn /\ e.type = type}
Commit(p, n, ip) ==
    [p EXCEPT !.commit =
        @ \cup {[conn |-> p.orig.conn, type |-> n.type, ip |-> ip, xip |-> n.xip]}]

\* One address behind another, both ways: no connection is tracked.
OneToOne(c, p) ==
    {n \in lnat_data(c, p.dp, "snat") :
        /\ n.len = AddrWidth
        /\ \E m \in lnat_data(c, p.dp, "dnat") :
               m.len = AddrWidth /\ m.ip = n.ip /\ m.xip = n.xip}

\* What the connection tracker makes of address a, known to it as field by
Restored(c, p, type, a, by, to) ==
    IF \E e \in Tracked(c, p, type) : e[by] = a
    THEN (CHOOSE e \in Tracked(c, p, type) : e[by] = a)[to] ELSE a

lunsnat_xlate_stage1(c, p) ==
    {Rule(2, Onward([p EXCEPT !.ipdst = n.ip])) :
        n \in {x \in OneToOne(c, p) : IsIP(p) /\ x.xip = p.ipdst}}
    \cup RuleIf(IsIP(p) /\ \E n \in lnat_data(c, p.dp, "snat") : n.xip = p.ipdst, 1,
                Onward([p EXCEPT !.ipdst = Restored(c, p, "snat", @, "xip", "ip")]))
    \cup Default(Onward(p))

ldnat_xlate_stage1(c, p) ==
    {Rule(AddrWidth + 1, Onward([Commit(Flag(p, "NAT"), n, n.ip) EXCEPT !.ipdst = n.ip])) :
        n \in {x \in lnat_data(c, p.dp, "dnat") :
                  IsIP(p) /\ x.len = AddrWidth /\ x.xip = p.ipdst}}
    \cup Default(Onward(p))

lundnat_xlate_stage1(c, p) ==
    {Rule(2, Onward([p EXCEPT !.ipsrc = n.xip])) :
        n \in {x \in OneToOne(c, p) : IsIP(p) /\ x.ip = p.ipsrc}}
    \cup RuleIf(IsIP(p) /\ \E n \in lnat_data(c, p.dp, "dnat") : n.ip = p.ipsrc, 1,
                Onward([Flag(p, "NAT") EXCEPT
                           !.ipsrc = Restored(c, p, "dnat", @, "ip", "xip")]))
    \cup Default(Onward(p))

lsnat_xlate_stage1(c, p) ==
    {Rule(n.len + 1, Onward([Commit(Flag(p, "NAT"), n, p.ipsrc) EXCEPT !.ipsrc = n.xip])) :
        n \in {x \in lnat_data(c, p.dp, "snat") : IsIP(p) /\ InNet(p.ipsrc, x.ip, x.len)}}
    \cup Default(Onward(p))

\* lundnat_xlate_stage2 and lsnat_xlate_stage2
xlate_src_mac(c, p, type) ==
    {Rule(1, Onward([p EXCEPT !.ethsrc = n.xmac])) :
        n \in {x \in lnat_data(c, p.dp, type) :
                  IsIP(p) /\ "NAT" \in p.flags /\ x.xip = p.ipsrc}}
    \cup Default(Onward(p))

\* The packet is sent out through router port l towards address hop.
Routed(p, l, hop) ==
    Onward([p EXCEPT !.dst = PortID(l.ip), !.ethsrc = l.mac, !.reg2 = hop, !.reg3 = l.ip])

\* A static route counts if the router it leads to can be reached, on a
\* gateway also if it leads out through a patch port.
_next_live_hop_lr(c, l) ==
    \E r \in next_hop_lr(c, l) : RouterOn[r] \in {None, c} \cup remote_chassis(c)
_static_route_changed(c, r) ==
    \/ _next_live_hop_lr(c, r.out)
    \/ /\ c \in Gateway /\ RouterOn[r.out.lr] = c
       /\ \E x \in local_patchport(c) : Patch[x].ls = r.out.ls

\* Routes of one prefix and next hop through several ports, each with a tunnel
ecmp_aggregate_outport(c, r) ==
    UNION {next_hop_ovsport(c, a.out) :
        a \in {x \in Route :
                  /\ x.lr = r.lr /\ x.ip = r.ip /\ x.len = r.len
                  /\ \E b \in Route : /\ b.lr = x.lr /\ b.ip = x.ip /\ b.len = x.len
                                      /\ b.hop = x.hop /\ b.out # x.out
                                      /\ next_hop_ovsport(c, b.out) # {}}}

lrp_ip_route(c, p) ==
    LET here == {r \in Route : IsIP(p) /\ r.lr = p.dp /\ InNet(p.ipdst, r.ip, r.len)}
    IN {Rule(_cal_priority(l.len, 0, l.idx), Routed(p, l, p.ipdst)) :
                  l \in {x \in lsp_link_lrp(c) :
                            IsIP(p) /\ x.lr = p.dp /\ InNet(p.ipdst, x.ip, x.len)}}
       \cup {Rule(_cal_priority(r.len, 1, r.idx), Routed(p, r.out, r.hop)) :
                       r \in {x \in here : _static_route_changed(c, x)}}
       \cup {Rule(_cal_priority(r.len, 2, 0),
                        Onward([p EXCEPT !.out = Bundle(c, p, ecmp_aggregate_outport(c, r))])) :
                       r \in {x \in here : c \notin Gateway /\ ecmp_aggregate_outport(c, x) # {}}}
       \cup Default(Drop(p))

lrp_ecmp_judge(c, p) ==
    {Rule(_cal_priority(r.len, 2, 0), Routed(p, r.out, r.hop)) :
               r \in {x \in Route : /\ c \notin Gateway /\ IsIP(p) /\ x.lr = p.dp
                                    /\ InNet(p.ipdst, x.ip, x.len)
                                    /\ p.out \in next_hop_ovsport(c, x.out)}}
    \cup RuleIf(c \notin Gateway /\ p.out = None, 1, Drop(p))
    \cup Default(Onward(p))

-----------------------------------------------------------------------------
(* lrp_egress.py                                                           *)

\* The switch ports across router port l: all exchange ports, the machines
\* counted in
opposite_side_changed_lsp(c, l) ==
    {x \in Link : x.ls = l.ls}
    \cup {Patch[x] : x \in {y \in DOMAIN Patch : Patch[y].ls = l.ls}}
    \cup {Vm[v] : v \in {w \in lsp_array(c) : Vm[w].ls = l.ls}}
LinksOf(c, p) == {l \in lsp_link_lrp(c) : l.lr = p.dp /\ PortID(l.ip) = p.dst}

\* The table SEARCH_IP_MAC, after the destination was cleared
search_ip_mac(c, p) ==
    [p EXCEPT !.ethdst = IF \E e \in arp[c] : e[1] = p.reg2 /\ IsIP(p)
                         THEN (CHOOSE e \in arp[c] : e[1] = p.reg2)[2] ELSE NoMac]

\* Mutant of lrp_update_eth_dst: the router port is not matched.
lrp_update_eth_dst_any(c, p) ==
    {Rule(3, Onward([p EXCEPT !.ethdst = x.mac])) :
        x \in {y \in UNION {opposite_side_changed_lsp(c, l) :
                                l \in {m \in lsp_link_lrp(c) : m.lr = p.dp}} :
                  IsIP(p) /\ y.ip = p.reg2}}
    \cup {Rule(2, Onward(search_ip_mac(c, p)))}
lrp_update_eth_dst(c, p) ==
    {Rule(3, Onward([p EXCEPT !.ethdst = x.mac])) :
        x \in {y \in UNION {opposite_side_changed_lsp(c, l) : l \in LinksOf(c, p)} :
                  IsIP(p) /\ y.ip = p.reg2}}
    \cup {Rule(2, Onward(search_ip_mac(c, p)))}

lrp_handle_unknow_dst_pkt(c, p) ==
    LET unknown == p.ethdst = NoMac
        ask == IF c \in OnDemand THEN upload_unknow_dst(p) ELSE p
    IN RuleIf(unknown /\ "REDIRECT" \in p.flags, 4, Drop(p))
       \cup RuleIf(/\ unknown /\ IsIP(p)
                   /\ \E l \in LinksOf(c, p), x \in local_patchport(c) : Patch[x].ls = l.ls,
                   3, Drop(generate_arp(p)))
       \cup RuleIf(unknown /\ IsIP(p) /\ c \in Redirecting,
                   2, Go(Flag(ask, "REDIRECT"), REDIRECT_CHASSIS))
       \cup RuleIf(unknown /\ IsIP(p) /\ c \notin Redirecting /\ c \in OnDemand, 2, Drop(ask))
       \cup RuleIf(unknown, 1, Drop(p))
       \cup Default(Onward(p))

lrp_forward_packet(c, p) ==
    {Rule(3, Onward([p EXCEPT !.dp = l.ls, !.src = PortID(l.ip)])) : l \in LinksOf(c, p)}

-----------------------------------------------------------------------------
(* lflow.py: the tables in their order, and what is left without a rule    *)

build_flows_phy(c, p) ==
    CASE p.table = 0 -> convert_phy_logical(c, p)
      [] p.table = OUTPUT_PKT -> output_pkt_by_reg(c, p)
      [] OTHER -> {}

build_flows_mid(c, p) ==
    CASE p.table = REDIRECT_CHASSIS -> redirect_other_chassis(c, p)
      [] p.table = PIPELINE_FORWARD -> pipeline_forward(c, p)
      [] OTHER -> {}

\* But for the first tables, the rules of a switch match its datapath.
build_flows_lsp(c, p) ==
    IF p.table \notin {1, 2, 20} /\ p.dp \notin Switch THEN {} ELSE
    CASE p.table = 1 -> Default(Onward([p EXCEPT !.dst = 0]))
      [] p.table \in {2, 20} -> Default(Onward(p))
      [] p.table = 3 -> lsp_arp_controller(c, p)
      [] p.table = 4 -> lsp_arp_response(c, p)
      [] p.table = 5 -> Default(Onward(p))
      [] p.table = 6 -> lsp_lookup_dst_port(c, p)
      [] p.table = 7 -> lsp_output_dst_port(c, p)
      [] p.table = 21 -> lsp_judge_loopback(c, p)
      [] p.table = 22 -> lsp_forward_packet(c, p)
      [] p.table = 23 -> lsp_pushout_packet(c, p)
      [] OTHER -> {}

\* But for the first and the last, the rules of a router match its datapath.
build_flows_lrp(c, p) ==
    IF p.table \notin {30, 39, 50, 58} /\ p.dp \notin lr_array(c) THEN {} ELSE
    CASE p.table = 30 -> Default(Onward([p EXCEPT !.dst = 0]))
      [] p.table = 39 -> Default(Go(p, LRP_EGRESS_FIRST))
      [] p.table = 50 -> Default(Onward(p))
      [] p.table = 58 -> Default(Go(p, LSP_INGRESS_FIRST))
      [] p.table = 31 -> lrp_pkt_response(c, p)
      [] p.table = 32 -> lrp_drop_unexpect(c, p)
      [] p.table = 33 -> lunsnat_xlate_stage1(c, p)
      [] p.table = 35 -> ldnat_xlate_stage1(c, p)
      [] p.table \in {34, 36} -> Default(Onward(p))
      [] p.table = 37 -> lrp_ip_route(c, p)
      [] p.table = 38 -> lrp_ecmp_judge(c, p)
      [] p.table = 51 -> lundnat_xlate_stage1(c, p)
      [] p.table = 52 -> xlate_src_mac(c, p, "dnat")
      [] p.table = 53 -> lsnat_xlate_stage1(c, p)
      [] p.table = 54 -> xlate_src_mac(c, p, "snat")
      [] p.table = 55 -> lrp_update_eth_dst(c, p)
      [] p.table = 56 -> lrp_handle_unknow_dst_pkt(c, p)
      [] p.table = 57 -> lrp_forward_packet(c, p)
      [] OTHER -> {}

build_flows(c, p) ==
    IF p.table \in 1..29 THEN build_flows_lsp(c, p)
    ELSE IF p.table \in 30..59 THEN build_flows_lrp(c, p)
    ELSE build_flows_phy(c, p) \cup build_flows_mid(c, p)

\* One table: the rule of the highest priority; none matches, the packet
\* is gone; two that disagree, and the result is anybody's guess.
Resubmit(c, p) ==
    LET rules == build_flows(c, p)
        best == {r.to : r \in {x \in rules : \A y \in rules : y.prio <= x.prio}}
    IN IF rules = {} THEN Drop(p)
       ELSE IF Cardinality(best) = 1 THEN CHOOSE q \in best : TRUE
       ELSE [p EXCEPT !.fate = "ambiguous"]

\* So many tables, fewer if the bridge is done with the packet earlier.
FourTimes(Op(_, _), c, p) ==
    IF p.fate = "run" THEN Op(c, Op(c, Op(c, Op(c, p)))) ELSE p
Tables1(c, p) == IF p.fate = "run" THEN Resubmit(c, p) ELSE p
Tables4(c, p) == FourTimes(Tables1, c, p)
Tables16(c, p) == FourTimes(Tables4, c, p)
Tables64(c, p) == FourTimes(Tables16, c, p)
Tables256(c, p) == FourTimes(Tables64, c, p)

\* A packet that passes 256 tables of one chassis would pass them for ever.
Visit(c, p) ==
    LET q == Tables256(c, p)
    IN IF q.fate = "run" THEN [q EXCEPT !.fate = "looping"] ELSE q

-----------------------------------------------------------------------------
(* A packet from the sender to its end                                     *)

HomeOf(x) == IF x \in Vms THEN plugged[x] ELSE Patch[x].on

\* What is remembered of a packet once it is over.
Over(p, fate, to) ==
    [fate |-> fate, to |-> to, orig |-> p.orig, calm |-> p.calm, rerouted |-> p.rerouted]

\* From outside an address of NAT is sent to in answer only.
Opened(o) ==
    (\E n \in Xlate : n.type = "snat" /\ n.xip = o.ipdst) =>
        \E c \in Chassis : \E e \in ct[c] : e.conn = o.conn

Send(o) ==
    /\ pkt = NoPkt /\ Opened(o) /\ Cardinality(UNION {upcall[c] : c \in Chassis}) <= MaxPending
    /\ pkt' = Entering(HomeOf(o.from), o.from, o)
    /\ UNCHANGED <<viewVars, upcall, arp, ct>>

\* Open vSwitch runs the tables; what they send to the controller is queued.
Translate ==
    /\ pkt.fate = "run"
    /\ \E c \in {pkt.at} : \E q \in {Visit(c, pkt)} :
          /\ pkt' = IF q.fate = "out" THEN [q EXCEPT !.up = {}, !.commit = {}]
                    ELSE Over(q, q.fate, IF q.fate = "ambiguous" THEN q.dp ELSE None)
          /\ upcall' = [upcall EXCEPT ![c] = @ \cup q.up]
          /\ ct' = [ct EXCEPT ![c] = @ \cup q.commit]
    /\ UNCHANGED <<viewVars, arp>>

\* Over a tunnel a packet takes its headers and its metadata with it.
Transmit ==
    /\ pkt.fate = "out"
    /\ pkt' = IF pkt.out \in Chassis
              THEN IF {pkt.at, pkt.out} \in broken THEN Over(pkt, "lost", None)
                   ELSE [Entering(pkt.out, pkt.at, pkt.orig) EXCEPT
                            !.tun = pkt.tun, !.proto = pkt.proto, !.ethsrc = pkt.ethsrc,
                            !.ethdst = pkt.ethdst, !.ipsrc = pkt.ipsrc, !.ipdst = pkt.ipdst,
                            !.ttl = pkt.ttl, !.calm = pkt.calm, !.rerouted = pkt.rerouted]
              ELSE Over(pkt, IF HomeOf(pkt.out) = pkt.at THEN "delivered" ELSE "lost", pkt.out)
    /\ UNCHANGED <<viewVars, upcall, arp, ct>>

Collect ==
    /\ pkt.fate \in {"delivered", "lost"}
    /\ pkt' = NoPkt
    /\ UNCHANGED <<viewVars, upcall, arp, ct>>

\* process_arp, update_ovs_arp_ip_mac: the last binding of an address counts.
\* Mutant of LearnArp: the address asked, not the one that asks.
LearnArpTarget(c, u) ==
    /\ u.op = "arp"
    /\ arp' = [arp EXCEPT ![c] = @ \cup {<<u.ip, AnyMac>>}]
    /\ UNCHANGED <<viewVars, pkt, ct>>
LearnArp(c, u) ==
    /\ u.op = "arp"
    /\ arp' = [arp EXCEPT ![c] = {e \in @ : e[1] # u.ip} \cup {<<u.ip, u.mac>>}]
    /\ UNCHANGED <<viewVars, pkt, ct>>

TouchUnknown(c, u) ==
    /\ u.op = "unknow_dst"
    /\ touched' = [touched EXCEPT ![c] = TouchedBy(c, u.ip)]
    /\ UNCHANGED <<plugged, db, view, broken, changes, pkt, arp, ct>>

\* The controller builds a request and resubmits it to the named table.
SendArp(c, u) ==
    /\ u.op = "generate_arp" /\ pkt = NoPkt
    /\ LET o == [from |-> c, proto |-> "arpq", ethsrc |-> u.mac, ethdst |-> AnyMac,
                 ipsrc |-> u.spa, ipdst |-> u.tpa, conn |-> None, ttl |-> 0]
       IN pkt' = [Entering(c, None, o) EXCEPT !.table = FORWARD_PACKET,
                     !.dp = u.dp, !.dst = u.dst]
    /\ UNCHANGED <<viewVars, arp, ct>>

\* pkt_controller hands the agent one message at a time.
Controller(c) ==
    \E u \in upcall[c] :
        /\ upcall' = [upcall EXCEPT ![c] = @ \ {u}]
        /\ LearnArp(c, u) \/ TouchUnknown(c, u) \/ SendArp(c, u)

\* A packet that was on its way during a change does not count as calm.
ChangeNetwork ==
    /\ Change
    /\ pkt' = IF pkt = NoPkt THEN pkt ELSE [pkt EXCEPT !.calm = FALSE]
    /\ UNCHANGED <<upcall, arp, ct>>
SyncView(c) == Sync(c) /\ UNCHANGED <<pkt, upcall, arp, ct>>

Init ==
    /\ ViewInit /\ pkt = NoPkt
    /\ upcall = [c \in Chassis |-> {}]
    /\ arp = [c \in Chassis |-> {}]
    /\ ct = [c \in Chassis |-> {}]

Next ==
    \/ \E o \in Traffic : Send(o)
    \/ Translate \/ Transmit \/ Collect
    \/ \E c \in Chassis : Controller(c) \/ SyncView(c)
    \/ ChangeNetwork

Spec == Init /\ [][Next]_vars

\* Bridges and links are busy, agents catch up; nothing forces a change.
\* The first two are the weak fairness of Translate and Transmit, which are
\* enabled just while the packet has that fate and are alone to end it.
Fairness == /\ []<>(pkt.fate # "run") /\ []<>(pkt.fate # "out")
            /\ \A c \in Chassis : WF_vars(SyncView(c))
FairSpec == Spec /\ Fairness

-----------------------------------------------------------------------------
(* Properties                                                              *)

\* The link addresses that a frame may come from.
Macs == {Vm[v].mac : v \in Vms} \cup {l.mac : l \in Link} \cup {n.xmac : n \in Xlate}
        \cup {o.ethsrc : o \in Traffic}

TypeOK ==
    /\ ViewTypeOK
    /\ pkt.fate \in {"none", "run", "out", "delivered", "lost", "ambiguous", "looping"}
    /\ arp \in [Chassis -> SUBSET (Addrs \X Macs)]

\* The switches and routers that router ports connect with a switch, and the
\* ports there.  Two tenants without a router between them may use the same
\* addresses.
Closed == {D \in SUBSET (Switch \cup Router) : \A l \in Link : l.ls \in D <=> l.lr \in D}
Zone == [s \in Switch |-> {t \in Switch \cup Router : \A D \in Closed : s \in D => t \in D}]
Connected(o) == {x \in Ports : PortOf(x).ls \in Zone[PortOf(o.from).ls]}

\* Whoever a packet may reach: its addressee, what stands for the addressee
\* behind NAT, its own sender for a question to the network, or the world.
Recipients(o) ==
    LET zone == Zone[PortOf(o.from).ls]
        vms == {v \in Vms \cap Connected(o) : Vm[v].ip = o.ipdst}
        behind == {n \in Xlate : n.lr \in zone /\ n.xip = o.ipdst}
    IN IF o.proto = "arpq" \/ \E l \in Link : l.ls \in zone /\ l.ip = o.ipdst THEN {o.from}
       ELSE IF vms # {} THEN vms
       ELSE IF behind # {}
       THEN {v \in Vms \cap Connected(o) :
                \/ \E n \in behind : n.type = "dnat" /\ n.ip = Vm[v].ip
                \/ \E t \in Traffic : t.from = v /\ t.conn = o.conn}
       ELSE IF o.from \in DOMAIN Patch THEN {} ELSE DOMAIN Patch \cap Connected(o)

\* What the network asks for itself is no message of its users.
Sent == pkt # NoPkt /\ pkt.orig \in Traffic
Underway == IF Sent THEN pkt.orig ELSE None
Outcome == IF ~Sent THEN None
           ELSE IF pkt.fate = "delivered" THEN pkt.to
           ELSE IF pkt.fate = "lost" THEN "nobody" ELSE None
Network == INSTANCE LogicalNetwork WITH
    Message <- Traffic, NoMessage <- None, Nobody <- "nobody",
    msg <- Underway, result <- Outcome
Tenants == INSTANCE LogicalNetwork WITH
    Message <- Traffic, NoMessage <- None, Nobody <- "nobody", Recipients <- Connected,
    msg <- Underway, result <- Outcome

\* The tables, the tunnels and the agents together implement the network:
\* with stale views, redirection and NAT a packet still reaches nobody but
\* its addressee, and it ends, though nothing decreases its ttl between two
\* chassis of one switch.
ImplementsNetwork == Network!Spec

\* Whatever the chassis believe, whichever register or metadata is left over
\* from an earlier table or another chassis: a packet has one outcome, and
\* no port gets it that routers do not connect with its sender.
KeepsTenantsApart == Tenants!Init /\ [][Tenants!Next]_(Tenants!vars)

\* What nobody looks at when an operator configures switch s: ports alike in
\* the low bits of their addresses, an outer address of NAT that is also a
\* port's, and one outer link address behind two router ports.
SameId(S) == \E a, b \in S : a # b /\ PortID(a) = PortID(b)
ClashOnSwitch(s) ==
    \/ SameId(SwitchPorts(s))
    \/ \E l \in Link, n \in Xlate : l.ls = s /\ n.lr = l.lr /\ n.xip \in SwitchPorts(s)
    \/ \E l, m \in Link, n, k \in Xlate :
          /\ l # m /\ l.ls = s /\ m.ls = s
          /\ n.lr = l.lr /\ k.lr = m.lr /\ n.xmac = k.xmac

\* And when one configures router r: such ports, a router port of no prefix
\* (its rule ties with the one that drops), two routes to one network that
\* are spelled differently or lead apart over one chassis, one inner network
\* behind two outer addresses and one outer address before two inner ones.
Roads(a) ==
    {RouterOn[l.lr] : l \in {m \in Link : m.ls = a.out.ls /\ m.lr # a.out.lr}} \ {None}
ClashOnRouter(r) ==
    \/ SameId(RouterPorts(r))
    \/ \E l \in Link : l.lr = r /\ l.len = 0 /\ l.idx = 0
    \/ \E a, b \in Route :
          /\ a.lr = r /\ SameNet(a, b)
          /\ \/ a.ip # b.ip
             \/ (a.out # b.out \/ a.hop # b.hop) /\ Roads(a) \cap Roads(b) # {}
    \/ \E n, m \in Xlate :
          /\ n.lr = r /\ SameNet(n, m) /\ n.xip # m.xip
          /\ n.type = "snat" /\ m.type = "snat"
    \/ \E n, m \in Xlate :
          /\ n # m /\ n.lr = r /\ m.lr = r /\ n.xip = m.xip
          /\ n.type = "dnat" /\ m.type = "dnat" /\ n.len = AddrWidth /\ m.len = AddrWidth
Clash(d) == ClashOnSwitch(d) \/ ClashOnRouter(d)

\* The rules of a table contradict each other only on a switch or router
\* whose own configuration clashes in one of these ways: whatever a chassis
\* counts in, however old its view and whatever clashes elsewhere, of the
\* rules that match a packet those of the highest priority do the same.
RulesAgree == pkt.fate = "ambiguous" => Clash(pkt.to)

\* And they never resubmit a packet for ever, though the table that looks a
\* port up and the one that hands the packet over send it to each other.
VisitsEnd == pkt.fate # "looping"

\* The comments of middle_table, lsp_ingress and lrp_egress: a packet is
\* handed to an edge for help at most once, or it would loop.
RedirectedAtMostOnce == pkt # NoPkt => pkt.rerouted <= 1

\* While nothing changes no packet is lost, though an on-demand chassis
\* counts in only what it has asked for, an edge may have been removed and
\* tunnels may be down: an edge forwards for the on-demand chassis, and the
\* routes avoid what does not answer.  Excused: a machine across a broken
\* link, the world before an edge has learnt the way out, a deleted edge.
Excused(o, at) ==
    \/ broken # {} /\ Recipients(o) \subseteq Vms
    \/ /\ Recipients(o) \subseteq DOMAIN Patch /\ at \in Gateway
       /\ ~\E e \in arp[at] : e[1] = o.ipdst
    \/ HomeOf(o.from) \notin db.chassis
CalmDelivery ==
    [][pkt.fate \in {"run", "out"} /\ pkt'.fate = "lost" /\ pkt.calm
          /\ Sent /\ pkt.orig.proto # "arpr"
       => Excused(pkt.orig, pkt.at)]_vars
=============================================================================

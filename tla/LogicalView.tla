---------------------------- MODULE LogicalView ----------------------------
(***************************************************************************)
(* What each chassis knows of the virtual network.                         *)
(*                                                                         *)
(* etcd holds the chassis of every port and the registered chassis; an     *)
(* agent publishes the ports plugged into its bridge (lcp/tuplesync.py),   *)
(* applies what the others wrote whenever its replica moves on, and, with  *)
(* the ONDEMAND option, counts an entity in only once it was touched.      *)
(* From the entities counted in follow the joins of                        *)
(* lcp/logicalview.py, init_entity_clause, which all the rules are built   *)
(* from.  Switches, routers, links, routes and NAT do not change here.     *)
(*                                                                         *)
(* The joins are given for settled clauses: how a change of an entity      *)
(* becomes a change of the rules is the subject of FlowSync.  The tunnel   *)
(* to a chassis comes and goes with the chassis.                           *)
(***************************************************************************)
EXTENDS Integers, FiniteSets

CONSTANTS
    Chassis, None,
    Gateway, OnDemand, Redirecting,  \* chassis with the option GATEWAY, ONDEMAND, ENABLE_REDIRECT
    RouterOn,   \* router -> the chassis it is pinned to, or None
    Switch,
    Vm,         \* logical port of a machine -> [ls, ip, mac]
    Patch,      \* patch port -> [ls, ip, mac, on]: on is its chassis
    Link,       \* [ls, lr, ip, len, mac, idx]: a router port and its peer switch port
    Route,      \* static routes [lr, ip, len, hop, out, idx]: out is a Link
    Xlate,        \* [lr, type, ip, len, xip, xmac]
    AddrWidth,  \* bits of an address (32)
    PortIdWidth,  \* bits of a port ID (16)
    Home,       \* bound: where each port is plugged at first
    Movable, Breakable, Deletable,   \* bound: ports, links and chassis that change
    MaxChanges  \* bound: how many such changes

VARIABLES
    plugged,  \* plugged[v]: the chassis whose bridge has the interface of v
    db,       \* etcd: [at: port -> chassis, chassis: registered chassis]
    view,     \* view[c]: db as the agent of c last applied it
    touched,  \* touched[c]: the ports and chassis counted in on c
    broken,   \* links of the underlay that lose everything
    changes

viewVars == <<plugged, db, view, touched, broken, changes>>

Vms == DOMAIN Vm
Router == DOMAIN RouterOn

\* portID of a switch port and of a router port: the low bits of the address.
PortID(ip) == ip % 2^PortIdWidth
InNet(ip, net, len) == ip \div 2^(AddrWidth - len) = net \div 2^(AddrWidth - len)

SwitchPorts(s) ==
    {Vm[v].ip : v \in {x \in Vms : Vm[x].ls = s}}
    \cup {l.ip : l \in {x \in Link : x.ls = s}}
    \cup {Patch[x].ip : x \in {y \in DOMAIN Patch : Patch[y].ls = s}}
RouterPorts(r) == {l.ip : l \in {x \in Link : x.lr = r}}

ASSUME ChassisAssumption ==
    /\ Gateway \subseteq Chassis /\ OnDemand \subseteq Chassis
    /\ Redirecting \subseteq Chassis /\ None \notin Chassis
    /\ \A r \in Router : RouterOn[r] \in Gateway \cup {None}
    /\ Home \in [Vms -> Chassis \ Gateway]

ASSUME BoundsAssumption == MaxChanges \in Nat

-----------------------------------------------------------------------------
(* Touching: which entities of its replica a chassis counts in             *)

\* _should_touch of a port and of a chassis, _touch_gateway_by_LR and
\* _touch_gateway_by_chassis
BornTouched(c, d) ==
    {v \in Vms : c \notin OnDemand \/ d.at[v] = c}
    \cup {e \in d.chassis : c \notin OnDemand \/ e = c \/ \E r \in Router : RouterOn[r] = e}

\* An entity that comes anew is touched or not as at birth, one that stays
\* as it was keeps its state.
TouchedAfter(c, d) ==
    BornTouched(c, d)
    \cup {v \in touched[c] \cap Vms : d.at[v] = view[c].at[v]}
    \cup (touched[c] \cap view[c].chassis \cap d.chassis)

\* process_unknow_dst: every port with the address, and its chassis; the
\* chassis of a port without one is not looked up.
Wanted(c, ip) == {v \in Vms : Vm[v].ip = ip}
TouchedBy(c, ip) ==
    touched[c] \cup Wanted(c, ip)
    \cup ({view[c].at[v] : v \in Wanted(c, ip)} \cap view[c].chassis)

-----------------------------------------------------------------------------
(* init_entity_clause: the joins, as chassis c sees them                   *)

chassis_array(c) == view[c].chassis \cap touched[c]
lsp_array(c) == Vms \cap touched[c]
remote_chassis(c) == chassis_array(c) \ {c}

\* An unpinned router, one pinned to a known chassis, one pinned here (even
\* after this chassis was deleted).
lr_array(c) ==
    {r \in Router : RouterOn[r] \in {None, c} \cup chassis_array(c)}
lsp_link_lrp(c) == {l \in Link : l.lr \in lr_array(c)}

local_patchport(c) == {x \in DOMAIN Patch : Patch[x].on = c}
\* Ports with an interface on this bridge: a machine's only if etcd says so.
local_bond_lsp(c) ==
    {v \in lsp_array(c) : plugged[v] = c /\ view[c].at[v] = c} \cup local_patchport(c)
PortOf(x) == IF x \in Vms THEN Vm[x] ELSE Patch[x]

\* Mutant of local_lsp: a machine's interface need not be on the bridge.
local_lsp_any(c) ==
    {[ls |-> l.ls, ip |-> l.ip, mac |-> l.mac] :
        l \in {m \in lsp_link_lrp(c) : RouterOn[m.lr] \in {None, c}}}
    \cup {[ls |-> PortOf(x).ls, ip |-> PortOf(x).ip, mac |-> PortOf(x).mac] :
              x \in {v \in lsp_array(c) : view[c].at[v] = c} \cup local_patchport(c)}
local_lsp(c) ==
    {[ls |-> l.ls, ip |-> l.ip, mac |-> l.mac] :
        l \in {m \in lsp_link_lrp(c) : RouterOn[m.lr] \in {None, c}}}
    \cup {[ls |-> PortOf(x).ls, ip |-> PortOf(x).ip, mac |-> PortOf(x).mac] :
              x \in local_bond_lsp(c)}

active_lsp(c) ==
    {Vm[v] : v \in {w \in lsp_array(c) : view[c].at[w] \in chassis_array(c)}}
    \cup {[ls |-> l.ls, ip |-> l.ip, mac |-> l.mac] : l \in lsp_link_lrp(c)}

\* The ports that live on chassis d.
remote_lsp(c, d) ==
    IF d \notin remote_chassis(c) THEN {}
    ELSE {Vm[v] : v \in {w \in lsp_array(c) : view[c].at[w] = d}}
         \cup {[ls |-> l.ls, ip |-> l.ip, mac |-> l.mac] :
                   l \in {m \in lsp_link_lrp(c) : RouterOn[m.lr] = d}}

\* The routers across the switch of link l, and the tunnels to them.
next_hop_lr(c, l) ==
    {m.lr : m \in {x \in lsp_link_lrp(c) :
                       /\ x.ls = l.ls /\ x.lr # l.lr /\ l.lr \in lr_array(c)}}
next_hop_ovsport(c, l) == {RouterOn[r] : r \in next_hop_lr(c, l)} \cap remote_chassis(c)

lnat_data(c, r, type) == {n \in Xlate : r \in lr_array(c) /\ n.lr = r /\ n.type = type}

-----------------------------------------------------------------------------
(* Tunnels and BFD                                                         *)

\* ecmp_bfd_port: a gateway watches all its tunnels until its own chassis is
\* deleted, the others those that their static routes lead to.
\* Mutant of ecmp_bfd_port: a gateway has no end of the sessions.
ecmp_bfd_port_node(c) ==
    UNION {next_hop_ovsport(c, r.out) : r \in {x \in Route : x.lr \in lr_array(c)}}
ecmp_bfd_port(c) ==
    IF c \in Gateway
    THEN IF c \in view[c].chassis THEN remote_chassis(c) ELSE {}
    ELSE UNION {next_hop_ovsport(c, r.out) : r \in {x \in Route : x.lr \in lr_array(c)}}

\* A tunnel that is not watched counts as live; a session needs both ends.
Live(c, d) == d \in ecmp_bfd_port(c) => {c, d} \notin broken /\ c \in ecmp_bfd_port(d)

-----------------------------------------------------------------------------
(* Changes of the network                                                  *)

\* A machine migrates: its interface disappears here and appears there.
Move(v, c) ==
    /\ changes < MaxChanges /\ changes' = changes + 1
    /\ plugged[v] # c /\ plugged' = [plugged EXCEPT ![v] = c]
    /\ UNCHANGED <<db, view, touched, broken>>

\* update_lsp_chassis, generate_lsp_kv: the interface is here, the replica
\* says the port is elsewhere.  An unplugged port is not withdrawn.
Publish(c, v) ==
    /\ plugged[v] = c /\ view[c].at[v] # c
    /\ db' = [db EXCEPT !.at[v] = c]
    /\ UNCHANGED <<plugged, view, touched, broken, changes>>

\* An operator removes a chassis; its agent runs on.
DeleteChassis(d) ==
    /\ changes < MaxChanges /\ changes' = changes + 1
    /\ d \in db.chassis /\ db' = [db EXCEPT !.chassis = @ \ {d}]
    /\ UNCHANGED <<plugged, view, touched, broken>>

\* The agent of c applies what its replica has.
\* Mutant of Sync: what concerns a port plugged here is taken for an echo.
SyncOthers(c) ==
    LET d == [db EXCEPT !.at = [v \in Vms |-> IF plugged[v] = c THEN view[c].at[v] ELSE @[v]]]
    IN /\ view[c] # d
       /\ view' = [view EXCEPT ![c] = d]
       /\ touched' = [touched EXCEPT ![c] = TouchedAfter(c, d)]
       /\ UNCHANGED <<plugged, db, broken, changes>>
Sync(c) ==
    /\ view[c] # db
    /\ view' = [view EXCEPT ![c] = db]
    /\ touched' = [touched EXCEPT ![c] = TouchedAfter(c, db)]
    /\ UNCHANGED <<plugged, db, broken, changes>>

LinkDown(e) ==
    /\ changes < MaxChanges /\ changes' = changes + 1
    /\ e \notin broken /\ broken' = broken \cup {e}
    /\ UNCHANGED <<plugged, db, view, touched>>

LinkUp(e) ==
    /\ e \in broken /\ broken' = broken \ {e}
    /\ UNCHANGED <<plugged, db, view, touched, changes>>

\* Every agent is up to date, every port published.
Settled == db.at = plugged /\ \A c \in Chassis : view[c] = db

ViewInit ==
    /\ plugged = Home
    /\ db = [at |-> plugged, chassis |-> Chassis]
    /\ view = [c \in Chassis |-> db]
    /\ touched = [c \in Chassis |-> BornTouched(c, db)]
    /\ broken = {} /\ changes = 0

Change ==
    \/ \E v \in Movable, c \in Chassis \ Gateway : Move(v, c)
    \/ \E c \in Chassis, v \in Movable : Publish(c, v)
    \/ \E d \in Deletable : DeleteChassis(d)
    \/ \E e \in Breakable : LinkDown(e) \/ LinkUp(e)

ViewTypeOK ==
    /\ plugged \in [Vms -> Chassis]
    /\ db \in [at : [Vms -> Chassis], chassis : SUBSET Chassis]
    /\ view \in [Chassis -> [at : [Vms -> Chassis], chassis : SUBSET Chassis]]
    /\ touched \in [Chassis -> SUBSET (Vms \cup Chassis)]
    /\ broken \subseteq Breakable /\ changes \in 0..MaxChanges
=============================================================================

----------------------------- MODULE EdgeOperate -----------------------------
(***************************************************************************)
(* tools/edge-operate.py: it adds an edge node to the network and takes    *)
(* one away while the network runs.  A road leads the traffic from the     *)
(* central router out of the virtual network: central router -- inner      *)
(* switch -- edge router on its chassis -- outside switch -- patch port.   *)
(* The tool reads the tree once, plans a list of tpctl commands from that  *)
(* snapshot, asks the operator, and only then runs them one by one against *)
(* a tree that others may have changed.  The agents learn each change      *)
(* later, each in its own time.                                            *)
(***************************************************************************)
EXTENDS Integers, Sequences, FiniteSets, FiniteSetsExt

CONSTANTS
    Chassis,    \* the hosts; the tool may be run on each, an agent runs on each
    Vips,       \* virtual addresses the operators use for edges
    Hosts,      \* the inner network has the addresses 0 .. Hosts + 1
    InnerIp,    \* the edge's side of every inner switch (option --inner)
    MaxOps,     \* bound: runs of the tool
    MaxStops    \* bound: runs of the tool that are killed half-way

ASSUME HostsAssumption ==
    /\ Hosts \in Nat \ {0}
    /\ InnerIp \in 1..Hosts
    /\ Vips \subseteq Int /\ \A v \in Vips : v > Hosts + 1

ASSUME ChassisAssumption == "off" \notin Chassis

ASSUME BoundsAssumption == MaxOps \in Nat /\ MaxStops \in Nat

Off == "off"                 \* a router that is on no chassis
Central == <<"central", 0>>  \* the router of the virtual network
NoName == <<"none", 0>>
PatchIp == -1                \* 255.255.255.255, the address of a patch port
NoIp == -2

VARIABLES
    db,        \* the entities in etcd
    view,      \* [Chassis -> what the agent there makes of the entities it has]
    op,        \* [Chassis -> the run of the tool there]
    count,     \* runs of the tool so far
    stopped,   \* runs that were killed half-way so far
    overlap    \* ghost: what ran side by side: "none", "adds" or "removes"

vars == <<db, view, op, count, stopped, overlap>>

------------------------------------------------------------------------------
\* Entities.  a is the name (of a switch or router) or the parent, b the other
\* end: a port of a router to a switch is named by the two.

Entity(kind, a, b, ip, at, by) ==
    [kind |-> kind, a |-> a, b |-> b, ip |-> ip, at |-> at, by |-> by]

\* What tpctl compares names by: a static route's name has its next hop too.
Key(e) == <<e.kind, e.a, e.b, IF e.kind = "lsr" THEN e.ip ELSE NoIp>>

Named(s, kind, a, b) == {e \in s : e.kind = kind /\ e.a = a /\ e.b = b}

\* Mutant of datalog_is_entity_exist: names are compared with routers only.
datalog_is_entity_exist_lr(s, name) ==
    \E e \in s : e.a = name /\ e.kind = "lr"

datalog_is_entity_exist(s, name) ==
    \E e \in s : e.a = name /\ e.b = NoName /\ e.kind \in {"ls", "lr"}

datalog_check_port_occupied_ip(s, ip) ==
    \E e \in s : e.kind \in {"lsp", "lrp"} /\ e.ip = ip

\* The first free name of a kind in the snapshot.
new_entity_name(s, prefix) ==
    <<prefix, CHOOSE i \in 1..(MaxOps + 1) :
        /\ ~datalog_is_entity_exist(s, <<prefix, i>>)
        /\ \A j \in 1..(i - 1) : datalog_is_entity_exist(s, <<prefix, j>>)>>

\* Mutant of FreeHosts: the count starts at the broadcast address.
FreeHosts_broadcast(s) ==
    {h \in 1..(Hosts + 1) : ~datalog_check_port_occupied_ip(s, h)}

\* The free addresses of the inner network, from which the highest is taken.
FreeHosts(s) == {h \in 1..Hosts : ~datalog_check_port_occupied_ip(s, h)}

_gen_lrp_property(s) == Max(FreeHosts(s))

------------------------------------------------------------------------------
\* The queries over a snapshot s, of which k holds kinds and names.

There(s) == {<<e.kind, e.a, e.b>> : e \in s}

Linked(k, lr, ls) == <<"lrp", lr, ls>> \in k /\ <<"lsp", ls, lr>> \in k

\* A patch port is the one port of a switch that has no router as its peer.
dl_LS_has_patchport(k, ls) == <<"lsp", ls, NoName>> \in k

dl_edge_LR_peer_LS(k, r, ls) ==
    r.at # Off /\ Linked(k, r.a, ls) /\ <<"ls", ls, NoName>> \in k

\* The switch leads from the edge to another router.
dl_edge_LR_peer_LR(k, r, ls, cen) ==
    dl_edge_LR_peer_LS(k, r, ls) /\ r.a # cen /\ Linked(k, cen, ls)

Routers(s) == {e \in s : e.kind = "lr"}
Switches(s) == {e.a : e \in {f \in s : f.kind = "ls"}}

\* The switches by which an edge router r reaches the outside.
Outsides(s, k, r) ==
    {ls \in Switches(s) : /\ dl_edge_LR_peer_LS(k, r, ls) /\ dl_LS_has_patchport(k, ls)
                         /\ <<"lsr", r.a, ls>> \in k}

\* The switches, with the router on their far side, by which r reaches inside.
Insides(s, k, r) ==
    {t \in Switches(s) \X {e.a : e \in Routers(s)} :
        /\ dl_edge_LR_peer_LR(k, r, t[1], t[2])
        /\ <<"lsr", r.a, t[1]>> \in k /\ <<"lsr", t[2], t[1]>> \in k}

dl_ecmp_road(s) ==
    LET k == There(s)
    IN  UNION {{[edge |-> r.a, at |-> r.at, out |-> out, m |-> t[1], central |-> t[2]] :
                    out \in Outsides(s, k, r), t \in Insides(s, k, r)}
               : r \in {r \in Routers(s) : r.at # Off}}

\* The edges over which an agent with the entities s spreads what leaves the
\* virtual network: the next hops of the central router that it can reach.
Taken(s) ==
    LET k == There(s)
        hops == {p \in s : /\ p.kind = "lrp" /\ Linked(k, p.a, p.b) /\ Linked(k, Central, p.b)
                          /\ \E r \in Named(s, "lsr", Central, p.b) : r.ip = p.ip}
    IN  {[edge |-> t[1].a, m |-> t[2].b, at |-> t[1].at] :
            t \in {t \in {e \in Routers(s) : e.at # Off} \X hops : t[1].a = t[2].a}}

\* The edges that, with the entities s, pass what reaches them to the outside.
Serving(s) ==
    LET k == There(s)
        edges == {r \in Routers(s) : r.at # Off /\ Outsides(s, k, r) # {}}
    IN  {[edge |-> t[1].a, m |-> t[2], at |-> t[1].at] :
            t \in {t \in edges \X Switches(s) : Linked(k, t[1].a, t[2])}}

\* All that matters here of an agent's entities.
Digest(s) == [taken |-> Taken(s), serving |-> Serving(s)]

------------------------------------------------------------------------------
\* The commands.

Add(es) == [verb |-> "add", what |-> es, deep |-> FALSE]
Del(es, deep) == [verb |-> "del", what |-> es, deep |-> deep]
Sleep == [verb |-> "sleep", what |-> {}, deep |-> FALSE]

_cmd_new_ls(ls, n) == Add({Entity("ls", ls, NoName, NoIp, Off, n)})
_cmd_new_lr(lr, c, n) == Add({Entity("lr", lr, NoName, NoIp, c, n)})
_cmd_new_patchport(ls, c, n) == Add({Entity("lsp", ls, NoName, PatchIp, c, n)})
_cmd_new_link(lr, ls, ip, n) ==
    Add({Entity("lrp", lr, ls, ip, Off, n), Entity("lsp", ls, lr, ip, Off, n)})
_cmd_new_lsr(lr, ls, hop, n) == Add({Entity("lsr", lr, ls, hop, Off, n)})

\* Deletions go by name: what is deleted is read when the command runs.
_cmd_del_ls(ls) == Del({<<"ls", ls, NoName, NoIp>>}, TRUE)
_cmd_del_lr(lr) == Del({<<"lr", lr, NoName, NoIp>>}, TRUE)
_cmd_del_lrp(lr, ls) == Del({<<"lrp", lr, ls, NoIp>>}, FALSE)
_cmd_del_lsr(r) == Del({Key(r)}, FALSE)

\* tpctl: an add needs the parents and refuses a name in use, a deletion needs
\* its object; a link saves both of its ports in one transaction.
Parents(e) ==
    CASE e.kind \in {"ls", "lr"} -> {}
      [] e.kind \in {"lrp", "lsr"} -> {<<"lr", e.a, NoName, NoIp>>}
      [] e.kind = "lsp" -> {<<"ls", e.a, NoName, NoIp>>}

Keys(s) == {Key(e) : e \in s}

\* Mutant of Accepts: an add overwrites what has its name.
Accepts_overwrite(s, cmd) ==
    IF cmd.verb = "add"
    THEN \A e \in cmd.what : Parents(e) \subseteq Keys(s)
    ELSE cmd.what \subseteq Keys(s)

Accepts(s, cmd) ==
    IF cmd.verb = "add"
    THEN \A e \in cmd.what : Key(e) \notin Keys(s) /\ Parents(e) \subseteq Keys(s)
    ELSE cmd.what \subseteq Keys(s)

\* A recursive deletion takes the ports and routes of the parent along.
After(s, cmd) ==
    IF cmd.verb = "add"
    THEN {e \in s : Key(e) \notin Keys(cmd.what)} \cup cmd.what
    ELSE {e \in s : /\ Key(e) \notin cmd.what
                    /\ cmd.deep => Parents(e) \cap cmd.what = {}}

------------------------------------------------------------------------------
\* The plans, each computed from a snapshot s.

Names(s) == [out |-> new_entity_name(s, "out"), edge |-> new_entity_name(s, "edge"),
             m |-> new_entity_name(s, "m")]

\* The route on the central router comes last: it starts the traffic.
_init_ecmp_road(s, should_wait, cen, vip, inner, c, n) ==
    LET x == Names(s)
        hop == _gen_lrp_property(s)
    IN  <<_cmd_new_ls(x.out, n), _cmd_new_lr(x.edge, c, n), _cmd_new_ls(x.m, n),
          _cmd_new_patchport(x.out, c, n),
          _cmd_new_link(x.edge, x.out, vip, n),
          _cmd_new_link(x.edge, x.m, inner, n),
          _cmd_new_link(cen, x.m, hop, n),
          _cmd_new_lsr(x.edge, x.out, NoIp, n),
          _cmd_new_lsr(x.edge, x.m, hop, n)>>
        \o (IF should_wait THEN <<Sleep>> ELSE <<>>)
        \o <<_cmd_new_lsr(cen, x.m, inner, n)>>

\* Mutant of _remove_ecmp_road: the outside switch is forgotten.
_remove_ecmp_road_keep_out(should_wait, road, route) ==
    <<_cmd_del_lrp(road.central, road.m)>>
    \o (IF should_wait THEN <<Sleep>> ELSE <<>>)
    \o <<_cmd_del_lsr(route), _cmd_del_lr(road.edge), _cmd_del_ls(road.m)>>

\* The central router's port goes first: it ends the traffic.
_remove_ecmp_road(should_wait, road, route) ==
    <<_cmd_del_lrp(road.central, road.m)>>
    \o (IF should_wait THEN <<Sleep>> ELSE <<>>)
    \o <<_cmd_del_lsr(route),
         _cmd_del_lr(road.edge), _cmd_del_ls(road.m), _cmd_del_ls(road.out)>>

Idle == [todo |-> <<>>, kind |-> "none", begun |-> FALSE, owing |-> {}]

Started(kind, todo) == [todo |-> todo, kind |-> kind, begun |-> FALSE, owing |-> {}]

\* Ghost: an operation starts on c while others are under way.
Overlapped(c, kind) ==
    LET others == {op[d].kind : d \in Chassis \ {c}} \ {"none"}
    IN  IF others = {} THEN overlap
        ELSE IF overlap = "removes" \/ "remove" \in others \cup {kind}
             THEN "removes" ELSE "adds"

Begin(c, kind, todo) ==
    /\ op' = [op EXCEPT ![c] = Started(kind, todo)]
    /\ count' = count + 1
    /\ overlap' = Overlapped(c, kind)
    /\ UNCHANGED <<db, view, stopped>>

\* The first road of the network: exactly one router may exist.  The code
\* refuses also when a port has the address of the way out (ext_gw), which is
\* outside this tree: here a run may start that it would refuse.
init_ecmp_road(c) ==
    \E vip \in Vips, r \in {e \in db : e.kind = "lr"} :
        /\ op[c] = Idle /\ count < MaxOps
        /\ ~datalog_check_port_occupied_ip(db, vip)
        /\ ~datalog_check_port_occupied_ip(db, InnerIp)
        /\ Cardinality({e \in db : e.kind = "lr"}) = 1   \* datalog_lr_central
        /\ _gen_lrp_property(db) # InnerIp
        /\ Begin(c, "init",
                 _init_ecmp_road(db, FALSE, r.a, vip, InnerIp, c, count + 1))

\* Another road beside an existing one, with the addresses of that one.  The
\* code reads the inner address off LRP, a variable of a clause that the query
\* for the road runs: it stands for the edge's port to the inner switch.
add_ecmp_road(c) ==
    \E vip \in Vips, road \in dl_ecmp_road(db) :
        /\ op[c] = Idle /\ count < MaxOps
        /\ ~datalog_check_port_occupied_ip(db, vip)
        /\ FreeHosts(db) # {}
        /\ \E p \in Named(db, "lrp", road.edge, road.m) :
            /\ _gen_lrp_property(db) # p.ip
            /\ Begin(c, "add",
                 _init_ecmp_road(db, TRUE, road.central, vip, p.ip, c, count + 1))

\* Mutant of remove_ecmp_road: it never waits.
remove_ecmp_road_hasty(c) ==
    \E vip \in Vips, road \in dl_ecmp_road(db) :
        /\ op[c] = Idle /\ count < MaxOps
        /\ \E p \in Named(db, "lrp", road.edge, road.out) : p.ip = vip
        /\ \E route \in Named(db, "lsr", road.central, road.m) :
            Begin(c, "remove", _remove_ecmp_road(FALSE, road, route))

\* The agents need time to learn the change only if traffic has another road.
remove_ecmp_road(c) ==
    \E vip \in Vips, road \in dl_ecmp_road(db) :
        /\ op[c] = Idle /\ count < MaxOps
        /\ \E p \in Named(db, "lrp", road.edge, road.out) : p.ip = vip
        /\ \E route \in Named(db, "lsr", road.central, road.m) :
            Begin(c, "remove",
                  _remove_ecmp_road(Cardinality(dl_ecmp_road(db)) > 1, road, route))

------------------------------------------------------------------------------
\* tpctl_execute: one command.  One that fails raises, and the run ends there.

Rest(o) ==
    IF Len(o.todo) = 1 THEN Idle
    ELSE [o EXCEPT !.todo = Tail(@), !.begun = TRUE,
                   !.owing = IF o.todo[2].verb = "sleep" THEN Chassis ELSE {}]

tpctl_execute(c) ==
    /\ op[c].todo # <<>> /\ Head(op[c].todo).verb # "sleep"
    /\ LET cmd == Head(op[c].todo)
       IN  /\ Accepts(db, cmd)
           /\ db' = After(db, cmd)
           /\ op' = [op EXCEPT ![c] = Rest(op[c])]
    /\ UNCHANGED <<view, count, stopped, overlap>>

Refused(c) ==
    /\ op[c].todo # <<>> /\ Head(op[c].todo).verb # "sleep"
    /\ ~Accepts(db, Head(op[c].todo))

Fail(c) ==
    /\ Refused(c)
    /\ op' = [op EXCEPT ![c] = Idle]
    /\ UNCHANGED <<db, view, count, stopped, overlap>>

\* time.sleep(5): within that time every agent has caught up at least once with
\* what was in etcd when the sleep began.
Slept(c) ==
    /\ op[c].todo # <<>> /\ Head(op[c].todo).verb = "sleep"
    /\ op[c].owing = {}
    /\ op' = [op EXCEPT ![c] = Rest(op[c])]
    /\ UNCHANGED <<db, view, count, stopped, overlap>>

\* The operator does not answer yes, or the run is killed.
Stop(c) ==
    /\ op[c].todo # <<>>
    /\ op[c].begun => stopped < MaxStops
    /\ stopped' = IF op[c].begun THEN stopped + 1 ELSE stopped
    /\ op' = [op EXCEPT ![c] = Idle]
    /\ UNCHANGED <<db, view, count, overlap>>

\* The agent on c catches up with etcd.
Apply(c) ==
    /\ view[c] # Digest(db) \/ \E d \in Chassis : c \in op[d].owing
    /\ view' = [view EXCEPT ![c] = Digest(db)]
    /\ op' = [d \in Chassis |-> [op[d] EXCEPT !.owing = @ \ {c}]]
    /\ UNCHANGED <<db, count, stopped, overlap>>

Init ==
    /\ db = {Entity("lr", Central, NoName, NoIp, Off, 0)}
    /\ view = [c \in Chassis |-> Digest(db)]
    /\ op = [c \in Chassis |-> Idle]
    /\ count = 0 /\ stopped = 0 /\ overlap = "none"

Next ==
    \E c \in Chassis :
        \/ init_ecmp_road(c) \/ add_ecmp_road(c) \/ remove_ecmp_road(c)
        \/ tpctl_execute(c) \/ Fail(c) \/ Slept(c) \/ Stop(c) \/ Apply(c)

Spec == Init /\ [][Next]_vars

------------------------------------------------------------------------------
(***************************************************************************)
(* Properties.                                                             *)
(***************************************************************************)

Kinds == {"ls", "lr", "lsp", "lrp", "lsr"}

\* Type invariant.  A port of a router has a host address of the inner network
\* or a virtual address of an edge: never the network or broadcast address.
TypeOK ==
    /\ \A e \in db :
        /\ e.kind \in Kinds /\ e.by \in 0..MaxOps /\ e.at \in Chassis \cup {Off}
        /\ e.kind = "lrp" => e.ip \in 1..Hosts \cup Vips
    /\ \A c \in Chassis :
        /\ \A x \in view[c].taken : x.at \in Chassis
        /\ op[c].kind \in {"none", "init", "add", "remove"}
    /\ count \in 0..MaxOps /\ stopped \in 0..MaxStops
    /\ overlap \in {"none", "adds", "removes"}

\* While some road in service can carry an agent's traffic, the agent sends
\* nothing to an edge that does not have its road yet or has it no more, unless
\* a removal ran beside another run: the order of the commands and the two
\* sleeps of ecmp_execute_cmds are there for this.
NoBlackHole ==
    overlap # "removes" =>
        \A c \in Chassis :
            LET taken == view[c].taken
                works == {x \in taken : x \in view[x.at].serving}
                inService == {[edge |-> r.edge, m |-> r.m, at |-> r.at] :
                                r \in dl_ecmp_road(db)}
            IN  works \cap inService # {} => works = taken

\* A run that has the tree for itself never meets a command that is refused,
\* whatever runs that were killed half-way have left in the tree.
NeverRefused == overlap = "none" => \A c \in Chassis : ~Refused(c)

\* Two runs that add edges at the same time never build one road together: the
\* second to use a name is refused and stops.
RoadsOfOneRun ==
    overlap # "removes" =>
        \A r \in dl_ecmp_road(db) :
            \E n \in 0..MaxOps :
                \A e \in db : (e.a \in {r.edge, r.out, r.m} \/ e.b = r.m) => e.by = n

\* When all runs have ended, none was killed half-way and none ran beside
\* another, all that is in the tree belongs to a road: a removal leaves nothing
\* that would hold a name or an address.
NothingLeft ==
    (overlap = "none" /\ stopped = 0 /\ \A c \in Chassis : op[c] = Idle) =>
        \A e \in db : \/ e.a = Central /\ e.kind = "lr"
                      \/ \E r \in dl_ecmp_road(db) : {e.a, e.b} \cap {r.edge, r.out, r.m} # {}
==============================================================================

----------------------------- MODULE MCEntityZoo -----------------------------
\* A switch with ports that exchange their addresses or share a MAC, two
\* numbers for three routes of one rank, and a router that is pinned on a
\* chassis which registers again with a new tick.
EXTENDS EntityZoo

V(uuid, keys, group, pin, lazy) ==
    [uuid |-> uuid, keys |-> keys, group |-> group, pin |-> pin, lazy |-> lazy]

Port(uuid, ip, mac) == V(uuid, <<<<"ip", ip>>, <<"mac", mac>>>>, "none", "none", FALSE)
Route(uuid, hop) == V(uuid, <<<<"lsr", hop>>>>, "default", "none", FALSE)
ChassisOf(uuid, tick) == V(uuid, <<<<"chassis", tick>>>>, "none", "none", TRUE)
Router(uuid, id, pin) == V(uuid, <<<<"id", id>>>>, "none", pin, FALSE)

MCValues ==
    {Port("p1", 1, 1), Port("p2", 2, 2), Port("p2", 1, 2), Port("p3", 3, 1),
     Route("r1", 1), Route("r2", 2), Route("r3", 3),
     ChassisOf("c1", 1), ChassisOf("c1", 2), Router("lr", 1, "c1")}

\* The controller keeps the addresses of a switch apart, but not the MACs.
MCLegal(t) ==
    \A v, w \in t : v # w => v.uuid # w.uuid /\ (Keys(v) \cap Keys(w)) \ {<<"mac", 1>>} = {}
==============================================================================

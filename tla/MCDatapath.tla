----------------------------- MODULE MCDatapath -----------------------------
(* The network of tests/test_simple_redirect.sh: switches A and B behind an *)
(* unpinned router R; two edge routers on two gateways, each behind a       *)
(* switch of its own; ECMP default routes to both edges.  Beside it the     *)
(* switch of another tenant, without a router, where two port IDs clash.    *)
EXTENDS Datapath

MCRouterOn == [R |-> None, edge1 |-> "e1", edge2 |-> "e2"]
MCSwitch == {"A", "B", "m1", "m2", "out1", "out2", "Z"}

\* 12-bit addresses: 1xx the machines, 2xx between the routers, 3xx outside
MCVm == [a |-> [ls |-> "A", ip |-> 274, mac |-> "ma"],       \* 0x112
         b |-> [ls |-> "B", ip |-> 290, mac |-> "mb"],       \* 0x122
         d |-> [ls |-> "B", ip |-> 291, mac |-> "md"],
         z |-> [ls |-> "Z", ip |-> 290, mac |-> "mb"],       \* another tenant's b
         x |-> [ls |-> "Z", ip |-> 275, mac |-> "mx"],       \* 0x113 and 0x213:
         y |-> [ls |-> "Z", ip |-> 531, mac |-> "my"]]       \* one port ID
MCHome == [a |-> "n1", b |-> "n2", d |-> "n1", z |-> "n2", x |-> "n2", y |-> "n2"]
MCPatch == [p1 |-> [ls |-> "out1", ip |-> 4095, mac |-> "mp", on |-> "e1"],
            p2 |-> [ls |-> "out2", ip |-> 4095, mac |-> "mp", on |-> "e2"]]

L(ls, lr, ip, mac) == [ls |-> ls, lr |-> lr, ip |-> ip, len |-> 8, mac |-> mac, idx |-> 0]
toA == L("A", "R", 273, "mRA")
toB == L("B", "R", 289, "mRB")
toM1 == L("m1", "R", 673, "mR1")
toM2 == [L("m2", "R", 675, "mR2") EXCEPT !.idx = 1]    \* beside toM1 in one network
e1m == L("m1", "edge1", 674, "mE1")
e2m == L("m2", "edge2", 674, "mE2")
e1o == L("out1", "edge1", 945, "mO1")
e2o == L("out2", "edge2", 946, "mO2")
MCLink == {toA, toB, toM1, toM2, e1m, e2m, e1o, e2o}

S(lr, ip, len, hop, out, idx) ==
    [lr |-> lr, ip |-> ip, len |-> len, hop |-> hop, out |-> out, idx |-> idx]
MCRoute == {S("R", 0, 0, 674, toM1, 0), S("R", 0, 0, 674, toM2, 1),
            S("edge1", 256, 4, 673, e1m, 0), S("edge2", 256, 4, 675, e2m, 0)}
MCXlate == {[lr |-> "edge1", type |-> "snat", ip |-> 256, len |-> 4, xip |-> 954, xmac |-> "mN1"],
            [lr |-> "edge2", type |-> "dnat", ip |-> 290, len |-> 12, xip |-> 951, xmac |-> "mN2"]}

T(from, proto, ethsrc, ethdst, ipsrc, ipdst, conn) ==
    [from |-> from, proto |-> proto, ethsrc |-> ethsrc, ethdst |-> ethdst,
     ipsrc |-> ipsrc, ipdst |-> ipdst, conn |-> conn, ttl |-> 4]
World == 953        \* 0x3b9, a host on the outside network
MCTraffic ==
    {T("a", "ip", "ma", "mRA", 274, 290, "k1"),          \* a to b
     T("a", "echo", "ma", "mRA", 274, 289, "k1"),        \* a pings R
     T("d", "arpq", "md", AnyMac, 291, 290, "k1"),       \* who is b?
     T("a", "ip", "ma", "mRA", 274, World, "k1"),        \* to the world, and its answer
     T("p1", "ip", "mw", "mN1", World, 954, "k1"),
     T("p1", "arpr", "mw", "mO1", World, 945, "k1"),
     T("p2", "ip", "mw", "mN2", World, 951, "k2"),       \* to b by its outer address
     T("b", "ip", "mb", "mRB", 290, World, "k2")}
MCWeight == [k1 |-> [e1 |-> 2, e2 |-> 1, n1 |-> 0, n2 |-> 0],
             k2 |-> [e1 |-> 1, e2 |-> 2, n1 |-> 0, n2 |-> 0]]
=============================================================================

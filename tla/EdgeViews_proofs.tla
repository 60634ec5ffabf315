-------------------------- MODULE EdgeViews_proofs --------------------------
(***************************************************************************)
(* Proof that the order of the commands and the sleeps of edge-operate     *)
(* keep the agents from sending traffic into a hole, for any number of     *)
(* hosts, virtual addresses, addresses of the inner network, runs and      *)
(* kills.                                                                  *)
(***************************************************************************)
EXTENDS EdgeOperate_proofs

------------------------------------------------------------------------------
(***************************************************************************)
(* What an agent makes of the tree, and what it needs for that.            *)
(***************************************************************************)

Lr(p) == Entity("lr", p.edge, NoName, NoIp, p.at, p.n)
EdgePort(p) == Entity("lrp", p.edge, p.m, p.inner, Off, p.n)
CenLrp(p) == Entity("lrp", Central, p.m, p.hop, Off, p.n)
CenLsr(p) == Entity("lsr", Central, p.m, p.inner, Off, p.n)

\* The road of a run, as the agents see it.
Road(p) == [edge |-> p.edge, m |-> p.m, at |-> p.at]

\* The parts that lead an agent's traffic to the edge, and those that lead it
\* on from there.
TakenParts(p) ==
    {Lr(p), EdgePort(p), Entity("lsp", p.m, p.edge, p.inner, Off, p.n),
     CenLrp(p), Entity("lsp", p.m, Central, p.hop, Off, p.n), CenLsr(p)}

ServingParts(p) ==
    {Lr(p), EdgePort(p), Entity("lsp", p.m, p.edge, p.inner, Off, p.n),
     Entity("ls", p.out, NoName, NoIp, Off, p.n),
     Entity("ls", p.m, NoName, NoIp, Off, p.n),
     Entity("lsp", p.out, NoName, PatchIp, p.at, p.n),
     Entity("lrp", p.edge, p.out, p.vip, Off, p.n),
     Entity("lsp", p.out, p.edge, p.vip, Off, p.n),
     Entity("lsr", p.edge, p.out, NoIp, Off, p.n)}

LEMMA PartsOfRoad ==
    ASSUME NEW p
    PROVE  TakenParts(p) \subseteq RoadOf(p) /\ ServingParts(p) \subseteq RoadOf(p)
BY DEF TakenParts, ServingParts, RoadOf, Lr, EdgePort, CenLrp, CenLsr

\* A run has one road.
LEMMA OneRoad ==
    ASSUME NEW p, IsRoad(p), Own(p.n) \subseteq RoadOf(p),
           NEW q, IsRoad(q), q.n = p.n, Lr(q) \in All, EdgePort(q) \in All
    PROVE  Road(q) = Road(p)
<1>1. Lr(q) \in RoadOf(p) /\ EdgePort(q) \in RoadOf(p)
  BY DEF Own, Lr, EdgePort, Entity
<1>2. q.edge = p.edge /\ q.at = p.at
  BY <1>1, PartOfRoad DEF Lr, Entity
<1>3. EdgePort(q).kind = "lrp" /\ EdgePort(q).a = q.edge /\ EdgePort(q).b = q.m
  BY DEF EdgePort, Entity
<1>4. q.m \in {p.out, p.m}
  BY <1>1, <1>3, PartOfRoad, NamesApart
<1>5. q.m = p.m
  BY <1>4 DEF IsRoad
<1> QED
  BY <1>2, <1>5 DEF Road

\* Who takes a road has its parts in the tree.
LEMMA TakenRoad ==
    ASSUME Shaped, Tree, NEW x \in Taken(db)
    PROVE  \E p : /\ IsRoad(p) /\ p.n \in 1..count /\ Own(p.n) \subseteq RoadOf(p)
                  /\ x = Road(p) /\ TakenParts(p) \subseteq db
<1> DEFINE k == There(db)
           hops == {p \in db : /\ p.kind = "lrp" /\ Linked(k, p.a, p.b) /\ Linked(k, Central, p.b)
                               /\ \E r \in Named(db, "lsr", Central, p.b) : r.ip = p.ip}
<1>0. PICK t \in {t \in {e \in Routers(db) : e.at # Off} \X hops : t[1].a = t[2].a} :
        x = [edge |-> t[1].a, m |-> t[2].b, at |-> t[1].at]
  BY DEF Taken
<1>1. PICK e \in Routers(db), h \in hops :
        e.at # Off /\ e.a = h.a /\ x = [edge |-> e.a, m |-> h.b, at |-> e.at]
  BY <1>0
<1>2. /\ e \in db /\ e.kind = "lr" /\ h \in db /\ h.kind = "lrp"
      /\ <<"lsp", h.b, e.a>> \in k
      /\ <<"lrp", Central, h.b>> \in k /\ <<"lsp", h.b, Central>> \in k
      /\ \E r \in db : r.kind = "lsr" /\ r.a = Central /\ r.b = h.b
  BY <1>1 DEF Routers, Linked, Named
<1>3. e # CentralRouter
  BY <1>1 DEF CentralRouter, Entity
<1>4. PICK p : p.n = e.by /\ IsRoad(p) /\ Own(e.by) \subseteq RoadOf(p) /\ e \in RoadOf(p)
  BY <1>2, <1>3, Owner, InAll
<1>5. e.by \in 1..count /\ e.a = p.edge /\ p.edge # Central
  BY <1>2, <1>3, <1>4, Owner, InAll, PartOfRoad, NamesApart
<1>6. \A f \in db : f.by = e.by => f \in RoadOf(p)
  BY <1>4, InAll DEF Own
<1>7. h.by = e.by
  BY <1>1, <1>2, <1>5, AboutEdge
<1>8. Has(db, "ls", h.b, e.by)
  BY <1>2, <1>7 DEF Tree, Supported
<1>9. PICK g \in db : g.kind = "ls" /\ g.a = h.b /\ g.by = e.by
  BY <1>8 DEF Has
<1>10. \A a, b, c : <<a, b, c>> \in k => \E f \in db : f.kind = a /\ f.a = b /\ f.b = c
  BY DEF There
<1>11. PICK f1 \in db : f1.kind = "lrp" /\ f1.a = Central /\ f1.b = h.b
  BY <1>2, <1>10
<1>12. PICK f2 \in db : f2.kind = "lsp" /\ f2.a = h.b /\ f2.b = Central
  BY <1>2, <1>10
<1>13. PICK f3 \in db : f3.kind = "lsp" /\ f3.a = h.b /\ f3.b = e.a
  BY <1>2, <1>10
<1>14. PICK f4 \in db : f4.kind = "lsr" /\ f4.a = Central /\ f4.b = h.b
  BY <1>2
<1>15. {h, f1, f2, f3, f4} \subseteq RoadOf(p)
  BY <1>6, <1>7, <1>9, <1>11, <1>12, <1>13, <1>14, AboutSwitch
<1>16. h.b = p.m
  BY <1>4, <1>11, <1>15, PartOfRoad, NamesApart
<1>17. TakenParts(p) \subseteq RoadOf(p)
  BY PartsOfRoad
<1>18. e = Lr(p) /\ h = EdgePort(p) /\ f1 = CenLrp(p) /\ f4 = CenLsr(p)
  <2>1. /\ Lr(p) \in RoadOf(p) /\ EdgePort(p) \in RoadOf(p)
        /\ CenLrp(p) \in RoadOf(p) /\ CenLsr(p) \in RoadOf(p)
    BY <1>17 DEF TakenParts
  <2>2. e.b = NoName
    BY <1>2, <1>4, PartOfRoad
  <2>3. Lr(p).kind = "lr" /\ Lr(p).a = p.edge /\ Lr(p).b = NoName
    BY DEF Lr, Entity
  <2>4. EdgePort(p).kind = "lrp" /\ EdgePort(p).a = p.edge /\ EdgePort(p).b = p.m
    BY DEF EdgePort, Entity
  <2>5. CenLrp(p).kind = "lrp" /\ CenLrp(p).a = Central /\ CenLrp(p).b = p.m
    BY DEF CenLrp, Entity
  <2>6. CenLsr(p).kind = "lsr" /\ CenLsr(p).a = Central /\ CenLsr(p).b = p.m
    BY DEF CenLsr, Entity
  <2>7. e = Lr(p)
    BY <1>2, <1>4, <1>5, <2>1, <2>2, <2>3, PartByNames
  <2>8. h = EdgePort(p)
    <3>1. h.kind = EdgePort(p).kind /\ h.a = EdgePort(p).a /\ h.b = EdgePort(p).b
      BY <1>1, <1>2, <1>5, <1>16, <2>4
    <3>2. h \in RoadOf(p)
      BY <1>15
    <3> QED
      BY <1>4, <2>1, <3>1, <3>2, PartByNames
  <2>9. f1 = CenLrp(p)
    <3>1. /\ f1.kind = CenLrp(p).kind /\ f1.a = CenLrp(p).a /\ f1.b = CenLrp(p).b
      BY <1>11, <1>16, <2>5
    <3>2. f1 \in RoadOf(p)
      BY <1>15
    <3> QED
      BY <1>4, <2>1, <3>1, <3>2, PartByNames
  <2>10. f4 = CenLsr(p)
    BY <1>4, <1>14, <1>15, <1>16, <2>1, <2>6, PartByNames
  <2> QED
    BY <2>7, <2>8, <2>9, <2>10
<1>19. /\ f3 = Entity("lsp", p.m, p.edge, p.inner, Off, p.n)
       /\ f2 = Entity("lsp", p.m, Central, p.hop, Off, p.n)
  <2> DEFINE g3 == Entity("lsp", p.m, p.edge, p.inner, Off, p.n)
             g2 == Entity("lsp", p.m, Central, p.hop, Off, p.n)
  <2>1. g3 \in RoadOf(p) /\ g2 \in RoadOf(p)
    BY <1>17 DEF TakenParts
  <2>2. g3.kind = "lsp" /\ g3.a = p.m /\ g3.b = p.edge /\ g2.kind = "lsp" /\ g2.a = p.m /\ g2.b = Central
    BY DEF Entity
  <2> HIDE DEF g3, g2
  <2>3. f3 = g3
    BY <1>4, <1>5, <1>13, <1>15, <1>16, <2>1, <2>2, PartByNames
  <2>4. f2 = g2
    BY <1>4, <1>12, <1>15, <1>16, <2>1, <2>2, PartByNames
  <2> QED
    BY <2>3, <2>4 DEF g3, g2
<1>20. TakenParts(p) \subseteq db
  BY <1>2, <1>11, <1>12, <1>13, <1>14, <1>18, <1>19 DEF TakenParts
<1>21. x = Road(p)
  <2>1. e.at = p.at
    BY <1>2, <1>4, PartOfRoad
  <2> QED
    BY <1>1, <1>5, <1>16, <2>1 DEF Road
<1> QED
  BY <1>4, <1>5, <1>20, <1>21

\* And conversely.
LEMMA TakenFound ==
    ASSUME NEW s, NEW p, IsRoad(p), TakenParts(p) \subseteq s
    PROVE  Road(p) \in Taken(s)
<1> DEFINE k == There(s)
           hops == {h \in s : /\ h.kind = "lrp" /\ Linked(k, h.a, h.b) /\ Linked(k, Central, h.b)
                              /\ \E r \in Named(s, "lsr", Central, h.b) : r.ip = h.ip}
           t == <<Lr(p), EdgePort(p)>>
<1>1. \A e \in s : <<e.kind, e.a, e.b>> \in k
  BY DEF There
<1>2. /\ Lr(p) \in s /\ EdgePort(p) \in s /\ Entity("lsp", p.m, p.edge, p.inner, Off, p.n) \in s
      /\ CenLrp(p) \in s /\ Entity("lsp", p.m, Central, p.hop, Off, p.n) \in s /\ CenLsr(p) \in s
  BY DEF TakenParts
<1>3. /\ <<"lrp", p.edge, p.m>> \in k /\ <<"lsp", p.m, p.edge>> \in k
      /\ <<"lrp", Central, p.m>> \in k /\ <<"lsp", p.m, Central>> \in k
  BY <1>1, <1>2 DEF EdgePort, CenLrp, Entity
<1> HIDE DEF k
<1>4. Linked(k, p.edge, p.m) /\ Linked(k, Central, p.m)
  BY <1>3 DEF Linked
<1>5. /\ EdgePort(p).kind = "lrp" /\ EdgePort(p).a = p.edge /\ EdgePort(p).b = p.m
      /\ EdgePort(p).ip = p.inner
  BY DEF EdgePort, Entity
<1>6. CenLsr(p) \in Named(s, "lsr", Central, p.m) /\ CenLsr(p).ip = p.inner
  BY <1>2 DEF CenLsr, Entity, Named
<1>7. EdgePort(p) \in hops
  BY <1>2, <1>4, <1>5, <1>6
<1>8. Lr(p) \in {e \in Routers(s) : e.at # Off} /\ Lr(p).a = p.edge /\ Lr(p).at = p.at
  BY <1>2, ChassisAssumption DEF Lr, Entity, Routers, Off, IsRoad
<1>9. t[1] = Lr(p) /\ t[2] = EdgePort(p)
  OBVIOUS
<1>10. t \in {u \in {e \in Routers(s) : e.at # Off} \X hops : u[1].a = u[2].a}
  BY <1>5, <1>7, <1>8
<1>11. Taken(s) = {[edge |-> u[1].a, m |-> u[2].b, at |-> u[1].at] :
                    u \in {u \in {e \in Routers(s) : e.at # Off} \X hops : u[1].a = u[2].a}}
  BY DEF Taken, k
<1> HIDE DEF t, hops
<1>12. Road(p) = [edge |-> t[1].a, m |-> t[2].b, at |-> t[1].at]
  BY <1>5, <1>8, <1>9 DEF Road
<1> QED
  BY <1>10, <1>11, <1>12
\* An edge that serves has its parts in the tree; its inner switch is told from
\* the outer one by its name.
LEMMA ServingRoad ==
    ASSUME Shaped, Tree, NEW x \in Serving(db), x.m[1] = "m"
    PROVE  \E p : /\ IsRoad(p) /\ p.n \in 1..count /\ Own(p.n) \subseteq RoadOf(p)
                  /\ x = Road(p) /\ ServingParts(p) \subseteq db
<1> DEFINE k == There(db)
           edges == {r \in Routers(db) : r.at # Off /\ Outsides(db, k, r) # {}}
<1>0. PICK t \in {t \in edges \X Switches(db) : Linked(k, t[1].a, t[2])} :
        x = [edge |-> t[1].a, m |-> t[2], at |-> t[1].at]
  BY DEF Serving
<1>1. PICK e \in edges, m \in Switches(db) :
        Linked(k, e.a, m) /\ x = [edge |-> e.a, m |-> m, at |-> e.at]
  BY <1>0
<1>2. PICK out \in Outsides(db, k, e) : TRUE
  BY <1>1
<1>3. /\ e \in db /\ e.kind = "lr" /\ e.at # Off
      /\ \E f \in db : f.kind = "ls" /\ f.a = m
      /\ \E f \in db : f.kind = "ls" /\ f.a = out
      /\ <<"lrp", e.a, m>> \in k /\ <<"lsp", m, e.a>> \in k
      /\ <<"lrp", e.a, out>> \in k /\ <<"lsp", out, e.a>> \in k
      /\ <<"lsp", out, NoName>> \in k /\ <<"lsr", e.a, out>> \in k
  BY <1>1, <1>2 DEF Routers, Switches, Linked, Outsides, dl_edge_LR_peer_LS, dl_LS_has_patchport
<1>4. e # CentralRouter
  BY <1>3 DEF CentralRouter, Entity
<1>5. PICK p : p.n = e.by /\ IsRoad(p) /\ Own(e.by) \subseteq RoadOf(p) /\ e \in RoadOf(p)
  BY <1>3, <1>4, Owner, InAll
<1>6. e.by \in 1..count /\ e.a = p.edge /\ p.edge # Central
  BY <1>3, <1>4, <1>5, Owner, InAll, PartOfRoad, NamesApart
<1>7. \A f \in db : f.by = e.by => f \in RoadOf(p)
  BY <1>5, InAll DEF Own
<1>8. \A a, b, c : <<a, b, c>> \in k => \E f \in db : f.kind = a /\ f.a = b /\ f.b = c
  BY DEF There
<1>9. PICK g1 \in db : g1.kind = "ls" /\ g1.a = m
  BY <1>3
<1>10. PICK g2 \in db : g2.kind = "ls" /\ g2.a = out
  BY <1>3
<1>11. PICK f1 \in db : f1.kind = "lrp" /\ f1.a = e.a /\ f1.b = m
  BY <1>3, <1>8
<1>12. PICK f2 \in db : f2.kind = "lsp" /\ f2.a = m /\ f2.b = e.a
  BY <1>3, <1>8
<1>13. PICK f3 \in db : f3.kind = "lrp" /\ f3.a = e.a /\ f3.b = out
  BY <1>3, <1>8
<1>14. PICK f4 \in db : f4.kind = "lsp" /\ f4.a = out /\ f4.b = e.a
  BY <1>3, <1>8
<1>15. PICK f5 \in db : f5.kind = "lsp" /\ f5.a = out /\ f5.b = NoName
  BY <1>3, <1>8
<1>16. PICK f6 \in db : f6.kind = "lsr" /\ f6.a = e.a /\ f6.b = out
  BY <1>3, <1>8
<1> HIDE DEF k, edges
<1>17. f1.by = e.by /\ f3.by = e.by /\ f6.by = e.by
  BY <1>3, <1>6, <1>11, <1>13, <1>16, AboutEdge
<1>18. g1.by = e.by /\ g2.by = e.by
  BY <1>9, <1>10, <1>11, <1>13, <1>17, AboutSwitch
<1>19. f2.by = e.by /\ f4.by = e.by /\ f5.by = e.by
  BY <1>9, <1>10, <1>12, <1>14, <1>15, <1>18, AboutSwitch
<1>20. {g1, g2, f1, f2, f3, f4, f5, f6} \subseteq RoadOf(p)
  BY <1>7, <1>17, <1>18, <1>19
<1>21. out = p.out
  BY <1>5, <1>15, <1>20, PartOfRoad, NamesApart
<1>22. m = p.m
  <2>1. m \in {p.out, p.m}
    BY <1>5, <1>9, <1>20, PartOfRoad
  <2>2. m[1] = "m"
    BY <1>1
  <2> QED
    BY <1>5, <2>1, <2>2 DEF IsRoad
<1> DEFINE h1 == Entity("ls", p.m, NoName, NoIp, Off, p.n)
           h2 == Entity("ls", p.out, NoName, NoIp, Off, p.n)
           k1 == EdgePort(p)
           k2 == Entity("lsp", p.m, p.edge, p.inner, Off, p.n)
           k3 == Entity("lrp", p.edge, p.out, p.vip, Off, p.n)
           k4 == Entity("lsp", p.out, p.edge, p.vip, Off, p.n)
           k5 == Entity("lsp", p.out, NoName, PatchIp, p.at, p.n)
           k6 == Entity("lsr", p.edge, p.out, NoIp, Off, p.n)
<1>23. ServingParts(p) = {Lr(p), h1, h2, k1, k2, k3, k4, k5, k6}
  BY DEF ServingParts
<1>24. {Lr(p), h1, h2, k1, k2, k3, k4, k5, k6} \subseteq RoadOf(p)
  BY <1>23, PartsOfRoad
<1>25. /\ Lr(p).kind = "lr" /\ Lr(p).a = p.edge /\ Lr(p).b = NoName
       /\ h1.kind = "ls" /\ h1.a = p.m /\ h1.b = NoName
       /\ h2.kind = "ls" /\ h2.a = p.out /\ h2.b = NoName
       /\ k1.kind = "lrp" /\ k1.a = p.edge /\ k1.b = p.m
       /\ k2.kind = "lsp" /\ k2.a = p.m /\ k2.b = p.edge
       /\ k3.kind = "lrp" /\ k3.a = p.edge /\ k3.b = p.out
       /\ k4.kind = "lsp" /\ k4.a = p.out /\ k4.b = p.edge
       /\ k5.kind = "lsp" /\ k5.a = p.out /\ k5.b = NoName
       /\ k6.kind = "lsr" /\ k6.a = p.edge /\ k6.b = p.out
  BY DEF Lr, EdgePort, Entity
<1> HIDE DEF h1, h2, k1, k2, k3, k4, k5, k6
<1>26. e.b = NoName /\ g1.b = NoName /\ g2.b = NoName
  BY <1>3, <1>5, <1>9, <1>10, <1>20, PartOfRoad
<1>27. e = Lr(p) /\ g1 = h1 /\ g2 = h2
  BY <1>3, <1>5, <1>6, <1>9, <1>10, <1>20, <1>21, <1>22, <1>24, <1>25, <1>26, PartByNames
<1>28. f1 = k1 /\ f2 = k2
  BY <1>5, <1>6, <1>11, <1>12, <1>20, <1>22, <1>24, <1>25, PartByNames
<1>29. f3 = k3 /\ f4 = k4
  BY <1>5, <1>6, <1>13, <1>14, <1>20, <1>21, <1>24, <1>25, PartByNames
<1>30. f5 = k5 /\ f6 = k6
  BY <1>5, <1>6, <1>15, <1>16, <1>20, <1>21, <1>24, <1>25, PartByNames
<1>31. ServingParts(p) \subseteq db
  BY <1>3, <1>9, <1>10, <1>11, <1>12, <1>13, <1>14, <1>15, <1>16, <1>23, <1>27, <1>28, <1>29, <1>30
<1>32. x = Road(p)
  <2>1. e.at = p.at
    BY <1>3, <1>5, PartOfRoad
  <2> QED
    BY <1>1, <1>6, <1>22, <2>1 DEF Road
<1> QED
  BY <1>5, <1>6, <1>31, <1>32

\* And conversely.
LEMMA ServingFound ==
    ASSUME NEW s, NEW p, IsRoad(p), ServingParts(p) \subseteq s
    PROVE  Road(p) \in Serving(s)
<1> DEFINE k == There(s)
           edges == {r \in Routers(s) : r.at # Off /\ Outsides(s, k, r) # {}}
           t == <<Lr(p), p.m>>
<1>1. \A e \in s : <<e.kind, e.a, e.b>> \in k /\ (e.kind = "ls" => e.a \in Switches(s))
  BY DEF There, Switches
<1>2. /\ Lr(p) \in s /\ EdgePort(p) \in s /\ Entity("lsp", p.m, p.edge, p.inner, Off, p.n) \in s
      /\ Entity("ls", p.out, NoName, NoIp, Off, p.n) \in s
      /\ Entity("ls", p.m, NoName, NoIp, Off, p.n) \in s
      /\ Entity("lsp", p.out, NoName, PatchIp, p.at, p.n) \in s
      /\ Entity("lrp", p.edge, p.out, p.vip, Off, p.n) \in s
      /\ Entity("lsp", p.out, p.edge, p.vip, Off, p.n) \in s
      /\ Entity("lsr", p.edge, p.out, NoIp, Off, p.n) \in s
  BY DEF ServingParts
<1>3. /\ <<"lrp", p.edge, p.m>> \in k /\ <<"lsp", p.m, p.edge>> \in k
      /\ <<"lrp", p.edge, p.out>> \in k /\ <<"lsp", p.out, p.edge>> \in k
  BY <1>1, <1>2 DEF EdgePort, Entity
<1>4. /\ <<"lsp", p.out, NoName>> \in k /\ <<"lsr", p.edge, p.out>> \in k
      /\ <<"ls", p.out, NoName>> \in k /\ p.out \in Switches(s) /\ p.m \in Switches(s)
  BY <1>1, <1>2 DEF Entity
<1> HIDE DEF k
<1>5. Linked(k, p.edge, p.m) /\ Linked(k, p.edge, p.out)
  BY <1>3 DEF Linked
<1>6. /\ Lr(p) \in Routers(s) /\ Lr(p).at # Off /\ Lr(p).a = p.edge /\ Lr(p).at = p.at
  BY <1>2, ChassisAssumption DEF Lr, Entity, Routers, Off, IsRoad
<1>7. p.out \in Outsides(s, k, Lr(p))
  BY <1>4, <1>5, <1>6 DEF Outsides, dl_edge_LR_peer_LS, dl_LS_has_patchport
<1>8. t[1] = Lr(p) /\ t[2] = p.m
  OBVIOUS
<1>9. t \in {u \in edges \X Switches(s) : Linked(k, u[1].a, u[2])}
  BY <1>4, <1>5, <1>6, <1>7
<1>10. Serving(s) = {[edge |-> u[1].a, m |-> u[2], at |-> u[1].at] :
                        u \in {u \in edges \X Switches(s) : Linked(k, u[1].a, u[2])}}
  BY DEF Serving, k
<1> HIDE DEF t, edges
<1>11. Road(p) = [edge |-> t[1].a, m |-> t[2], at |-> t[1].at]
  BY <1>6, <1>8 DEF Road
<1> QED
  BY <1>9, <1>10, <1>11
------------------------------------------------------------------------------
(***************************************************************************)
(* The inductive invariant.                                                *)
(***************************************************************************)

IsCenLrp(e) == e.kind = "lrp" /\ e.a = Central
IsCenLsr(e) == e.kind = "lsr" /\ e.a = Central

\* Both parts that are on the central router are there with a whole road only:
\* one is the last to come, the other the first to go.
RoadsWhole ==
    \A e, f \in db : (IsCenLrp(e) /\ IsCenLsr(f) /\ e.by = f.by) =>
        \E p : IsRoad(p) /\ p.n = e.by /\ RoadOf(p) \subseteq db

\* The first road of the network is of the first edge, and that edge is alone.
FirstEdge(p) ==
    /\ p.edge = <<"edge", 1>>
    /\ Routers(db) = {CentralRouter} \/ \E e \in Routers(db) : e.a = <<"edge", 1>>
    /\ Lr(p) \in db => Routers(db) = {CentralRouter, Lr(p)}

\* Another road is built beside one that is taken, and before it is taken too
\* every agent has seen it serve, and its own edge as well.
AnotherRoad(o, p) ==
    /\ Taken(db) # {}
    /\ Len(o.todo) >= 2 => o.todo[Len(o.todo) - 1].verb = "sleep"
    /\ Len(o.todo) = 1 => o.owing = {}
    /\ Len(o.todo) <= 2 =>
        \A c \in Chassis \ o.owing :
            /\ view[c].taken \subseteq Taken(db)
            /\ Taken(db) \cup {Road(p)} \subseteq view[c].serving

\* What a run that adds has put into the tree is all there still, and the route
\* on the central router is the last to follow.
Builder(o, p) ==
    /\ IsRoad(p) /\ Own(p.n) = RoadOf(p)
    /\ o.todo # <<>> /\ ToAdd(o) \subseteq RoadOf(p)
    /\ Adding(o.todo[Len(o.todo)]) = {CenLsr(p)}
    /\ o.kind = "init" => FirstEdge(p)
    /\ o.kind = "add" => AnotherRoad(o, p)

Building == \A c \in Chassis : op[c].kind \in Adder => \E p : Builder(op[c], p)

\* How the agents' views go with each other and with the tree: each edge that
\* anybody takes serves, in the tree and in the eyes of its own host; or nobody
\* has more than one to take; or none is to be taken, and some edge that no run
\* is about keeps the next one from being the first.
AllServe ==
    \A c \in Chassis : \A x \in view[c].taken \cup Taken(db) :
        x.m[1] = "m" /\ x \in Serving(db) /\ x \in view[x.at].serving

OneAtMost ==
    /\ \A c \in Chassis : \A x, y \in view[c].taken : x = y
    /\ \A x, y \in Taken(db) : x = y

NoneTaken ==
    /\ Taken(db) = {}
    /\ \E e \in Routers(db) :
        /\ e # CentralRouter
        /\ \A c \in Chassis : /\ \A f \in ToAdd(op[c]) : f.by # e.by
                              /\ \A i \in 1..Len(op[c].todo) : ~Takes(op[c].todo[i], e)

\* The road x is of the run n.
Of(x, n) == \E e \in Routers(db) : e.a = x.edge /\ e.by = n

\* A run that removes takes parts of one run only.  It begins with the port of
\* the central router, and goes on when no agent takes the road any more, or
\* when that cannot matter.
Untouched(o, n) ==
    /\ o.todo # <<>> /\ o.todo[1].verb = "del"
    /\ \A e \in db : Takes(o.todo[1], e) <=> (IsCenLrp(e) /\ e.by = n)
    /\ \/ Len(o.todo) = 6 /\ o.todo[2].verb = "sleep"
       \/ Len(o.todo) = 5 /\ \A x \in Taken(db) : Of(x, n)

Leaves(o, n) ==
    /\ \A e \in db : ~(IsCenLrp(e) /\ e.by = n)
    /\ Len(o.todo) <= 5
    /\ Len(o.todo) = 5 =>
        /\ o.todo[1].verb = "sleep"
        /\ \A c \in Chassis \ o.owing : \A x \in view[c].taken : ~Of(x, n)
    /\ Len(o.todo) <= 4 =>
        \/ \A c \in Chassis : \A x \in view[c].taken : ~Of(x, n)
        \/ OneAtMost \/ NoneTaken

Remover(o, n) ==
    /\ \A i \in 1..Len(o.todo), e \in db : Takes(o.todo[i], e) => e.by = n
    /\ ~o.begun => Untouched(o, n)
    /\ o.begun => Leaves(o, n)

Removing == \A c \in Chassis : op[c].kind = "remove" => \E n : Remover(op[c], n)

Views ==
    /\ RoadsWhole
    /\ Building
    /\ Removing
    /\ AllServe \/ OneAtMost \/ NoneTaken

\* Beside IInv.
VInv == overlap # "removes" => Views

------------------------------------------------------------------------------
(***************************************************************************)
(* What is taken is in service, and the other way round.                   *)
(***************************************************************************)

LEMMA TakenWhole ==
    ASSUME Shaped, Tree, RoadsWhole, NEW x \in Taken(db)
    PROVE  \E p : /\ IsRoad(p) /\ p.n \in 1..count /\ x = Road(p)
                  /\ RoadOf(p) \subseteq db /\ Own(p.n) \subseteq RoadOf(p)
<1>1. PICK q : /\ IsRoad(q) /\ q.n \in 1..count /\ Own(q.n) \subseteq RoadOf(q)
               /\ x = Road(q) /\ TakenParts(q) \subseteq db
  BY TakenRoad
<1>2. CenLrp(q) \in db /\ CenLsr(q) \in db /\ Lr(q) \in db /\ EdgePort(q) \in db
  BY <1>1 DEF TakenParts
<1>3. /\ IsCenLrp(CenLrp(q)) /\ IsCenLsr(CenLsr(q))
      /\ CenLrp(q).by = q.n /\ CenLsr(q).by = q.n
  BY DEF IsCenLrp, IsCenLsr, CenLrp, CenLsr, Entity
<1>4. PICK p : IsRoad(p) /\ p.n = q.n /\ RoadOf(p) \subseteq db
  BY <1>2, <1>3 DEF RoadsWhole
<1>5. Lr(p) \in All /\ EdgePort(p) \in All
  <2>1. Lr(p) \in RoadOf(p) /\ EdgePort(p) \in RoadOf(p)
    BY PartsOfRoad DEF TakenParts
  <2> QED
    BY <1>4, <2>1, InAll
<1>6. Road(p) = Road(q)
  BY <1>1, <1>4, <1>5, OneRoad
\* All of the run's parts are this road's: its own are already all there are.
<1>8. \A e \in Own(p.n) : e \in RoadOf(p)
  <2> SUFFICES ASSUME NEW e \in Own(p.n) PROVE e \in RoadOf(p)
    OBVIOUS
  <2>1. e \in RoadOf(q) /\ RoadOf(p) \subseteq RoadOf(q)
    <3>1. RoadOf(p) \subseteq Own(p.n)
      BY <1>4, InAll, PartOfRoad DEF Own
    <3> QED
      BY <1>1, <1>4, <3>1
  <2>2. q.edge = p.edge /\ q.m = p.m /\ q.at = p.at
    BY <1>6 DEF Road
  <2>3. q.out = p.out
    <3> DEFINE h == Entity("lsp", p.out, NoName, PatchIp, p.at, p.n)
    <3>1. h \in RoadOf(q) /\ h.kind = "lsp" /\ h.a = p.out /\ h.b = NoName
      BY <2>1 DEF RoadOf, Entity
    <3> QED
      BY <1>1, <3>1, PartOfRoad, NamesApart
  <2>4. \E f1 \in RoadOf(p) : f1.kind = e.kind /\ f1.a = e.a /\ f1.b = e.b
    BY <2>1, <2>2, <2>3 DEF RoadOf, Entity
  <2>5. PICK f1 \in RoadOf(p) : f1.kind = e.kind /\ f1.a = e.a /\ f1.b = e.b
    BY <2>4
  <2>6. f1 = e
    BY <1>1, <2>1, <2>5, PartByNames
  <2> QED
    BY <2>5, <2>6
<1> QED
  BY <1>1, <1>4, <1>6, <1>8

LEMMA TakenServes ==
    ASSUME Shaped, Tree, RoadsWhole, NEW x \in Taken(db)
    PROVE  x.m[1] = "m" /\ x \in Serving(db) /\ x.at \in Chassis
<1>1. PICK p : IsRoad(p) /\ x = Road(p) /\ RoadOf(p) \subseteq db
  BY TakenWhole
<1>2. x \in Serving(db)
  BY <1>1, PartsOfRoad, ServingFound
<1> QED
  BY <1>1, <1>2 DEF Road, IsRoad

Service(r) == [edge |-> r.edge, m |-> r.m, at |-> r.at]

LEMMA TakenInService ==
    ASSUME Shaped, Tree, RoadsWhole, NEW x \in Taken(db)
    PROVE  \E r \in dl_ecmp_road(db) : x = Service(r)
<1>1. PICK p : IsRoad(p) /\ x = Road(p) /\ RoadOf(p) \subseteq db
  BY TakenWhole
<1> DEFINE r == [edge |-> p.edge, at |-> p.at, out |-> p.out, m |-> p.m, central |-> Central]
<1>2. r \in dl_ecmp_road(db)
  BY <1>1, RoadFound DEF Tree
<1>3. x = Service(r)
  BY <1>1 DEF Road, Service
<1> QED
  BY <1>2, <1>3

LEMMA InServiceTaken ==
    ASSUME Shaped, Tree, NEW r \in dl_ecmp_road(db)
    PROVE  \E p : /\ IsRoad(p) /\ p.n \in 1..count /\ Own(p.n) \subseteq RoadOf(p)
                  /\ Service(r) = Road(p) /\ Road(p) \in Taken(db)
                  /\ r.edge = p.edge /\ r.out = p.out /\ r.m = p.m /\ r.central = Central
                  /\ Lr(p) \in db
<1> DEFINE k == There(db)
<1>1. PICK p :
        /\ IsRoad(p) /\ p.n \in 1..count /\ Own(p.n) \subseteq RoadOf(p)
        /\ r.edge = p.edge /\ r.out = p.out /\ r.m = p.m /\ r.central = Central
        /\ \E g \in db : g.kind = "lr" /\ g.a = p.edge /\ g.by = p.n
        /\ \E g \in db : g.kind = "ls" /\ g.a = p.m /\ g.by = p.n
  BY RoadOfOne
<1>2. PICK e \in db :
        /\ e.kind = "lr" /\ e.at # Off
        /\ r \in {[edge |-> e.a, at |-> e.at, out |-> out, m |-> t[1], central |-> t[2]] :
                    out \in Outsides(db, k, e), t \in Insides(db, k, e)}
  BY DEF dl_ecmp_road, Routers
<1>3. PICK out \in Outsides(db, k, e) : \E t \in Insides(db, k, e) :
        r = [edge |-> e.a, at |-> e.at, out |-> out, m |-> t[1], central |-> t[2]]
  BY <1>2
<1>4. PICK t \in Insides(db, k, e) :
        r = [edge |-> e.a, at |-> e.at, out |-> out, m |-> t[1], central |-> t[2]]
  BY <1>3
<1>5. t[1] = p.m /\ t[2] = Central /\ e.a = p.edge /\ r.at = e.at
  BY <1>1, <1>4
<1>6. /\ <<"lrp", p.edge, p.m>> \in k /\ <<"lsp", p.m, p.edge>> \in k
      /\ <<"lrp", Central, p.m>> \in k /\ <<"lsp", p.m, Central>> \in k
      /\ <<"lsr", Central, p.m>> \in k
  BY <1>4, <1>5 DEF Insides, dl_edge_LR_peer_LR, dl_edge_LR_peer_LS, Linked
<1>7. \A a, b, c : <<a, b, c>> \in k => \E f \in db : f.kind = a /\ f.a = b /\ f.b = c
  BY DEF There
<1> HIDE DEF k
<1>8. PICK g1 \in db : g1.kind = "lr" /\ g1.a = p.edge /\ g1.by = p.n
  BY <1>1
<1>9. PICK g2 \in db : g2.kind = "ls" /\ g2.a = p.m /\ g2.by = p.n
  BY <1>1
<1>10. PICK f1 \in db : f1.kind = "lrp" /\ f1.a = p.edge /\ f1.b = p.m
  BY <1>6, <1>7
<1>11. PICK f2 \in db : f2.kind = "lsp" /\ f2.a = p.m /\ f2.b = p.edge
  BY <1>6, <1>7
<1>12. PICK f3 \in db : f3.kind = "lrp" /\ f3.a = Central /\ f3.b = p.m
  BY <1>6, <1>7
<1>13. PICK f4 \in db : f4.kind = "lsp" /\ f4.a = p.m /\ f4.b = Central
  BY <1>6, <1>7
<1>14. PICK f5 \in db : f5.kind = "lsr" /\ f5.a = Central /\ f5.b = p.m
  BY <1>6, <1>7
<1>15. e = g1
  BY <1>2, <1>5, <1>8, OneOwner
<1>16. /\ f1.by = p.n /\ f2.by = p.n /\ f3.by = p.n /\ f4.by = p.n /\ f5.by = p.n
  BY <1>9, <1>10, <1>11, <1>12, <1>13, <1>14, AboutSwitch
<1>17. {e, f1, f2, f3, f4, f5} \subseteq RoadOf(p)
  BY <1>1, <1>8, <1>15, <1>16, InAll DEF Own
<1> DEFINE k2 == Entity("lsp", p.m, p.edge, p.inner, Off, p.n)
           k4 == Entity("lsp", p.m, Central, p.hop, Off, p.n)
<1>18. TakenParts(p) = {Lr(p), EdgePort(p), k2, CenLrp(p), k4, CenLsr(p)}
  BY DEF TakenParts
<1>19. {Lr(p), EdgePort(p), k2, CenLrp(p), k4, CenLsr(p)} \subseteq RoadOf(p)
  BY <1>18, PartsOfRoad
<1>20. /\ Lr(p).kind = "lr" /\ Lr(p).a = p.edge /\ Lr(p).b = NoName
       /\ EdgePort(p).kind = "lrp" /\ EdgePort(p).a = p.edge /\ EdgePort(p).b = p.m
       /\ k2.kind = "lsp" /\ k2.a = p.m /\ k2.b = p.edge
       /\ CenLrp(p).kind = "lrp" /\ CenLrp(p).a = Central /\ CenLrp(p).b = p.m
       /\ k4.kind = "lsp" /\ k4.a = p.m /\ k4.b = Central
       /\ CenLsr(p).kind = "lsr" /\ CenLsr(p).a = Central /\ CenLsr(p).b = p.m
  BY DEF Lr, EdgePort, CenLrp, CenLsr, Entity
<1> HIDE DEF k2, k4
<1>21. e.b = NoName
  BY <1>1, <1>2, <1>17, PartOfRoad
<1>22. e = Lr(p) /\ f1 = EdgePort(p) /\ f2 = k2
  BY <1>1, <1>2, <1>5, <1>10, <1>11, <1>17, <1>19, <1>20, <1>21, PartByNames
<1>23. f3 = CenLrp(p) /\ f4 = k4 /\ f5 = CenLsr(p)
  BY <1>1, <1>12, <1>13, <1>14, <1>17, <1>19, <1>20, PartByNames
<1>24. TakenParts(p) \subseteq db
  BY <1>10, <1>11, <1>12, <1>13, <1>14, <1>18, <1>22, <1>23
<1>25. Road(p) \in Taken(db)
  BY <1>1, <1>24, TakenFound
<1>26. e.at = p.at
  BY <1>22 DEF Lr, Entity
<1>27. Service(r) = Road(p)
  BY <1>1, <1>5, <1>26 DEF Service, Road
<1>28. Lr(p) \in db
  BY <1>22
<1> QED
  BY <1>1, <1>25, <1>27, <1>28

\* What the run n has left of its road on the central router is none of what is
\* taken.
LEMMA CutRoad ==
    ASSUME Shaped, Tree, NEW n, \A e \in db : ~(IsCenLrp(e) /\ e.by = n),
           NEW x \in Taken(db)
    PROVE  ~Of(x, n)
<1> SUFFICES ASSUME NEW e \in Routers(db), e.a = x.edge, e.by = n PROVE FALSE
  BY DEF Of
<1>1. PICK p : IsRoad(p) /\ x = Road(p) /\ TakenParts(p) \subseteq db
  BY TakenRoad
<1>2. Lr(p) \in db /\ CenLrp(p) \in db
  BY <1>1 DEF TakenParts
<1>3. Lr(p).kind = "lr" /\ Lr(p).a = x.edge /\ Lr(p).by = p.n
  BY <1>1 DEF Lr, Entity, Road
<1>4. e.by = p.n
  BY <1>2, <1>3, OneOwner DEF Routers
<1>5. IsCenLrp(CenLrp(p)) /\ CenLrp(p).by = p.n
  BY DEF IsCenLrp, CenLrp, Entity
<1> QED
  BY <1>2, <1>4, <1>5
\* NoBlackHole follows from what is said of the views.
LEMMA ViewsSafe ==
    ASSUME Shaped, Tree, Views, NEW c \in Chassis
    PROVE  LET taken == view[c].taken
               works == {x \in taken : x \in view[x.at].serving}
               inService == {[edge |-> r.edge, m |-> r.m, at |-> r.at] :
                                r \in dl_ecmp_road(db)}
           IN  works \cap inService # {} => works = taken
<1> DEFINE taken == view[c].taken
           works == {x \in taken : x \in view[x.at].serving}
           inService == {[edge |-> r.edge, m |-> r.m, at |-> r.at] : r \in dl_ecmp_road(db)}
<1>1. CASE AllServe
  BY <1>1 DEF AllServe
<1>2. CASE OneAtMost
  <2>1. \A x, y \in taken : x = y
    BY <1>2 DEF OneAtMost
  <2> QED
    BY <2>1
<1>3. CASE NoneTaken
  <2>1. \A r \in dl_ecmp_road(db) : Service(r) \in Taken(db)
    BY InServiceTaken
  <2>2. Taken(db) = {}
    BY <1>3 DEF NoneTaken
  <2>3. inService = {}
    BY <2>1, <2>2
  <2> QED
    BY <2>3
<1> QED
  BY <1>1, <1>2, <1>3 DEF Views

------------------------------------------------------------------------------
(***************************************************************************)
(* The steps that leave the tree alone.                                    *)
(***************************************************************************)

LEMMA ViewsInit == Init => Views
<1> SUFFICES ASSUME Init PROVE Views
  OBVIOUS
<1>1. db = {CentralRouter} /\ view = [c \in Chassis |-> Digest(db)] /\ op = [c \in Chassis |-> Idle]
  BY DEF Init, CentralRouter
<1>2. Routers(db) = {CentralRouter} /\ CentralRouter.at = Off /\ CentralRouter.kind = "lr"
  BY <1>1 DEF Routers, CentralRouter, Entity
<1>3. Taken(db) = {}
  BY <1>2 DEF Taken
<1>4. \A c \in Chassis : view[c].taken = {} /\ op[c].kind = "none"
  BY <1>1, <1>3 DEF Digest, Idle
<1>5. RoadsWhole
  BY <1>1, <1>2 DEF RoadsWhole, IsCenLrp
<1>6. Building /\ Removing
  BY <1>4 DEF Building, Removing, Adder
<1>7. AllServe
  BY <1>3, <1>4 DEF AllServe
<1> QED
  BY <1>5, <1>6, <1>7 DEF Views

\* The agent on c catches up: what it takes then is what the tree has.
LEMMA ApplyView ==
    ASSUME Types, NEW c \in Chassis, Apply(c)
    PROVE  /\ view'[c].taken = Taken(db) /\ view'[c].serving = Serving(db)
           /\ \A d \in Chassis : d # c => view'[d] = view[d]
           /\ \A d \in Chassis : op'[d].owing = op[d].owing \ {c}
<1>1. view' = [view EXCEPT ![c] = Digest(db)] /\ view = [d \in Chassis |-> view[d]]
  BY DEF Apply, Types
<1>2. op' = [d \in Chassis |-> [op[d] EXCEPT !.owing = @ \ {c}]]
  BY DEF Apply
<1>3. \A d \in Chassis : op[d] = [todo |-> op[d].todo, kind |-> op[d].kind,
                                  begun |-> op[d].begun, owing |-> op[d].owing]
  BY DEF Types, JobOK
<1>4. \A d \in Chassis : op'[d].owing = op[d].owing \ {c}
  <2> TAKE d \in Chassis
  <2>1. op'[d] = [op[d] EXCEPT !.owing = @ \ {c}]
    BY <1>2
  <2>2. op[d] = [todo |-> op[d].todo, kind |-> op[d].kind,
                 begun |-> op[d].begun, owing |-> op[d].owing]
    BY <1>3
  <2> QED
    BY <2>1, <2>2
<1> QED
  BY <1>1, <1>4 DEF Digest

\* What is said of the tree and the runs alone stays when only they do.
LEMMA SameTaken ==
    ASSUME db' = db
    PROVE  Taken(db)' = Taken(db) /\ Serving(db)' = Serving(db) /\ Routers(db)' = Routers(db)
           /\ \A x, n : Of(x, n)' = Of(x, n)
BY DEF Taken, Serving, Routers, Of, Named, Linked, There, Outsides, Switches,
       dl_edge_LR_peer_LS, dl_LS_has_patchport

LEMMA ApplySets ==
    ASSUME Types, Sound, Views, NEW c \in Chassis, Apply(c)
    PROVE  /\ AllServe => AllServe'
           /\ OneAtMost => OneAtMost'
           /\ NoneTaken => NoneTaken'
<1>1. /\ view'[c].taken = Taken(db) /\ view'[c].serving = Serving(db)
      /\ \A d \in Chassis : d # c => view'[d] = view[d]
  BY ApplyView
<1>2. /\ \A d \in Chassis : op'[d].todo = op[d].todo /\ ToAdd(op'[d]) = ToAdd(op[d])
      /\ db' = db
  BY ApplyEffect
<1>3. Taken(db)' = Taken(db) /\ Serving(db)' = Serving(db) /\ Routers(db)' = Routers(db)
  BY <1>2, SameTaken
<1>4. \A x \in Taken(db) : x.m[1] = "m" /\ x \in Serving(db) /\ x.at \in Chassis
  BY TakenServes DEF Sound, Views
<1>5. \A d \in Chassis : \A x \in view'[d].taken : x \in Taken(db) \/ x \in view[d].taken
  BY <1>1
<1>6. ASSUME AllServe PROVE AllServe'
  <2> SUFFICES ASSUME NEW d \in Chassis, NEW x \in view'[d].taken \cup Taken(db)
               PROVE  x.m[1] = "m" /\ x \in Serving(db) /\ x \in view'[x.at].serving
    BY <1>3 DEF AllServe
  <2>1. x \in view[d].taken \cup Taken(db)
    BY <1>5
  <2>2. x.m[1] = "m" /\ x \in Serving(db) /\ x \in view[x.at].serving
    BY <1>6, <2>1 DEF AllServe
  <2>3. x.at \in Chassis
    BY <1>4, <2>1 DEF Types
  <2>4. x \in view'[x.at].serving
    BY <1>1, <2>2, <2>3
  <2> QED
    BY <2>2, <2>4
<1>7. ASSUME OneAtMost PROVE OneAtMost'
  <2>1. \A d \in Chassis : view'[d].taken \in {Taken(db), view[d].taken}
    BY <1>1
  <2> QED
    BY <1>3, <1>7, <2>1 DEF OneAtMost
<1>8. ASSUME NoneTaken PROVE NoneTaken'
  BY <1>2, <1>3, <1>8 DEF NoneTaken, Takes
<1> QED
  BY <1>6, <1>7, <1>8

LEMMA SameBuilder ==
    ASSUME NEW o, NEW r, NEW p, Builder(o, p), r.kind = o.kind, r.todo = o.todo,
           ToAdd(r) = ToAdd(o), db' = db, All' \subseteq All, RoadOf(p) \subseteq All',
           o.kind = "add" => AnotherRoad(r, p)'
    PROVE  Builder(r, p)'
<1>1. Own(p.n)' = Own(p.n)
  <2>1. \A e \in RoadOf(p) : e.by = p.n
    BY PartOfRoad DEF Builder
  <2>2. Own(p.n) = RoadOf(p)
    BY DEF Builder
  <2> QED
    BY <2>1, <2>2 DEF Own
<1>2. o.kind = "init" => FirstEdge(p)'
  <2>1. Routers(db)' = Routers(db)
    BY SameTaken
  <2> QED
    BY <2>1 DEF Builder, FirstEdge
<1> QED
  BY <1>1, <1>2 DEF Builder
\* A run that adds has in the tree what it need not add any more.
LEMMA BuilderAll ==
    ASSUME NEW c \in Chassis, NEW p, Builder(op[c], p)
    PROVE  RoadOf(p) \subseteq All
BY DEF Builder, Own

\* With everything but its last part there, the road of a run serves.
LEMMA BuiltServes ==
    ASSUME Types, Sound, NEW c \in Chassis, NEW p, Builder(op[c], p), op[c].kind = "add",
           Len(op[c].todo) <= 2
    PROVE  ToAdd(op[c]) = {CenLsr(p)} /\ RoadOf(p) \ {CenLsr(p)} \subseteq db
           /\ Road(p) \in Serving(db)
<1> DEFINE t == op[c].todo
<1>0. JobOK(op[c]) /\ t # <<>> /\ Adding(t[Len(t)]) = {CenLsr(p)}
  BY DEF Types, Builder
<1>1. Len(t) \in 1..2 /\ Adding(t[Len(t)]) = {CenLsr(p)}
  <2>1. Len(t) \in Nat /\ Len(t) >= 1 /\ Len(t) <= 2
    BY <1>0, JobLength
  <2>2. \A n \in Nat : n >= 1 /\ n <= 2 => n \in 1..2
    OBVIOUS
  <2> HIDE DEF t
  <2> QED
    BY <1>0, <2>1, <2>2
<1>2. Len(t) = 2 => Adding(t[1]) = {}
  BY DEF Builder, AnotherRoad, Adding
<1>3. \A i \in 1..Len(t) : i = 1 \/ i = 2
  BY <1>1
<1>4. ToAdd(op[c]) = {CenLsr(p)}
  <2> DEFINE n == Len(t)
  <2>1. ToAdd(op[c]) = UNION {Adding(t[i]) : i \in 1..n}
    BY DEF ToAdd
  <2>2. n \in 1..n /\ (n = 1 \/ (n = 2 /\ Adding(t[1]) = {})) /\ Adding(t[n]) = {CenLsr(p)}
    <3>1. \A k \in 1..2 : k \in 1..k /\ (k = 1 \/ k = 2)
      OBVIOUS
    <3> HIDE DEF t
    <3> QED
      BY <1>1, <1>2, <3>1
  <2>3. \A i \in 1..n : i = n \/ Adding(t[i]) = {}
    BY <1>3, <2>2
  <2> HIDE DEF n, t
  <2> QED
    BY <2>1, <2>2, <2>3
<1>5. RoadOf(p) \ {CenLsr(p)} \subseteq db
  <2> SUFFICES ASSUME NEW e \in RoadOf(p), e # CenLsr(p) PROVE e \in db
    OBVIOUS
  <2>1. e.by = p.n /\ CenLsr(p).by = p.n
    BY PartOfRoad DEF Builder, CenLsr, Entity
  <2>2. e \in db \/ \E d \in Chassis : e \in ToAdd(op[d])
    BY BuilderAll DEF All
  <2>3. ASSUME NEW d \in Chassis, e \in ToAdd(op[d]) PROVE FALSE
    <3>1. d # c
      BY <1>4, <2>3
    <3> QED
      BY <1>4, <2>1, <2>3, <3>1 DEF Sound, Additions
  <2> QED
    BY <2>2, <2>3
<1>6. CenLsr(p) \notin ServingParts(p)
  <2>1. CenLsr(p).kind = "lsr" /\ CenLsr(p).a = Central
    BY DEF CenLsr, Entity
  <2>2. p.edge # Central
    BY NamesApart DEF Builder
  <2> QED
    BY <2>1, <2>2 DEF ServingParts, Lr, EdgePort, Entity
<1>7. Road(p) \in Serving(db)
  <2>1. ServingParts(p) \subseteq db
    BY <1>5, <1>6, PartsOfRoad
  <2> QED
    BY <2>1, ServingFound DEF Builder
<1> QED
  BY <1>4, <1>5, <1>7

LEMMA ViewsApply ==
    ASSUME Types, Sound, Views, NEW c \in Chassis, Apply(c)
    PROVE  Views'
<1>1. /\ view'[c].taken = Taken(db) /\ view'[c].serving = Serving(db)
      /\ \A d \in Chassis : d # c => view'[d] = view[d]
      /\ \A d \in Chassis : op'[d].owing = op[d].owing \ {c}
  BY ApplyView
<1>2. /\ \A d \in Chassis : /\ op'[d].todo = op[d].todo /\ op'[d].kind = op[d].kind
                            /\ op'[d].begun = op[d].begun /\ ToAdd(op'[d]) = ToAdd(op[d])
      /\ db' = db /\ All' = All
  BY ApplyEffect
<1>3. /\ Taken(db)' = Taken(db) /\ Routers(db)' = Routers(db)
      /\ \A x, n : Of(x, n)' = Of(x, n)
  BY <1>2, SameTaken
<1>4. RoadsWhole'
  BY <1>2 DEF Views, RoadsWhole
<1>5. Building'
  <2> SUFFICES ASSUME NEW d \in Chassis, op'[d].kind \in Adder
               PROVE  \E p : Builder(op[d], p)'
    BY DEF Building
  <2>1. PICK p : Builder(op[d], p)
    BY <1>2 DEF Views, Building
  <2>2. RoadOf(p) \subseteq All'
    BY <1>2, <2>1, BuilderAll
  <2>3. ASSUME op[d].kind = "add" PROVE AnotherRoad(op[d], p)'
    <3>1. AnotherRoad(op[d], p)
      BY <2>1, <2>3 DEF Builder
    <3>2. ASSUME Len(op[d].todo) <= 2, NEW b \in Chassis, b \notin op'[d].owing
          PROVE  /\ view'[b].taken \subseteq Taken(db)
                 /\ Taken(db) \cup {Road(p)} \subseteq view'[b].serving
      <4>1. CASE b = c
        <5>1. Road(p) \in Serving(db)
          BY <2>1, <2>3, <3>2, BuiltServes
        <5>2. Taken(db) \subseteq Serving(db)
          BY TakenServes DEF Sound, Views
        <5> QED
          BY <1>1, <4>1, <5>1, <5>2
      <4>2. CASE b # c
        BY <1>1, <3>1, <3>2, <4>2 DEF AnotherRoad
      <4> QED
        BY <4>1, <4>2
    <3> QED
      BY <1>1, <1>2, <1>3, <3>1, <3>2 DEF AnotherRoad
  <2> QED
    BY <1>2, <2>1, <2>2, <2>3, SameBuilder
<1>6. Removing'
  <2> SUFFICES ASSUME NEW d \in Chassis, op'[d].kind = "remove"
               PROVE  \E n : Remover(op[d], n)'
    BY DEF Removing
  <2>1. PICK n : Remover(op[d], n)
    BY <1>2 DEF Views, Removing
  <2>2. ~op[d].begun => Untouched(op[d], n)'
    BY <1>2, <1>3, <2>1 DEF Remover, Untouched
  <2>3. ASSUME op[d].begun PROVE Leaves(op[d], n)'
    <3>1. Leaves(op[d], n)
      BY <2>1, <2>3 DEF Remover
    <3>2. \A x \in Taken(db) : ~Of(x, n)
      BY <3>1, CutRoad DEF Leaves, Sound
    <3>3. \A b \in Chassis : view'[b].taken \in {Taken(db), view[b].taken}
      BY <1>1
    <3>4. Len(op[d].todo) <= 4 =>
            \/ \A b \in Chassis : \A x \in view'[b].taken : ~Of(x, n)
            \/ OneAtMost' \/ NoneTaken'
      BY <3>1, <3>2, <3>3, ApplySets DEF Leaves
    <3>5. Len(op[d].todo) = 5 =>
            \A b \in Chassis \ op'[d].owing : \A x \in view'[b].taken : ~Of(x, n)
      BY <1>1, <3>1, <3>2 DEF Leaves
    <3> QED
      BY <1>2, <1>3, <3>1, <3>4, <3>5 DEF Leaves
  <2> QED
    BY <1>2, <2>1, <2>2, <2>3 DEF Remover
<1>7. AllServe' \/ OneAtMost' \/ NoneTaken'
  BY ApplySets DEF Views
<1> QED
  BY <1>4, <1>5, <1>6, <1>7 DEF Views
------------------------------------------------------------------------------
(***************************************************************************)
(* The same facts about the tree after a step.                             *)
(***************************************************************************)

RoadBehind(x) ==
    \E p : /\ IsRoad(p) /\ p.n \in 1..count /\ Own(p.n) \subseteq RoadOf(p)
           /\ x = Road(p) /\ TakenParts(p) \subseteq db

LEMMA TakenNow == (Shaped /\ Tree) => \A x \in Taken(db) : RoadBehind(x)
BY TakenRoad DEF RoadBehind

LEMMA TakenNext == (Shaped' /\ Tree') => \A x \in Taken(db)' : RoadBehind(x)'
<1>1. (Shaped /\ Tree => \A x \in Taken(db) : RoadBehind(x))'
  BY TakenNow, PTL
<1> QED
  BY <1>1

LEMMA ServesNow ==
    (Shaped /\ Tree /\ RoadsWhole) =>
        \A x \in Taken(db) : x.m[1] = "m" /\ x \in Serving(db) /\ x.at \in Chassis
BY TakenServes

LEMMA ServesNext ==
    (Shaped' /\ Tree' /\ RoadsWhole') =>
        \A x \in Taken(db)' : x.m[1] = "m" /\ x \in Serving(db)' /\ x.at \in Chassis
<1>1. (Shaped /\ Tree /\ RoadsWhole =>
        \A x \in Taken(db) : x.m[1] = "m" /\ x \in Serving(db) /\ x.at \in Chassis)'
  BY ServesNow, PTL
<1> QED
  BY <1>1
------------------------------------------------------------------------------
(***************************************************************************)
(* A run that adds goes on, or ends.                                       *)
(***************************************************************************)

LEMMA BuiltParts ==
    ASSUME Types, Sound, NEW c \in Chassis, NEW p, Builder(op[c], p)
    PROVE  /\ RoadOf(p) \subseteq db \cup ToAdd(op[c])
           /\ CenLsr(p) \in ToAdd(op[c]) /\ CenLsr(p) \notin db
           /\ Len(op[c].todo) \in 1..Len(op[c].todo)
<1>1. JobOK(op[c]) /\ op[c].todo # <<>> /\ Adding(op[c].todo[Len(op[c].todo)]) = {CenLsr(p)}
  BY DEF Types, Builder
<1> DEFINE last == Len(op[c].todo)
<1>2. last \in Nat /\ last >= 1
  BY <1>1, JobLength
<1> HIDE DEF last
<1>3. last \in 1..last
  BY <1>2
<1>4. CenLsr(p) \in Adding(op[c].todo[last]) /\ last \in 1..Len(op[c].todo)
  BY <1>1, <1>3 DEF last
<1>5. CenLsr(p) \in ToAdd(op[c]) /\ CenLsr(p) \notin db
  <2>1. CenLsr(p) \in ToAdd(op[c])
    BY <1>4 DEF ToAdd
  <2>2. AdderOK(op[c], db)
    BY DEF Sound, Additions
  <2>3. CenLsr(p) \notin db
    BY <1>4, <2>2 DEF AdderOK
  <2> QED
    BY <2>1, <2>3
<1>6. \A e \in RoadOf(p) : e \in db \cup ToAdd(op[c])
  <2> TAKE e \in RoadOf(p)
  <2>1. e.by = p.n /\ CenLsr(p).by = p.n
    BY PartOfRoad DEF Builder, CenLsr, Entity
  <2>2. e \in db \/ \E d \in Chassis : e \in ToAdd(op[d])
    BY BuilderAll DEF All
  <2>3. ASSUME NEW d \in Chassis, d # c, e \in ToAdd(op[d]) PROVE FALSE
    BY <1>5, <2>1, <2>3 DEF Sound, Additions
  <2> QED
    BY <2>2, <2>3
<1> QED
  BY <1>3, <1>5, <1>6 DEF last

\* A command that adds, or the sleep between two of them.
Advance(c) ==
    /\ op[c].todo # <<>> /\ op[c].kind \in Adder
    /\ op' = [op EXCEPT ![c] = Rest(op[c])]
    /\ db' = db \cup Adding(op[c].todo[1])
    /\ \A e \in Adding(op[c].todo[1]), f \in db : Key(e) # Key(f)
    /\ op[c].todo[1].verb = "sleep" => op[c].owing = {}
    /\ view' = view /\ count' = count /\ All' \subseteq All

LEMMA AdvanceEffect ==
    ASSUME Types, Sound, NEW c \in Chassis, NEW p, Builder(op[c], p), Advance(c)
    PROVE  /\ op'[c] = Rest(op[c]) /\ IsRest(op[c], Rest(op[c]))
           /\ \A d \in Chassis : d # c => op'[d] = op[d]
           /\ Len(op[c].todo) \in Nat \ {0}
           /\ Adding(op[c].todo[1]) \subseteq RoadOf(p)
           /\ Len(op[c].todo) = 1 =>
                /\ op'[c] = Idle /\ Adding(op[c].todo[1]) = {CenLsr(p)}
                /\ RoadOf(p) \subseteq db'
           /\ Len(op[c].todo) # 1 =>
                /\ CenLsr(p) \notin db' /\ op'[c].kind = op[c].kind /\ op'[c].todo # <<>>
                /\ op'[c].todo[Len(op'[c].todo)] = op[c].todo[Len(op[c].todo)]
<1> DEFINE o == op[c]
           r == Rest(o)
           n == Len(o.todo)
<1>1. op'[c] = r /\ \A d \in Chassis : d # c => op'[d] = op[d]
  BY DEF Types, Advance
<1>2. JobOK(o) /\ o.todo # <<>>
  BY DEF Types, Advance
<1>3. IsRest(o, r) /\ n \in Nat \ {0} /\ JobOK(r)
  BY <1>2, RestOfJob, JobLength
<1>4. /\ RoadOf(p) \subseteq db \cup ToAdd(o)
      /\ CenLsr(p) \in ToAdd(o) /\ CenLsr(p) \notin db
      /\ Adding(o.todo[n]) = {CenLsr(p)} /\ ToAdd(o) \subseteq RoadOf(p)
  BY BuiltParts DEF Builder
<1>5. db' = db \cup Adding(o.todo[1])
  BY DEF Advance
<1>6. Len(r.todo) = n - 1 /\ (\A i \in 1..Len(r.todo) : r.todo[i] = o.todo[i + 1])
      /\ ToAdd(o) = Adding(o.todo[1]) \cup ToAdd(r)
      /\ ((r = Idle /\ Len(r.todo) = 0) \/ (r.kind = o.kind /\ r.begun /\ Len(r.todo) # 0))
  BY <1>3 DEF IsRest
<1>7. CASE n = 1
  <2>1. r = Idle
    BY <1>6, <1>7
  <2>2. Adding(o.todo[1]) = {CenLsr(p)} /\ ToAdd(o) = {CenLsr(p)}
    BY <1>4, <1>6, <1>7, <2>1, IdleJob
  <2> QED
    BY <1>1, <1>3, <1>4, <1>5, <1>7, <2>1, <2>2
<1>8. CASE n # 1
  <2> HIDE DEF r, n, o
  <2>1. n \in 1..n /\ 1 \in 1..n /\ n - 1 \in 1..Len(r.todo) /\ (n - 1) + 1 = n
    BY <1>3, <1>6, <1>8
  <2>2. CenLsr(p) \notin Adding(o.todo[1])
    <3>1. AdderOK(o, db)
      BY DEF Sound, Additions, o
    <3>2. \A i \in 1..n : \A e \in Adding(o.todo[i]) :
            \A j \in 1..n : j # i => e \notin Adding(o.todo[j])
      BY <3>1 DEF AdderOK, n
    <3>3. CenLsr(p) \in Adding(o.todo[n])
      BY <1>4
    <3> QED
      BY <1>8, <2>1, <3>2, <3>3
  <2>3. r.todo[Len(r.todo)] = o.todo[n]
    BY <1>6, <2>1
  <2>4. r.kind = o.kind /\ r.todo # <<>>
    BY <1>3, <1>6, <1>8, JobLength
  <2> QED
    BY <1>1, <1>3, <1>4, <1>5, <1>6, <1>8, <2>2, <2>3, <2>4 DEF o, r, n
<1> QED
  BY <1>7, <1>8

\* Only the last command makes an edge taken, its run's own.
LEMMA AdvanceTaken ==
    ASSUME Types, Sound, Sound', NEW c \in Chassis, NEW p, Builder(op[c], p), Advance(c)
    PROVE  /\ Taken(db) \subseteq Taken(db)'
           /\ \A x \in Taken(db)' : x \in Taken(db) \/ (x = Road(p) /\ Len(op[c].todo) = 1)
           /\ \A x \in Serving(db) : x.m[1] = "m" => x \in Serving(db)'
<1>1. db \subseteq db' /\ db' \subseteq All
  <2>1. db' \subseteq All'
    BY DEF All
  <2> QED
    BY <2>1 DEF Advance
<1>2. Taken(db) \subseteq Taken(db)'
  <2> SUFFICES ASSUME NEW x \in Taken(db) PROVE x \in Taken(db')
    BY DEF Taken, Routers, Named, There
  <2>1. PICK q : IsRoad(q) /\ x = Road(q) /\ TakenParts(q) \subseteq db
    BY TakenRoad DEF Sound
  <2> QED
    BY <1>1, <2>1, TakenFound
<1>3. \A x \in Serving(db) : x.m[1] = "m" => x \in Serving(db)'
  <2> SUFFICES ASSUME NEW x \in Serving(db), x.m[1] = "m" PROVE x \in Serving(db')
    BY DEF Serving, Routers, Outsides, Switches, There, dl_LS_has_patchport
  <2>1. PICK q : IsRoad(q) /\ x = Road(q) /\ ServingParts(q) \subseteq db
    BY ServingRoad DEF Sound
  <2> QED
    BY <1>1, <2>1, ServingFound
<1>4. ASSUME NEW x \in Taken(db)', x \notin Taken(db)
      PROVE  x = Road(p) /\ Len(op[c].todo) = 1
  <2>1. RoadBehind(x)'
    BY TakenNext DEF Sound
  <2>2. PICK q : IsRoad(q) /\ x = Road(q) /\ TakenParts(q) \subseteq db'
    BY <2>1 DEF RoadBehind
  <2>3. db' = db \cup Adding(op[c].todo[1]) /\ Adding(op[c].todo[1]) \subseteq RoadOf(p)
    BY AdvanceEffect DEF Advance
  <2>4. IsRoad(p) /\ Own(p.n) = RoadOf(p)
    BY DEF Builder
  <2>5. q.n = p.n
    <3> SUFFICES ASSUME q.n # p.n PROVE FALSE
      OBVIOUS
    <3>1. \A e \in TakenParts(q) : e.by = q.n
      BY <2>2, PartsOfRoad, PartOfRoad
    <3>2. \A e \in RoadOf(p) : e.by = p.n
      BY <2>4, PartOfRoad
    <3>3. TakenParts(q) \subseteq db
      BY <2>2, <2>3, <3>1, <3>2
    <3> QED
      BY <1>4, <2>2, <3>3, TakenFound
  <2>6. Lr(q) \in All /\ EdgePort(q) \in All /\ CenLsr(q) \in All /\ CenLsr(q) \in db'
    BY <1>1, <2>2 DEF TakenParts
  <2>7. Road(q) = Road(p)
    BY <2>2, <2>4, <2>5, <2>6, OneRoad
  <2>8. CenLsr(q) = CenLsr(p)
    <3>1. /\ CenLsr(q).kind = "lsr" /\ CenLsr(q).a = Central /\ CenLsr(q).b = q.m /\ CenLsr(q).by = q.n
          /\ CenLsr(p).kind = "lsr" /\ CenLsr(p).a = Central /\ CenLsr(p).b = p.m
      BY DEF CenLsr, Entity
    <3>2. CenLsr(q) \in RoadOf(p)
      BY <2>4, <2>5, <2>6, <3>1 DEF Own
    <3>3. CenLsr(p) \in RoadOf(p)
      BY PartsOfRoad DEF TakenParts
    <3>4. q.m = p.m
      BY <2>7 DEF Road
    <3> QED
      BY <2>4, <3>1, <3>2, <3>3, <3>4, PartByNames
  <2>9. Len(op[c].todo) = 1
    BY <2>6, <2>8, AdvanceEffect
  <2> QED
    BY <2>2, <2>7, <2>9
<1> QED
  BY <1>2, <1>3, <1>4
LEMMA OwnParts ==
    ASSUME NEW p, IsRoad(p), NEW e \in RoadOf(p)
    PROVE  /\ e.kind = "lr" => e = Lr(p)
           /\ IsCenLrp(e) => e = CenLrp(p)
           /\ IsCenLsr(e) => e = CenLsr(p)
<1>1. Lr(p) \in RoadOf(p) /\ CenLrp(p) \in RoadOf(p) /\ CenLsr(p) \in RoadOf(p)
  BY PartsOfRoad DEF TakenParts
<1>2. /\ Lr(p).kind = "lr" /\ Lr(p).a = p.edge /\ Lr(p).b = NoName
      /\ CenLrp(p).kind = "lrp" /\ CenLrp(p).a = Central /\ CenLrp(p).b = p.m
      /\ CenLsr(p).kind = "lsr" /\ CenLsr(p).a = Central /\ CenLsr(p).b = p.m
  BY DEF Lr, CenLrp, CenLsr, Entity
<1>3. p.edge # Central
  BY NamesApart
<1>4. /\ e.kind = "lr" => e.a = p.edge /\ e.b = NoName
      /\ e.kind \in {"lrp", "lsr"} /\ e.a = Central => e.b = p.m
  BY <1>3, PartOfRoad
<1> QED
  BY <1>1, <1>2, <1>4, PartByNames DEF IsCenLrp, IsCenLsr

LEMMA EdgeNotCentral ==
    ASSUME NEW p, IsRoad(p)
    PROVE  Lr(p) # CentralRouter /\ Lr(p).kind = "lr" /\ Lr(p).a = p.edge /\ Lr(p).by = p.n
<1>1. Lr(p).kind = "lr" /\ Lr(p).a = p.edge /\ Lr(p).by = p.n
  BY DEF Lr, Entity
<1>2. CentralRouter.a = Central
  BY DEF CentralRouter, Entity
<1> QED
  BY <1>1, <1>2, NamesApart

\* As long as the first edge has only its own, nothing is taken.
LEMMA FirstAlone ==
    ASSUME Types, Sound, NEW c \in Chassis, NEW p, Builder(op[c], p), op[c].kind = "init",
           Lr(p) \in db
    PROVE  /\ Taken(db) = {}
           /\ \A x \in Serving(db) : x.m[1] = "m" => x = Road(p)
<1>1. Routers(db) = {CentralRouter, Lr(p)} /\ IsRoad(p) /\ Own(p.n) = RoadOf(p)
  BY DEF Builder, FirstEdge
<1>2. ASSUME NEW q, IsRoad(q), Lr(q) \in db PROVE q.n = p.n
  <2>1. Lr(q) \in Routers(db) /\ Lr(q) # CentralRouter
    BY <1>2, EdgeNotCentral DEF Routers
  <2>2. Lr(q) = Lr(p)
    BY <1>1, <2>1
  <2> QED
    BY <1>1, <1>2, <2>2, EdgeNotCentral
<1>3. ASSUME NEW x \in Taken(db) PROVE FALSE
  <2>1. PICK q : IsRoad(q) /\ x = Road(q) /\ TakenParts(q) \subseteq db
    BY TakenRoad DEF Sound
  <2>2. Lr(q) \in db /\ CenLsr(q) \in db
    BY <2>1 DEF TakenParts
  <2>3. q.n = p.n
    BY <1>2, <2>1, <2>2
  <2>4. CenLsr(q) \in RoadOf(p) /\ IsCenLsr(CenLsr(q))
    BY <1>1, <2>2, <2>3, InAll DEF Own, IsCenLsr, CenLsr, Entity
  <2>5. CenLsr(q) = CenLsr(p)
    BY <1>1, <2>4, OwnParts
  <2> QED
    BY <2>2, <2>5, BuiltParts
<1>4. ASSUME NEW x \in Serving(db), x.m[1] = "m" PROVE x = Road(p)
  <2>1. PICK q : IsRoad(q) /\ x = Road(q) /\ ServingParts(q) \subseteq db
    BY <1>4, ServingRoad DEF Sound
  <2>2. Lr(q) \in db /\ EdgePort(q) \in db
    BY <2>1 DEF ServingParts
  <2>3. q.n = p.n
    BY <1>2, <2>1, <2>2
  <2> QED
    BY <1>1, <2>1, <2>2, <2>3, InAll, OneRoad
<1> QED
  BY <1>3, <1>4

\* Who takes an edge has a second router in the tree.
LEMMA TakenRouter ==
    ASSUME Shaped, Tree, Taken(db) # {}
    PROVE  Routers(db) # {CentralRouter}
<1>1. PICK x \in Taken(db) : TRUE
  OBVIOUS
<1>2. PICK q : IsRoad(q) /\ TakenParts(q) \subseteq db
  BY TakenRoad
<1>3. Lr(q) \in Routers(db) /\ Lr(q) # CentralRouter
  BY <1>2, EdgeNotCentral DEF TakenParts, Routers
<1> QED
  BY <1>3

LEMMA FirstEdgeKept ==
    ASSUME Types, Sound, NEW c \in Chassis, NEW p, Builder(op[c], p), Advance(c),
           NEW d \in Chassis, NEW q, Builder(op[d], q), op[d].kind = "init"
    PROVE  FirstEdge(q)'
<1> DEFINE new == Adding(op[c].todo[1])
<1>1. db' = db \cup new /\ \A e \in new, f \in db : Key(e) # Key(f)
  BY DEF Advance
<1>2. new \subseteq RoadOf(p) /\ IsRoad(p) /\ IsRoad(q)
  BY AdvanceEffect DEF Builder
<1> HIDE DEF new
<1>3. Routers(db)' = Routers(db) \cup {e \in new : e.kind = "lr"}
  BY <1>1 DEF Routers
<1>4. \A e \in new : e.kind = "lr" => e = Lr(p)
  BY <1>2, OwnParts
<1>5. FirstEdge(q)
  BY DEF Builder
<1>6. op[c].kind = "init" => p.edge = <<"edge", 1>>
  BY DEF Builder, FirstEdge
<1>7. op[c].kind # "init" => Taken(db) # {}
  BY DEF Builder, AnotherRoad, Advance, Adder
<1>8. Lr(p).a = p.edge /\ Lr(p).kind = "lr" /\ Lr(q).a = q.edge /\ Lr(q).kind = "lr"
  BY <1>2, EdgeNotCentral
<1>9. Routers(db)' = {CentralRouter} \/ \E e \in Routers(db)' : e.a = <<"edge", 1>>
  <2>1. CASE \E e \in Routers(db) : e.a = <<"edge", 1>>
    BY <1>3, <2>1
  <2>2. CASE Routers(db) = {CentralRouter}
    <3>1. p.edge = <<"edge", 1>>
      BY <1>6, <1>7, <2>2, TakenRouter DEF Sound
    <3> QED
      BY <1>3, <1>4, <1>8, <2>2, <3>1
  <2> QED
    BY <1>5, <2>1, <2>2 DEF FirstEdge
\* Its own router is there: nobody adds another.
<1>10. CASE Lr(q) \in db
  <2>1. Routers(db) = {CentralRouter, Lr(q)}
    BY <1>5, <1>10 DEF FirstEdge
  <2>2. Taken(db) = {}
    BY <1>10, FirstAlone
  <2>3. p.edge = q.edge
    BY <1>5, <1>6, <1>7, <2>2 DEF FirstEdge
  <2>4. Key(Lr(p)) = Key(Lr(q))
    BY <2>3 DEF Key, Lr, Entity
  <2>5. Lr(p) \notin new
    BY <1>1, <1>10, <2>4
  <2>6. Routers(db)' = Routers(db)
    BY <1>3, <1>4, <2>5
  <2> QED
    BY <1>5, <1>9, <2>1, <2>6 DEF FirstEdge
\* Its own router comes: the name was free, so there was none.
<1>11. CASE Lr(q) \in new /\ Lr(q) \notin db
  <2>1. Lr(q) = Lr(p)
    BY <1>4, <1>8, <1>11
  <2>2. ASSUME NEW e \in Routers(db), e.a = <<"edge", 1>> PROVE FALSE
    <3>1. e \in db /\ e.kind = "lr" /\ e.b = NoName
      BY <2>2, InAll, NamesByKind DEF Routers, Sound
    <3>2. q.edge = <<"edge", 1>>
      BY <1>5 DEF FirstEdge
    <3>3. Key(e) = Key(Lr(q))
      BY <2>2, <3>1, <3>2 DEF Key, Lr, Entity
    <3> QED
      BY <1>1, <1>11, <3>1, <3>3
  <2>3. Routers(db) = {CentralRouter}
    BY <1>5, <2>2 DEF FirstEdge
  <2>4. Routers(db)' = {CentralRouter, Lr(q)}
    BY <1>3, <1>4, <1>8, <1>11, <2>1, <2>3
  <2> QED
    BY <1>5, <1>9, <2>4 DEF FirstEdge
<1>12. CASE Lr(q) \notin db'
  BY <1>5, <1>9, <1>12 DEF FirstEdge
<1> QED
  BY <1>1, <1>10, <1>11, <1>12
LEMMA WholeAdvances ==
    ASSUME Types, Sound, RoadsWhole, NEW c \in Chassis, NEW p, Builder(op[c], p), Advance(c)
    PROVE  RoadsWhole'
<1> DEFINE new == Adding(op[c].todo[1])
<1>1. db' = db \cup new
  BY DEF Advance
<1>2. new \subseteq RoadOf(p) /\ IsRoad(p) /\ Own(p.n) = RoadOf(p)
  BY AdvanceEffect DEF Builder
<1> SUFFICES ASSUME NEW e \in db', NEW f \in db', IsCenLrp(e), IsCenLsr(f), e.by = f.by
             PROVE  \E q : IsRoad(q) /\ q.n = e.by /\ RoadOf(q) \subseteq db'
  BY DEF RoadsWhole
<1>3. CASE f \in new
  <2>1. f = CenLsr(p) /\ f.by = p.n
    BY <1>2, <1>3, OwnParts, PartOfRoad
  <2>2. Len(op[c].todo) = 1
    BY <2>1, AdvanceEffect
  <2>3. RoadOf(p) \subseteq db'
    BY <2>2, AdvanceEffect
  <2> QED
    BY <1>2, <2>1, <2>3
<1>4. CASE f \in db /\ e \in new
  <2>1. f.by = p.n
    BY <1>2, <1>4, PartOfRoad
  <2>2. f \in RoadOf(p)
    BY <1>2, <1>4, <2>1, InAll DEF Own
  <2>3. f = CenLsr(p)
    BY <1>2, <2>2, OwnParts
  <2> QED
    BY <1>4, <2>3, BuiltParts
<1>5. CASE f \in db /\ e \in db
  <2>1. \E q : IsRoad(q) /\ q.n = e.by /\ RoadOf(q) \subseteq db
    BY <1>5 DEF RoadsWhole
  <2> QED
    BY <1>1, <2>1
<1> QED
  BY <1>1, <1>3, <1>4, <1>5

\* The run itself, when it is not at its end.
LEMMA BuilderAdvances ==
    ASSUME Types, Sound, Sound', NEW c \in Chassis, NEW p, Builder(op[c], p), Advance(c),
           Len(op[c].todo) # 1
    PROVE  Builder(op[c], p)'
<1> DEFINE o == op[c]
           n == Len(o.todo)
           r == op'[c]
<1>1. /\ r = Rest(o) /\ IsRest(o, r) /\ n \in Nat \ {0} /\ n # 1
      /\ r.kind = o.kind /\ r.todo # <<>>
      /\ r.todo[Len(r.todo)] = o.todo[n]
  BY AdvanceEffect
<1>2. IsRoad(p) /\ Own(p.n) = RoadOf(p) /\ ToAdd(o) \subseteq RoadOf(p)
      /\ Adding(o.todo[n]) = {CenLsr(p)}
  BY DEF Builder
<1>3. /\ Len(r.todo) = n - 1 /\ \A i \in 1..Len(r.todo) : r.todo[i] = o.todo[i + 1]
      /\ ToAdd(o) = Adding(o.todo[1]) \cup ToAdd(r)
  BY <1>1 DEF IsRest
<1>4. Own(p.n)' = RoadOf(p)
  <2>1. \A e \in RoadOf(p) : e.by = p.n
    BY <1>2, PartOfRoad
  <2>2. RoadOf(p) \subseteq All'
    <3>1. RoadOf(p) \subseteq db \cup ToAdd(o)
      BY BuiltParts
    <3>2. db' = db \cup Adding(o.todo[1])
      BY DEF Advance
    <3>3. db' \cup ToAdd(op'[c]) \subseteq All'
      BY DEF All
    <3> QED
      BY <1>3, <3>1, <3>2, <3>3
  <2>3. All' \subseteq All
    BY DEF Advance
  <2> QED
    BY <1>2, <2>1, <2>2, <2>3 DEF Own
<1>5. o.kind = "init" => FirstEdge(p)'
  BY FirstEdgeKept
<1>6. ASSUME o.kind = "add" PROVE AnotherRoad(op[c], p)'
  <2>1. AnotherRoad(o, p)
    BY <1>6 DEF Builder
  <2>2. Taken(db)' = Taken(db)
    BY <1>1, AdvanceTaken
  <2>3. r.owing = IF o.todo[2].verb = "sleep" THEN Chassis ELSE {}
    BY <1>1 DEF Rest, Types, JobOK
  <2> HIDE DEF r, n, o
  <2>4. Len(r.todo) >= 2 => r.todo[Len(r.todo) - 1].verb = "sleep"
    <3>1. SUFFICES ASSUME Len(r.todo) >= 2 PROVE r.todo[Len(r.todo) - 1].verb = "sleep"
      OBVIOUS
    <3>2. Len(r.todo) - 1 \in 1..Len(r.todo) /\ (Len(r.todo) - 1) + 1 = n - 1 /\ n >= 2
      BY <1>1, <1>3, <3>1
    <3>3. r.todo[Len(r.todo) - 1] = o.todo[n - 1]
      BY <1>3, <3>2
    <3> QED
      BY <2>1, <3>2, <3>3 DEF AnotherRoad, n
  <2>5. Len(r.todo) = 1 => n = 2 /\ o.todo[1].verb = "sleep" /\ r.owing = {} /\ o.owing = {}
    <3>1. SUFFICES ASSUME Len(r.todo) = 1
                   PROVE  n = 2 /\ o.todo[1].verb = "sleep" /\ r.owing = {} /\ o.owing = {}
      OBVIOUS
    <3>2. n = 2 /\ n >= 2 /\ n - 1 = 1
      BY <1>1, <1>3, <3>1
    <3>3. o.todo[1].verb = "sleep"
      BY <2>1, <3>2 DEF AnotherRoad, n
    <3>4. o.todo[2].verb # "sleep"
      BY <1>2, <3>2 DEF Adding
    <3>5. o.owing = {}
      BY <3>3 DEF Advance, o
    <3> QED
      BY <2>3, <3>2, <3>3, <3>4, <3>5
  <2>6. Len(r.todo) = 2 => r.owing = Chassis
    <3>1. SUFFICES ASSUME Len(r.todo) = 2 PROVE r.owing = Chassis
      OBVIOUS
    <3>2. n = 3 /\ n >= 2 /\ n - 1 = 2
      <4>1. n \in Nat /\ 2 = n - 1
        BY <1>1, <1>3, <3>1
      <4>2. \A k \in Nat : 2 = k - 1 => k = 3
        OBVIOUS
      <4> QED
        BY <4>1, <4>2
    <3>3. o.todo[2].verb = "sleep"
      BY <2>1, <3>2 DEF AnotherRoad, n
    <3> QED
      BY <2>3, <3>3
  <2>7. Len(r.todo) = 1 \/ Len(r.todo) >= 2
    BY <1>1, <1>3
  <2>8. ASSUME Len(r.todo) <= 2, NEW b \in Chassis \ r.owing
        PROVE  /\ view'[b].taken \subseteq Taken(db)
               /\ Taken(db) \cup {Road(p)} \subseteq view'[b].serving
    <3>1. Len(r.todo) = 1
      BY <1>1, <1>3, <2>6, <2>7, <2>8
    <3>2. n <= 2 /\ b \in Chassis \ o.owing
      BY <2>5, <2>8, <3>1
    <3>3. view' = view
      BY DEF Advance
    <3> QED
      BY <2>1, <3>2, <3>3 DEF AnotherRoad, n
  <2> QED
    BY <2>1, <2>2, <2>4, <2>5, <2>8 DEF AnotherRoad, r
<1> QED
  BY <1>1, <1>2, <1>3, <1>4, <1>5, <1>6 DEF Builder
\* The other runs that add beside it.
LEMMA OthersAdvance ==
    ASSUME Types, Sound, Sound', NEW c \in Chassis, NEW p, Builder(op[c], p), Advance(c),
           NEW d \in Chassis, d # c, NEW q, Builder(op[d], q)
    PROVE  Builder(op[d], q)'
<1>1. op'[d] = op[d] /\ view' = view
  BY AdvanceEffect DEF Advance
<1>2. IsRoad(q) /\ Own(q.n) = RoadOf(q)
  BY DEF Builder
<1>3. Own(q.n)' = RoadOf(q)
  <2>1. \A e \in RoadOf(q) : e.by = q.n
    BY <1>2, PartOfRoad
  <2>2. RoadOf(q) \subseteq All'
    <3>1. RoadOf(q) \subseteq db \cup ToAdd(op[d])
      BY BuiltParts
    <3>2. db \subseteq db'
      BY DEF Advance
    <3>3. db' \cup ToAdd(op'[d]) \subseteq All'
      BY DEF All
    <3> QED
      BY <1>1, <3>1, <3>2, <3>3
  <2>3. All' \subseteq All
    BY DEF Advance
  <2> QED
    BY <1>2, <2>1, <2>2, <2>3 DEF Own
<1>4. op[d].kind = "init" => FirstEdge(q)'
  BY FirstEdgeKept
<1>5. ASSUME op[d].kind = "add" PROVE AnotherRoad(op[d], q)'
  <2>1. AnotherRoad(op[d], q)
    BY <1>5 DEF Builder
  <2>2. Taken(db) \subseteq Taken(db)'
        /\ \A x \in Taken(db)' : x \in Taken(db) \/ (x = Road(p) /\ Len(op[c].todo) = 1)
    BY AdvanceTaken
  <2>3. ASSUME Len(op[c].todo) = 1 PROVE \A b \in Chassis : Road(p) \in view[b].serving
    <3>1. CASE op[c].kind = "add"
      BY <2>3, <3>1 DEF Builder, AnotherRoad
    <3>2. CASE op[c].kind = "init"
      <4>1. Lr(p) \in RoadOf(p) /\ Lr(p) # CenLsr(p)
        <5>1. Lr(p) \in RoadOf(p)
          BY PartsOfRoad DEF TakenParts
        <5>2. Lr(p).kind # CenLsr(p).kind
          BY DEF Lr, CenLsr, Entity
        <5> QED
          BY <5>1, <5>2
      <4>2. Lr(p) \in db
        <5>1. RoadOf(p) \subseteq db' /\ Adding(op[c].todo[1]) = {CenLsr(p)}
          BY <2>3, AdvanceEffect
        <5>2. db' = db \cup Adding(op[c].todo[1])
          BY DEF Advance
        <5> QED
          BY <4>1, <5>1, <5>2
      <4>3. Taken(db) = {}
        BY <3>2, <4>2, FirstAlone
      <4> QED
        BY <2>1, <4>3 DEF AnotherRoad
    <3> QED
      BY <3>1, <3>2 DEF Advance, Adder
  <2>4. ASSUME Len(op[d].todo) <= 2, NEW b \in Chassis \ op[d].owing
        PROVE  /\ view[b].taken \subseteq Taken(db)'
               /\ Taken(db)' \cup {Road(q)} \subseteq view[b].serving
    BY <2>1, <2>2, <2>3, <2>4 DEF AnotherRoad
  <2> QED
    BY <1>1, <2>1, <2>2, <2>4 DEF AnotherRoad
<1> QED
  BY <1>1, <1>2, <1>3, <1>4, <1>5 DEF Builder

\* The agents' views when the run is not at its end, and when it is.
LEMMA SetsAdvance ==
    ASSUME Types, Sound, Sound', Views, NEW c \in Chassis, NEW p, Builder(op[c], p), Advance(c),
           RoadsWhole'
    PROVE  AllServe' \/ OneAtMost' \/ NoneTaken'
<1>1. view' = view /\ db \subseteq db'
  BY DEF Advance
<1>2. /\ Taken(db) \subseteq Taken(db)'
      /\ \A x \in Taken(db)' : x \in Taken(db) \/ (x = Road(p) /\ Len(op[c].todo) = 1)
      /\ \A x \in Serving(db) : x.m[1] = "m" => x \in Serving(db)'
  BY AdvanceTaken
<1>3. /\ op'[c] = Rest(op[c]) /\ IsRest(op[c], Rest(op[c]))
      /\ \A d \in Chassis : d # c => op'[d] = op[d]
      /\ Len(op[c].todo) \in Nat \ {0}
  BY AdvanceEffect
<1>4. CASE Len(op[c].todo) # 1
  <2>1. Taken(db)' = Taken(db)
    BY <1>2, <1>4
  <2>2. AllServe => AllServe'
    BY <1>1, <1>2, <2>1 DEF AllServe
  <2>3. OneAtMost => OneAtMost'
    BY <1>1, <2>1 DEF OneAtMost
  <2>4. ASSUME NoneTaken PROVE NoneTaken'
    <3>1. PICK e \in Routers(db) :
            /\ e # CentralRouter
            /\ \A d \in Chassis : /\ \A f \in ToAdd(op[d]) : f.by # e.by
                                  /\ \A i \in 1..Len(op[d].todo) : ~Takes(op[d].todo[i], e)
      BY <2>4 DEF NoneTaken
    <3>2. e \in Routers(db)'
      BY <1>1 DEF Routers
    <3>3. \A d \in Chassis : ToAdd(op'[d]) \subseteq ToAdd(op[d])
      BY <1>3 DEF IsRest
    <3>4. \A d \in Chassis : \A i \in 1..Len(op'[d].todo) : ~Takes(op'[d].todo[i], e)
      <4> TAKE d \in Chassis
      <4> TAKE i \in 1..Len(op'[d].todo)
      <4>1. CASE d # c
        BY <1>3, <3>1, <4>1
      <4>2. CASE d = c
        <5> DEFINE r == Rest(op[c])
        <5>1. Len(r.todo) = Len(op[c].todo) - 1 /\ op'[d] = r
              /\ \A j \in 1..Len(r.todo) : r.todo[j] = op[c].todo[j + 1]
          BY <1>3, <4>2 DEF IsRest
        <5> HIDE DEF r
        <5>2. i + 1 \in 1..Len(op[c].todo) /\ op'[d].todo[i] = op[c].todo[i + 1]
          BY <1>3, <5>1
        <5> QED
          BY <3>1, <5>2
      <4> QED
        BY <4>1, <4>2
    <3>5. Taken(db)' = {}
      BY <2>1, <2>4 DEF NoneTaken
    <3> QED
      BY <3>1, <3>2, <3>3, <3>4, <3>5 DEF NoneTaken, Takes
  <2> QED
    BY <2>2, <2>3, <2>4 DEF Views
<1>5. CASE Len(op[c].todo) = 1 /\ op[c].kind = "add"
  <2>1. \A b \in Chassis : /\ view[b].taken \subseteq Taken(db)
                           /\ Taken(db) \cup {Road(p)} \subseteq view[b].serving
    BY <1>5 DEF Builder, AnotherRoad
  <2>2. \A x \in Taken(db)' : x.m[1] = "m" /\ x \in Serving(db)' /\ x.at \in Chassis
    BY ServesNext DEF Sound
  <2>3. AllServe'
    <3> SUFFICES ASSUME NEW b \in Chassis, NEW x \in view[b].taken \cup Taken(db)'
                 PROVE  x.m[1] = "m" /\ x \in Serving(db)' /\ x \in view[x.at].serving
      BY <1>1 DEF AllServe
    <3>1. x \in Taken(db)'
      BY <1>2, <2>1
    <3>2. x \in Taken(db) \cup {Road(p)}
      BY <1>2, <3>1
    <3> QED
      BY <2>1, <2>2, <3>1, <3>2
  <2> QED
    BY <2>3
<1>6. CASE Len(op[c].todo) = 1 /\ op[c].kind = "init"
  <2>1. Lr(p) \in RoadOf(p) /\ Lr(p) # CenLsr(p)
    BY PartsOfRoad DEF TakenParts, Lr, CenLsr, Entity
  <2>2. Lr(p) \in db
    BY <1>6, <2>1, AdvanceEffect DEF Advance
  <2>3. Taken(db) = {} /\ \A x \in Serving(db) : x.m[1] = "m" => x = Road(p)
    BY <1>6, <2>2, FirstAlone
  <2>4. \A x, y \in Taken(db)' : x = y
    BY <1>2, <2>3
  <2>5. ~NoneTaken
    <3>1. Routers(db) = {CentralRouter, Lr(p)}
      BY <1>6, <2>2 DEF Builder, FirstEdge
    <3>2. CenLsr(p) \in ToAdd(op[c]) /\ CenLsr(p).by = p.n /\ Lr(p).by = p.n
      BY BuiltParts DEF CenLsr, Lr, Entity
    <3> QED
      BY <3>1, <3>2 DEF NoneTaken
  <2>6. AllServe => \A b \in Chassis : \A x \in view[b].taken : x = Road(p)
    BY <2>3 DEF AllServe
  <2>7. \A b \in Chassis : \A x, y \in view[b].taken : x = y
    BY <2>5, <2>6 DEF Views, OneAtMost
  <2> QED
    BY <1>1, <2>4, <2>7 DEF OneAtMost
<1> QED
  BY <1>4, <1>5, <1>6 DEF Advance, Adder

LEMMA ViewsAdvance ==
    ASSUME Types, Sound, Sound', Views, NEW c \in Chassis, Advance(c)
    PROVE  Views'
<1>1. PICK p : Builder(op[c], p)
  BY DEF Views, Building, Advance
<1>2. RoadsWhole'
  BY <1>1, WholeAdvances DEF Views
<1>3. /\ \A d \in Chassis : d # c => op'[d] = op[d]
      /\ Len(op[c].todo) = 1 => op'[c] = Idle
      /\ Len(op[c].todo) # 1 => op'[c].kind = op[c].kind
  BY <1>1, AdvanceEffect
<1>4. Idle.kind = "none"
  BY DEF Idle
<1>5. Building'
  <2> SUFFICES ASSUME NEW d \in Chassis, op'[d].kind \in Adder
               PROVE  \E q : Builder(op[d], q)'
    BY DEF Building
  <2>1. CASE d = c
    <3>1. Len(op[c].todo) # 1
      BY <1>3, <1>4, <2>1 DEF Adder
    <3> QED
      BY <1>1, <2>1, <3>1, BuilderAdvances
  <2>2. CASE d # c
    <3>1. PICK q : Builder(op[d], q)
      BY <1>3, <2>2 DEF Views, Building
    <3> QED
      BY <1>1, <2>2, <3>1, OthersAdvance
  <2> QED
    BY <2>1, <2>2
<1>6. Removing'
  <2>1. \A d \in Chassis : op'[d].kind # "remove"
    <3>1. op[c].kind # "none" /\ op[c].kind # "remove"
      BY DEF Advance, Adder
    <3>2. \A d \in Chassis : op[d].kind # "remove"
      BY <3>1 DEF Sound, Removals
    <3> QED
      BY <1>3, <1>4, <3>2
  <2> QED
    BY <2>1 DEF Removing
<1>7. AllServe' \/ OneAtMost' \/ NoneTaken'
  BY <1>1, <1>2, SetsAdvance
<1> QED
  BY <1>2, <1>5, <1>6, <1>7 DEF Views

------------------------------------------------------------------------------
(***************************************************************************)
(* A run ends before its time.                                             *)
(***************************************************************************)

LEMMA ViewsEnd ==
    ASSUME Types, Sound, Views, NEW c \in Chassis, op' = [op EXCEPT ![c] = Idle],
           db' = db, view' = view, count' = count, All' \subseteq All
    PROVE  Views'
<1>1. op'[c] = Idle /\ \A d \in Chassis : d # c => op'[d] = op[d]
  BY DEF Types
<1>2. Idle.kind = "none" /\ ToAdd(Idle) = {} /\ Len(Idle.todo) = 0
  BY IdleJob DEF Idle
<1>3. /\ Taken(db)' = Taken(db) /\ Serving(db)' = Serving(db) /\ Routers(db)' = Routers(db)
      /\ \A x, n : Of(x, n)' = Of(x, n)
  BY SameTaken
<1>4. RoadsWhole'
  BY DEF Views, RoadsWhole
<1>5. Building'
  <2> SUFFICES ASSUME NEW d \in Chassis, op'[d].kind \in Adder
               PROVE  \E p : Builder(op[d], p)'
    BY DEF Building
  <2>1. op'[d] = op[d]
    BY <1>1, <1>2 DEF Adder
  <2>2. PICK p : Builder(op[d], p)
    BY <2>1 DEF Views, Building
  <2>3. RoadOf(p) \subseteq All'
    <3>1. RoadOf(p) \subseteq db \cup ToAdd(op[d])
      BY <2>2, BuiltParts
    <3>2. db' \cup ToAdd(op'[d]) \subseteq All'
      BY DEF All
    <3> QED
      BY <2>1, <3>1, <3>2
  <2>4. op[d].kind = "add" => AnotherRoad(op[d], p)'
    BY <1>3, <2>1, <2>2 DEF Builder, AnotherRoad
  <2> QED
    BY <2>1, <2>2, <2>3, <2>4, SameBuilder
<1>6. AllServe => AllServe'
  BY <1>3 DEF AllServe
<1>7. OneAtMost => OneAtMost'
  BY <1>3 DEF OneAtMost
<1>8. NoneTaken => NoneTaken'
  <2>1. SUFFICES ASSUME NoneTaken PROVE NoneTaken'
    OBVIOUS
  <2>2. PICK e \in Routers(db) :
          /\ e # CentralRouter
          /\ \A d \in Chassis : /\ \A f \in ToAdd(op[d]) : f.by # e.by
                                /\ \A i \in 1..Len(op[d].todo) : ~Takes(op[d].todo[i], e)
    BY <2>1 DEF NoneTaken
  <2>3. 1..0 = {}
    OBVIOUS
  <2>4. \A d \in Chassis : /\ \A f \in ToAdd(op'[d]) : f.by # e.by
                           /\ \A i \in 1..Len(op'[d].todo) : ~Takes(op'[d].todo[i], e)
    <3> TAKE d \in Chassis
    <3>1. CASE d = c
      BY <1>1, <1>2, <2>3, <3>1
    <3>2. CASE d # c
      BY <1>1, <2>2, <3>2
    <3> QED
      BY <3>1, <3>2
  <2>5. Taken(db)' = {}
    BY <1>3, <2>1 DEF NoneTaken
  <2> QED
    BY <1>3, <2>2, <2>4, <2>5 DEF NoneTaken, Takes
<1>9. Removing'
  <2> SUFFICES ASSUME NEW d \in Chassis, op'[d].kind = "remove"
               PROVE  \E n : Remover(op[d], n)'
    BY DEF Removing
  <2>1. op'[d] = op[d]
    BY <1>1, <1>2
  <2>2. PICK n : Remover(op[d], n)
    BY <2>1 DEF Views, Removing
  <2>3. ~op[d].begun => Untouched(op[d], n)'
    BY <1>3, <2>1, <2>2 DEF Remover, Untouched
  <2>4. op[d].begun => Leaves(op[d], n)'
    BY <1>3, <1>7, <1>8, <2>1, <2>2 DEF Remover, Leaves
  <2> QED
    BY <2>1, <2>2, <2>3, <2>4 DEF Remover
<1> QED
  BY <1>4, <1>5, <1>6, <1>7, <1>8, <1>9 DEF Views
------------------------------------------------------------------------------
(***************************************************************************)
(* A run that removes goes on, or ends.                                    *)
(***************************************************************************)

\* A command that deletes, or the sleep after the first one.
Retreat(c) ==
    /\ op[c].todo # <<>> /\ op[c].kind = "remove"
    /\ op' = [op EXCEPT ![c] = Rest(op[c])]
    /\ db' = {e \in db : ~Takes(op[c].todo[1], e)}
    /\ op[c].todo[1].verb = "sleep" => op[c].owing = {}
    /\ view' = view /\ count' = count /\ All' \subseteq All

LEMMA RetreatEffect ==
    ASSUME Types, Sound, NEW c \in Chassis, Retreat(c)
    PROVE  LET r == op'[c]
           IN  /\ r = Rest(op[c]) /\ Len(op[c].todo) \in Nat \ {0}
               /\ Len(r.todo) = Len(op[c].todo) - 1
               /\ \A i \in 1..Len(r.todo) : i + 1 \in 1..Len(op[c].todo)
                                            /\ r.todo[i] = op[c].todo[i + 1]
               /\ ToAdd(r) = {}
               /\ r.kind = "remove" => r.begun
               /\ \A d \in Chassis : d # c => /\ op'[d] = op[d] /\ op[d].kind = "none"
                                              /\ ToAdd(op'[d]) = {} /\ Len(op'[d].todo) = 0
<1> DEFINE r == Rest(op[c])
           n == Len(op[c].todo)
<1>1. op'[c] = r /\ \A d \in Chassis : d # c => op'[d] = op[d]
  BY DEF Types, Retreat
<1>2. JobOK(op[c]) /\ op[c].todo # <<>> /\ op[c].kind = "remove"
  BY DEF Types, Retreat
<1>3. IsRest(op[c], r) /\ n \in Nat \ {0}
  BY <1>2, RestOfJob, JobLength
<1>4. ToAdd(op[c]) = {}
  BY <1>2, NothingToAdd
<1>5. Len(r.todo) = n - 1 /\ (\A i \in 1..Len(r.todo) : r.todo[i] = op[c].todo[i + 1])
      /\ ToAdd(r) = {} /\ (r.kind = "remove" => r.begun)
  BY <1>3, <1>4 DEF IsRest, Idle
<1>6. \A i \in 1..Len(r.todo) : i + 1 \in 1..n
  BY <1>3, <1>5
<1>7. \A d \in Chassis : d # c => op[d].kind = "none"
  BY <1>2 DEF Sound, Removals
<1>8. \A d \in Chassis : d # c => ToAdd(op[d]) = {} /\ Len(op[d].todo) = 0
  <2> TAKE d \in Chassis
  <2> HAVE d # c
  <2>1. JobOK(op[d]) /\ op[d].kind = "none"
    BY <1>7 DEF Types
  <2>2. op[d].todo = <<>>
    BY <2>1 DEF JobOK
  <2> QED
    BY <2>1, <2>2, NothingToAdd, JobLength
<1> QED
  BY <1>1, <1>3, <1>5, <1>6, <1>7, <1>8

\* It takes nothing away from the roads of other runs.
LEMMA RetreatSpares ==
    ASSUME Types, Sound, Sound', NEW c \in Chassis, Retreat(c), NEW n, Remover(op[c], n)
    PROVE  /\ db' \subseteq db /\ \A e \in db : e.by # n => e \in db'
           /\ Taken(db)' \subseteq Taken(db)
           /\ \A x \in Taken(db)' : ~Of(x, n)
           /\ \A x \in Taken(db) : ~Of(x, n) => x \in Taken(db)'
           /\ \A x \in Serving(db) : x.m[1] = "m" /\ ~Of(x, n) => x \in Serving(db)'
           /\ \A e \in db' : ~(IsCenLrp(e) /\ e.by = n)
           /\ \A x : Of(x, n)' => Of(x, n)
<1>1. db' = {e \in db : ~Takes(op[c].todo[1], e)} /\ 1 \in 1..Len(op[c].todo)
  BY RetreatEffect DEF Retreat
<1>2. db' \subseteq db /\ \A e \in db : e.by # n => e \in db'
  BY <1>1 DEF Remover
<1>3. \A e \in db' : ~(IsCenLrp(e) /\ e.by = n)
  BY <1>1 DEF Remover, Untouched, Leaves, Types, JobOK
<1>4. ASSUME NEW p, IsRoad(p), Lr(p) \in db, NEW S, S \subseteq RoadOf(p), S \subseteq db,
             ~Of(Road(p), n)
      PROVE  S \subseteq db'
  <2>1. Lr(p) \in Routers(db) /\ Lr(p).a = p.edge /\ Lr(p).by = p.n
    BY <1>4, EdgeNotCentral DEF Routers
  <2>2. Road(p).edge = p.edge
    BY DEF Road
  <2>3. p.n # n
    BY <1>4, <2>1, <2>2 DEF Of
  <2>4. \A e \in S : e.by = p.n
    BY <1>4, PartOfRoad
  <2> QED
    BY <1>2, <1>4, <2>3, <2>4
<1>5. ASSUME NEW x \in Taken(db)' PROVE x \in Taken(db) /\ ~Of(x, n)
  <2>1. RoadBehind(x)'
    BY TakenNext DEF Sound
  <2>2. PICK p : IsRoad(p) /\ x = Road(p) /\ TakenParts(p) \subseteq db'
    BY <2>1 DEF RoadBehind
  <2>3. x \in Taken(db)
    BY <1>2, <2>2, TakenFound
  <2>4. Lr(p) \in db /\ CenLrp(p) \in db'
    BY <1>2, <2>2 DEF TakenParts
  <2>5. IsCenLrp(CenLrp(p)) /\ CenLrp(p).by = p.n
    BY DEF IsCenLrp, CenLrp, Entity
  <2>6. p.n # n
    BY <1>3, <2>4, <2>5
  <2>7. \A e \in Routers(db) : e.a = x.edge => e = Lr(p)
    BY <2>2, <2>4, OneOwner, EdgeNotCentral DEF Routers, Road, Sound
  <2> QED
    BY <2>2, <2>3, <2>6, <2>7, EdgeNotCentral DEF Of
<1>6. ASSUME NEW x \in Taken(db), ~Of(x, n) PROVE x \in Taken(db')
  <2>1. PICK p : IsRoad(p) /\ x = Road(p) /\ TakenParts(p) \subseteq db
    BY TakenRoad DEF Sound
  <2>2. Lr(p) \in db
    BY <2>1 DEF TakenParts
  <2>3. TakenParts(p) \subseteq db'
    BY <1>4, <1>6, <2>1, <2>2, PartsOfRoad
  <2> QED
    BY <2>1, <2>3, TakenFound
<1>7. ASSUME NEW x \in Serving(db), x.m[1] = "m", ~Of(x, n) PROVE x \in Serving(db')
  <2>1. PICK p : IsRoad(p) /\ x = Road(p) /\ ServingParts(p) \subseteq db
    BY <1>7, ServingRoad DEF Sound
  <2>2. Lr(p) \in db
    BY <2>1 DEF ServingParts
  <2>3. ServingParts(p) \subseteq db'
    BY <1>4, <1>7, <2>1, <2>2, PartsOfRoad
  <2> QED
    BY <2>1, <2>3, ServingFound
<1>8. Taken(db') = Taken(db)' /\ Serving(db') = Serving(db)'
  BY DEF Taken, Serving, Routers, Named, There, Outsides, Switches, Linked,
         dl_edge_LR_peer_LS, dl_LS_has_patchport
<1>9. \A x : Of(x, n)' => Of(x, n)
  BY <1>2 DEF Of, Routers
<1> QED
  BY <1>2, <1>3, <1>5, <1>6, <1>7, <1>8, <1>9

\* The first command takes only the central router's port: who serves goes on.
LEMMA FirstSpares ==
    ASSUME Types, Sound, NEW c \in Chassis, Retreat(c), NEW n, Remover(op[c], n), ~op[c].begun
    PROVE  \A x \in Serving(db) : x.m[1] = "m" => x \in Serving(db)'
<1> SUFFICES ASSUME NEW x \in Serving(db), x.m[1] = "m" PROVE x \in Serving(db')
  BY DEF Serving, Routers, Outsides, Switches, There, dl_LS_has_patchport
<1>1. PICK p : IsRoad(p) /\ x = Road(p) /\ ServingParts(p) \subseteq db
  BY ServingRoad DEF Sound
<1>2. \A e \in ServingParts(p) : ~IsCenLrp(e)
  <2>1. p.edge # Central
    BY <1>1, NamesApart
  <2> QED
    BY <2>1 DEF ServingParts, Lr, EdgePort, IsCenLrp, Entity
<1>3. \A e \in db : ~IsCenLrp(e) => e \in db'
  BY DEF Remover, Untouched, Retreat
<1>4. ServingParts(p) \subseteq db'
  BY <1>1, <1>2, <1>3
<1> QED
  BY <1>1, <1>4, ServingFound
\* What a step of a removal leaves as it is, whatever the run is about.
LEMMA RetreatKeeps ==
    ASSUME Types, Sound, Sound', NEW c \in Chassis, Retreat(c), NEW n, Remover(op[c], n)
    PROVE  /\ OneAtMost => OneAtMost'
           /\ NoneTaken => NoneTaken'
           /\ \A i \in 1..Len(op'[c].todo), e \in db' : Takes(op'[c].todo[i], e) => e.by = n
<1>1. view' = view /\ db' = {e \in db : ~Takes(op[c].todo[1], e)}
  BY DEF Retreat
<1>2. db' \subseteq db /\ Taken(db)' \subseteq Taken(db)
  BY RetreatSpares
<1>3. /\ Len(op[c].todo) \in Nat \ {0}
      /\ \A i \in 1..Len(op'[c].todo) : /\ i + 1 \in 1..Len(op[c].todo)
                                        /\ op'[c].todo[i] = op[c].todo[i + 1]
      /\ \A d \in Chassis : ToAdd(op'[d]) = {} /\ (d # c => Len(op'[d].todo) = 0)
  BY RetreatEffect
<1>4. OneAtMost => OneAtMost'
  BY <1>1, <1>2 DEF OneAtMost
<1>5. ASSUME NoneTaken PROVE NoneTaken'
  <2>1. PICK e \in Routers(db) :
          /\ e # CentralRouter
          /\ \A i \in 1..Len(op[c].todo) : ~Takes(op[c].todo[i], e)
    BY <1>5 DEF NoneTaken
  <2>2. 1 \in 1..Len(op[c].todo) /\ 1..0 = {}
    BY <1>3
  <2>3. e \in Routers(db)'
    BY <1>1, <2>1, <2>2 DEF Routers
  <2>4. \A d \in Chassis : \A i \in 1..Len(op'[d].todo) : ~Takes(op'[d].todo[i], e)
    <3> TAKE d \in Chassis
    <3>1. CASE d = c
      BY <1>3, <2>1, <3>1
    <3>2. CASE d # c
      BY <1>3, <2>2, <3>2
    <3> QED
      BY <3>1, <3>2
  <2>5. Taken(db)' = {}
    BY <1>2, <1>5 DEF NoneTaken
  <2> QED
    BY <1>3, <2>1, <2>3, <2>4, <2>5 DEF NoneTaken, Takes
<1>6. \A i \in 1..Len(op'[c].todo), e \in db' : Takes(op'[c].todo[i], e) => e.by = n
  BY <1>2, <1>3 DEF Remover
<1> QED
  BY <1>4, <1>5, <1>6

\* The first command of a removal that does not wait: the road was the only one
\* in service.
LEMMA LastRoad ==
    ASSUME Types, Sound, Sound', Views, NEW c \in Chassis, Retreat(c), NEW n, Remover(op[c], n),
           ~op[c].begun, \A x \in Taken(db) : Of(x, n)
    PROVE  OneAtMost' \/ NoneTaken'
<1>1. Taken(db)' = {}
  BY RetreatSpares
<1>2. view' = view
  BY DEF Retreat
<1>3. CASE OneAtMost \/ NoneTaken
  BY <1>3, RetreatKeeps
<1>4. CASE AllServe
  <2>1. \A d \in Chassis : \A x \in view[d].taken : x.m[1] = "m" /\ x \in Serving(db)
    BY <1>4 DEF AllServe
  <2>2. ASSUME NEW d \in Chassis, NEW x \in view[d].taken, ~Of(x, n)
        PROVE  NoneTaken'
    <3>1. PICK q : IsRoad(q) /\ x = Road(q) /\ ServingParts(q) \subseteq db
      BY <2>1, ServingRoad DEF Sound
    <3>2. /\ Lr(q) \in db /\ Lr(q).kind = "lr" /\ Lr(q).a = q.edge /\ Lr(q).by = q.n
          /\ Lr(q) # CentralRouter
      BY <3>1, EdgeNotCentral DEF ServingParts, Lr, Entity
    <3>3. q.n # n
      BY <2>2, <3>1, <3>2 DEF Of, Routers, Road
    <3>4. Lr(q) \in Routers(db)'
      BY <3>2, <3>3, RetreatSpares DEF Routers
    <3>5. \A i \in 1..Len(op'[c].todo) : ~Takes(op'[c].todo[i], Lr(q))
      <4>1. \A i \in 1..Len(op'[c].todo), e \in db' : Takes(op'[c].todo[i], e) => e.by = n
        BY RetreatKeeps
      <4>2. Lr(q) \in db'
        BY <3>4 DEF Routers
      <4> QED
        BY <3>2, <3>3, <4>1, <4>2
    <3>6. /\ 1..0 = {}
          /\ \A b \in Chassis : ToAdd(op'[b]) = {} /\ (b # c => Len(op'[b].todo) = 0)
      BY RetreatEffect
    <3>7. \A b \in Chassis : \A i \in 1..Len(op'[b].todo) : ~Takes(op'[b].todo[i], Lr(q))
      BY <3>5, <3>6
    <3> QED
      BY <1>1, <3>2, <3>4, <3>6, <3>7 DEF NoneTaken, Takes
  <2>3. ASSUME \A d \in Chassis : \A x \in view[d].taken : Of(x, n)
        PROVE  OneAtMost'
    <3>1. ASSUME NEW d \in Chassis, NEW x \in view[d].taken
          PROVE  \E q : /\ IsRoad(q) /\ q.n = n /\ n \in 1..count /\ x = Road(q)
                        /\ Own(n) \subseteq RoadOf(q) /\ Lr(q) \in All /\ EdgePort(q) \in All
      <4>1. PICK q : /\ IsRoad(q) /\ q.n \in 1..count /\ x = Road(q) /\ ServingParts(q) \subseteq db
                     /\ Own(q.n) \subseteq RoadOf(q)
        BY <2>1, <3>1, ServingRoad DEF Sound
      <4>2. /\ Lr(q) \in db /\ Lr(q).kind = "lr" /\ Lr(q).a = q.edge /\ Lr(q).by = q.n
            /\ EdgePort(q) \in db
        BY <4>1, EdgeNotCentral DEF ServingParts, Lr, Entity
      <4>3. PICK e \in Routers(db) : e.a = x.edge /\ e.by = n
        BY <2>3, <3>1 DEF Of
      <4>4. e = Lr(q)
        BY <4>1, <4>2, <4>3, OneOwner DEF Sound, Routers, Road
      <4> QED
        BY <4>1, <4>2, <4>3, <4>4, InAll
    <3>2. ASSUME NEW d \in Chassis, NEW x \in view[d].taken, NEW y \in view[d].taken PROVE x = y
      <4>1. PICK p : IsRoad(p) /\ p.n = n /\ x = Road(p) /\ Own(n) \subseteq RoadOf(p)
        BY <3>1, <3>2
      <4>2. PICK q : IsRoad(q) /\ q.n = n /\ y = Road(q) /\ Lr(q) \in All /\ EdgePort(q) \in All
        BY <3>1, <3>2
      <4> QED
        BY <4>1, <4>2, OneRoad
    <3> QED
      BY <1>1, <1>2, <3>2 DEF OneAtMost
  <2> QED
    BY <2>2, <2>3
<1> QED
  BY <1>3, <1>4 DEF Views

\* The views go with the tree after the step as before it.
LEMMA SetsRetreat ==
    ASSUME Types, Sound, Sound', Views, NEW c \in Chassis, Retreat(c), NEW n, Remover(op[c], n)
    PROVE  /\ AllServe' \/ OneAtMost' \/ NoneTaken'
           /\ op[c].begun => \/ \A d \in Chassis : \A x \in view'[d].taken : ~Of(x, n)'
                             \/ OneAtMost' \/ NoneTaken'
<1>1. /\ (OneAtMost => OneAtMost') /\ (NoneTaken => NoneTaken')
  BY RetreatKeeps
<1>2. view' = view
  BY DEF Retreat
<1>3. /\ Taken(db)' \subseteq Taken(db)
      /\ \A x \in Taken(db)' : ~Of(x, n)
      /\ \A x \in Serving(db) : x.m[1] = "m" /\ ~Of(x, n) => x \in Serving(db)'
      /\ \A x : Of(x, n)' => Of(x, n)
  BY RetreatSpares
<1>4. CASE op[c].begun
  <2>1. Leaves(op[c], n)
    BY <1>4 DEF Remover
  <2>2. \/ \A d \in Chassis : \A x \in view[d].taken : ~Of(x, n)
        \/ OneAtMost \/ NoneTaken
    <3>1. Len(op[c].todo) = 5 \/ Len(op[c].todo) <= 4
      <4>1. \A k \in Nat : k <= 5 => k = 5 \/ k <= 4
        OBVIOUS
      <4> QED
        BY <2>1, <4>1, RetreatEffect DEF Leaves
    <3>2. CASE Len(op[c].todo) = 5
      BY <2>1, <3>2 DEF Leaves, Retreat
    <3>3. CASE Len(op[c].todo) <= 4
      BY <2>1, <3>3 DEF Leaves
    <3> QED
      BY <3>1, <3>2, <3>3
  <2>3. CASE \A d \in Chassis : \A x \in view[d].taken : ~Of(x, n)
    <3>1. AllServe => AllServe'
      BY <1>2, <1>3, <2>3 DEF AllServe
    <3> QED
      BY <1>1, <1>2, <1>3, <2>3, <3>1 DEF Views
  <2> QED
    BY <1>1, <2>2, <2>3
<1>5. CASE ~op[c].begun
  <2>1. AllServe => AllServe'
    BY <1>2, <1>3, <1>5, FirstSpares DEF AllServe
  <2> QED
    BY <1>1, <1>5, <2>1 DEF Views
<1> QED
  BY <1>4, <1>5

LEMMA ViewsRetreat ==
    ASSUME Types, Sound, Sound', Views, NEW c \in Chassis, Retreat(c)
    PROVE  Views'
<1>1. PICK n : Remover(op[c], n)
  BY DEF Views, Removing, Retreat
<1>2. LET r == op'[c]
      IN  /\ r = Rest(op[c]) /\ Len(op[c].todo) \in Nat \ {0}
          /\ Len(r.todo) = Len(op[c].todo) - 1
          /\ \A i \in 1..Len(r.todo) : i + 1 \in 1..Len(op[c].todo)
                                       /\ r.todo[i] = op[c].todo[i + 1]
          /\ r.kind = "remove" => r.begun
          /\ \A d \in Chassis : d # c => op'[d].kind = "none"
  BY RetreatEffect
<1>3. /\ db' \subseteq db /\ \A e \in db : e.by # n => e \in db'
      /\ Taken(db)' \subseteq Taken(db)
      /\ \A e \in db' : ~(IsCenLrp(e) /\ e.by = n)
      /\ \A x : Of(x, n)' => Of(x, n)
  BY <1>1, RetreatSpares
<1>4. RoadsWhole'
  <2> SUFFICES ASSUME NEW e \in db', NEW f \in db', IsCenLrp(e), IsCenLsr(f), e.by = f.by
               PROVE  \E p : IsRoad(p) /\ p.n = e.by /\ RoadOf(p) \subseteq db'
    BY DEF RoadsWhole
  <2>1. e \in db /\ f \in db /\ e.by # n
    BY <1>3
  <2>2. PICK p : IsRoad(p) /\ p.n = e.by /\ RoadOf(p) \subseteq db
    BY <2>1 DEF Views, RoadsWhole
  <2>3. \A g \in RoadOf(p) : g.by = e.by
    BY <2>2, PartOfRoad
  <2> QED
    BY <1>3, <2>1, <2>2, <2>3
<1>5. \A d \in Chassis : op'[d].kind \notin Adder
  <2>1. op'[c].kind \in {"none", "remove"}
    BY <1>2 DEF Rest, Idle, Retreat, Types, JobOK
  <2> QED
    BY <1>2, <2>1 DEF Adder
<1>6. Building'
  BY <1>5 DEF Building
<1>7. ASSUME op'[c].kind = "remove" PROVE Remover(op[c], n)'
  <2> DEFINE o == op[c]
             r == op'[c]
             n1 == Len(r.todo)
             n2 == Len(o.todo)
  <2>1. r.begun /\ r.kind = "remove"
    BY <1>2, <1>7
  <2>2. n2 # 1 /\ (n2 # 1 => r.owing = IF o.todo[2].verb = "sleep" THEN Chassis ELSE {})
    BY <1>2, <1>7 DEF Rest, Idle, Types, JobOK
  <2>3. n2 \in Nat \ {0} /\ n1 = n2 - 1
        /\ \A i \in 1..n1 : r.todo[i] = o.todo[i + 1]
    BY <1>2
  <2>4. o.begun => n2 <= 5
    BY <1>1 DEF Remover, Leaves
  <2>5. ~o.begun => \/ n2 = 6 /\ o.todo[2].verb = "sleep"
                    \/ n2 = 5 /\ \A x \in Taken(db) : Of(x, n)
    BY <1>1 DEF Remover, Untouched
  <2>6. o.begun \in BOOLEAN
    BY DEF Types, JobOK
  <2> HIDE DEF n1, n2, r, o
  <2>7. n1 <= 5 /\ (n1 = 5 => ~o.begun /\ n2 = 6)
    BY <2>3, <2>4, <2>5, <2>6
  <2>8. n1 = 5 => r.todo[1].verb = "sleep" /\ Chassis \ r.owing = {}
    BY <2>2, <2>3, <2>5, <2>7
  <2>9. n1 <= 4 /\ ~o.begun => \A x \in Taken(db) : Of(x, n)
    BY <2>3, <2>5
  <2>10. n1 <= 4 => \/ \A d \in Chassis : \A x \in view'[d].taken : ~Of(x, n)'
                    \/ OneAtMost' \/ NoneTaken'
    <3>1. CASE o.begun
      BY <1>1, <3>1, SetsRetreat DEF o
    <3>2. CASE ~o.begun /\ n1 <= 4
      BY <1>1, <2>9, <3>2, LastRoad DEF o
    <3> QED
      BY <3>1, <3>2
  <2>11. Leaves(op[c], n)'
    BY <1>3, <2>7, <2>8, <2>10 DEF Leaves, n1, r
  <2>12. \A i \in 1..Len(r.todo), e \in db' : Takes(r.todo[i], e) => e.by = n
    BY <1>1, RetreatKeeps DEF r
  <2> QED
    BY <2>1, <2>11, <2>12 DEF Remover, Takes, r
<1>8. Removing'
  <2> SUFFICES ASSUME NEW d \in Chassis, op'[d].kind = "remove"
               PROVE  \E i : Remover(op[d], i)'
    BY DEF Removing
  <2>1. d = c
    BY <1>2
  <2> QED
    BY <1>7, <2>1
<1>9. AllServe' \/ OneAtMost' \/ NoneTaken'
  BY <1>1, SetsRetreat
<1> QED
  BY <1>4, <1>6, <1>8, <1>9 DEF Views
------------------------------------------------------------------------------
(***************************************************************************)
(* A run that adds a road begins.                                          *)
(***************************************************************************)

\* The first edge of all has the first name.
LEMMA FirstName ==
    ASSUME Shaped, Routers(db) = {CentralRouter}
    PROVE  new_entity_name(db, "edge") = <<"edge", 1>>
<1> DEFINE Exists(i) == datalog_is_entity_exist(db, <<"edge", i>>)
           N == 1..(MaxOps + 1)
<1>1. ~Exists(1)
  <2> SUFFICES ASSUME NEW e \in db, e.a = <<"edge", 1>>, e.kind \in {"ls", "lr"} PROVE FALSE
    BY DEF datalog_is_entity_exist
  <2>1. <<"edge", 1>>[1] = "edge" /\ "edge" \notin {"out", "m"}
    OBVIOUS
  <2>2. e.kind = "lr"
    BY <2>1, NamesByKind, InAll
  <2>3. e = CentralRouter
    BY <2>2 DEF Routers
  <2> QED
    BY <2>3 DEF CentralRouter, Entity, Central
<1> HIDE DEF Exists
<1>2. MaxOps \in Nat
  BY BoundsAssumption
<1>3. 1 \in N /\ 1..(1 - 1) = {} /\ \A i \in N : i # 1 => 1 \in 1..(i - 1)
  BY <1>2
<1> HIDE DEF N
<1>4. \A i \in N : (~Exists(i) /\ \A j \in 1..(i - 1) : Exists(j)) <=> i = 1
  BY <1>1, <1>3
<1>5. (CHOOSE i \in N : ~Exists(i) /\ \A j \in 1..(i - 1) : Exists(j)) = 1
  BY <1>3, <1>4
<1> QED
  BY <1>5 DEF new_entity_name, Exists, N

\* The run builds all of its road, and the first road only when it is alone, or
\* another one beside what is taken.
LEMMA ViewsAdd ==
    ASSUME Types, Sound, Types', Views, NEW c \in Chassis, op[c] = Idle,
           NEW w \in BOOLEAN, NEW vip, NEW inner, NEW kind \in Adder,
           NEW t, t = _init_ecmp_road(db, w, Central, vip, inner, c, count + 1),
           Begin(c, kind, t), overlap' # "removes",
           kind = "init" => Routers(db) = {CentralRouter},
           kind = "add" => w /\ Taken(db) # {}
    PROVE  Views'
<1> SUFFICES ASSUME NEW n, n = count + 1, NEW o, o = Started(kind, t),
                    NEW p, p = NewRoad(db, c, vip, inner, n)
             PROVE  Views'
  OBVIOUS
<1>1. /\ op'[c] = o /\ \A d \in Chassis : d # c => op'[d] = op[d]
      /\ count' = n /\ overlap' = Overlapped(c, kind)
      /\ db' = db /\ view' = view /\ All' = All \cup ToAdd(o)
  BY BeginEffect
<1>2. IsRoad(p) /\ p.n = n /\ InParts(t, p) /\ IsAddPlan(t, w, Central, p)
  BY PlanParts, AddPlan
<1>3. o.todo = t /\ o.kind = kind /\ p.edge = new_entity_name(db, "edge")
  BY DEF Started, NewRoad, Names
<1>4. JobOK(o)
  BY <1>1 DEF Types
<1>5. ToAdd(o) = RoadOf(p)
  BY <1>2, <1>3 DEF ToAdd, InParts
<1>6. \A e \in RoadOf(p) : e.by = n
  BY <1>2, PartOfRoad
<1>7. count \in Nat /\ \A e \in All : e.by \in 0..count
  BY BoundsAssumption DEF Types, Sound, Shaped
<1>8. \A e \in All : e.by # n
  BY <1>7
<1>9. /\ Taken(db)' = Taken(db) /\ Serving(db)' = Serving(db) /\ Routers(db)' = Routers(db)
  BY <1>1, SameTaken
<1>10. Len(t) = (IF w THEN 11 ELSE 10) /\ t # <<>>
  <2>1. Len(t) = (IF w THEN 11 ELSE 10)
    BY <1>2 DEF IsAddPlan
  <2> QED
    BY <1>3, <1>4, <2>1, JobLength
<1>11. Builder(o, p)'
  <2>1. Own(p.n)' = RoadOf(p)
    <3>1. Own(n)' = {e \in All \cup RoadOf(p) : e.by = n}
      BY <1>1, <1>5 DEF Own
    <3> QED
      BY <1>2, <1>6, <1>8, <3>1
  <2>2. Adding(t[Len(t)]) = {CenLsr(p)}
    BY <1>2 DEF IsAddPlan, Adding, Add, CenLsr
  <2>3. ASSUME kind = "init" PROVE FirstEdge(p)'
    <3>1. p.edge = <<"edge", 1>>
      BY <1>3, <2>3, FirstName DEF Sound
    <3>2. Lr(p) \notin db
      <4>1. Lr(p).by = n
        BY <1>2 DEF Lr, Entity
      <4> QED
        BY <1>8, <4>1, InAll
    <3> QED
      BY <1>1, <1>9, <2>3, <3>1, <3>2 DEF FirstEdge
  <2>4. ASSUME kind = "add" PROVE AnotherRoad(o, p)'
    <3>1. Len(t) = 11 /\ t[10] = Sleep
      BY <1>2, <1>10, <2>4 DEF IsAddPlan
    <3>2. \A k : k = 11 => k - 1 = 10 /\ k # 1 /\ ~(k <= 2)
      OBVIOUS
    <3>3. Len(t) - 1 = 10 /\ Len(t) # 1 /\ ~(Len(t) <= 2)
      BY <3>1, <3>2
    <3>4. t[Len(t) - 1].verb = "sleep"
      <4>1. Sleep.verb = "sleep"
        BY DEF Sleep
      <4>2. \A k : k = 10 => t[k] = Sleep
        BY <3>1, Zenon
      <4>3. t[Len(t) - 1] = Sleep
        BY <3>3, <4>2
      <4> QED
        BY <4>1, <4>3
    <3> QED
      BY <1>3, <1>9, <2>4, <3>3, <3>4 DEF AnotherRoad
  <2> QED
    BY <1>2, <1>3, <1>5, <1>10, <2>1, <2>2, <2>3, <2>4 DEF Builder
<1>12. ASSUME NEW d \in Chassis, d # c, NEW q, Builder(op[d], q) PROVE Builder(op[d], q)'
  <2>1. CenLsr(q) \in RoadOf(q) /\ \A e \in RoadOf(q) : e.by = q.n
    BY <1>12, PartOfRoad, PartsOfRoad DEF Builder, TakenParts
  <2>2. q.n # n
    BY <1>8, <1>12, <2>1 DEF Builder, Own
  <2>3. Own(q.n)' = Own(q.n)
    BY <1>1, <1>5, <1>6, <2>2 DEF Own
  <2>4. FirstEdge(q) => FirstEdge(q)'
    BY <1>1, <1>9 DEF FirstEdge
  <2>5. AnotherRoad(op[d], q) => AnotherRoad(op[d], q)'
    BY <1>1, <1>9, <1>12 DEF AnotherRoad
  <2> QED
    BY <1>1, <1>12, <2>3, <2>4, <2>5 DEF Builder
<1>13. Building'
  <2> SUFFICES ASSUME NEW d \in Chassis, op'[d].kind \in Adder
               PROVE  \E q : Builder(op[d], q)'
    BY DEF Building
  <2>1. CASE d = c
    BY <1>1, <1>11, <2>1
  <2>2. CASE d # c
    BY <1>1, <1>12, <2>2 DEF Views, Building
  <2> QED
    BY <2>1, <2>2
<1>14. Removing'
  <2>1. \A d \in Chassis : op'[d].kind # "remove"
    BY <1>1, <1>3, OverlapEffect DEF Adder
  <2> QED
    BY <2>1 DEF Removing
<1>15. RoadsWhole'
  BY <1>1 DEF Views, RoadsWhole
<1>16. AllServe => AllServe'
  BY <1>1, <1>9 DEF AllServe
<1>17. OneAtMost => OneAtMost'
  BY <1>1, <1>9 DEF OneAtMost
<1>18. ASSUME NoneTaken PROVE NoneTaken'
  <2>1. PICK e \in Routers(db) :
          /\ e # CentralRouter
          /\ \A d \in Chassis : /\ \A f \in ToAdd(op[d]) : f.by # e.by
                                /\ \A i \in 1..Len(op[d].todo) : ~Takes(op[d].todo[i], e)
    BY <1>18 DEF NoneTaken
  <2>2. e.by # n
    BY <1>8, <2>1, InAll DEF Routers
  <2>3. \A i \in 1..Len(o.todo) : ~Takes(o.todo[i], e)
    BY <1>3, <1>4 DEF JobOK, Adder, Takes
  <2>4. \A d \in Chassis : /\ \A f \in ToAdd(op'[d]) : f.by # e.by
                           /\ \A i \in 1..Len(op'[d].todo) : ~Takes(op'[d].todo[i], e)
    <3> TAKE d \in Chassis
    <3>1. CASE d = c
      BY <1>1, <1>5, <1>6, <2>2, <2>3, <3>1
    <3>2. CASE d # c
      BY <1>1, <2>1, <3>2
    <3> QED
      BY <3>1, <3>2
  <2>5. Taken(db)' = {}
    BY <1>9, <1>18 DEF NoneTaken
  <2> QED
    BY <1>9, <2>1, <2>4, <2>5 DEF NoneTaken, Takes
<1> QED
  BY <1>13, <1>14, <1>15, <1>16, <1>17, <1>18 DEF Views

LEMMA ViewsInitRoad ==
    ASSUME Types, Sound, Types', Views, NEW c \in Chassis, init_ecmp_road(c), overlap' # "removes"
    PROVE  Views'
<1>1. PICK vip \in Vips, r \in {e \in db : e.kind = "lr"} :
        /\ op[c] = Idle
        /\ Cardinality({e \in db : e.kind = "lr"}) = 1
        /\ Begin(c, "init", _init_ecmp_road(db, FALSE, r.a, vip, InnerIp, c, count + 1))
  BY DEF init_ecmp_road
<1>2. r.a = Central
  <2>1. IsCentral(r.a)
    BY <1>1 DEF IsCentral
  <2> QED
    BY <2>1, CentralFound
<1>3. Routers(db) = {CentralRouter}
  <2>1. CentralRouter \in Routers(db)
    BY DEF Sound, Tree, Routers, CentralRouter, Entity
  <2>2. IsFiniteSet(Routers(db)) /\ Cardinality(Routers(db)) = 1
    BY <1>1, FS_Subset DEF Sound, Tree, Routers
  <2>3. PICK x : Routers(db) = {x}
    BY <2>2, FS_Singleton
  <2> QED
    BY <2>1, <2>3
<1> DEFINE t == _init_ecmp_road(db, FALSE, Central, vip, InnerIp, c, count + 1)
<1>4. t = _init_ecmp_road(db, FALSE, Central, vip, InnerIp, c, count + 1) /\ Begin(c, "init", t)
  BY <1>1, <1>2
<1> HIDE DEF t
<1>5. "init" \in Adder /\ "init" # "add"
  BY DEF Adder
<1> QED
  BY <1>1, <1>3, <1>4, <1>5, ViewsAdd

LEMMA ViewsAddRoad ==
    ASSUME Types, Sound, Types', Views, NEW c \in Chassis, add_ecmp_road(c), overlap' # "removes"
    PROVE  Views'
<1>1. PICK vip \in Vips, road \in dl_ecmp_road(db) :
        /\ op[c] = Idle
        /\ \E p \in Named(db, "lrp", road.edge, road.m) :
            Begin(c, "add", _init_ecmp_road(db, TRUE, road.central, vip, p.ip, c, count + 1))
  BY DEF add_ecmp_road
<1>2. PICK p :
        Begin(c, "add", _init_ecmp_road(db, TRUE, road.central, vip, p.ip, c, count + 1))
  BY <1>1
<1>3. Taken(db) # {} /\ road.central = Central
  BY InServiceTaken DEF Sound
<1> DEFINE t == _init_ecmp_road(db, TRUE, Central, vip, p.ip, c, count + 1)
<1>4. t = _init_ecmp_road(db, TRUE, Central, vip, p.ip, c, count + 1) /\ Begin(c, "add", t)
  BY <1>2, <1>3
<1> HIDE DEF t
<1>5. "add" \in Adder /\ "init" # "add"
  BY DEF Adder
<1> QED
  BY <1>1, <1>3, <1>4, <1>5, ViewsAdd
------------------------------------------------------------------------------
(***************************************************************************)
(* A run that removes a road begins.                                       *)
(***************************************************************************)

\* A road is told by its edge.
LEMMA RoadByEdge ==
    ASSUME Shaped, Tree, NEW r \in dl_ecmp_road(db), NEW s \in dl_ecmp_road(db), r.edge = s.edge
    PROVE  r = s
<1>1. \A x \in dl_ecmp_road(db) :
        x = [edge |-> x.edge, at |-> x.at, out |-> x.out, m |-> x.m, central |-> x.central]
  BY DEF dl_ecmp_road
<1>2. PICK p : IsRoad(p) /\ Service(r) = Road(p) /\ r.edge = p.edge /\ Lr(p) \in db
  BY InServiceTaken
<1>3. PICK q : IsRoad(q) /\ Service(s) = Road(q) /\ s.edge = q.edge /\ Lr(q) \in db
  BY InServiceTaken
<1>4. Lr(p) = Lr(q)
  <2>1. Lr(p).kind = "lr" /\ Lr(p).a = p.edge /\ Lr(q).kind = "lr" /\ Lr(q).a = q.edge
    BY DEF Lr, Entity
  <2> QED
    BY <1>2, <1>3, <2>1, OneOwner
<1>5. r.at = s.at
  BY <1>2, <1>3, <1>4 DEF Lr, Entity, Service, Road
<1>6. PICK u :
        /\ IsRoad(u) /\ u.n \in 1..count /\ Own(u.n) \subseteq RoadOf(u)
        /\ r.edge = u.edge /\ r.out = u.out /\ r.m = u.m /\ r.central = Central
        /\ \E g \in db : g.kind = "lr" /\ g.a = u.edge /\ g.by = u.n
  BY RoadOfOne
<1>7. PICK v :
        /\ IsRoad(v) /\ v.n \in 1..count
        /\ s.edge = v.edge /\ s.out = v.out /\ s.m = v.m /\ s.central = Central
        /\ \E g \in db : g.kind = "lr" /\ g.a = v.edge /\ g.by = v.n
        /\ \E g \in db : g.kind = "ls" /\ g.a = v.out /\ g.by = v.n
        /\ \E g \in db : g.kind = "ls" /\ g.a = v.m /\ g.by = v.n
  BY RoadOfOne
<1>8. u.n = v.n
  <2>1. PICK g1 \in db : g1.kind = "lr" /\ g1.a = u.edge /\ g1.by = u.n
    BY <1>6
  <2>2. PICK g2 \in db : g2.kind = "lr" /\ g2.a = v.edge /\ g2.by = v.n
    BY <1>7
  <2>3. g1.kind = "lr" /\ g2.kind = "lr" /\ g1.a = g2.a
    <3>1. u.edge = v.edge
      BY <1>6, <1>7
    <3> QED
      BY <2>1, <2>2, <3>1
  <2>4. g1 = g2
    BY <2>3, OneOwner
  <2> QED
    BY <2>1, <2>2, <2>4
<1>9. v.out \in {u.out, u.m} /\ v.m \in {u.out, u.m}
  <2>1. ASSUME NEW g \in db, g.kind = "ls", g.by = v.n PROVE g.a \in {u.out, u.m}
    <3>1. g \in RoadOf(u)
      BY <1>6, <1>8, <2>1, InAll DEF Own
    <3> QED
      BY <1>6, <2>1, <3>1, PartOfRoad
  <2> QED
    BY <1>7, <2>1
<1>10. r.out = s.out /\ r.m = s.m
  BY <1>6, <1>7, <1>9 DEF IsRoad
<1> QED
  BY <1>1, <1>5, <1>6, <1>7, <1>10

\* So with one road at most by the tool's count there is but one.
LEMMA OneByCount ==
    ASSUME Shaped, Tree, ~(Cardinality(dl_ecmp_road(db)) > 1),
           NEW r \in dl_ecmp_road(db), NEW s \in dl_ecmp_road(db)
    PROVE  r = s
<1> DEFINE R == dl_ecmp_road(db)
           names == {e.a : e \in db}
           f == [x \in R |-> CHOOSE e \in db : e.a = x.edge]
<1>1. \A x \in R : \E e \in db : e.a = x.edge
  <2> TAKE x \in R
  <2>1. PICK p : x.edge = p.edge /\ Lr(p) \in db
    BY InServiceTaken
  <2> QED
    BY <2>1 DEF Lr, Entity
<1>2. \A x, y \in R : x.edge = y.edge => x = y
  BY RoadByEdge
<1> HIDE DEF R
<1>3. \A x \in R : f[x] \in db /\ f[x].a = x.edge
  BY <1>1
<1>4. f \in [R -> db]
  BY <1>3
<1>5. \A x, y \in R : f[x] = f[y] => x = y
  BY <1>2, <1>3
<1> HIDE DEF f
<1>6. f \in Injection(R, db)
  BY <1>4, <1>5 DEF Injection, IsInjective
<1>7. IsFiniteSet(R)
  BY <1>6, FS_Injection DEF Tree
<1>8. Cardinality(R) \in Nat /\ Cardinality(R) # 0
  BY <1>7, FS_CardinalityType, FS_EmptySet DEF R
<1>9. Cardinality(R) = 1
  <2>1. \A k \in Nat : k # 0 /\ ~(k > 1) => k = 1
    OBVIOUS
  <2> QED
    BY <1>8, <2>1 DEF R
<1>10. PICK x : R = {x}
  BY <1>7, <1>9, FS_Singleton
<1> QED
  BY <1>10 DEF R

\* The run begins with the port on the central router, and waits if there is
\* another road.
LEMMA ViewsRemoval ==
    ASSUME Types, Sound, Types', Views, NEW c \in Chassis, op[c] = Idle,
           NEW road \in dl_ecmp_road(db), NEW route \in Named(db, "lsr", road.central, road.m),
           NEW w \in BOOLEAN, ~w => ~(Cardinality(dl_ecmp_road(db)) > 1),
           NEW t, t = _remove_ecmp_road(w, road, route),
           Begin(c, "remove", t), overlap' # "removes"
    PROVE  Views'
<1> SUFFICES ASSUME NEW o, o = Started("remove", t) PROVE Views'
  OBVIOUS
<1>1. IsRemovePlan(t, w, road, route)
  BY RemovePlan
<1>2. ToAdd(o) = {}
  BY <1>1, RemovePlanTyped
<1>3. /\ op'[c] = o /\ \A d \in Chassis : d # c => op'[d] = op[d]
      /\ overlap' = Overlapped(c, "remove") /\ db' = db /\ view' = view
  BY BeginEffect
<1>4. \A d \in Chassis : d # c => op'[d].kind = "none"
  BY <1>3, OverlapEffect
<1>5. o.todo = t /\ o.kind = "remove" /\ o.begun = FALSE
  BY DEF Started
<1>6. /\ Taken(db)' = Taken(db) /\ Serving(db)' = Serving(db) /\ Routers(db)' = Routers(db)
      /\ \A x, n : Of(x, n)' = Of(x, n)
  BY <1>3, SameTaken
<1>7. PICK p : /\ IsRoad(p) /\ p.n \in 1..count /\ Own(p.n) \subseteq RoadOf(p)
               /\ Service(road) = Road(p) /\ Road(p) \in Taken(db)
               /\ road.edge = p.edge /\ road.out = p.out /\ road.m = p.m
               /\ road.central = Central /\ Lr(p) \in db
  BY InServiceTaken DEF Sound
<1>8. Lr(p).kind = "lr" /\ Lr(p).a = p.edge /\ Lr(p).by = p.n
  BY DEF Lr, Entity
<1>9. /\ \E g \in db : g.kind = "ls" /\ g.a = p.out /\ g.by = p.n
      /\ \E g \in db : g.kind = "ls" /\ g.a = p.m /\ g.by = p.n
  <2>1. PICK q :
          /\ road.edge = q.edge /\ road.out = q.out /\ road.m = q.m
          /\ \E g \in db : g.kind = "lr" /\ g.a = q.edge /\ g.by = q.n
          /\ \E g \in db : g.kind = "ls" /\ g.a = q.out /\ g.by = q.n
          /\ \E g \in db : g.kind = "ls" /\ g.a = q.m /\ g.by = q.n
    BY RoadOfOne DEF Sound
  <2>2. q.n = p.n
    BY <1>7, <1>8, <2>1, OneOwner DEF Sound
  <2> QED
    BY <1>7, <2>1, <2>2
<1>10. PICK g2 \in db : g2.kind = "ls" /\ g2.a = p.out /\ g2.by = p.n
  BY <1>9
<1>11. PICK g3 \in db : g3.kind = "ls" /\ g3.a = p.m /\ g3.by = p.n
  BY <1>9
<1>12. \A i \in 1..Len(t), e \in db : Takes(t[i], e) => e.by = p.n
  BY <1>1, <1>7, <1>8, <1>10, <1>11, PlanTakesOwn DEF Sound
<1>13. /\ Len(t) = (IF w THEN 6 ELSE 5) /\ (w => t[2].verb = "sleep")
       /\ t[1] = Del({<<"lrp", Central, p.m, NoIp>>}, FALSE)
  BY <1>1, <1>7 DEF IsRemovePlan, _cmd_del_lrp, Sleep
<1>14. \A e \in db : Takes(t[1], e) <=> (IsCenLrp(e) /\ e.by = p.n)
  <2> TAKE e \in db
  <2>1. Takes(t[1], e) <=> Key(e) = <<"lrp", Central, p.m, NoIp>>
    BY <1>13 DEF Takes, Del
  <2>2. Key(e) = <<"lrp", Central, p.m, NoIp>> <=> (IsCenLrp(e) /\ e.b = p.m)
    BY DEF Key, IsCenLrp
  <2>3. ASSUME IsCenLrp(e), e.b = p.m PROVE e.by = p.n
    BY <1>11, <2>3, AboutSwitch DEF IsCenLrp, Sound
  <2>4. ASSUME IsCenLrp(e), e.by = p.n PROVE e.b = p.m
    <3>1. e \in RoadOf(p)
      BY <1>7, <2>4, InAll DEF Own
    <3> QED
      BY <1>7, <2>4, <3>1, PartOfRoad, NamesApart DEF IsCenLrp
  <2> QED
    BY <2>1, <2>2, <2>3, <2>4
<1>15. ASSUME ~w PROVE \A x \in Taken(db) : Of(x, p.n)
  <2> TAKE x \in Taken(db)
  <2>1. PICK r \in dl_ecmp_road(db) : x = Service(r)
    BY TakenInService DEF Sound, Views
  <2>2. r = road
    BY <1>15, OneByCount DEF Sound
  <2>3. x.edge = p.edge
    BY <1>7, <2>1, <2>2 DEF Service
  <2> QED
    BY <1>7, <1>8, <2>3 DEF Of, Routers
<1>16. t # <<>> /\ t[1].verb = "del"
  <2>1. JobOK(o)
    BY <1>3 DEF Types
  <2>2. Len(t) # 0
    BY <1>13
  <2> QED
    BY <1>5, <1>13, <2>1, <2>2, JobLength DEF Del
<1>17. Untouched(o, p.n)'
  BY <1>3, <1>5, <1>6, <1>13, <1>14, <1>15, <1>16 DEF Untouched, Takes
<1>18. Remover(o, p.n)'
  BY <1>3, <1>5, <1>12, <1>17 DEF Remover, Takes
<1>19. Removing'
  BY <1>3, <1>4, <1>18 DEF Removing
<1>20. Building'
  BY <1>3, <1>4, <1>5 DEF Building, Adder
<1>21. RoadsWhole'
  BY <1>3 DEF Views, RoadsWhole
<1>22. AllServe => AllServe'
  BY <1>3, <1>6 DEF AllServe
<1>23. OneAtMost => OneAtMost'
  BY <1>3, <1>6 DEF OneAtMost
<1>24. ~NoneTaken
  BY <1>7 DEF NoneTaken
<1> QED
  BY <1>19, <1>20, <1>21, <1>22, <1>23, <1>24 DEF Views

LEMMA ViewsRemoveRoad ==
    ASSUME Types, Sound, Types', Views, NEW c \in Chassis, remove_ecmp_road(c),
           overlap' # "removes"
    PROVE  Views'
<1>1. PICK road \in dl_ecmp_road(db) :
        /\ op[c] = Idle
        /\ \E route \in Named(db, "lsr", road.central, road.m) :
            Begin(c, "remove", _remove_ecmp_road(Cardinality(dl_ecmp_road(db)) > 1, road, route))
  BY DEF remove_ecmp_road
<1>2. PICK route \in Named(db, "lsr", road.central, road.m) :
        Begin(c, "remove", _remove_ecmp_road(Cardinality(dl_ecmp_road(db)) > 1, road, route))
  BY <1>1
<1> DEFINE w == Cardinality(dl_ecmp_road(db)) > 1
<1>3. w \in BOOLEAN /\ (~w => ~(Cardinality(dl_ecmp_road(db)) > 1))
      /\ Begin(c, "remove", _remove_ecmp_road(w, road, route))
  BY <1>2
<1> HIDE DEF w
<1> QED
  BY <1>1, <1>3, ViewsRemoval
------------------------------------------------------------------------------
(***************************************************************************)
(* The actions, one by one, and the theorem.                               *)
(***************************************************************************)

\* A run goes on, by a command or a sleep, as one that adds or one that removes.
LEMMA GoesOn ==
    ASSUME Types, NEW c \in Chassis, tpctl_execute(c) \/ Slept(c)
    PROVE  Advance(c) \/ Retreat(c)
<1>1. CASE tpctl_execute(c)
  <2>1. /\ op[c].todo # <<>> /\ op' = [op EXCEPT ![c] = Rest(op[c])]
        /\ view' = view /\ count' = count /\ All' \subseteq All
    BY <1>1, ExecEffect, ExecAll
  <2>2. op[c].kind \in {"remove"} \cup Adder
    BY <2>1 DEF Types, JobOK
  <2>3. CASE op[c].kind # "remove"
    <3>1. /\ db' = db \cup Adding(op[c].todo[1]) /\ op[c].todo[1].verb = "add"
          /\ \A e \in Adding(op[c].todo[1]), f \in db : Key(e) # Key(f)
      BY <1>1, <2>3, ExecEffect
    <3> QED
      BY <2>1, <2>2, <2>3, <3>1 DEF Advance
  <2>4. CASE op[c].kind = "remove"
    <3>1. db' = {e \in db : ~Takes(op[c].todo[1], e)} /\ op[c].todo[1].verb = "del"
      BY <1>1, <2>4, ExecEffect
    <3> QED
      BY <2>1, <2>4, <3>1 DEF Retreat
  <2> QED
    BY <2>3, <2>4
<1>2. CASE Slept(c)
  <2>1. /\ op[c].todo # <<>> /\ op' = [op EXCEPT ![c] = Rest(op[c])]
        /\ UNCHANGED <<db, view, count, stopped, overlap>>
        /\ Adding(op[c].todo[1]) = {} /\ op[c].todo[1].verb = "sleep" /\ All' \subseteq All
    BY <1>2, SleptEffect
  <2>2. op[c].owing = {}
    BY <1>2 DEF Slept
  <2>3. op[c].kind \in {"remove"} \cup Adder
    BY <2>1 DEF Types, JobOK
  <2>4. CASE op[c].kind # "remove"
    <3>1. db' = db \cup Adding(op[c].todo[1])
      BY <2>1
    <3> QED
      BY <2>1, <2>2, <2>3, <2>4, <3>1 DEF Advance
  <2>5. CASE op[c].kind = "remove"
    <3>1. db' = {e \in db : ~Takes(op[c].todo[1], e)}
      BY <2>1 DEF Takes
    <3> QED
      BY <2>1, <2>2, <2>5, <3>1 DEF Retreat
  <2> QED
    BY <2>4, <2>5
<1> QED
  BY <1>1, <1>2

LEMMA ViewsNext ==
    ASSUME Types, overlap # "removes" => Sound /\ Views, Next, Types', Sound',
           overlap' # "removes"
    PROVE  Views'
<1>1. PICK c \in Chassis :
        \/ init_ecmp_road(c) \/ add_ecmp_road(c) \/ remove_ecmp_road(c)
        \/ tpctl_execute(c) \/ Fail(c) \/ Slept(c) \/ Stop(c) \/ Apply(c)
  BY DEF Next
<1>2. CASE init_ecmp_road(c)
  <2>1. overlap # "removes"
    <3>1. \E kind : overlap' = Overlapped(c, kind)
      BY <1>2 DEF init_ecmp_road, Begin
    <3> QED
      BY <3>1, OverlapEffect
  <2> QED
    BY <1>2, <2>1, ViewsInitRoad
<1>3. CASE add_ecmp_road(c)
  <2>1. overlap # "removes"
    <3>1. \E kind : overlap' = Overlapped(c, kind)
      BY <1>3 DEF add_ecmp_road, Begin
    <3> QED
      BY <3>1, OverlapEffect
  <2> QED
    BY <1>3, <2>1, ViewsAddRoad
<1>4. CASE remove_ecmp_road(c)
  <2>1. overlap # "removes"
    <3>1. \E kind : overlap' = Overlapped(c, kind)
      BY <1>4 DEF remove_ecmp_road, Begin
    <3> QED
      BY <3>1, OverlapEffect
  <2> QED
    BY <1>4, <2>1, ViewsRemoveRoad
<1>5. CASE tpctl_execute(c) \/ Slept(c)
  <2>1. overlap' = overlap
    BY <1>5 DEF tpctl_execute, Slept
  <2>2. Advance(c) \/ Retreat(c)
    BY <1>5, GoesOn
  <2> QED
    BY <2>1, <2>2, ViewsAdvance, ViewsRetreat
<1>6. CASE Fail(c) \/ Stop(c)
  <2>1. /\ op' = [op EXCEPT ![c] = Idle] /\ db' = db /\ view' = view /\ count' = count
        /\ overlap' = overlap /\ All' \subseteq All
    BY <1>6, EndEffect
  <2> QED
    BY <2>1, ViewsEnd
<1>7. CASE Apply(c)
  <2>1. overlap' = overlap
    BY <1>7 DEF Apply
  <2> QED
    BY <1>7, <2>1, ViewsApply
<1> QED
  BY <1>1, <1>2, <1>3, <1>4, <1>5, <1>6, <1>7

LEMMA SameViews ==
    ASSUME Views, UNCHANGED vars
    PROVE  Views'
<1>1. db' = db /\ view' = view /\ op' = op /\ count' = count
  BY DEF vars
<1>2. All' = All /\ \A n : Own(n)' = Own(n)
  BY <1>1 DEF All, ToAdd, Own
<1>3. /\ Taken(db)' = Taken(db) /\ Serving(db)' = Serving(db) /\ Routers(db)' = Routers(db)
      /\ \A x, n : Of(x, n)' = Of(x, n)
  BY <1>1, SameTaken
<1>4. (RoadsWhole => RoadsWhole') /\ (AllServe => AllServe') /\ (OneAtMost => OneAtMost')
  BY <1>1, <1>3 DEF RoadsWhole, AllServe, OneAtMost
<1>5. NoneTaken => NoneTaken'
  BY <1>1, <1>3 DEF NoneTaken, Takes, ToAdd
<1>6. Building => Building'
  <2>1. \A c \in Chassis : \A p : Builder(op[c], p) => Builder(op[c], p)'
    BY <1>1, <1>2, <1>3 DEF Builder, FirstEdge, AnotherRoad, ToAdd
  <2> QED
    BY <1>1, <2>1 DEF Building
<1>7. Removing => Removing'
  <2>1. \A c \in Chassis : \A n : Remover(op[c], n) => Remover(op[c], n)'
    BY <1>1, <1>3, <1>4, <1>5 DEF Remover, Untouched, Leaves, Takes
  <2> QED
    BY <1>1, <2>1 DEF Removing
<1> QED
  BY <1>4, <1>5, <1>6, <1>7 DEF Views

\* NoBlackHole: as long as no removal runs beside another run, an agent whose
\* traffic some road in service can carry sends none of it to an edge that
\* does not have its road yet or has it no more.  This is what the order of the
\* commands in _init_ecmp_road and _remove_ecmp_road is for, and the sleep of
\* tpctl_execute between the last two or after the first of them.
THEOREM NeverBlackHole == Spec => []NoBlackHole
<1>1. Init => VInv
  BY ViewsInit DEF VInv
<1>2. IInv /\ IInv' /\ VInv /\ [Next]_vars => VInv'
  <2> SUFFICES ASSUME IInv, IInv', VInv, [Next]_vars, overlap' # "removes"
               PROVE  Views'
    BY DEF VInv
  <2>1. Types /\ Types' /\ Sound' /\ (overlap # "removes" => Sound /\ Views)
    BY DEF IInv, VInv
  <2>2. CASE Next
    BY <2>1, <2>2, ViewsNext
  <2>3. CASE UNCHANGED vars
    <3>1. overlap # "removes"
      BY <2>3 DEF vars
    <3> QED
      BY <2>1, <2>3, <3>1, SameViews
  <2> QED
    BY <2>2, <2>3
<1>3. IInv /\ VInv => NoBlackHole
  BY ViewsSafe DEF IInv, VInv, Sound, NoBlackHole
<1> QED
  BY <1>1, <1>2, <1>3, Inductive, PTL DEF Spec
==============================================================================

------------------------- MODULE EdgeOperate_proofs -------------------------
(***************************************************************************)
(* Proofs about EdgeOperate, for any number of hosts, virtual addresses,   *)
(* addresses of the inner network, runs and kills.                         *)
(***************************************************************************)
EXTENDS EdgeOperate, FiniteSetTheorems, SequenceTheorems, WellFoundedInduction, TLAPS

------------------------------------------------------------------------------
(***************************************************************************)
(* The inductive invariant.                                                *)
(***************************************************************************)

CentralRouter == Entity("lr", Central, NoName, NoIp, Off, 0)

\* Everything the run p.n of the tool puts into the tree, if nothing stops it.
RoadOf(p) ==
    {Entity("ls", p.out, NoName, NoIp, Off, p.n),
     Entity("lr", p.edge, NoName, NoIp, p.at, p.n),
     Entity("ls", p.m, NoName, NoIp, Off, p.n),
     Entity("lsp", p.out, NoName, PatchIp, p.at, p.n),
     Entity("lrp", p.edge, p.out, p.vip, Off, p.n),
     Entity("lsp", p.out, p.edge, p.vip, Off, p.n),
     Entity("lrp", p.edge, p.m, p.inner, Off, p.n),
     Entity("lsp", p.m, p.edge, p.inner, Off, p.n),
     Entity("lrp", Central, p.m, p.hop, Off, p.n),
     Entity("lsp", p.m, Central, p.hop, Off, p.n),
     Entity("lsr", p.edge, p.out, NoIp, Off, p.n),
     Entity("lsr", p.edge, p.m, p.hop, Off, p.n),
     Entity("lsr", Central, p.m, p.inner, Off, p.n)}

IsRoad(p) ==
    /\ p.out[1] = "out" /\ p.edge[1] = "edge" /\ p.m[1] = "m"
    /\ p.at \in Chassis

\* What a run has still to add, and all that is there or on its way.
Adding(cmd) == IF cmd.verb = "add" THEN cmd.what ELSE {}
ToAdd(o) == UNION {Adding(o.todo[i]) : i \in 1..Len(o.todo)}
All == db \cup UNION {ToAdd(op[c]) : c \in Chassis}
Own(n) == {e \in All : e.by = n}

\* A deletion takes e along.
Takes(cmd, e) ==
    /\ cmd.verb = "del"
    /\ Key(e) \in cmd.what \/ (cmd.deep /\ Parents(e) \cap cmd.what # {})

\* The switch and the router that e is about are in s and of e's run.
Has(s, kind, a, n) == \E f \in s : f.kind = kind /\ f.a = a /\ f.by = n

Supported(s, e) ==
    /\ e.kind = "lsp" => Has(s, "ls", e.a, e.by)
    /\ e.kind \in {"lrp", "lsr"} =>
        Has(s, "ls", e.b, e.by) /\ (e.a = Central \/ Has(s, "lr", e.a, e.by))

\* Types.  A command list is a sequence of additions, or of deletions, and
\* sleeps; it is empty in a run that is not under way.
Typed(e) ==
    /\ e.kind \in Kinds /\ e.by \in 0..MaxOps /\ e.at \in Chassis \cup {Off}
    /\ e.kind = "lrp" => e.ip \in 1..Hosts \cup Vips

Adder == {"init", "add"}

IsList(s) == s \in Seq({s[i] : i \in DOMAIN s})

JobOK(o) ==
    /\ o = [todo |-> o.todo, kind |-> o.kind, begun |-> o.begun, owing |-> o.owing]
    /\ IsList(o.todo)
    /\ o.kind \in {"none", "remove"} \cup Adder
    /\ o.kind = "none" => o.todo = <<>>
    /\ o.begun \in BOOLEAN
    /\ \A i \in 1..Len(o.todo) :
        /\ o.todo[i].verb \in {"sleep", IF o.kind = "remove" THEN "del" ELSE "add"}
        /\ o.todo[i].verb = "sleep" => o.todo[i].what = {}
        /\ o.todo[i].verb = "add" => o.todo[i].what # {} /\ IsFiniteSet(o.todo[i].what)

Types ==
    /\ op = [c \in Chassis |-> op[c]] /\ \A c \in Chassis : JobOK(op[c])
    /\ view = [c \in Chassis |-> view[c]]
    /\ \A c \in Chassis : \A x \in view[c].taken : x.at \in Chassis
    /\ \A e \in All : Typed(e)
    /\ count \in 0..MaxOps /\ stopped \in 0..MaxStops
    /\ overlap \in {"none", "adds", "removes"}

\* What is in the tree: parts of the roads of the runs so far, no two of one
\* name, each with what it needs.
Shaped ==
    /\ \A e \in All : e.by \in 0..count /\ (e.by = 0 => e = CentralRouter)
    /\ \A n \in 1..count : \E p : p.n = n /\ IsRoad(p) /\ Own(n) \subseteq RoadOf(p)

Tree ==
    /\ IsFiniteSet(db) /\ CentralRouter \in db
    /\ \A e, f \in db : Key(e) = Key(f) => e = f
    /\ \A e \in db : Supported(db, e)

\* What a run that adds has still to do, in the tree s.
AdderOK(o, s) ==
    /\ \A i \in 1..Len(o.todo) : \A e \in Adding(o.todo[i]) :
        /\ Supported(s \cup UNION {Adding(o.todo[j]) : j \in 1..(i - 1)}, e)
        /\ e \notin s
        /\ \A j \in 1..Len(o.todo) : j # i => e \notin Adding(o.todo[j])
    /\ \A e, f \in ToAdd(o) : e.by = f.by
    /\ ~o.begun => \A e \in ToAdd(o), f \in s : e.by # f.by

Additions ==
    \A c \in Chassis :
        /\ AdderOK(op[c], db)
        /\ \A d \in Chassis \ {c} :
            \A e \in ToAdd(op[c]), f \in ToAdd(op[d]) : e.by # f.by

\* A run that removes: nothing that is in the tree s loses the switch it is
\* about, and the central router stays.  Such a run is alone.
RemoverOK(o, s) ==
    /\ \A i \in 1..Len(o.todo) : ~Takes(o.todo[i], CentralRouter)
    /\ \A i \in 1..Len(o.todo), e \in s :
        e.kind \in {"ls", "lr"} /\ Takes(o.todo[i], e) => o.todo[i].deep
    /\ \A i \in 1..Len(o.todo), e \in s :
        (o.todo[i].verb = "del" /\ e.kind \in {"lrp", "lsr"}
            /\ <<"ls", e.b, NoName, NoIp>> \in o.todo[i].what)
        => \E j \in 1..(i - 1) : Takes(o.todo[j], e)

Removals ==
    \A c \in Chassis : op[c].kind = "remove" =>
        RemoverOK(op[c], db) /\ \A d \in Chassis \ {c} : op[d].kind = "none"

\* A run without company: it meets no name of its own in the tree s, and finds
\* what it is to delete until it deletes it.
MeetsNone(o, s) ==
    \A e \in ToAdd(o), f \in s : e.kind \in {"ls", "lr"} => Key(e) # Key(f)

Finds(o, s) ==
    \A i \in 1..Len(o.todo) : o.todo[i].verb = "del" =>
        \A k \in o.todo[i].what : \E e \in s :
            Key(e) = k /\ \A j \in 1..(i - 1) : ~Takes(o.todo[j], e)

Solo ==
    /\ \A c, d \in Chassis : c # d => "none" \in {op[c].kind, op[d].kind}
    /\ \A c \in Chassis : MeetsNone(op[c], db) /\ Finds(op[c], db)

\* Without kills either: a run's part of the tree is nothing, or all of its
\* road with what it has still to add, or on its way out.
Whole(n) == Own(n) = {} \/ \E p : p.n = n /\ IsRoad(p) /\ Own(n) = RoadOf(p)

Leaving(o, n) == \A e \in Own(n) : \E i \in 1..Len(o.todo) : Takes(o.todo[i], e)

Undisturbed ==
    /\ \A n \in 1..count :
        Whole(n) \/ \E c \in Chassis : op[c].kind = "remove" /\ op[c].begun /\ Leaving(op[c], n)
    /\ \A c \in Chassis : op[c].kind = "remove" =>
        \E n \in 1..count :
            /\ Leaving(op[c], n)
            /\ \A e \in db : e.by # n => \A i \in 1..Len(op[c].todo) : ~Takes(op[c].todo[i], e)

Sound == Shaped /\ Tree /\ Additions /\ Removals

IInv ==
    /\ Types
    /\ overlap # "removes" => Sound
    /\ overlap = "none" => Solo
    /\ overlap = "none" /\ stopped = 0 => Undisturbed

------------------------------------------------------------------------------
(***************************************************************************)
(* The parts of a road.                                                    *)
(***************************************************************************)

LEMMA NamesApart ==
    ASSUME NEW p, IsRoad(p), NEW q, IsRoad(q)
    PROVE  /\ p.out \notin {q.edge, q.m, Central, NoName}
           /\ p.edge \notin {q.out, q.m, Central, NoName}
           /\ p.m \notin {q.out, q.edge, Central, NoName}
           /\ Central # NoName
<1>1. Central[1] = "central" /\ NoName[1] = "none"
  BY DEF Central, NoName
<1> QED
  BY <1>1 DEF IsRoad

\* A part is told by its kind and its two names, so by its key too.
LEMMA PartOfRoad ==
    ASSUME NEW p, IsRoad(p), NEW e \in RoadOf(p)
    PROVE  /\ e.by = p.n
           /\ e.kind \in Kinds
           /\ e.kind = "lr" => e.a = p.edge /\ e.b = NoName /\ e.at = p.at
           /\ e.kind = "ls" => e.a \in {p.out, p.m} /\ e.b = NoName
           /\ e.kind = "lsp" => \/ e.a = p.out /\ e.b \in {NoName, p.edge}
                                \/ e.a = p.m /\ e.b \in {p.edge, Central}
           /\ e.kind \in {"lrp", "lsr"} => \/ e.a = p.edge /\ e.b \in {p.out, p.m}
                                           \/ e.a = Central /\ e.b = p.m
BY DEF RoadOf, Entity, Kinds

LEMMA PartByNames ==
    ASSUME NEW p, IsRoad(p), NEW e \in RoadOf(p), NEW f \in RoadOf(p),
           e.kind = f.kind, e.a = f.a, e.b = f.b
    PROVE  e = f
BY NamesApart DEF RoadOf, Entity

LEMMA KeyNames ==
    ASSUME NEW e, NEW f, Key(e) = Key(f)
    PROVE  e.kind = f.kind /\ e.a = f.a /\ e.b = f.b
BY DEF Key

LEMMA Owner ==
    ASSUME Shaped, NEW e \in All, e # CentralRouter
    PROVE  /\ e.by \in 1..count
           /\ \E p : p.n = e.by /\ IsRoad(p) /\ Own(e.by) \subseteq RoadOf(p) /\ e \in RoadOf(p)
<1>1. e.by \in 1..count
  BY DEF Shaped
<1>2. e \in Own(e.by)
  BY DEF Own
<1> QED
  BY <1>1, <1>2 DEF Shaped

\* What kinds of names the parts of the tree have.
LEMMA NamesByKind ==
    ASSUME Shaped, NEW e \in All
    PROVE  /\ e.kind \in Kinds
           /\ e.kind = "lr" => e.b = NoName /\ (e = CentralRouter \/ e.a[1] = "edge")
           /\ e.kind = "ls" => e.b = NoName /\ e.a[1] \in {"out", "m"}
           /\ e.kind = "lsp" => /\ e.a[1] \in {"out", "m"}
                                /\ e.b \in {NoName, Central} \/ e.b[1] = "edge"
           /\ e.kind \in {"lrp", "lsr"} => /\ e.a = Central \/ e.a[1] = "edge"
                                           /\ e.b[1] \in {"out", "m"}
<1>1. CASE e = CentralRouter
  BY <1>1 DEF CentralRouter, Entity, Kinds
<1>2. CASE e # CentralRouter
  <2>1. PICK p : IsRoad(p) /\ e \in RoadOf(p)
    BY <1>2, Owner
  <2> QED
    BY <2>1, PartOfRoad DEF IsRoad
<1> QED
  BY <1>1, <1>2

LEMMA InAll == db \subseteq All /\ \A c \in Chassis : ToAdd(op[c]) \subseteq All
BY DEF All

\* A name is in the tree once, as a switch's or a router's.
LEMMA OneOwner ==
    ASSUME Shaped, Tree, NEW e \in db, NEW f \in db,
           e.kind \in {"ls", "lr"}, f.kind = e.kind, e.a = f.a
    PROVE  e = f
<1>1. e.b = NoName /\ f.b = NoName
  BY NamesByKind, InAll
<1>2. Key(e) = Key(f)
  BY <1>1 DEF Key
<1> QED
  BY <1>2 DEF Tree

\* So what is about a switch or an edge is of the same run.
LEMMA AboutSwitch ==
    ASSUME Shaped, Tree, NEW e \in db, NEW g \in db, g.kind = "ls",
           \/ e.kind = "lsp" /\ e.a = g.a
           \/ e.kind \in {"lrp", "lsr"} /\ e.b = g.a
    PROVE  e.by = g.by
<1>1. Has(db, "ls", g.a, e.by)
  BY DEF Tree, Supported
<1>2. PICK f \in db : f.kind = "ls" /\ f.a = g.a /\ f.by = e.by
  BY <1>1 DEF Has
<1> QED
  BY <1>2, OneOwner

LEMMA AboutEdge ==
    ASSUME Shaped, Tree, NEW e \in db, NEW g \in db, g.kind = "lr", g.a # Central,
           e.kind \in {"lrp", "lsr"}, e.a = g.a
    PROVE  e.by = g.by
<1>1. Has(db, "lr", g.a, e.by)
  BY DEF Tree, Supported
<1>2. PICK f \in db : f.kind = "lr" /\ f.a = g.a /\ f.by = e.by
  BY <1>1 DEF Has
<1> QED
  BY <1>2, OneOwner

\* Two entities of one kind between the same two names are the same, also two
\* static routes, whose keys name the next hop too.
LEMMA NamedOnce ==
    ASSUME Shaped, Tree, NEW e \in db, NEW f \in db,
           e.kind = f.kind, e.a = f.a, e.b = f.b
    PROVE  e = f
<1>1. CASE e.kind # "lsr"
  <2>1. Key(e) = Key(f)
    BY <1>1 DEF Key
  <2> QED
    BY <2>1 DEF Tree
<1>2. CASE e.kind = "lsr"
  <2>1. Has(db, "ls", e.b, e.by)
    BY <1>2 DEF Tree, Supported
  <2>2. PICK g \in db : g.kind = "ls" /\ g.a = e.b /\ g.by = e.by
    BY <2>1 DEF Has
  <2>3. f.by = e.by
    BY <1>2, <2>2, AboutSwitch
  <2>4. e # CentralRouter
    <3>1. CentralRouter.kind = "lr"
      BY DEF CentralRouter, Entity
    <3> QED
      BY <1>2, <3>1
  <2>5. PICK p : IsRoad(p) /\ Own(e.by) \subseteq RoadOf(p)
    BY <2>4, Owner, InAll
  <2>6. e \in RoadOf(p) /\ f \in RoadOf(p)
    BY <2>3, <2>5, InAll DEF Own
  <2> QED
    BY <2>5, <2>6, PartByNames
<1> QED
  BY <1>1, <1>2

\* A road that leads out is made of parts of one run only.
LEMMA RoadOfOne ==
    ASSUME Shaped, Tree, NEW r \in dl_ecmp_road(db)
    PROVE  \E p :
            /\ IsRoad(p) /\ p.n \in 1..count /\ Own(p.n) \subseteq RoadOf(p)
            /\ r.edge = p.edge /\ r.out = p.out /\ r.m = p.m /\ r.central = Central
            /\ \E g \in db : g.kind = "lr" /\ g.a = p.edge /\ g.by = p.n
            /\ \E g \in db : g.kind = "ls" /\ g.a = p.out /\ g.by = p.n
            /\ \E g \in db : g.kind = "ls" /\ g.a = p.m /\ g.by = p.n
<1> DEFINE k == There(db)
<1>0. PICK e \in db :
        /\ e.kind = "lr" /\ e.at # Off
        /\ r \in {[edge |-> e.a, at |-> e.at, out |-> out, m |-> t[1], central |-> t[2]] :
                    out \in Outsides(db, k, e), t \in Insides(db, k, e)}
  BY DEF dl_ecmp_road, Routers
<1>1a. PICK out \in Outsides(db, k, e) : \E t \in Insides(db, k, e) :
        r = [edge |-> e.a, at |-> e.at, out |-> out, m |-> t[1], central |-> t[2]]
  BY <1>0
<1>1. PICK t \in Insides(db, k, e) :
        /\ e.kind = "lr" /\ e.at # Off
        /\ r = [edge |-> e.a, at |-> e.at, out |-> out, m |-> t[1], central |-> t[2]]
  BY <1>0, <1>1a
<1>2. e # CentralRouter
  BY <1>1 DEF CentralRouter, Entity
<1>3. PICK p : p.n = e.by /\ IsRoad(p) /\ Own(e.by) \subseteq RoadOf(p) /\ e \in RoadOf(p)
  BY <1>2, Owner, InAll
<1>4. e.by \in 1..count /\ e.a = p.edge /\ p.edge # Central
  BY <1>1, <1>2, <1>3, Owner, InAll, PartOfRoad, NamesApart
<1>5. \A f \in db : f.by = e.by => f \in RoadOf(p)
  BY <1>3, InAll DEF Own
<1>6. \A x, y, z : <<x, y, z>> \in k => \E f \in db : f.kind = x /\ f.a = y /\ f.b = z
  BY DEF There
<1>7. \A ls : ls \in Switches(db) => \E g \in db : g.kind = "ls" /\ g.a = ls
  BY DEF Switches
\* The switch outside has a patch port: it is the outer one of the two.
<1>8. out = p.out /\ \E g \in db : g.kind = "ls" /\ g.a = p.out /\ g.by = p.n
  <2>1. /\ out \in Switches(db)
        /\ <<"lrp", e.a, out>> \in k /\ <<"lsp", out, NoName>> \in k
    BY <1>1 DEF Outsides, dl_edge_LR_peer_LS, dl_LS_has_patchport, Linked
  <2>2. PICK g \in db : g.kind = "ls" /\ g.a = out
    BY <2>1, <1>7
  <2>3. PICK f \in db : f.kind = "lrp" /\ f.a = e.a /\ f.b = out
    BY <2>1, <1>6
  <2>4. PICK h \in db : h.kind = "lsp" /\ h.a = out /\ h.b = NoName
    BY <2>1, <1>6
  <2>5. f.by = e.by
    BY <1>1, <1>4, <2>3, AboutEdge
  <2>6. g.by = f.by
    BY <2>2, <2>3, AboutSwitch
  <2>7. h.by = g.by
    BY <2>2, <2>4, AboutSwitch
  <2>8. h \in RoadOf(p)
    BY <1>5, <2>5, <2>6, <2>7
  <2>9. h.a = p.out
    BY <1>3, <2>4, <2>8, PartOfRoad, NamesApart
  <2> QED
    BY <1>3, <2>2, <2>4, <2>5, <2>6, <2>9
\* The switch inside leads to another router: that is the central one.
<1>9. /\ t[1] = p.m /\ t[2] = Central
      /\ \E g \in db : g.kind = "ls" /\ g.a = p.m /\ g.by = p.n
  <2>1. /\ t[1] \in Switches(db) /\ e.a # t[2]
        /\ <<"lrp", e.a, t[1]>> \in k /\ <<"lrp", t[2], t[1]>> \in k
    BY <1>1 DEF Insides, dl_edge_LR_peer_LR, dl_edge_LR_peer_LS, Linked
  <2>2. PICK g \in db : g.kind = "ls" /\ g.a = t[1]
    BY <2>1, <1>7
  <2>3. PICK f \in db : f.kind = "lrp" /\ f.a = e.a /\ f.b = t[1]
    BY <2>1, <1>6
  <2>4. PICK h \in db : h.kind = "lrp" /\ h.a = t[2] /\ h.b = t[1]
    BY <2>1, <1>6
  <2>5. f.by = e.by
    BY <1>1, <1>4, <2>3, AboutEdge
  <2>6. g.by = f.by
    BY <2>2, <2>3, AboutSwitch
  <2>7. h.by = g.by
    BY <2>2, <2>4, AboutSwitch
  <2>8. h \in RoadOf(p)
    BY <1>5, <2>5, <2>6, <2>7
  <2>9. h.a = Central /\ h.b = p.m
    BY <1>3, <1>4, <2>1, <2>4, <2>8, PartOfRoad
  <2> QED
    BY <1>3, <2>2, <2>4, <2>5, <2>6, <2>9
<1> HIDE DEF k
<1> QED
  BY <1>1, <1>3, <1>4, <1>8, <1>9

\* RoadsOfOneRun follows: another run's part with one of the road's names would
\* need the switch or the router of that name to be of its own run.
LEMMA RoadsApart ==
    ASSUME Shaped, Tree, NEW r \in dl_ecmp_road(db)
    PROVE  \E n \in 1..count :
            \A e \in db : (e.a \in {r.edge, r.out, r.m} \/ e.b = r.m) => e.by = n
<1>1. PICK p :
        /\ IsRoad(p) /\ p.n \in 1..count
        /\ r.edge = p.edge /\ r.out = p.out /\ r.m = p.m
        /\ \E g \in db : g.kind = "lr" /\ g.a = p.edge /\ g.by = p.n
        /\ \E g \in db : g.kind = "ls" /\ g.a = p.out /\ g.by = p.n
        /\ \E g \in db : g.kind = "ls" /\ g.a = p.m /\ g.by = p.n
  BY RoadOfOne
<1>2. SUFFICES ASSUME NEW e \in db, e.a \in {p.edge, p.out, p.m} \/ e.b = p.m
               PROVE  e.by = p.n
  BY <1>1
<1>3. Central[1] = "central" /\ NoName[1] = "none"
  BY DEF Central, NoName
<1>4. p.edge[1] = "edge" /\ p.out[1] = "out" /\ p.m[1] = "m"
  BY <1>1 DEF IsRoad
<1>5. e.kind \in Kinds
  BY NamesByKind, InAll
<1>6. CASE e.kind = "lr"
  <2>1. e.b = NoName /\ (e = CentralRouter \/ e.a[1] = "edge")
    BY <1>6, NamesByKind, InAll
  <2>2. CentralRouter.a = Central
    BY DEF CentralRouter, Entity
  <2>3. e.a = p.edge
    BY <1>2, <1>3, <1>4, <2>1, <2>2
  <2> QED
    BY <1>1, <1>6, <2>3, OneOwner
<1>7. CASE e.kind = "ls"
  <2>1. e.b = NoName /\ e.a[1] \in {"out", "m"}
    BY <1>7, NamesByKind, InAll
  <2>2. e.a \in {p.out, p.m}
    BY <1>2, <1>3, <1>4, <2>1
  <2> QED
    BY <1>1, <1>7, <2>2, OneOwner
<1>8. CASE e.kind = "lsp"
  <2>1. e.a[1] \in {"out", "m"} /\ (e.b \in {NoName, Central} \/ e.b[1] = "edge")
    BY <1>8, NamesByKind, InAll
  <2>2. e.a \in {p.out, p.m}
    BY <1>2, <1>3, <1>4, <2>1
  <2> QED
    BY <1>1, <1>8, <2>2, AboutSwitch
<1>9. CASE e.kind \in {"lrp", "lsr"}
  <2>1. e.a = Central \/ e.a[1] = "edge"
    BY <1>9, NamesByKind, InAll
  <2>2. e.a = p.edge \/ e.b = p.m
    BY <1>2, <1>3, <1>4, <2>1
  <2>3. p.edge # Central
    BY <1>3, <1>4
  <2> QED
    BY <1>1, <1>9, <2>2, <2>3, AboutSwitch, AboutEdge
<1> QED
  BY <1>5, <1>6, <1>7, <1>8, <1>9 DEF Kinds

------------------------------------------------------------------------------
(***************************************************************************)
(* The lists of commands.                                                  *)
(***************************************************************************)

LEMMA SeqOfItself ==
    ASSUME NEW S, NEW s \in Seq(S)
    PROVE  IsList(s)
<1> DEFINE T == {s[i] : i \in DOMAIN s}
<1>1. Len(s) \in Nat /\ s \in [1..Len(s) -> S]
  BY LenProperties
<1>2. s \in [1..Len(s) -> T]
  BY <1>1
<1> HIDE DEF T
<1>3. s \in Seq(T)
  BY <1>1, <1>2, SeqDef
<1> QED
  BY <1>3 DEF T, IsList

\* A list with the sleep, or without it, in its middle.
LEMMA WithSleep ==
    ASSUME NEW S, NEW x \in Seq(S), NEW y \in Seq(S), NEW z \in S, NEW w \in BOOLEAN
    PROVE  LET t == x \o (IF w THEN <<z>> ELSE <<>>) \o y
               at == Len(x) + (IF w THEN 1 ELSE 0)
           IN  /\ t \in Seq(S) /\ Len(t) = at + Len(y)
               /\ \A i \in 1..Len(x) : t[i] = x[i]
               /\ w => t[at] = z
               /\ \A i \in 1..Len(y) : t[at + i] = y[i]
<1> DEFINE m == IF w THEN <<z>> ELSE <<>>
           u == x \o m
           at == Len(x) + (IF w THEN 1 ELSE 0)
<1>1. m \in Seq(S) /\ Len(m) = (IF w THEN 1 ELSE 0) /\ (w => m[1] = z)
  OBVIOUS
<1>2. Len(x) \in Nat /\ Len(y) \in Nat
  OBVIOUS
<1> HIDE DEF m
<1>3. /\ u \in Seq(S) /\ Len(u) = Len(x) + Len(m)
      /\ \A i \in 1..(Len(x) + Len(m)) : u[i] = IF i <= Len(x) THEN x[i] ELSE m[i - Len(x)]
  BY <1>1, ConcatProperties
<1> HIDE DEF u
<1>4. /\ u \o y \in Seq(S) /\ Len(u \o y) = Len(u) + Len(y)
      /\ \A i \in 1..(Len(u) + Len(y)) : (u \o y)[i] = IF i <= Len(u) THEN u[i] ELSE y[i - Len(u)]
  <2>1. u \in Seq(S)
    BY <1>3
  <2> QED
    BY <2>1, ConcatProperties
<1> DEFINE t == u \o y
<1>5. t \in Seq(S) /\ Len(t) = at + Len(y) /\ at = Len(u)
  BY <1>1, <1>3, <1>4
<1>6. \A i \in 1..Len(x) : t[i] = x[i]
  BY <1>1, <1>2, <1>3, <1>4
<1>7. w => t[at] = z
  BY <1>1, <1>2, <1>3, <1>4
<1>8. \A i \in 1..Len(y) : t[at + i] = y[i]
  BY <1>1, <1>2, <1>3, <1>4, SMTT(30)
<1>9. t = x \o (IF w THEN <<z>> ELSE <<>>) \o y
  BY DEF u, m
<1> HIDE DEF t
<1> QED
  BY <1>5, <1>6, <1>7, <1>8, <1>9


NewRoad(s, c, vip, inner, n) ==
    [n |-> n, out |-> Names(s).out, edge |-> Names(s).edge, m |-> Names(s).m,
     at |-> c, vip |-> vip, inner |-> inner, hop |-> _gen_lrp_property(s)]

\* The commands that add a road, one by one.
IsAddPlan(t, w, cen, p) ==
    /\ IsList(t)
    /\ Len(t) = IF w THEN 11 ELSE 10
    /\ t[1] = Add({Entity("ls", p.out, NoName, NoIp, Off, p.n)})
    /\ t[2] = Add({Entity("lr", p.edge, NoName, NoIp, p.at, p.n)})
    /\ t[3] = Add({Entity("ls", p.m, NoName, NoIp, Off, p.n)})
    /\ t[4] = Add({Entity("lsp", p.out, NoName, PatchIp, p.at, p.n)})
    /\ t[5] = Add({Entity("lrp", p.edge, p.out, p.vip, Off, p.n),
                   Entity("lsp", p.out, p.edge, p.vip, Off, p.n)})
    /\ t[6] = Add({Entity("lrp", p.edge, p.m, p.inner, Off, p.n),
                   Entity("lsp", p.m, p.edge, p.inner, Off, p.n)})
    /\ t[7] = Add({Entity("lrp", cen, p.m, p.hop, Off, p.n),
                   Entity("lsp", p.m, cen, p.hop, Off, p.n)})
    /\ t[8] = Add({Entity("lsr", p.edge, p.out, NoIp, Off, p.n)})
    /\ t[9] = Add({Entity("lsr", p.edge, p.m, p.hop, Off, p.n)})
    /\ w => t[10] = Sleep
    /\ t[Len(t)] = Add({Entity("lsr", cen, p.m, p.inner, Off, p.n)})

LEMMA AddPlan ==
    ASSUME NEW s, NEW w \in BOOLEAN, NEW cen, NEW vip, NEW inner, NEW c, NEW n,
           NEW t, t = _init_ecmp_road(s, w, cen, vip, inner, c, n),
           NEW p, p = NewRoad(s, c, vip, inner, n)
    PROVE  IsAddPlan(t, w, cen, p)
<1> DEFINE x == Names(s)
           hop == _gen_lrp_property(s)
           a == <<_cmd_new_ls(x.out, n), _cmd_new_lr(x.edge, c, n), _cmd_new_ls(x.m, n),
                  _cmd_new_patchport(x.out, c, n),
                  _cmd_new_link(x.edge, x.out, vip, n),
                  _cmd_new_link(x.edge, x.m, inner, n),
                  _cmd_new_link(cen, x.m, hop, n),
                  _cmd_new_lsr(x.edge, x.out, NoIp, n),
                  _cmd_new_lsr(x.edge, x.m, hop, n)>>
           z == _cmd_new_lsr(cen, x.m, inner, n)
           S == {a[i] : i \in 1..9} \cup {z, Sleep}
<1>1. t = a \o (IF w THEN <<Sleep>> ELSE <<>>) \o <<z>>
  BY DEF _init_ecmp_road
<1>2. /\ p.out = x.out /\ p.edge = x.edge /\ p.m = x.m /\ p.hop = hop
  BY DEF NewRoad
<1>3. Len(a) = 9
  OBVIOUS
<1>4. /\ a[1] = _cmd_new_ls(p.out, n) /\ a[2] = _cmd_new_lr(p.edge, c, n)
      /\ a[3] = _cmd_new_ls(p.m, n) /\ a[4] = _cmd_new_patchport(p.out, c, n)
      /\ a[5] = _cmd_new_link(p.edge, p.out, vip, n)
      /\ a[6] = _cmd_new_link(p.edge, p.m, inner, n)
      /\ a[7] = _cmd_new_link(cen, p.m, p.hop, n)
      /\ a[8] = _cmd_new_lsr(p.edge, p.out, NoIp, n)
      /\ a[9] = _cmd_new_lsr(p.edge, p.m, p.hop, n)
      /\ z = _cmd_new_lsr(cen, p.m, inner, n)
  BY <1>2
<1>5. a \in Seq(S) /\ <<z>> \in Seq(S) /\ Sleep \in S
  <2>1. a \in Seq({a[i] : i \in 1..9})
    OBVIOUS
  <2>2. {a[i] : i \in 1..9} \subseteq S /\ z \in S /\ Sleep \in S
    OBVIOUS
  <2> HIDE DEF a, z, S
  <2>3. a \in Seq(S)
    BY <2>1, <2>2, SeqMonotonic
  <2> QED
    BY <2>2, <2>3
<1>6. <<z>>[1] = z /\ Len(<<z>>) = 1
  OBVIOUS
<1> HIDE DEF x, hop, a, z, S
<1> DEFINE y == <<z>>
<1> HIDE DEF y
<1>7. /\ t \in Seq(S)
      /\ Len(t) = Len(a) + (IF w THEN 1 ELSE 0) + Len(y)
      /\ \A i \in 1..Len(a) : t[i] = a[i]
      /\ w => t[Len(a) + (IF w THEN 1 ELSE 0)] = Sleep
      /\ \A i \in 1..Len(y) : t[Len(a) + (IF w THEN 1 ELSE 0) + i] = y[i]
  <2>1. t = a \o (IF w THEN <<Sleep>> ELSE <<>>) \o y
    BY <1>1 DEF y
  <2>2. a \in Seq(S) /\ y \in Seq(S) /\ Sleep \in S
    BY <1>5 DEF y
  <2> HIDE DEF Sleep
  <2> QED
    BY <2>1, <2>2, WithSleep
<1>8. /\ Len(t) = (IF w THEN 11 ELSE 10)
      /\ \A i \in 1..9 : t[i] = a[i]
      /\ w => t[10] = Sleep
      /\ t[Len(t)] = z
  BY <1>3, <1>6, <1>7 DEF y
<1>9. IsList(t)
  BY <1>7, SeqOfItself
<1>10. /\ t[1] = a[1] /\ t[2] = a[2] /\ t[3] = a[3] /\ t[4] = a[4] /\ t[5] = a[5]
       /\ t[6] = a[6] /\ t[7] = a[7] /\ t[8] = a[8] /\ t[9] = a[9]
  BY <1>8
<1>11. Len(t) = (IF w THEN 11 ELSE 10) /\ (w => t[10] = Sleep)
  BY <1>8
<1>12. t[Len(t)] = Add({Entity("lsr", cen, p.m, inner, Off, n)})
  BY <1>4, <1>8 DEF _cmd_new_lsr
<1>13. /\ t[1] = Add({Entity("ls", p.out, NoName, NoIp, Off, n)})
       /\ t[2] = Add({Entity("lr", p.edge, NoName, NoIp, c, n)})
       /\ t[3] = Add({Entity("ls", p.m, NoName, NoIp, Off, n)})
       /\ t[4] = Add({Entity("lsp", p.out, NoName, PatchIp, c, n)})
  BY <1>4, <1>10 DEF _cmd_new_ls, _cmd_new_lr, _cmd_new_patchport
<1>14. /\ t[5] = Add({Entity("lrp", p.edge, p.out, vip, Off, n),
                      Entity("lsp", p.out, p.edge, vip, Off, n)})
       /\ t[6] = Add({Entity("lrp", p.edge, p.m, inner, Off, n),
                      Entity("lsp", p.m, p.edge, inner, Off, n)})
       /\ t[7] = Add({Entity("lrp", cen, p.m, p.hop, Off, n),
                      Entity("lsp", p.m, cen, p.hop, Off, n)})
  BY <1>4, <1>10 DEF _cmd_new_link
<1>15. /\ t[8] = Add({Entity("lsr", p.edge, p.out, NoIp, Off, n)})
       /\ t[9] = Add({Entity("lsr", p.edge, p.m, p.hop, Off, n)})
  BY <1>4, <1>10 DEF _cmd_new_lsr
<1>16. p.n = n /\ p.at = c /\ p.vip = vip /\ p.inner = inner
  BY DEF NewRoad
<1> QED
  BY <1>9, <1>11, <1>12, <1>13, <1>14, <1>15, <1>16 DEF IsAddPlan

\* The switches and the router of a road hold up the rest of it.
LEMMA RoadSupported ==
    ASSUME NEW p, NEW s, NEW e \in RoadOf(p),
           Has(s, "ls", p.out, p.n), Has(s, "lr", p.edge, p.n), Has(s, "ls", p.m, p.n)
    PROVE  Supported(s, e)
BY DEF RoadOf, Entity, Supported

LEMMA MoreSupported ==
    ASSUME NEW s, NEW u, s \subseteq u, NEW e, Supported(s, e)
    PROVE  Supported(u, e)
BY DEF Supported, Has

\* A list of additions has each part of the road once, after what it needs.
InParts(t, p) ==
    /\ \A i \in 1..Len(t) : Adding(t[i]) \subseteq RoadOf(p)
    /\ \A e \in RoadOf(p) : \E i \in 1..Len(t) : e \in Adding(t[i])
    /\ \A i, j \in 1..Len(t) : i # j => Adding(t[i]) \cap Adding(t[j]) = {}
    /\ \A i \in 1..Len(t) : \A e \in Adding(t[i]) :
        Supported(UNION {Adding(t[j]) : j \in 1..(i - 1)}, e)

LEMMA PlanParts ==
    ASSUME NEW s, NEW w \in BOOLEAN, NEW vip, NEW inner, NEW c \in Chassis, NEW n,
           NEW t, t = _init_ecmp_road(s, w, Central, vip, inner, c, n),
           NEW p, p = NewRoad(s, c, vip, inner, n)
    PROVE  IsRoad(p) /\ p.n = n /\ InParts(t, p)
<1>1. IsRoad(p) /\ p.n = n
  BY DEF IsRoad, NewRoad, Names, new_entity_name
<1>2. IsAddPlan(t, w, Central, p)
  BY AddPlan
<1> DEFINE A(i) == Adding(t[i])
<1>3. /\ A(1) = {Entity("ls", p.out, NoName, NoIp, Off, p.n)}
      /\ A(2) = {Entity("lr", p.edge, NoName, NoIp, p.at, p.n)}
      /\ A(3) = {Entity("ls", p.m, NoName, NoIp, Off, p.n)}
      /\ A(4) = {Entity("lsp", p.out, NoName, PatchIp, p.at, p.n)}
      /\ A(5) = {Entity("lrp", p.edge, p.out, p.vip, Off, p.n),
                 Entity("lsp", p.out, p.edge, p.vip, Off, p.n)}
      /\ A(6) = {Entity("lrp", p.edge, p.m, p.inner, Off, p.n),
                 Entity("lsp", p.m, p.edge, p.inner, Off, p.n)}
      /\ A(7) = {Entity("lrp", Central, p.m, p.hop, Off, p.n),
                 Entity("lsp", p.m, Central, p.hop, Off, p.n)}
      /\ A(8) = {Entity("lsr", p.edge, p.out, NoIp, Off, p.n)}
      /\ A(9) = {Entity("lsr", p.edge, p.m, p.hop, Off, p.n)}
      /\ w => A(10) = {}
      /\ A(Len(t)) = {Entity("lsr", Central, p.m, p.inner, Off, p.n)}
  <2>1. Adding(Sleep) = {} /\ \A es : Adding(Add(es)) = es
    BY DEF Adding, Add, Sleep
  <2> QED
    BY <1>2, <2>1 DEF IsAddPlan
<1>4. Len(t) = IF w THEN 11 ELSE 10
  BY <1>2 DEF IsAddPlan
<1> HIDE DEF A
<1>5. \A i \in 1..Len(t) : A(i) \subseteq RoadOf(p)
  BY <1>3, <1>4 DEF RoadOf
<1>6. \A e \in RoadOf(p) : \E i \in 1..Len(t) : e \in A(i)
  BY <1>3, <1>4 DEF RoadOf
<1>7. \A i, j \in 1..Len(t) : i # j => A(i) \cap A(j) = {}
  <2> DEFINE Link(e) == e.kind \in {"lrp", "lsp"}
             Place(e) == IF e.kind = "ls" /\ e.a = p.out THEN 1
                         ELSE IF e.kind = "lr" THEN 2
                         ELSE IF e.kind = "ls" THEN 3
                         ELSE IF e.kind = "lsp" /\ e.b = NoName THEN 4
                         ELSE IF Link(e) /\ p.out \in {e.a, e.b} THEN 5
                         ELSE IF Link(e) /\ p.edge \in {e.a, e.b} THEN 6
                         ELSE IF Link(e) THEN 7
                         ELSE IF e.b = p.out THEN 8
                         ELSE IF e.a = p.edge THEN 9
                         ELSE Len(t)
  <2>1. \A i \in 1..Len(t) : \A e \in A(i) : Place(e) = i
    BY <1>1, <1>3, <1>4, NamesApart DEF Entity
  <2> HIDE DEF Place
  <2> QED
    BY <2>1
<1>8. ASSUME NEW i \in 1..Len(t), NEW e \in A(i)
      PROVE  Supported(UNION {A(j) : j \in 1..(i - 1)}, e)
  <2>1. CASE i \in 1..3
    BY <2>1, <1>3 DEF Supported, Entity
  <2>2. CASE i \in 4..Len(t)
    <3> DEFINE u == UNION {A(j) : j \in 1..(i - 1)}
    <3>1. A(1) \subseteq u /\ A(2) \subseteq u /\ A(3) \subseteq u
      BY <2>2, <1>4
    <3>2. /\ Has(A(1), "ls", p.out, p.n) /\ Has(A(2), "lr", p.edge, p.n)
          /\ Has(A(3), "ls", p.m, p.n)
      <4>1. \A k, a, b, ip, at, n1 : Has({Entity(k, a, b, ip, at, n1)}, k, a, n1)
        BY DEF Has, Entity
      <4>2. /\ A(1) = {Entity("ls", p.out, NoName, NoIp, Off, p.n)}
            /\ A(2) = {Entity("lr", p.edge, NoName, NoIp, p.at, p.n)}
            /\ A(3) = {Entity("ls", p.m, NoName, NoIp, Off, p.n)}
        BY <1>3
      <4> QED
        BY <4>1, <4>2
    <3>3. /\ Has(u, "ls", p.out, p.n) /\ Has(u, "lr", p.edge, p.n)
          /\ Has(u, "ls", p.m, p.n)
      BY <3>1, <3>2 DEF Has
    <3> HIDE DEF u
    <3>4. Supported(u, e)
      BY <3>3, <1>5, RoadSupported
    <3> QED
      BY <3>4 DEF u
  <2> QED
    BY <2>1, <2>2, <1>4
<1> QED
  BY <1>1, <1>5, <1>6, <1>7, <1>8 DEF A, InParts

------------------------------------------------------------------------------
(***************************************************************************)
(* A run of the tool and its next command.                                 *)
(***************************************************************************)

LEMMA IdleJob == JobOK(Idle) /\ ToAdd(Idle) = {} /\ Len(Idle.todo) = 0
<1>1. Idle.todo = <<>> /\ Len(<<>>) = 0 /\ <<>> \in Seq({})
  BY DEF Idle
<1>2. IsList(Idle.todo)
  BY <1>1, SeqOfItself
<1>3. Idle.kind = "none" /\ Idle.begun = FALSE
  BY DEF Idle
<1>4. Idle = [todo |-> Idle.todo, kind |-> Idle.kind, begun |-> Idle.begun,
              owing |-> Idle.owing]
  BY DEF Idle
<1>6. 1..0 = {}
  OBVIOUS
<1>7. \A i \in 1..Len(Idle.todo) : FALSE
  BY <1>1, <1>6
<1>5. JobOK(Idle)
  BY <1>1, <1>2, <1>3, <1>4, <1>7 DEF JobOK
<1> QED
  BY <1>1, <1>5, <1>6 DEF ToAdd

LEMMA JobLength ==
    ASSUME NEW o, JobOK(o)
    PROVE  /\ Len(o.todo) \in Nat
           /\ o.todo # <<>> => Len(o.todo) >= 1 /\ Head(o.todo) = o.todo[1]
           /\ o.todo = <<>> => Len(o.todo) = 0
           /\ \A i \in 1..Len(o.todo) : Adding(o.todo[i]) \subseteq ToAdd(o)
<1>1. o.todo \in Seq({o.todo[i] : i \in DOMAIN o.todo})
  BY DEF JobOK, IsList
<1> QED
  BY <1>1, EmptySeq, LenProperties DEF ToAdd

\* The rest of a run: the same commands, one place further.
IsRest(o, r) ==
    /\ Len(r.todo) = Len(o.todo) - 1
    /\ \A i \in 1..Len(r.todo) : r.todo[i] = o.todo[i + 1]
    /\ ToAdd(o) = Adding(o.todo[1]) \cup ToAdd(r)
    /\ \/ r = Idle /\ Len(r.todo) = 0
       \/ r.kind = o.kind /\ r.begun /\ Len(r.todo) # 0

LEMMA RestOfJob ==
    ASSUME NEW o, JobOK(o), o.todo # <<>>
    PROVE  JobOK(Rest(o)) /\ IsRest(o, Rest(o))
<1> DEFINE S == {o.todo[i] : i \in DOMAIN o.todo}
           r == Rest(o)
<1>1. o.todo \in Seq(S) /\ Len(o.todo) \in Nat \ {0}
  BY EmptySeq DEF JobOK, IsList
<1> HIDE DEF S
<1>2. CASE Len(o.todo) = 1
  <2>1. r = Idle
    BY <1>2 DEF Rest
  <2>2. ToAdd(o) = Adding(o.todo[1])
    BY <1>2 DEF ToAdd
  <2> QED
    BY <1>2, <2>1, <2>2, IdleJob DEF IsRest
<1>3. CASE Len(o.todo) # 1
  <2>1. /\ Tail(o.todo) \in Seq(S) /\ Len(Tail(o.todo)) = Len(o.todo) - 1
        /\ \A i \in 1..Len(Tail(o.todo)) : Tail(o.todo)[i] = o.todo[i + 1]
    BY <1>1
  <2>2. /\ r.todo = Tail(o.todo) /\ r.kind = o.kind /\ r.begun = TRUE
        /\ r = [todo |-> r.todo, kind |-> r.kind, begun |-> r.begun, owing |-> r.owing]
    BY <1>3 DEF Rest, JobOK
  <2> HIDE DEF r
  <2>3. IsList(r.todo)
    BY <2>1, <2>2, SeqOfItself
  <2>4. /\ Len(r.todo) = Len(o.todo) - 1 /\ Len(r.todo) # 0
        /\ \A i \in 1..Len(r.todo) : r.todo[i] = o.todo[i + 1] /\ i + 1 \in 1..Len(o.todo)
    BY <1>1, <1>3, <2>1, <2>2
  <2>5. ToAdd(o) = Adding(o.todo[1]) \cup ToAdd(r)
    <3>1. ASSUME NEW e, NEW i \in 1..Len(o.todo), e \in Adding(o.todo[i])
          PROVE  e \in Adding(o.todo[1]) \/ e \in ToAdd(r)
      <4>1. CASE i = 1
        BY <3>1, <4>1
      <4>2. CASE i # 1
        <5>1. i - 1 \in 1..Len(r.todo) /\ (i - 1) + 1 = i
          BY <1>1, <2>4, <4>2
        <5>2. r.todo[i - 1] = o.todo[i]
          BY <2>4, <5>1
        <5> QED
          BY <3>1, <5>1, <5>2 DEF ToAdd
      <4> QED
        BY <4>1, <4>2
    <3>2. ToAdd(r) \subseteq ToAdd(o)
      BY <2>4 DEF ToAdd
    <3>3. Adding(o.todo[1]) \subseteq ToAdd(o)
      BY <1>1 DEF ToAdd
    <3>4. \A e \in ToAdd(o) : \E i \in 1..Len(o.todo) : e \in Adding(o.todo[i])
      BY DEF ToAdd
    <3> HIDE DEF r
    <3> QED
      BY <3>1, <3>2, <3>3, <3>4
  <2>6. o.todo # <<>> /\ o.kind # "none"
    BY DEF JobOK
  <2>7. JobOK(r)
    BY <2>2, <2>3, <2>4, <2>6 DEF JobOK
  <2>8. IsRest(o, r)
    BY <2>2, <2>4, <2>5 DEF IsRest
  <2> QED
    BY <2>7, <2>8 DEF r
<1> QED
  BY <1>2, <1>3

\* A run that starts.
LEMMA StartedJob ==
    ASSUME NEW t, IsList(t), NEW kind \in {"remove"} \cup Adder,
           \A i \in 1..Len(t) :
                /\ t[i].verb \in {"sleep", IF kind = "remove" THEN "del" ELSE "add"}
                /\ t[i].verb = "sleep" => t[i].what = {}
                /\ t[i].verb = "add" => t[i].what # {} /\ IsFiniteSet(t[i].what)
    PROVE  JobOK(Started(kind, t))
<1> DEFINE o == Started(kind, t)
<1>1. o.todo = t /\ o.kind = kind /\ o.begun = FALSE
  BY DEF Started
<1>2. o = [todo |-> o.todo, kind |-> o.kind, begun |-> o.begun, owing |-> o.owing]
  BY DEF Started
<1>3. IsList(o.todo)
  BY <1>1
<1>4. kind # "none"
  BY DEF Adder
<1> HIDE DEF o
<1>5. JobOK(o)
  BY <1>1, <1>2, <1>3, <1>4 DEF JobOK
<1> QED
  BY <1>5 DEF o

LEMMA AddPlanTyped ==
    ASSUME NEW w \in BOOLEAN, NEW cen, NEW p, NEW t, IsAddPlan(t, w, cen, p),
           NEW kind \in Adder,
           p.n \in 0..MaxOps, p.at \in Chassis, p.vip \in Vips,
           p.inner \in 1..Hosts \cup Vips, p.hop \in 1..Hosts
    PROVE  JobOK(Started(kind, t)) /\ \A e \in ToAdd(Started(kind, t)) : Typed(e)
<1>1. kind # "remove" /\ kind # "none"
  BY DEF Adder
<1>2. Len(t) = IF w THEN 11 ELSE 10
  BY DEF IsAddPlan
<1>0. \A x, y : IsFiniteSet({x}) /\ IsFiniteSet({x, y})
  <2>1. TAKE x, y
  <2>2. IsFiniteSet({x}) /\ IsFiniteSet({x} \cup {y})
    BY FS_Singleton, FS_AddElement
  <2>3. {x} \cup {y} = {x, y}
    OBVIOUS
  <2> QED
    BY <2>2, <2>3
<1> DEFINE TypedAdd(x) == /\ x.verb = "add" /\ x.what # {} /\ IsFiniteSet(x.what)
                          /\ \A e \in x.what : Typed(e)
<1>3. \A i \in 1..Len(t) : t[i] = Sleep \/ TypedAdd(t[i])
  <2>1. ASSUME NEW k \in Kinds, NEW a, NEW b, NEW ip, NEW at \in Chassis \cup {Off},
               k = "lrp" => ip \in 1..Hosts \cup Vips
        PROVE  Typed(Entity(k, a, b, ip, at, p.n))
    BY <2>1 DEF Typed, Entity
  <2>2. \A x, y : /\ Typed(x) => TypedAdd(Add({x}))
                  /\ Typed(x) /\ Typed(y) => TypedAdd(Add({x, y}))
    BY <1>0 DEF Add
  <2>3. {"ls", "lr", "lsp", "lrp", "lsr"} = Kinds
    BY DEF Kinds
  <2> HIDE DEF TypedAdd
  <2>4. TypedAdd(t[1]) /\ TypedAdd(t[2]) /\ TypedAdd(t[3]) /\ TypedAdd(t[4])
    BY <2>1, <2>2, <2>3 DEF IsAddPlan
  <2>5. TypedAdd(t[5]) /\ TypedAdd(t[6]) /\ TypedAdd(t[7])
    <3>1. /\ Typed(Entity("lrp", p.edge, p.out, p.vip, Off, p.n))
          /\ Typed(Entity("lrp", p.edge, p.m, p.inner, Off, p.n))
          /\ Typed(Entity("lrp", cen, p.m, p.hop, Off, p.n))
      BY <2>1, <2>3
    <3>2. /\ Typed(Entity("lsp", p.out, p.edge, p.vip, Off, p.n))
          /\ Typed(Entity("lsp", p.m, p.edge, p.inner, Off, p.n))
          /\ Typed(Entity("lsp", p.m, cen, p.hop, Off, p.n))
      BY <2>1, <2>3
    <3>3. /\ t[5].verb = "add" /\ t[6].verb = "add" /\ t[7].verb = "add"
          /\ t[5].what = {Entity("lrp", p.edge, p.out, p.vip, Off, p.n),
                          Entity("lsp", p.out, p.edge, p.vip, Off, p.n)}
          /\ t[6].what = {Entity("lrp", p.edge, p.m, p.inner, Off, p.n),
                          Entity("lsp", p.m, p.edge, p.inner, Off, p.n)}
          /\ t[7].what = {Entity("lrp", cen, p.m, p.hop, Off, p.n),
                          Entity("lsp", p.m, cen, p.hop, Off, p.n)}
      BY DEF IsAddPlan, Add
    <3> HIDE DEF Entity
    <3>7. IsFiniteSet(t[5].what) /\ IsFiniteSet(t[6].what) /\ IsFiniteSet(t[7].what)
      <4>1. \A x, y, z : z = {x, y} => IsFiniteSet(z)
        BY <1>0
      <4>2. IsFiniteSet(t[5].what)
        BY <4>1, <3>3, ZenonT(30)
      <4>3. IsFiniteSet(t[6].what)
        BY <4>1, <3>3, Zenon
      <4>4. IsFiniteSet(t[7].what)
        BY <4>1, <3>3, Zenon
      <4> QED
        BY <4>2, <4>3, <4>4
    <3> USE DEF TypedAdd
    <3>4. TypedAdd(t[5])
      BY <3>1, <3>2, <3>3, <3>7
    <3>5. TypedAdd(t[6])
      BY <3>1, <3>2, <3>3, <3>7
    <3>6. TypedAdd(t[7])
      BY <3>1, <3>2, <3>3, <3>7
    <3> QED
      BY <3>4, <3>5, <3>6
  <2>6. TypedAdd(t[8]) /\ TypedAdd(t[9]) /\ TypedAdd(t[Len(t)])
    BY <2>1, <2>2, <2>3 DEF IsAddPlan
  <2>7. w => t[10] = Sleep
    BY DEF IsAddPlan
  <2>8. \A i \in 1..Len(t) : t[i] = Sleep \/ TypedAdd(t[i])
    BY <1>2, <2>4, <2>5, <2>6, <2>7
  <2> QED
    BY <2>8
<1>4. \A i \in 1..Len(t) :
        /\ t[i].verb \in {"sleep", "add"}
        /\ t[i].verb = "sleep" => t[i].what = {}
        /\ t[i].verb = "add" => t[i].what # {} /\ IsFiniteSet(t[i].what)
        /\ \A e \in Adding(t[i]) : Typed(e)
  BY <1>3 DEF Sleep, Adding
<1>5. IsList(t)
  BY DEF IsAddPlan
<1>6. JobOK(Started(kind, t))
  BY <1>1, <1>4, <1>5, StartedJob
<1>7. Started(kind, t).todo = t
  BY DEF Started
<1> QED
  BY <1>4, <1>6, <1>7 DEF ToAdd

\* The commands that remove a road, one by one; none adds anything.
IsRemovePlan(t, w, road, route) ==
    LET k == IF w THEN 2 ELSE 1
    IN  /\ IsList(t)
        /\ Len(t) = k + 4
        /\ t[1] = _cmd_del_lrp(road.central, road.m)
        /\ w => t[2] = Sleep
        /\ t[k + 1] = _cmd_del_lsr(route) /\ t[k + 2] = _cmd_del_lr(road.edge)
        /\ t[k + 3] = _cmd_del_ls(road.m) /\ t[k + 4] = _cmd_del_ls(road.out)

LEMMA RemovePlan ==
    ASSUME NEW w \in BOOLEAN, NEW road, NEW route,
           NEW t, t = _remove_ecmp_road(w, road, route)
    PROVE  IsRemovePlan(t, w, road, route)
<1> DEFINE a == _cmd_del_lrp(road.central, road.m)
           z1 == _cmd_del_lsr(route)
           z2 == _cmd_del_lr(road.edge)
           z3 == _cmd_del_ls(road.m)
           z4 == _cmd_del_ls(road.out)
           x == <<a>>
           y == <<z1, z2, z3, z4>>
           S == {a, Sleep, z1, z2, z3, z4}
<1>1. t = x \o (IF w THEN <<Sleep>> ELSE <<>>) \o y
  BY DEF _remove_ecmp_road
<1>2. /\ x \in Seq(S) /\ Len(x) = 1 /\ x[1] = a
      /\ y \in Seq(S) /\ Len(y) = 4 /\ y[1] = z1 /\ y[2] = z2 /\ y[3] = z3 /\ y[4] = z4
      /\ Sleep \in S
  <2> HIDE DEF a, z1, z2, z3, z4, Sleep
  <2> QED
    OBVIOUS
<1> HIDE DEF x, y, S, a, z1, z2, z3, z4
<1>3. /\ t \in Seq(S)
      /\ Len(t) = Len(x) + (IF w THEN 1 ELSE 0) + Len(y)
      /\ \A i \in 1..Len(x) : t[i] = x[i]
      /\ w => t[Len(x) + (IF w THEN 1 ELSE 0)] = Sleep
      /\ \A i \in 1..Len(y) : t[Len(x) + (IF w THEN 1 ELSE 0) + i] = y[i]
  <2>1. x \in Seq(S) /\ y \in Seq(S) /\ Sleep \in S
    BY <1>2
  <2> HIDE DEF Sleep
  <2> QED
    BY <1>1, <2>1, WithSleep
<1>4. IsList(t)
  BY <1>3, SeqOfItself
<1> DEFINE k == IF w THEN 2 ELSE 1
<1>5. /\ Len(t) = k + 4 /\ t[1] = a /\ (w => t[2] = Sleep)
      /\ t[k + 1] = z1 /\ t[k + 2] = z2 /\ t[k + 3] = z3 /\ t[k + 4] = z4
  BY <1>2, <1>3
<1> QED
  BY <1>4, <1>5 DEF IsRemovePlan, a, z1, z2, z3, z4

LEMMA RemovePlanTyped ==
    ASSUME NEW w \in BOOLEAN, NEW road, NEW route, NEW t, IsRemovePlan(t, w, road, route)
    PROVE  JobOK(Started("remove", t)) /\ ToAdd(Started("remove", t)) = {}
<1>1. \A i \in 1..Len(t) : t[i] = Sleep \/ t[i].verb = "del"
  BY DEF IsRemovePlan, Del, _cmd_del_lrp, _cmd_del_lsr, _cmd_del_lr, _cmd_del_ls
<1>2. IsList(t)
  BY DEF IsRemovePlan
<1>3. \A i \in 1..Len(t) :
        /\ t[i].verb \in {"sleep", "del"} /\ Adding(t[i]) = {}
        /\ t[i].verb = "sleep" => t[i].what = {}
  BY <1>1 DEF Sleep, Adding
<1>4. JobOK(Started("remove", t))
  BY <1>2, <1>3, StartedJob
<1>5. Started("remove", t).todo = t
  BY DEF Started
<1> QED
  BY <1>3, <1>4, <1>5 DEF ToAdd

------------------------------------------------------------------------------
(***************************************************************************)
(* What the actions do.                                                    *)
(***************************************************************************)

LEMMA ExecEffect ==
    ASSUME Types, NEW c \in Chassis, tpctl_execute(c)
    PROVE  /\ op[c].todo # <<>> /\ 1 \in 1..Len(op[c].todo)
           /\ op' = [op EXCEPT ![c] = Rest(op[c])]
           /\ UNCHANGED <<view, count, stopped, overlap>>
           /\ Accepts(db, op[c].todo[1])
           /\ \/ /\ op[c].kind # "remove" /\ op[c].todo[1].verb = "add"
                 /\ db' = db \cup Adding(op[c].todo[1])
                 /\ \A e \in Adding(op[c].todo[1]), f \in db : Key(e) # Key(f)
              \/ /\ op[c].kind = "remove" /\ op[c].todo[1].verb = "del"
                 /\ Adding(op[c].todo[1]) = {}
                 /\ db' = {e \in db : ~Takes(op[c].todo[1], e)}
<1> DEFINE cmd == op[c].todo[1]
<1>1. /\ op[c].todo # <<>> /\ Head(op[c].todo).verb # "sleep"
      /\ Accepts(db, Head(op[c].todo)) /\ db' = After(db, Head(op[c].todo))
      /\ op' = [op EXCEPT ![c] = Rest(op[c])]
      /\ UNCHANGED <<view, count, stopped, overlap>>
  BY DEF tpctl_execute
<1>2. JobOK(op[c])
  BY DEF Types
<1>3. Head(op[c].todo) = cmd /\ 1 \in 1..Len(op[c].todo)
  BY <1>1, <1>2, JobLength
<1>4. cmd.verb \in {"sleep", IF op[c].kind = "remove" THEN "del" ELSE "add"}
  BY <1>2, <1>3 DEF JobOK
<1>5. CASE op[c].kind # "remove"
  <2>1. cmd.verb = "add" /\ Adding(cmd) = cmd.what
    BY <1>1, <1>3, <1>4, <1>5 DEF Adding
  <2>2. \A e \in cmd.what, f \in db : Key(e) # Key(f)
    BY <1>1, <1>3, <2>1 DEF Accepts, Keys
  <2>3. After(db, cmd) = db \cup cmd.what
    BY <2>1, <2>2 DEF After, Keys
  <2> QED
    BY <1>1, <1>3, <1>5, <2>1, <2>2, <2>3
<1>6. CASE op[c].kind = "remove"
  <2>1. cmd.verb = "del" /\ Adding(cmd) = {}
    BY <1>1, <1>3, <1>4, <1>6 DEF Adding
  <2>2. After(db, cmd) = {e \in db : ~Takes(cmd, e)}
    BY <2>1 DEF After, Takes
  <2> QED
    BY <1>1, <1>3, <1>6, <2>1, <2>2
<1> QED
  BY <1>5, <1>6

\* A run begins on a host that has none under way.
LEMMA BeginEffect ==
    ASSUME Types, NEW c \in Chassis, op[c] = Idle, NEW kind, NEW t, Begin(c, kind, t)
    PROVE  /\ op'[c] = Started(kind, t)
           /\ \A d \in Chassis : d # c => op'[d] = op[d]
           /\ count' = count + 1 /\ overlap' = Overlapped(c, kind)
           /\ UNCHANGED <<db, view, stopped>>
           /\ All' = All \cup ToAdd(Started(kind, t))
<1>1. op' = [op EXCEPT ![c] = Started(kind, t)] /\ op = [d \in Chassis |-> op[d]]
  BY DEF Begin, Types
<1>2. op'[c] = Started(kind, t) /\ \A d \in Chassis : d # c => op'[d] = op[d]
  BY <1>1
<1>3. ToAdd(op[c]) = {}
  BY IdleJob
<1>4. db' = db
  BY DEF Begin
<1>5. All' = db' \cup UNION {ToAdd(op'[d]) : d \in Chassis}
  BY DEF All, ToAdd
<1>6. All' = All \cup ToAdd(Started(kind, t))
  BY <1>2, <1>3, <1>4, <1>5 DEF All
<1> QED
  BY <1>2, <1>6 DEF Begin

\* The other actions put nothing on its way that was not.
LEMMA NothingNew ==
    ASSUME db' \subseteq All, NEW c \in Chassis,
           \A d \in Chassis : d # c => ToAdd(op'[d]) \subseteq All,
           ToAdd(op'[c]) \subseteq All
    PROVE  All' \subseteq All
<1>1. All' = db' \cup UNION {ToAdd(op'[d]) : d \in Chassis}
  BY DEF All, ToAdd
<1> QED
  BY <1>1

\* The highest free address is one of the free ones.
LEMMA LeastOfNaturals ==
    ASSUME NEW S \in SUBSET Nat, S # {}
    PROVE  \E x \in S : \A y \in S : x <= y
<1> DEFINE R == OpToRel(<, Nat)
<1>1. \E x \in S : \A y \in S : ~(<<y, x>> \in R)
  <2>1. IsWellFoundedOn(R, Nat)
    BY NatLessThanWellFounded
  <2> HIDE DEF R
  <2> QED
    BY <2>1, WFMin
<1>2. R = {ss \in Nat \X Nat : ss[1] < ss[2]}
  BY DEF OpToRel
<1>3. \A x, y \in Nat : y < x => <<y, x>> \in R
  <2> HIDE DEF R
  <2> QED
    BY <1>2
<1> HIDE DEF R
<1>4. PICK x \in S : \A y \in S : ~(<<y, x>> \in R)
  BY <1>1
<1>5. \A y \in S : ~(y < x)
  BY <1>3, <1>4
<1>6. \A y \in S : x <= y
  BY <1>5
<1> QED
  BY <1>6

LEMMA HighestFree ==
    ASSUME NEW s, FreeHosts(s) # {}
    PROVE  _gen_lrp_property(s) \in FreeHosts(s) /\ _gen_lrp_property(s) \in 1..Hosts
<1> DEFINE F == FreeHosts(s)
           G == {Hosts - h : h \in F}
<1>1. F \subseteq 1..Hosts /\ Hosts \in Nat
  BY HostsAssumption DEF FreeHosts
<1> HIDE DEF F
<1>2. G \in SUBSET Nat
  BY <1>1
<1>3. G # {}
  BY DEF F
<1> HIDE DEF G
<1>4. PICK x \in G : \A y \in G : x <= y
  BY <1>2, <1>3, LeastOfNaturals
<1>5. PICK h \in F : x = Hosts - h
  BY <1>4 DEF G
<1>6. \A k \in F : Hosts - h <= Hosts - k
  BY <1>4, <1>5 DEF G
<1>7. \A k \in F : h >= k
  BY <1>1, <1>6
<1>8. Max(F) \in F
  BY <1>7 DEF Max
<1> QED
  BY <1>1, <1>8 DEF _gen_lrp_property, F

LEMMA TakenTyped ==
    ASSUME NEW s, \A e \in s : Typed(e)
    PROVE  \A x \in Digest(s).taken : x.at \in Chassis
<1>1. Digest(s).taken = Taken(s)
  BY DEF Digest
<1>2. \A x \in Taken(s) : \E e \in s : e.at # Off /\ x.at = e.at
  BY DEF Taken, Routers
<1> QED
  BY <1>1, <1>2 DEF Typed

\* Both actions that add a road, as one.  The first takes the only router there
\* is for the central one, the second the central router of a road.
IsCentral(cen) ==
    \/ \E r \in db : r.kind = "lr" /\ cen = r.a /\ Cardinality({e \in db : e.kind = "lr"}) = 1
    \/ \E road \in dl_ecmp_road(db) : cen = road.central

LEMMA AddBegins ==
    ASSUME Types, NEW c \in Chassis, init_ecmp_road(c) \/ add_ecmp_road(c)
    PROVE  \E vip \in Vips : \E inner \in 1..Hosts \cup Vips : \E w \in BOOLEAN : \E kind \in Adder :
            \E cen :
            /\ op[c] = Idle /\ count < MaxOps /\ FreeHosts(db) # {} /\ IsCentral(cen)
            /\ Begin(c, kind, _init_ecmp_road(db, w, cen, vip, inner, c, count + 1))
<1>1. CASE init_ecmp_road(c)
  <2>1. PICK vip \in Vips, r \in {e \in db : e.kind = "lr"} :
          /\ op[c] = Idle /\ count < MaxOps
          /\ ~datalog_check_port_occupied_ip(db, InnerIp)
          /\ Cardinality({e \in db : e.kind = "lr"}) = 1
          /\ Begin(c, "init", _init_ecmp_road(db, FALSE, r.a, vip, InnerIp, c, count + 1))
    BY <1>1 DEF init_ecmp_road
  <2>2. InnerIp \in 1..Hosts /\ InnerIp \in FreeHosts(db)
    BY <2>1, HostsAssumption DEF FreeHosts
  <2>3. "init" \in Adder /\ IsCentral(r.a)
    BY <2>1 DEF Adder, IsCentral
  <2> QED
    BY <2>1, <2>2, <2>3
<1>2. CASE add_ecmp_road(c)
  <2>1. PICK vip \in Vips, road \in dl_ecmp_road(db) :
          /\ op[c] = Idle /\ count < MaxOps /\ FreeHosts(db) # {}
          /\ \E p \in Named(db, "lrp", road.edge, road.m) :
              Begin(c, "add", _init_ecmp_road(db, TRUE, road.central, vip, p.ip, c, count + 1))
    BY <1>2 DEF add_ecmp_road
  <2>2. PICK p \in Named(db, "lrp", road.edge, road.m) :
          Begin(c, "add", _init_ecmp_road(db, TRUE, road.central, vip, p.ip, c, count + 1))
    BY <2>1
  <2>3. p.ip \in 1..Hosts \cup Vips
    BY InAll DEF Named, Types, Typed
  <2>4. "add" \in Adder /\ IsCentral(road.central)
    BY DEF Adder, IsCentral
  <2> QED
    BY <2>1, <2>2, <2>3, <2>4
<1> QED
  BY <1>1, <1>2

LEMMA RemoveBegins ==
    ASSUME NEW c \in Chassis, remove_ecmp_road(c)
    PROVE  \E road \in dl_ecmp_road(db) : \E route \in Named(db, "lsr", road.central, road.m) :
            \E w \in BOOLEAN :
            /\ op[c] = Idle /\ count < MaxOps
            /\ Begin(c, "remove", _remove_ecmp_road(w, road, route))
<1>1. PICK vip \in Vips, road \in dl_ecmp_road(db) :
        /\ op[c] = Idle /\ count < MaxOps
        /\ \E route \in Named(db, "lsr", road.central, road.m) :
            Begin(c, "remove", _remove_ecmp_road(Cardinality(dl_ecmp_road(db)) > 1, road, route))
  BY DEF remove_ecmp_road
<1> DEFINE w == Cardinality(dl_ecmp_road(db)) > 1
<1>2. w \in BOOLEAN
  OBVIOUS
<1> QED
  BY <1>1, <1>2

------------------------------------------------------------------------------
(***************************************************************************)
(* Types.                                                                  *)
(***************************************************************************)

LEMMA TypesInit == Init => Types
<1> SUFFICES ASSUME Init PROVE Types
  OBVIOUS
<1>1. All = {CentralRouter}
  BY IdleJob DEF Init, All, CentralRouter
<1>2. Typed(CentralRouter)
  BY BoundsAssumption DEF Typed, CentralRouter, Entity, Kinds
<1>3. \A e \in db : Typed(e)
  BY <1>1, <1>2, InAll
<1>4. \A c \in Chassis : view[c] = Digest(db)
  BY DEF Init
<1>5. \A c \in Chassis : \A x \in view[c].taken : x.at \in Chassis
  BY <1>3, <1>4, TakenTyped
<1>6. \A c \in Chassis : op[c] = Idle
  BY DEF Init
<1>7. op = [c \in Chassis |-> op[c]] /\ view = [c \in Chassis |-> view[c]]
  BY DEF Init
<1>8. count \in 0..MaxOps /\ stopped \in 0..MaxStops /\ overlap = "none"
  BY BoundsAssumption DEF Init
<1> QED
  BY <1>1, <1>2, <1>5, <1>6, <1>7, <1>8, IdleJob DEF Types

\* A step that changes one run only, and adds nothing untyped.
LEMMA TypesOfStep ==
    ASSUME Types, NEW c \in Chassis, NEW o, JobOK(o), op' = [op EXCEPT ![c] = o],
           UNCHANGED <<view, count>>, stopped' \in 0..MaxStops,
           overlap' \in {"none", "adds", "removes"}, All' \subseteq All
    PROVE  Types'
<1>1. op' = [d \in Chassis |-> op'[d]] /\ \A d \in Chassis : JobOK(op'[d])
  BY DEF Types
<1>2. \A e \in All' : Typed(e)
  BY DEF Types
<1>3. view' = [d \in Chassis |-> view'[d]] /\ \A d \in Chassis : \A x \in view'[d].taken : x.at \in Chassis
  BY DEF Types
<1> QED
  BY <1>1, <1>2, <1>3 DEF Types

LEMMA TypesOfBegin ==
    ASSUME Types, NEW c \in Chassis, op[c] = Idle, count < MaxOps, NEW kind, NEW t,
           Begin(c, kind, t), JobOK(Started(kind, t)),
           \A e \in ToAdd(Started(kind, t)) : Typed(e)
    PROVE  Types'
<1>1. /\ op'[c] = Started(kind, t) /\ \A d \in Chassis : d # c => op'[d] = op[d]
      /\ count' = count + 1 /\ overlap' = Overlapped(c, kind)
      /\ UNCHANGED <<db, view, stopped>>
      /\ All' = All \cup ToAdd(Started(kind, t))
  BY BeginEffect
<1>2. \A d \in Chassis : JobOK(op'[d])
  BY <1>1 DEF Types
<1>3. op' = [d \in Chassis |-> op'[d]]
  BY DEF Begin, Types
<1>4. \A e \in All' : Typed(e)
  BY <1>1 DEF Types
<1>5. overlap' \in {"none", "adds", "removes"}
  BY <1>1 DEF Overlapped, Types
<1>6. count' \in 0..MaxOps
  BY <1>1, BoundsAssumption DEF Types
<1> QED
  BY <1>1, <1>2, <1>3, <1>4, <1>5, <1>6 DEF Types

LEMMA ExecAll ==
    ASSUME Types, NEW c \in Chassis, tpctl_execute(c)
    PROVE  All' \subseteq All
<1>1. JobOK(op[c]) /\ op = [d \in Chassis |-> op[d]]
  BY DEF Types
<1>2. /\ op[c].todo # <<>> /\ 1 \in 1..Len(op[c].todo) /\ op' = [op EXCEPT ![c] = Rest(op[c])]
      /\ db' \subseteq db \cup Adding(op[c].todo[1])
  BY ExecEffect
<1>3. ToAdd(op[c]) = Adding(op[c].todo[1]) \cup ToAdd(Rest(op[c]))
  BY <1>1, <1>2, RestOfJob DEF IsRest
<1>4. op'[c] = Rest(op[c]) /\ \A d \in Chassis : d # c => op'[d] = op[d]
  BY <1>1, <1>2
<1> QED
  BY <1>2, <1>3, <1>4, InAll, NothingNew

LEMMA SleptEffect ==
    ASSUME Types, NEW c \in Chassis, Slept(c)
    PROVE  /\ op[c].todo # <<>> /\ 1 \in 1..Len(op[c].todo)
           /\ op' = [op EXCEPT ![c] = Rest(op[c])] /\ UNCHANGED <<db, view, count, stopped, overlap>>
           /\ Adding(op[c].todo[1]) = {} /\ op[c].todo[1].verb = "sleep"
           /\ All' \subseteq All
<1>1. JobOK(op[c]) /\ op = [d \in Chassis |-> op[d]]
  BY DEF Types
<1>2. /\ op[c].todo # <<>> /\ Head(op[c].todo).verb = "sleep"
      /\ op' = [op EXCEPT ![c] = Rest(op[c])] /\ UNCHANGED <<db, view, count, stopped, overlap>>
  BY DEF Slept
<1>3. 1 \in 1..Len(op[c].todo) /\ Head(op[c].todo) = op[c].todo[1]
  BY <1>1, <1>2, JobLength
<1>4. Adding(op[c].todo[1]) = {}
  BY <1>2, <1>3 DEF Adding
<1>5. ToAdd(op[c]) = Adding(op[c].todo[1]) \cup ToAdd(Rest(op[c]))
  BY <1>1, <1>2, RestOfJob DEF IsRest
<1>6. op'[c] = Rest(op[c]) /\ \A d \in Chassis : d # c => op'[d] = op[d]
  BY <1>1, <1>2
<1>7. All' \subseteq All
  BY <1>2, <1>5, <1>6, InAll, NothingNew
<1> QED
  BY <1>2, <1>3, <1>4, <1>7

\* A run that ends, whether a command failed or it was killed.
LEMMA EndEffect ==
    ASSUME Types, NEW c \in Chassis, Fail(c) \/ Stop(c)
    PROVE  /\ op' = [op EXCEPT ![c] = Idle] /\ UNCHANGED <<db, view, count, overlap>>
           /\ stopped' \in 0..MaxStops /\ stopped' >= stopped
           /\ All' \subseteq All
<1>1. op = [d \in Chassis |-> op[d]]
  BY DEF Types
<1>2. op' = [op EXCEPT ![c] = Idle] /\ UNCHANGED <<db, view, count, overlap>>
  BY DEF Fail, Stop
<1>3. stopped' \in 0..MaxStops /\ stopped' >= stopped
  BY BoundsAssumption DEF Fail, Stop, Types
<1>4. op'[c] = Idle /\ \A d \in Chassis : d # c => op'[d] = op[d]
  BY <1>1, <1>2
<1>5. All' \subseteq All
  BY <1>2, <1>4, InAll, IdleJob, NothingNew
<1> QED
  BY <1>2, <1>3, <1>5

\* An agent that catches up changes nothing of a run but who still owes it.
LEMMA ApplyEffect ==
    ASSUME Types, NEW c \in Chassis, Apply(c)
    PROVE  /\ \A d \in Chassis : /\ op'[d].todo = op[d].todo /\ op'[d].kind = op[d].kind
                                 /\ op'[d].begun = op[d].begun /\ JobOK(op'[d])
                                 /\ ToAdd(op'[d]) = ToAdd(op[d])
           /\ UNCHANGED <<db, count, stopped, overlap>> /\ All' = All
           /\ op' = [d \in Chassis |-> op'[d]]
<1>1. /\ op' = [d \in Chassis |-> [op[d] EXCEPT !.owing = @ \ {c}]]
      /\ UNCHANGED <<db, count, stopped, overlap>>
  BY DEF Apply
<1>2. ASSUME NEW d \in Chassis
      PROVE  /\ op'[d].todo = op[d].todo /\ op'[d].kind = op[d].kind
             /\ op'[d].begun = op[d].begun /\ JobOK(op'[d])
             /\ ToAdd(op'[d]) = ToAdd(op[d])
  <2>1. JobOK(op[d])
    BY DEF Types
  <2>2. op'[d] = [op[d] EXCEPT !.owing = @ \ {c}]
    BY <1>1
  <2>3. /\ op'[d].todo = op[d].todo /\ op'[d].kind = op[d].kind /\ op'[d].begun = op[d].begun
        /\ op'[d] = [todo |-> op'[d].todo, kind |-> op'[d].kind, begun |-> op'[d].begun,
                     owing |-> op'[d].owing]
    BY <2>1, <2>2 DEF JobOK
  <2>4. JobOK(op'[d])
    BY <2>1, <2>3 DEF JobOK
  <2> QED
    BY <2>3, <2>4 DEF ToAdd
<1>3. All' = db' \cup UNION {ToAdd(op'[d]) : d \in Chassis}
  BY DEF All, ToAdd
<1>4. All' = All
  BY <1>1, <1>2, <1>3 DEF All
<1> QED
  BY <1>1, <1>2, <1>4

LEMMA TypesNext ==
    ASSUME Types, Next
    PROVE  Types'
<1>1. PICK c \in Chassis :
        \/ init_ecmp_road(c) \/ add_ecmp_road(c) \/ remove_ecmp_road(c)
        \/ tpctl_execute(c) \/ Fail(c) \/ Slept(c) \/ Stop(c) \/ Apply(c)
  BY DEF Next
<1>2. CASE init_ecmp_road(c) \/ add_ecmp_road(c)
  <2>1. PICK vip \in Vips : \E inner \in 1..Hosts \cup Vips : \E w \in BOOLEAN : \E kind \in Adder :
            \E cen :
            /\ op[c] = Idle /\ count < MaxOps /\ FreeHosts(db) # {}
            /\ Begin(c, kind, _init_ecmp_road(db, w, cen, vip, inner, c, count + 1))
    BY <1>2, AddBegins
  <2>2. PICK inner \in 1..Hosts \cup Vips, w \in BOOLEAN, kind \in Adder : \E cen :
            /\ op[c] = Idle /\ count < MaxOps /\ FreeHosts(db) # {}
            /\ Begin(c, kind, _init_ecmp_road(db, w, cen, vip, inner, c, count + 1))
    BY <2>1
  <2>3. PICK cen :
            /\ op[c] = Idle /\ count < MaxOps /\ FreeHosts(db) # {}
            /\ Begin(c, kind, _init_ecmp_road(db, w, cen, vip, inner, c, count + 1))
    BY <2>2
  <2> DEFINE t == _init_ecmp_road(db, w, cen, vip, inner, c, count + 1)
             p == NewRoad(db, c, vip, inner, count + 1)
  <2>4. IsAddPlan(t, w, cen, p)
    BY AddPlan
  <2>5. p.n \in 0..MaxOps
    BY <2>3, BoundsAssumption DEF NewRoad, Types
  <2>6. p.at \in Chassis /\ p.vip \in Vips /\ p.inner \in 1..Hosts \cup Vips /\ p.hop \in 1..Hosts
    BY <2>3, HighestFree DEF NewRoad
  <2> HIDE DEF t, p
  <2>7. JobOK(Started(kind, t)) /\ \A e \in ToAdd(Started(kind, t)) : Typed(e)
    BY <2>4, <2>5, <2>6, AddPlanTyped
  <2>8. Begin(c, kind, t)
    BY <2>3 DEF t
  <2> QED
    BY <2>3, <2>7, <2>8, TypesOfBegin
<1>3. CASE remove_ecmp_road(c)
  <2>1. PICK road \in dl_ecmp_road(db) : \E route \in Named(db, "lsr", road.central, road.m) :
            \E w \in BOOLEAN :
            /\ op[c] = Idle /\ count < MaxOps
            /\ Begin(c, "remove", _remove_ecmp_road(w, road, route))
    BY <1>3, RemoveBegins
  <2>2. PICK route \in Named(db, "lsr", road.central, road.m), w \in BOOLEAN :
            /\ op[c] = Idle /\ count < MaxOps
            /\ Begin(c, "remove", _remove_ecmp_road(w, road, route))
    BY <2>1
  <2> DEFINE t == _remove_ecmp_road(w, road, route)
  <2>3. IsRemovePlan(t, w, road, route)
    BY RemovePlan
  <2>4. Begin(c, "remove", t)
    BY <2>2
  <2> HIDE DEF t
  <2>5. JobOK(Started("remove", t)) /\ ToAdd(Started("remove", t)) = {}
    BY <2>3, RemovePlanTyped
  <2> QED
    BY <2>2, <2>4, <2>5, TypesOfBegin
<1>4. CASE tpctl_execute(c)
  <2>1. /\ op[c].todo # <<>> /\ op' = [op EXCEPT ![c] = Rest(op[c])]
        /\ UNCHANGED <<view, count, stopped, overlap>>
    BY <1>4, ExecEffect
  <2>2. JobOK(op[c]) /\ stopped' \in 0..MaxStops /\ overlap' \in {"none", "adds", "removes"}
    BY <2>1 DEF Types
  <2> QED
    BY <1>4, <2>1, <2>2, RestOfJob, ExecAll, TypesOfStep
<1>5. CASE Slept(c)
  <2>1. /\ op[c].todo # <<>> /\ op' = [op EXCEPT ![c] = Rest(op[c])]
        /\ UNCHANGED <<view, count, stopped, overlap>> /\ All' \subseteq All
    BY <1>5, SleptEffect
  <2>2. JobOK(op[c]) /\ stopped' \in 0..MaxStops /\ overlap' \in {"none", "adds", "removes"}
    BY <2>1 DEF Types
  <2> QED
    BY <2>1, <2>2, RestOfJob, TypesOfStep
<1>6. CASE Fail(c) \/ Stop(c)
  <2>1. /\ op' = [op EXCEPT ![c] = Idle] /\ UNCHANGED <<view, count, overlap>>
        /\ stopped' \in 0..MaxStops /\ All' \subseteq All
    BY <1>6, EndEffect
  <2>2. overlap' \in {"none", "adds", "removes"}
    BY <2>1 DEF Types
  <2> QED
    BY <2>1, <2>2, IdleJob, TypesOfStep
<1>7. CASE Apply(c)
  <2>1. /\ \A d \in Chassis : JobOK(op'[d])
        /\ UNCHANGED <<db, count, stopped, overlap>> /\ All' = All
        /\ op' = [d \in Chassis |-> op'[d]]
    BY <1>7, ApplyEffect
  <2>2. view' = [view EXCEPT ![c] = Digest(db)]
    BY <1>7 DEF Apply
  <2>3. \A x \in Digest(db).taken : x.at \in Chassis
    BY InAll, TakenTyped DEF Types
  <2>4. view' = [d \in Chassis |-> view'[d]] /\ \A d \in Chassis : \A x \in view'[d].taken : x.at \in Chassis
    BY <2>2, <2>3 DEF Types
  <2> QED
    BY <2>1, <2>4 DEF Types
<1> QED
  BY <1>1, <1>2, <1>3, <1>4, <1>5, <1>6, <1>7

\* TypeOK: in every state a port of a router has a host address of the inner
\* network or a virtual address, for the tool takes the highest free address
\* (_gen_lrp_property) only where one is free.
THEOREM TypeCorrect == Spec => []TypeOK
<1>1. Init => Types
  BY TypesInit
<1>2. Types /\ [Next]_vars => Types'
  <2>1. CASE Next
    BY <2>1, TypesNext
  <2>2. CASE UNCHANGED vars
    BY <2>2 DEF vars, Types, JobOK, All, ToAdd
  <2> QED
    BY <2>1, <2>2
<1>3. Types => TypeOK
  <2> SUFFICES ASSUME Types PROVE TypeOK
    OBVIOUS
  <2>1. \A e \in db : Typed(e)
    BY InAll DEF Types
  <2>2. \A c \in Chassis : op[c].kind \in {"none", "init", "add", "remove"}
    BY DEF Types, JobOK, Adder
  <2> QED
    BY <2>1, <2>2 DEF Types, Typed, TypeOK
<1> QED
  BY <1>1, <1>2, <1>3, PTL DEF Spec

------------------------------------------------------------------------------
(***************************************************************************)
(* The tree and the runs, as long as no removal has company.               *)
(***************************************************************************)

LEMMA SoundInit == Init => Sound
<1> SUFFICES ASSUME Init PROVE Sound
  OBVIOUS
<1>1. db = {CentralRouter} /\ count = 0
  BY DEF Init, CentralRouter
<1>2. \A c \in Chassis : op[c] = Idle /\ ToAdd(op[c]) = {} /\ Len(op[c].todo) = 0
  BY IdleJob DEF Init
<1>3. All = {CentralRouter}
  BY <1>1, <1>2 DEF All
<1>4. CentralRouter.kind = "lr" /\ CentralRouter.by = 0
  BY DEF CentralRouter, Entity
<1>5. Shaped
  BY <1>1, <1>3, <1>4 DEF Shaped
<1>6. Tree
  <2>1. IsFiniteSet(db)
    BY <1>1, FS_Singleton
  <2>2. Supported(db, CentralRouter)
    BY <1>4 DEF Supported
  <2> QED
    BY <1>1, <2>1, <2>2 DEF Tree
<1>7. Additions
  <2>1. \A c \in Chassis : 1..Len(op[c].todo) = {}
    BY <1>2
  <2> QED
    BY <1>2, <2>1 DEF Additions, AdderOK
<1>8. Removals
  <2>1. Idle.kind # "remove"
    BY DEF Idle
  <2> QED
    BY <1>2, <2>1 DEF Removals, RemoverOK
<1> QED
  BY <1>5, <1>6, <1>7, <1>8 DEF Sound

\* What is there or on its way becomes less: what is left keeps its shape.
LEMMA ShapedLess ==
    ASSUME Shaped, count' = count, All' \subseteq All
    PROVE  Shaped'
<1>1. \A n : Own(n)' \subseteq Own(n)
  BY DEF Own
<1>2. ASSUME NEW n \in 1..count
      PROVE  \E p : p.n = n /\ IsRoad(p) /\ Own(n)' \subseteq RoadOf(p)
  BY <1>1 DEF Shaped
<1>3. \A e \in All' : e.by \in 0..count /\ (e.by = 0 => e = CentralRouter)
  BY DEF Shaped
<1>4. (CentralRouter)' = CentralRouter /\ \A p : IsRoad(p)' = IsRoad(p) /\ RoadOf(p)' = RoadOf(p)
  BY DEF CentralRouter, IsRoad, RoadOf
<1> QED
  BY <1>2, <1>3 DEF Shaped

\* The parts that one run adds are of one road: their keys tell them apart.
LEMMA AddedKeys ==
    ASSUME Shaped, Additions, NEW c \in Chassis,
           NEW e \in ToAdd(op[c]), NEW f \in ToAdd(op[c]), Key(e) = Key(f),
           e # CentralRouter
    PROVE  e = f
<1>1. e.by = f.by
  BY DEF Additions, AdderOK
<1>2. e \in All /\ f \in All
  BY InAll
<1>3. PICK p : IsRoad(p) /\ Own(e.by) \subseteq RoadOf(p)
  BY <1>2, Owner
<1>4. e \in RoadOf(p) /\ f \in RoadOf(p)
  BY <1>1, <1>2, <1>3 DEF Own
<1> QED
  BY <1>3, <1>4, KeyNames, PartByNames

\* A run that adds goes one command further, or sleeps.
LEMMA SoundAdvance ==
    ASSUME Types, Sound, NEW c \in Chassis, op[c].todo # <<>>, op[c].kind # "remove",
           op' = [op EXCEPT ![c] = Rest(op[c])],
           db' = db \cup Adding(op[c].todo[1]),
           \A e \in Adding(op[c].todo[1]), f \in db : Key(e) # Key(f),
           count' = count, All' \subseteq All
    PROVE  Sound'
<1> DEFINE todo == op[c].todo
           new == Adding(todo[1])
           r == Rest(op[c])
<1>1. JobOK(op[c]) /\ op = [d \in Chassis |-> op[d]]
  BY DEF Types
<1>2. op'[c] = r /\ \A d \in Chassis : d # c => op'[d] = op[d]
  BY <1>1
<1>3. /\ Len(r.todo) = Len(todo) - 1
      /\ \A i \in 1..Len(r.todo) : r.todo[i] = todo[i + 1]
      /\ ToAdd(op[c]) = new \cup ToAdd(r)
      /\ \/ r = Idle /\ Len(r.todo) = 0
         \/ r.kind = op[c].kind /\ r.begun /\ Len(r.todo) # 0
  BY <1>1, RestOfJob DEF IsRest
<1>4. Len(todo) \in Nat /\ 1 \in 1..Len(todo)
  BY <1>1, JobLength
<1>5. new \subseteq ToAdd(op[c]) /\ ToAdd(op[c]) \subseteq All
  BY <1>3, InAll
<1>6. op[c].kind # "none"
  BY <1>1 DEF JobOK
<1>7. Shaped'
  BY ShapedLess DEF Sound
<1> HIDE DEF r, new, todo
<1>8. \A e \in new, f \in db : e # f /\ Key(e) # Key(f)
  BY DEF new, todo
<1>9. CentralRouter \in db /\ CentralRouter \notin new
  BY <1>8 DEF Sound, Tree
<1>10. Tree'
  <2>1. IsFiniteSet(db')
    <3>1. IsFiniteSet(new)
      <4>1. todo[1].verb = "add" => IsFiniteSet(todo[1].what)
        BY <1>1, <1>4 DEF JobOK, todo
      <4> QED
        BY <4>1, FS_EmptySet DEF new, Adding
    <3>2. IsFiniteSet(db)
      BY DEF Sound, Tree
    <3> QED
      BY <3>1, <3>2, FS_Union DEF new, todo
  <2>2. \A e, f \in db' : Key(e) = Key(f) => e = f
    <3>1. \A e, f \in db : Key(e) = Key(f) => e = f
      BY DEF Sound, Tree
    <3>2. \A e, f \in new : Key(e) = Key(f) => e = f
      BY <1>5, <1>9, AddedKeys DEF Sound
    <3>3. db' = db \cup new
      BY DEF new, todo
    <3> QED
      BY <3>1, <3>2, <3>3, <1>8
  <2>3. \A e \in db' : Supported(db', e)
    <3>1. ASSUME NEW e \in new
          PROVE  Supported(db, e)
      <4>1. Supported(db \cup UNION {Adding(todo[j]) : j \in 1..(1 - 1)}, e)
        BY <1>4 DEF Sound, Additions, AdderOK, new, todo
      <4>2. 1..(1 - 1) = {}
        OBVIOUS
      <4>3. db \cup UNION {Adding(todo[j]) : j \in 1..(1 - 1)} = db
        BY <4>2
      <4> QED
        BY <4>1, <4>3
    <3>2. \A e \in db : Supported(db, e)
      BY DEF Sound, Tree
    <3>3. db' = db \cup new
      BY DEF new, todo
    <3> QED
      BY <3>1, <3>2, <3>3, MoreSupported
  <2>4. CentralRouter \in db'
    BY <1>9
  <2> QED
    BY <2>1, <2>2, <2>3, <2>4 DEF Tree
<1>11. Additions'
  <2>0. db' = db \cup new
    BY DEF new, todo
  <2>1. ASSUME NEW d \in Chassis, NEW i \in 1..Len(op'[d].todo), NEW e \in Adding(op'[d].todo[i])
        PROVE  /\ Supported(db' \cup UNION {Adding(op'[d].todo[j]) : j \in 1..(i - 1)}, e)
               /\ e \notin db'
               /\ \A j \in 1..Len(op'[d].todo) : j # i => e \notin Adding(op'[d].todo[j])
    <3>1. CASE d = c
      <4>1. i \in 1..Len(r.todo) /\ i + 1 \in 1..Len(todo) /\ r.todo[i] = todo[i + 1] /\ op'[d] = r
        BY <1>2, <1>3, <1>4, <2>1, <3>1
      <4>2. e \in Adding(todo[i + 1])
        BY <2>1, <4>1
      <4>3. /\ Supported(db \cup UNION {Adding(todo[j]) : j \in 1..((i + 1) - 1)}, e)
            /\ e \notin db
            /\ \A j \in 1..Len(todo) : j # i + 1 => e \notin Adding(todo[j])
        BY <4>1, <4>2 DEF Sound, Additions, AdderOK, todo
      <4>4. ASSUME NEW j \in 1..((i + 1) - 1)
            PROVE  Adding(todo[j]) \subseteq new \cup UNION {Adding(r.todo[k]) : k \in 1..(i - 1)}
        <5>1. CASE j = 1
          BY <5>1 DEF new
        <5>2. CASE j # 1
          <6>1. j - 1 \in 1..(i - 1) /\ j - 1 \in 1..Len(r.todo) /\ (j - 1) + 1 = j
            BY <1>4, <4>1, <5>2, <1>3
          <6>2. r.todo[j - 1] = todo[j]
            BY <1>3, <6>1
          <6> QED
            BY <6>1, <6>2
        <5> QED
          BY <5>1, <5>2
      <4>5. Supported(db' \cup UNION {Adding(r.todo[k]) : k \in 1..(i - 1)}, e)
        BY <2>0, <4>3, <4>4, MoreSupported
      <4>6. e \notin new
        BY <1>4, <4>1, <4>3 DEF new
      <4>7. ASSUME NEW j \in 1..Len(r.todo), j # i
            PROVE  e \notin Adding(r.todo[j])
        <5>1. j + 1 \in 1..Len(todo) /\ j + 1 # i + 1 /\ r.todo[j] = todo[j + 1]
          BY <1>3, <1>4, <4>1, <4>7
        <5> QED
          BY <4>3, <5>1
      <4> QED
        BY <2>0, <4>1, <4>3, <4>5, <4>6, <4>7
    <3>2. CASE d # c
      <4>1. op'[d] = op[d]
        BY <1>2, <3>2
      <4>2. /\ Supported(db \cup UNION {Adding(op[d].todo[j]) : j \in 1..(i - 1)}, e)
            /\ e \notin db
            /\ \A j \in 1..Len(op[d].todo) : j # i => e \notin Adding(op[d].todo[j])
        BY <2>1, <4>1 DEF Sound, Additions, AdderOK
      <4>3. e \in ToAdd(op[d])
        BY <2>1, <4>1 DEF ToAdd
      <4>4. e \notin new
        BY <1>5, <3>2, <4>3 DEF Sound, Additions, AdderOK
      <4>5. Supported(db' \cup UNION {Adding(op[d].todo[j]) : j \in 1..(i - 1)}, e)
        BY <2>0, <4>2, MoreSupported
      <4> QED
        BY <2>0, <4>1, <4>2, <4>4, <4>5
    <3> QED
      BY <3>1, <3>2
  <2>2. \A d \in Chassis : ToAdd(op'[d]) \subseteq ToAdd(op[d])
    BY <1>2, <1>3
  <2>3. ASSUME NEW d \in Chassis, ~op'[d].begun, NEW e \in ToAdd(op'[d]), NEW f \in db'
        PROVE  e.by # f.by
    <3>1. d # c
      BY <1>2, <1>3, <2>3, IdleJob
    <3>2. op'[d] = op[d]
      BY <1>2, <3>1
    <3>3. CASE f \in db
      BY <2>3, <3>2, <3>3 DEF Sound, Additions, AdderOK
    <3>4. CASE f \in new
      BY <1>5, <2>3, <3>1, <3>2, <3>4 DEF Sound, Additions, AdderOK
    <3> QED
      BY <2>0, <3>3, <3>4
  <2>4. \A d \in Chassis : /\ \A e, f \in ToAdd(op'[d]) : e.by = f.by
                           /\ \A b \in Chassis \ {d} :
                                \A e \in ToAdd(op'[d]), f \in ToAdd(op'[b]) : e.by # f.by
    <3>1. \A d \in Chassis : \A e, f \in ToAdd(op[d]) : e.by = f.by
      BY DEF Sound, Additions, AdderOK
    <3>2. \A d \in Chassis : \A b \in Chassis \ {d} :
            \A e \in ToAdd(op[d]), f \in ToAdd(op[b]) : e.by # f.by
      BY DEF Sound, Additions
    <3>3. ASSUME NEW d \in Chassis, NEW e \in ToAdd(op'[d])
          PROVE  /\ \A f \in ToAdd(op'[d]) : e.by = f.by
                 /\ \A b \in Chassis \ {d} : \A f \in ToAdd(op'[b]) : e.by # f.by
      <4>1. e \in ToAdd(op[d])
        BY <2>2, <3>3
      <4> QED
        BY <2>2, <3>1, <3>2, <4>1
    <3> HIDE <2>2
    <3> QED
      BY <3>3
  <2> QED
    BY <2>1, <2>3, <2>4 DEF Additions, AdderOK
<1>12. Removals'
  <2>1. \A d \in Chassis : op'[d].kind # "remove"
    <3>1. Idle.kind = "none"
      BY DEF Idle
    <3>2. \A d \in Chassis : op[d].kind # "remove"
      BY <1>6 DEF Sound, Removals, RemoverOK
    <3> QED
      BY <1>2, <1>3, <3>1, <3>2
  <2> QED
    BY <2>1 DEF Removals, RemoverOK
<1> QED
  BY <1>7, <1>10, <1>11, <1>12 DEF Sound

\* Nothing is on its way while a run removes.
LEMMA NothingToAdd ==
    ASSUME Types, NEW c \in Chassis, op[c].kind \in {"none", "remove"}
    PROVE  ToAdd(op[c]) = {} /\ \A i \in 1..Len(op[c].todo) : Adding(op[c].todo[i]) = {}
<1>1. JobOK(op[c])
  BY DEF Types
<1>2. CASE op[c].kind = "none"
  <2>1. op[c].todo = <<>> /\ Len(op[c].todo) = 0
    BY <1>1, <1>2, JobLength DEF JobOK
  <2>2. 1..Len(op[c].todo) = {}
    BY <2>1
  <2> QED
    BY <2>2 DEF ToAdd
<1>3. CASE op[c].kind = "remove"
  <2>1. \A i \in 1..Len(op[c].todo) : op[c].todo[i].verb # "add"
    BY <1>1, <1>3 DEF JobOK
  <2> QED
    BY <2>1 DEF Adding, ToAdd
<1> QED
  BY <1>2, <1>3

\* What a deletion leaves keeps what it is about: a switch or a router takes
\* along its own ports and routes, and the ports to a switch have gone before.
LEMMA TreeAfterDelete ==
    ASSUME Types, Sound, NEW c \in Chassis, op[c].kind = "remove", 1 \in 1..Len(op[c].todo),
           db' = {e \in db : ~Takes(op[c].todo[1], e)}
    PROVE  Tree'
<1> DEFINE cmd == op[c].todo[1]
<1>1. /\ ~Takes(cmd, CentralRouter)
      /\ \A e \in db : e.kind \in {"ls", "lr"} /\ Takes(cmd, e) => cmd.deep
      /\ \A e \in db :
            (cmd.verb = "del" /\ e.kind \in {"lrp", "lsr"} /\ <<"ls", e.b, NoName, NoIp>> \in cmd.what)
            => \E j \in 1..(1 - 1) : Takes(op[c].todo[j], e)
  BY DEF Sound, Removals, RemoverOK
<1>2. 1..(1 - 1) = {}
  OBVIOUS
<1> HIDE DEF cmd
<1>3. db' = {e \in db : ~Takes(cmd, e)}
  BY DEF cmd
<1>4. \A e \in db : e.kind \in {"lrp", "lsr"} /\ cmd.verb = "del" => <<"ls", e.b, NoName, NoIp>> \notin cmd.what
  BY <1>1, <1>2
<1>5. IsFiniteSet(db') /\ CentralRouter \in db' /\ \A e, f \in db' : Key(e) = Key(f) => e = f
  BY <1>1, <1>3, FS_Subset DEF Sound, Tree
<1>6. ASSUME NEW f \in db, f.kind \in {"ls", "lr"}
      PROVE  Key(f) = <<f.kind, f.a, NoName, NoIp>> /\ Parents(f) = {}
  <2>1. f.b = NoName
    BY <1>6, InAll, NamesByKind DEF Sound
  <2> QED
    BY <1>6, <2>1 DEF Key, Parents
<1>7. ASSUME NEW e \in db'
      PROVE  Supported(db', e)
  <2>1. e \in db /\ ~Takes(cmd, e) /\ Supported(db, e)
    BY <1>3 DEF Sound, Tree
  <2>2. ASSUME NEW f \in db, f.kind \in {"ls", "lr"}, Takes(cmd, f)
        PROVE  cmd.verb = "del" /\ cmd.deep /\ <<f.kind, f.a, NoName, NoIp>> \in cmd.what
    BY <1>1, <1>6, <2>2 DEF Takes
  <2>3. CASE e.kind = "lsp"
    <3>1. PICK f \in db : f.kind = "ls" /\ f.a = e.a /\ f.by = e.by
      BY <2>1, <2>3 DEF Supported, Has
    <3>2. Parents(e) = {<<"ls", e.a, NoName, NoIp>>}
      BY <2>3 DEF Parents
    <3>3. ~Takes(cmd, f)
      BY <2>1, <2>2, <3>1, <3>2 DEF Takes
    <3> QED
      BY <1>3, <2>3, <3>1, <3>3 DEF Supported, Has
  <2>4. CASE e.kind \in {"lrp", "lsr"}
    <3>1. PICK f \in db : f.kind = "ls" /\ f.a = e.b /\ f.by = e.by
      BY <2>1, <2>4 DEF Supported, Has
    <3>2. ~Takes(cmd, f)
      BY <1>4, <2>1, <2>2, <2>4, <3>1
    <3>3. Has(db', "ls", e.b, e.by)
      BY <1>3, <3>1, <3>2 DEF Has
    <3>4. ASSUME e.a # Central
          PROVE  Has(db', "lr", e.a, e.by)
      <4>1. PICK g \in db : g.kind = "lr" /\ g.a = e.a /\ g.by = e.by
        BY <2>1, <2>4, <3>4 DEF Supported, Has
      <4>2. Parents(e) = {<<"lr", e.a, NoName, NoIp>>}
        BY <2>4 DEF Parents
      <4>3. ~Takes(cmd, g)
        BY <2>1, <2>2, <4>1, <4>2 DEF Takes
      <4> QED
        BY <1>3, <4>1, <4>3 DEF Has
    <3> QED
      BY <2>4, <3>3, <3>4 DEF Supported
  <2>5. CASE e.kind \notin {"lsp", "lrp", "lsr"}
    BY <2>5 DEF Supported
  <2> QED
    BY <2>3, <2>4, <2>5
<1> QED
  BY <1>5, <1>7 DEF Tree

\* A run that removes goes one command further, or sleeps.
LEMMA SoundRemove ==
    ASSUME Types, Sound, NEW c \in Chassis, op[c].todo # <<>>, op[c].kind = "remove",
           op' = [op EXCEPT ![c] = Rest(op[c])],
           db' = {e \in db : ~Takes(op[c].todo[1], e)},
           count' = count, All' \subseteq All
    PROVE  Sound'
<1> DEFINE todo == op[c].todo
           r == Rest(op[c])
<1>1. JobOK(op[c]) /\ op = [d \in Chassis |-> op[d]]
  BY DEF Types
<1>2. op'[c] = r /\ \A d \in Chassis : d # c => op'[d] = op[d]
  BY <1>1
<1>3. /\ Len(r.todo) = Len(todo) - 1
      /\ \A i \in 1..Len(r.todo) : r.todo[i] = todo[i + 1]
      /\ ToAdd(op[c]) = Adding(todo[1]) \cup ToAdd(r)
      /\ \/ r = Idle /\ Len(r.todo) = 0
         \/ r.kind = op[c].kind /\ r.begun /\ Len(r.todo) # 0
  BY <1>1, RestOfJob DEF IsRest
<1>4. Len(todo) \in Nat /\ 1 \in 1..Len(todo)
  BY <1>1, JobLength
<1>5. Shaped'
  BY ShapedLess DEF Sound
<1>6. Tree'
  BY <1>4, TreeAfterDelete
<1>7. \A d \in Chassis : op[d].kind \in {"none", "remove"}
  BY DEF Sound, Removals, RemoverOK
<1>8. \A d \in Chassis : ToAdd(op'[d]) = {}
  BY <1>2, <1>3, <1>7, NothingToAdd
<1> HIDE DEF r, todo
<1>9. \A d \in Chassis : \A i \in 1..Len(op'[d].todo) : Adding(op'[d].todo[i]) = {}
  BY <1>8 DEF ToAdd
<1>10. Additions'
  BY <1>8, <1>9, ZenonT(30) DEF Additions, AdderOK
<1>11. Removals'
  <2>1. \A d \in Chassis : d # c => op'[d].kind = "none"
    BY <1>2 DEF Sound, Removals, RemoverOK
  <2>2. \A i \in 1..Len(r.todo) : i + 1 \in 1..Len(todo) /\ r.todo[i] = todo[i + 1]
    BY <1>3, <1>4
  <2>3. \A i \in 1..Len(r.todo) : ~Takes(r.todo[i], CentralRouter)
    BY <2>2 DEF Sound, Removals, RemoverOK, todo
  <2>4. db' \subseteq db
    OBVIOUS
  <2>5. \A i \in 1..Len(r.todo), e \in db' :
            e.kind \in {"ls", "lr"} /\ Takes(r.todo[i], e) => r.todo[i].deep
    BY <2>2, <2>4 DEF Sound, Removals, RemoverOK, todo
  <2>6. ASSUME NEW i \in 1..Len(r.todo), NEW e \in db',
               r.todo[i].verb = "del", e.kind \in {"lrp", "lsr"},
               <<"ls", e.b, NoName, NoIp>> \in r.todo[i].what
        PROVE  \E j \in 1..(i - 1) : Takes(r.todo[j], e)
    <3>1. PICK j \in 1..((i + 1) - 1) : Takes(todo[j], e)
      BY <2>2, <2>4, <2>6 DEF Sound, Removals, RemoverOK, todo
    <3>2. j # 1
      BY <3>1 DEF todo
    <3>3. j - 1 \in 1..(i - 1) /\ j - 1 \in 1..Len(r.todo) /\ (j - 1) + 1 = j
      BY <1>3, <1>4, <3>2
    <3>4. r.todo[j - 1] = todo[j]
      BY <1>3, <3>3
    <3> QED
      BY <3>1, <3>3, <3>4
  <2>7. op'[c] = r
    BY <1>2
  <2> QED
    BY <2>1, <2>3, <2>5, <2>6, <2>7 DEF Removals, RemoverOK
<1> QED
  BY <1>5, <1>6, <1>10, <1>11 DEF Sound

\* A run ends where it is; the others and the tree stay.
LEMMA SoundEnd ==
    ASSUME Types, Sound, NEW c \in Chassis, op' = [op EXCEPT ![c] = Idle],
           db' = db, count' = count, All' \subseteq All
    PROVE  Sound'
<1>1. op'[c] = Idle /\ \A d \in Chassis : d # c => op'[d] = op[d]
  BY DEF Types
<1>2. Idle.kind = "none" /\ ToAdd(Idle) = {} /\ 1..Len(Idle.todo) = {}
  BY IdleJob DEF Idle
<1>3. Shaped'
  BY ShapedLess DEF Sound
<1>4. Tree'
  BY DEF Sound, Tree
<1>5. Additions'
  <2>1. AdderOK(Idle, db)
    BY <1>2 DEF AdderOK
  <2>2. \A d \in Chassis : AdderOK(op'[d], db)
    BY <1>1, <2>1 DEF Sound, Additions
  <2>3. \A d, b \in Chassis : d # b => \A e \in ToAdd(op'[d]), f \in ToAdd(op'[b]) : e.by # f.by
    BY <1>1, <1>2 DEF Sound, Additions
  <2> QED
    BY <2>2, <2>3 DEF Additions
<1>6. Removals'
  <2>1. ASSUME NEW d \in Chassis, op'[d].kind = "remove"
        PROVE  d # c /\ op'[d] = op[d]
    BY <1>1, <1>2, <2>1
  <2> QED
    BY <1>1, <1>2, <2>1 DEF Sound, Removals
<1> QED
  BY <1>3, <1>4, <1>5, <1>6 DEF Sound

\* Nothing here depends on whom a run still waits for.
LEMMA SameAdder ==
    ASSUME NEW o, NEW r, NEW s, r.todo = o.todo, r.begun = o.begun, ToAdd(r) = ToAdd(o),
           AdderOK(o, s)
    PROVE  AdderOK(r, s)
<1> DEFINE todo == o.todo
<1>1. r.todo = todo
  OBVIOUS
<1>2. ASSUME NEW i \in 1..Len(todo), NEW e \in Adding(todo[i])
      PROVE  /\ Supported(s \cup UNION {Adding(todo[j]) : j \in 1..(i - 1)}, e)
             /\ e \notin s
             /\ \A j \in 1..Len(todo) : j # i => e \notin Adding(todo[j])
  BY DEF AdderOK
<1>3. /\ \A e, f \in ToAdd(r) : e.by = f.by
      /\ ~r.begun => \A e \in ToAdd(r), f \in s : e.by # f.by
  BY DEF AdderOK
<1> HIDE DEF todo
<1>4. \A i \in 1..Len(r.todo) : \A e \in Adding(r.todo[i]) :
        /\ Supported(s \cup UNION {Adding(r.todo[j]) : j \in 1..(i - 1)}, e)
        /\ e \notin s
        /\ \A j \in 1..Len(r.todo) : j # i => e \notin Adding(r.todo[j])
  BY <1>1, <1>2, SMTT(30)
<1> QED
  BY <1>3, <1>4 DEF AdderOK

LEMMA SoundSame ==
    ASSUME Sound,
           \A d \in Chassis : /\ op'[d].todo = op[d].todo /\ op'[d].kind = op[d].kind
                              /\ op'[d].begun = op[d].begun
                              /\ ToAdd(op'[d]) = ToAdd(op[d]),
           db' = db, count' = count, All' = All
    PROVE  Sound'
<1>1. Shaped'
  BY ShapedLess DEF Sound
<1>2. Tree'
  BY DEF Sound, Tree
<1>3. Additions'
  <2>1. \A d \in Chassis : AdderOK(op'[d], db)
    BY SameAdder DEF Sound, Additions
  <2> QED
    BY <2>1 DEF Sound, Additions
<1>4. Removals'
  BY SMTT(30) DEF Sound, Removals, RemoverOK
<1> QED
  BY <1>1, <1>2, <1>3, <1>4 DEF Sound

\* A run that begins beside others is noted, the more so if it or one of them
\* removes.
LEMMA OverlapEffect ==
    ASSUME NEW c \in Chassis, NEW kind, Overlapped(c, kind) # "removes"
    PROVE  /\ overlap # "removes"
           /\ \A d \in Chassis \ {c} : /\ op[d].kind # "remove"
                                       /\ kind = "remove" => op[d].kind = "none"
           /\ Overlapped(c, kind) = "none" =>
                overlap = "none" /\ \A d \in Chassis \ {c} : op[d].kind = "none"
<1> DEFINE others == {op[d].kind : d \in Chassis \ {c}} \ {"none"}
<1>1. Overlapped(c, kind) = IF others = {} THEN overlap
                            ELSE IF overlap = "removes" \/ "remove" \in others \cup {kind}
                                 THEN "removes" ELSE "adds"
  BY DEF Overlapped
<1>2. \A d \in Chassis \ {c} : op[d].kind = "none" \/ op[d].kind \in others
  OBVIOUS
<1> HIDE DEF others
<1>3. CASE others = {}
  BY <1>1, <1>2, <1>3
<1>4. CASE others # {}
  BY <1>1, <1>2, <1>4
<1> QED
  BY <1>3, <1>4

\* The only router there is, and the inner end of a road, is the central one.
LEMMA CentralFound ==
    ASSUME Sound, NEW cen, IsCentral(cen)
    PROVE  cen = Central
<1>1. CASE \E r \in db : r.kind = "lr" /\ cen = r.a /\ Cardinality({e \in db : e.kind = "lr"}) = 1
  <2>1. PICK r \in db : r.kind = "lr" /\ cen = r.a
    BY <1>1
  <2> DEFINE R == {e \in db : e.kind = "lr"}
  <2>2. CentralRouter \in R /\ r \in R /\ CentralRouter.a = Central
    BY <2>1 DEF Sound, Tree, CentralRouter, Entity
  <2>3. IsFiniteSet(R) /\ Cardinality(R) = 1
    BY <1>1, FS_Subset DEF Sound, Tree
  <2> HIDE DEF R
  <2>4. PICK x : R = {x}
    BY <2>3, FS_Singleton
  <2> QED
    BY <2>1, <2>2, <2>4
<1>2. CASE \E road \in dl_ecmp_road(db) : cen = road.central
  BY <1>2, RoadOfOne DEF Sound
<1> QED
  BY <1>1, <1>2 DEF IsCentral

\* A run that adds a road begins: nothing is there of it yet.
LEMMA SoundAdd ==
    ASSUME Types, Sound, NEW c \in Chassis, op[c] = Idle,
           NEW w \in BOOLEAN, NEW vip, NEW inner, NEW kind \in Adder,
           NEW t, t = _init_ecmp_road(db, w, Central, vip, inner, c, count + 1),
           Begin(c, kind, t), overlap' # "removes"
    PROVE  Sound'
<1> DEFINE n == count + 1
           p == NewRoad(db, c, vip, inner, n)
           o == Started(kind, t)
<1>1. /\ op'[c] = o /\ \A d \in Chassis : d # c => op'[d] = op[d]
      /\ count' = n /\ overlap' = Overlapped(c, kind)
      /\ db' = db /\ All' = All \cup ToAdd(o)
  BY BeginEffect
<1>2. /\ IsRoad(p) /\ p.n = n
      /\ \A i \in 1..Len(t) : Adding(t[i]) \subseteq RoadOf(p)
      /\ \A i, j \in 1..Len(t) : i # j => Adding(t[i]) \cap Adding(t[j]) = {}
      /\ \A i \in 1..Len(t) : \A e \in Adding(t[i]) :
            Supported(UNION {Adding(t[j]) : j \in 1..(i - 1)}, e)
  <2>1. IsRoad(p) /\ p.n = n /\ InParts(t, p)
    BY PlanParts
  <2> QED
    BY <2>1 DEF InParts
<1>3. o.todo = t /\ o.kind = kind
  BY DEF Started
<1> HIDE DEF p, o
<1>4. ToAdd(o) \subseteq RoadOf(p)
  BY <1>2, <1>3 DEF ToAdd
<1>5. \A e \in ToAdd(o) : e.by = n
  BY <1>2, <1>4, PartOfRoad
<1>6. count \in Nat
  BY BoundsAssumption DEF Types
<1>7. \A e \in All : e.by \in 0..count /\ (e.by = 0 => e = CentralRouter)
  BY DEF Sound, Shaped
<1>8. \A e \in All : e.by # n
  BY <1>6, <1>7
<1>9. Shaped'
  <2>1. \A e \in All' : e.by \in 0..n /\ (e.by = 0 => e = CentralRouter)
    BY <1>1, <1>5, <1>6, <1>7
  <2>2. ASSUME NEW k \in 1..n
        PROVE  \E q : q.n = k /\ IsRoad(q) /\ Own(k)' \subseteq RoadOf(q)
    <3>1. \A e \in Own(k)' : e \in All' /\ e.by = k
      BY DEF Own
    <3>2. CASE k = n
      <4>1. Own(k)' \subseteq ToAdd(o)
        BY <1>1, <1>8, <3>1, <3>2
      <4> QED
        BY <1>2, <1>4, <3>2, <4>1
    <3>3. CASE k # n
      <4>1. k \in 1..count
        BY <1>6, <3>3
      <4>2. Own(k)' \subseteq Own(k)
        BY <1>1, <1>5, <3>1, <3>3 DEF Own
      <4>3. PICK q : q.n = k /\ IsRoad(q) /\ Own(k) \subseteq RoadOf(q)
        BY <4>1 DEF Sound, Shaped
      <4> QED
        BY <4>2, <4>3
    <3> QED
      BY <3>2, <3>3
  <2> QED
    BY <1>1, <2>1, <2>2 DEF Shaped
<1>10. Tree'
  BY <1>1 DEF Sound, Tree
<1>11. Additions'
  <2>1. AdderOK(o, db)
    <3>1. ASSUME NEW i \in 1..Len(t), NEW e \in Adding(t[i])
          PROVE  /\ Supported(db \cup UNION {Adding(t[j]) : j \in 1..(i - 1)}, e)
                 /\ e \notin db
                 /\ \A j \in 1..Len(t) : j # i => e \notin Adding(t[j])
      <4> DEFINE u == UNION {Adding(t[j]) : j \in 1..(i - 1)}
      <4>1. Supported(db \cup u, e)
        <5>1. Supported(u, e)
          BY <1>2
        <5> HIDE DEF u
        <5> QED
          BY <5>1, MoreSupported
      <4>2. e \in ToAdd(o)
        BY <1>3 DEF ToAdd
      <4> QED
        BY <1>2, <1>5, <1>8, <4>1, <4>2, InAll
    <3>2. \A e \in ToAdd(o), f \in db : e.by # f.by
      BY <1>5, <1>8, InAll
    <3> QED
      BY <1>3, <1>5, <3>1, <3>2 DEF AdderOK
  <2>2. \A d \in Chassis : AdderOK(op'[d], db)
    BY <1>1, <2>1 DEF Sound, Additions
  <2>3. \A d, b \in Chassis : d # b => \A e \in ToAdd(op'[d]), f \in ToAdd(op'[b]) : e.by # f.by
    BY <1>1, <1>5, <1>8, InAll DEF Sound, Additions
  <2> QED
    BY <1>1, <2>2, <2>3 DEF Additions
<1>12. Removals'
  <2>1. \A d \in Chassis : op'[d].kind # "remove"
    BY <1>1, <1>3, OverlapEffect DEF Adder
  <2> QED
    BY <2>1 DEF Removals
<1> QED
  BY <1>9, <1>10, <1>11, <1>12 DEF Sound

\* The commands that remove a road, in their order: the central router's port
\* and route and the edge are gone before the switches that they lead to.
LEMMA RemovePlanOK ==
    ASSUME Shaped, Tree, NEW road \in dl_ecmp_road(db),
           NEW route \in Named(db, "lsr", road.central, road.m),
           NEW w \in BOOLEAN, NEW t, IsRemovePlan(t, w, road, route)
    PROVE  RemoverOK(Started("remove", t), db)
<1> DEFINE k == IF w THEN 2 ELSE 1
           Name(kind, a) == <<kind, a, NoName, NoIp>>
<1>1. PICK p :
        /\ IsRoad(p) /\ p.n \in 1..count /\ Own(p.n) \subseteq RoadOf(p)
        /\ road.edge = p.edge /\ road.out = p.out /\ road.m = p.m /\ road.central = Central
        /\ \E g \in db : g.kind = "lr" /\ g.a = p.edge /\ g.by = p.n
        /\ \E g \in db : g.kind = "ls" /\ g.a = p.out /\ g.by = p.n
        /\ \E g \in db : g.kind = "ls" /\ g.a = p.m /\ g.by = p.n
  BY RoadOfOne
<1>2. /\ Len(t) = k + 4
      /\ t[1] = Del({<<"lrp", Central, p.m, NoIp>>}, FALSE) /\ (w => t[2] = Sleep)
      /\ t[k + 1] = Del({Key(route)}, FALSE)
      /\ t[k + 2] = Del({Name("lr", p.edge)}, TRUE)
      /\ t[k + 3] = Del({Name("ls", p.m)}, TRUE) /\ t[k + 4] = Del({Name("ls", p.out)}, TRUE)
  BY <1>1 DEF IsRemovePlan, _cmd_del_lrp, _cmd_del_lsr, _cmd_del_lr, _cmd_del_ls
<1>3. k \in 1..2 /\ (~w => k = 1) /\ (w => k = 2)
  OBVIOUS
<1> HIDE DEF k
<1>4. \A i \in 1..Len(t) : i = 1 \/ t[i] = Sleep \/ i \in {k + 1, k + 2, k + 3, k + 4}
  BY <1>2, <1>3
<1>5. /\ p.out \notin {p.edge, p.m, Central, NoName}
      /\ p.edge \notin {p.out, p.m, Central, NoName}
      /\ p.m \notin {p.out, p.edge, Central, NoName}
  BY <1>1, NamesApart
<1>6. route \in db /\ route.kind = "lsr" /\ route.a = Central /\ route.b = p.m
  BY <1>1 DEF Named
<1>7. Key(route)[1] = "lsr"
  BY <1>6 DEF Key
<1>8. \A i \in 1..Len(t) : ~Takes(t[i], CentralRouter)
  <2>1. Key(CentralRouter) = Name("lr", Central) /\ Parents(CentralRouter) = {}
    BY DEF CentralRouter, Entity, Key, Parents
  <2>2. Name("lr", Central) # Key(route)
    BY <1>7
  <2> QED
    BY <1>2, <1>4, <1>5, <2>1, <2>2 DEF Takes, Del, Sleep
<1>9. ASSUME NEW i \in 1..Len(t), NEW e \in db, e.kind \in {"ls", "lr"}, Takes(t[i], e)
      PROVE  t[i].deep
  <2>1. Key(e)[1] = e.kind
    BY DEF Key
  <2> QED
    BY <1>2, <1>4, <1>7, <1>9, <2>1 DEF Takes, Del, Sleep
<1>10. ASSUME NEW i \in 1..Len(t), NEW e \in db, t[i].verb = "del", e.kind \in {"lrp", "lsr"},
              Name("ls", e.b) \in t[i].what
       PROVE  \E j \in 1..(i - 1) : Takes(t[j], e)
  <2>1. (i = k + 3 /\ e.b = p.m) \/ (i = k + 4 /\ e.b = p.out)
    BY <1>2, <1>4, <1>7, <1>10 DEF Del, Sleep
  <2>2. e.by = p.n
    BY <1>1, <1>10, <2>1, AboutSwitch
  <2>3. e \in RoadOf(p)
    BY <1>1, <2>2, InAll DEF Own
  <2>4. e.a = p.edge \/ (e.a = Central /\ e.b = p.m)
    BY <1>1, <1>10, <2>3, PartOfRoad
  <2>5. 1 \in 1..(i - 1) /\ k + 1 \in 1..(i - 1) /\ k + 2 \in 1..(i - 1)
    BY <1>3, <2>1
  <2>6. CASE e.a = p.edge
    <3>1. Parents(e) = {Name("lr", p.edge)}
      BY <1>10, <2>6 DEF Parents
    <3>2. \A x, cmd : Parents(e) = {x} /\ cmd = Del({x}, TRUE) => Takes(cmd, e)
      BY DEF Takes, Del
    <3>3. Takes(t[k + 2], e)
      BY <1>2, <3>1, <3>2
    <3> QED
      BY <2>5, <3>3
  <2>7. CASE e.a = Central /\ e.b = p.m
    <3>1. CASE e.kind = "lrp"
      <4>1. Key(e) = <<"lrp", Central, p.m, NoIp>>
        BY <2>7, <3>1 DEF Key
      <4>2. Takes(t[1], e)
        BY <1>2, <4>1 DEF Takes, Del
      <4> QED
        BY <2>5, <4>2
    <3>2. CASE e.kind = "lsr"
      <4>1. e = route
        BY <1>6, <2>7, <3>2, NamedOnce
      <4>2. Takes(t[k + 1], e)
        BY <1>2, <4>1 DEF Takes, Del
      <4> QED
        BY <2>5, <4>2
    <3> QED
      BY <1>10, <3>1, <3>2
  <2> QED
    BY <2>4, <2>6, <2>7
<1>11. Started("remove", t).todo = t
  BY DEF Started
<1> QED
  BY <1>8, <1>9, <1>10, <1>11 DEF RemoverOK

\* A run that removes a road begins: it is alone, and adds nothing.
LEMMA SoundRemoval ==
    ASSUME Types, Sound, NEW c \in Chassis, op[c] = Idle, NEW road \in dl_ecmp_road(db),
           NEW route \in Named(db, "lsr", road.central, road.m), NEW w \in BOOLEAN,
           NEW t, t = _remove_ecmp_road(w, road, route),
           Begin(c, "remove", t), overlap' # "removes"
    PROVE  Sound'
<1> DEFINE o == Started("remove", t)
<1>1. IsRemovePlan(t, w, road, route)
  BY RemovePlan
<1>2. ToAdd(o) = {}
  BY <1>1, RemovePlanTyped
<1>3. /\ op'[c] = o /\ \A d \in Chassis : d # c => op'[d] = op[d]
      /\ count' = count + 1 /\ overlap' = Overlapped(c, "remove")
      /\ db' = db /\ All' = All
  BY <1>2, BeginEffect
<1>4. RemoverOK(o, db)
  BY <1>1, RemovePlanOK DEF Sound
<1>5. o.todo = t /\ \A i \in 1..Len(t) : Adding(t[i]) \subseteq ToAdd(o)
  BY DEF Started, ToAdd
<1> HIDE DEF o
<1>6. count \in Nat
  BY BoundsAssumption DEF Types
<1>7. \A e \in All : e.by \in 0..count /\ (e.by = 0 => e = CentralRouter)
  BY DEF Sound, Shaped
<1>8. Shaped'
  <2>1. \A e \in All' : e.by \in 0..(count + 1) /\ (e.by = 0 => e = CentralRouter)
    BY <1>3, <1>6, <1>7
  <2>2. ASSUME NEW n \in 1..(count + 1)
        PROVE  \E q : q.n = n /\ IsRoad(q) /\ Own(n)' \subseteq RoadOf(q)
    <3>1. Own(n)' \subseteq Own(n)
      BY <1>3 DEF Own
    <3>2. CASE n \in 1..count
      BY <3>1, <3>2 DEF Sound, Shaped
    <3>3. CASE n = count + 1
      <4>1. Own(n)' = {}
        BY <1>6, <1>7, <3>1, <3>3 DEF Own
      <4> DEFINE q == [n |-> n, out |-> <<"out", 0>>, edge |-> <<"edge", 0>>,
                       m |-> <<"m", 0>>, at |-> c, vip |-> 0, inner |-> 0, hop |-> 0]
      <4>2. q.n = n /\ IsRoad(q)
        BY DEF IsRoad
      <4> HIDE DEF q
      <4> QED
        BY <4>1, <4>2
    <3> QED
      BY <1>6, <3>2, <3>3
  <2> QED
    BY <1>3, <2>1, <2>2 DEF Shaped
<1>9. Tree'
  BY <1>3 DEF Sound, Tree
<1>10. Additions'
  <2>1. \A i \in 1..Len(o.todo) : Adding(o.todo[i]) = {}
    BY <1>2, <1>5
  <2>2. AdderOK(o, db)
    BY <1>2, <2>1 DEF AdderOK
  <2>3. \A d \in Chassis : AdderOK(op'[d], db)
    BY <1>3, <2>2 DEF Sound, Additions
  <2>4. \A d, b \in Chassis : d # b => \A e \in ToAdd(op'[d]), f \in ToAdd(op'[b]) : e.by # f.by
    BY <1>2, <1>3 DEF Sound, Additions
  <2> QED
    BY <1>3, <2>3, <2>4 DEF Additions
<1>11. Removals'
  <2>1. \A d \in Chassis : d # c => op'[d].kind = "none"
    BY <1>3, OverlapEffect
  <2> QED
    BY <1>3, <1>4, <2>1 DEF Removals
<1> QED
  BY <1>8, <1>9, <1>10, <1>11 DEF Sound

\* The actions, one by one.
LEMMA SoundNext ==
    ASSUME Types, overlap # "removes" => Sound, Next, overlap' # "removes"
    PROVE  Sound'
<1>1. PICK c \in Chassis :
        \/ init_ecmp_road(c) \/ add_ecmp_road(c) \/ remove_ecmp_road(c)
        \/ tpctl_execute(c) \/ Fail(c) \/ Slept(c) \/ Stop(c) \/ Apply(c)
  BY DEF Next
<1>2. CASE init_ecmp_road(c) \/ add_ecmp_road(c)
  <2>1. PICK vip \in Vips : \E inner \in 1..Hosts \cup Vips : \E w \in BOOLEAN : \E kind \in Adder :
            \E cen :
            /\ op[c] = Idle /\ IsCentral(cen)
            /\ Begin(c, kind, _init_ecmp_road(db, w, cen, vip, inner, c, count + 1))
    BY <1>2, AddBegins
  <2>2. PICK inner \in 1..Hosts \cup Vips, w \in BOOLEAN, kind \in Adder : \E cen :
            /\ op[c] = Idle /\ IsCentral(cen)
            /\ Begin(c, kind, _init_ecmp_road(db, w, cen, vip, inner, c, count + 1))
    BY <2>1
  <2>3. PICK cen :
            /\ op[c] = Idle /\ IsCentral(cen)
            /\ Begin(c, kind, _init_ecmp_road(db, w, cen, vip, inner, c, count + 1))
    BY <2>2
  <2>4. overlap # "removes"
    BY <2>3, OverlapEffect DEF Begin
  <2>5. cen = Central
    BY <2>3, <2>4, CentralFound
  <2> DEFINE t == _init_ecmp_road(db, w, Central, vip, inner, c, count + 1)
  <2>6. Begin(c, kind, t)
    BY <2>3, <2>5
  <2>7. t = _init_ecmp_road(db, w, Central, vip, inner, c, count + 1)
    OBVIOUS
  <2> HIDE DEF t
  <2> QED
    BY <2>3, <2>4, <2>6, <2>7, SoundAdd
<1>3. CASE remove_ecmp_road(c)
  <2>1. PICK road \in dl_ecmp_road(db) : \E route \in Named(db, "lsr", road.central, road.m) :
            \E w \in BOOLEAN :
            /\ op[c] = Idle
            /\ Begin(c, "remove", _remove_ecmp_road(w, road, route))
    BY <1>3, RemoveBegins
  <2>2. PICK route \in Named(db, "lsr", road.central, road.m), w \in BOOLEAN :
            /\ op[c] = Idle
            /\ Begin(c, "remove", _remove_ecmp_road(w, road, route))
    BY <2>1
  <2>3. overlap # "removes"
    BY <2>2, OverlapEffect DEF Begin
  <2> QED
    BY <2>2, <2>3, SoundRemoval
<1>4. CASE tpctl_execute(c)
  <2>1. /\ op[c].todo # <<>> /\ op' = [op EXCEPT ![c] = Rest(op[c])]
        /\ UNCHANGED <<view, count, stopped, overlap>> /\ All' \subseteq All
    BY <1>4, ExecEffect, ExecAll
  <2>2. CASE op[c].kind # "remove"
    <3>1. /\ db' = db \cup Adding(op[c].todo[1])
          /\ \A e \in Adding(op[c].todo[1]), f \in db : Key(e) # Key(f)
      BY <1>4, <2>2, ExecEffect
    <3> QED
      BY <2>1, <2>2, <3>1, SoundAdvance
  <2>3. CASE op[c].kind = "remove"
    <3>1. db' = {e \in db : ~Takes(op[c].todo[1], e)}
      BY <1>4, <2>3, ExecEffect
    <3> QED
      BY <2>1, <2>3, <3>1, SoundRemove
  <2> QED
    BY <2>2, <2>3
<1>5. CASE Slept(c)
  <2>1. /\ op[c].todo # <<>> /\ op' = [op EXCEPT ![c] = Rest(op[c])]
        /\ UNCHANGED <<db, view, count, stopped, overlap>>
        /\ Adding(op[c].todo[1]) = {} /\ op[c].todo[1].verb = "sleep" /\ All' \subseteq All
    BY <1>5, SleptEffect
  <2>2. CASE op[c].kind # "remove"
    <3>1. db' = db \cup Adding(op[c].todo[1])
      BY <2>1
    <3> QED
      BY <2>1, <2>2, <3>1, SoundAdvance
  <2>3. CASE op[c].kind = "remove"
    <3>1. db' = {e \in db : ~Takes(op[c].todo[1], e)}
      BY <2>1 DEF Takes
    <3> QED
      BY <2>1, <2>3, <3>1, SoundRemove
  <2> QED
    BY <2>2, <2>3
<1>6. CASE Fail(c) \/ Stop(c)
  BY <1>6, EndEffect, SoundEnd
<1>7. CASE Apply(c)
  BY <1>7, ApplyEffect, SoundSame
<1> QED
  BY <1>1, <1>2, <1>3, <1>4, <1>5, <1>6, <1>7

------------------------------------------------------------------------------
(***************************************************************************)
(* A run without company.                                                  *)
(***************************************************************************)

\* A run uses one name of a kind, so there is a free one, and the tool takes it.
LEMMA NameIsFree ==
    ASSUME Types, Shaped, NEW prefix \in {"out", "edge", "m"}
    PROVE  ~datalog_is_entity_exist(db, new_entity_name(db, prefix))
<1> DEFINE N == 1..(MaxOps + 1)
           Exists(i) == datalog_is_entity_exist(db, <<prefix, i>>)
           Bearer(i) == CHOOSE e \in db : e.kind \in {"ls", "lr"} /\ e.a = <<prefix, i>>
           owner == [i \in N |-> Bearer(i).by]
<1>1. MaxOps \in Nat /\ count \in 0..MaxOps
  BY BoundsAssumption DEF Types
<1>2. ASSUME NEW i, Exists(i)
      PROVE  /\ Bearer(i) \in db /\ Bearer(i).kind \in {"ls", "lr"} /\ Bearer(i).a = <<prefix, i>>
             /\ Bearer(i).by \in 1..count
             /\ \E p : /\ p.n = Bearer(i).by /\ IsRoad(p) /\ Own(Bearer(i).by) \subseteq RoadOf(p)
                       /\ <<prefix, i>> = IF prefix = "out" THEN p.out
                                          ELSE IF prefix = "edge" THEN p.edge ELSE p.m
  <2>1. Bearer(i) \in db /\ Bearer(i).kind \in {"ls", "lr"} /\ Bearer(i).a = <<prefix, i>>
    BY <1>2 DEF datalog_is_entity_exist
  <2> HIDE DEF Bearer
  <2>2. Bearer(i) # CentralRouter
    BY <2>1 DEF CentralRouter, Entity, Central
  <2>3. Bearer(i).by \in 1..count
    BY <2>1, <2>2, Owner, InAll
  <2>4. PICK p : /\ p.n = Bearer(i).by /\ IsRoad(p) /\ Own(Bearer(i).by) \subseteq RoadOf(p)
                 /\ Bearer(i) \in RoadOf(p)
    BY <2>1, <2>2, Owner, InAll
  <2>5. Bearer(i).a \in {p.out, p.edge, p.m}
    BY <2>1, <2>4, PartOfRoad
  <2>6. p.out[1] = "out" /\ p.edge[1] = "edge" /\ p.m[1] = "m" /\ <<prefix, i>>[1] = prefix
    BY <2>4 DEF IsRoad
  <2> QED
    BY <2>1, <2>3, <2>4, <2>5, <2>6
<1>3. \E i \in N : ~Exists(i)
  <2>1. SUFFICES ASSUME \A i \in N : Exists(i) PROVE FALSE
    OBVIOUS
  <2> HIDE DEF Exists, Bearer
  <2>2. owner \in [N -> 1..MaxOps]
    BY <1>1, <1>2, <2>1
  <2>3. /\ IsFiniteSet(N) /\ Cardinality(N) = MaxOps + 1
        /\ IsFiniteSet(1..MaxOps) /\ Cardinality(1..MaxOps) = MaxOps
    BY <1>1, FS_Interval
  <2> HIDE DEF N, owner
  <2>4. PICK i \in N, j \in N : i # j /\ owner[i] = owner[j]
    BY <1>1, <2>2, <2>3, FS_PigeonHole
  <2>5. Bearer(i).by = Bearer(j).by
    BY <2>4 DEF owner
  <2>6. PICK p : /\ p.n = Bearer(i).by /\ IsRoad(p) /\ Own(Bearer(i).by) \subseteq RoadOf(p)
                 /\ <<prefix, i>> = IF prefix = "out" THEN p.out
                                    ELSE IF prefix = "edge" THEN p.edge ELSE p.m
    BY <1>2, <2>1
  <2>7. Bearer(j) \in Own(Bearer(i).by)
    BY <1>2, <2>1, <2>5, InAll DEF Own
  <2>8. Bearer(j).a \in {p.out, p.edge, p.m} /\ Bearer(j).a = <<prefix, j>>
    BY <1>2, <2>1, <2>6, <2>7, PartOfRoad
  <2>9. p.out[1] = "out" /\ p.edge[1] = "edge" /\ p.m[1] = "m" /\ <<prefix, j>>[1] = prefix
    BY <2>6 DEF IsRoad
  <2>10. <<prefix, j>> = <<prefix, i>>
    BY <2>6, <2>8, <2>9
  <2> QED
    BY <2>4, <2>10
<1> DEFINE free == {i \in N : ~Exists(i)}
<1>4. PICK x \in free : \A y \in free : x <= y
  <2>1. free \in SUBSET Nat /\ free # {}
    BY <1>1, <1>3
  <2> HIDE DEF free
  <2> QED
    BY <2>1, LeastOfNaturals
<1>5. \A j \in 1..(x - 1) : Exists(j)
  <2>1. x \in 1..(MaxOps + 1)
    BY <1>4
  <2>2. \A j \in 1..(x - 1) : j \in N /\ ~(x <= j)
    BY <1>1, <2>1
  <2> QED
    BY <1>4, <2>2
<1>6. \E i \in 1..(MaxOps + 1) : ~Exists(i) /\ \A j \in 1..(i - 1) : Exists(j)
  BY <1>4, <1>5
<1> DEFINE least == CHOOSE i \in 1..(MaxOps + 1) : ~Exists(i) /\ \A j \in 1..(i - 1) : Exists(j)
<1>7. ~Exists(least)
  <2> HIDE DEF Exists
  <2> QED
    BY <1>6
<1>8. new_entity_name(db, prefix) = <<prefix, least>>
  BY DEF new_entity_name
<1> QED
  BY <1>7, <1>8

\* A part that is still to be added is not there under another run's key: its
\* switch would have to be of both runs.
LEMMA FreshKeys ==
    ASSUME Types, Sound, Solo, NEW c \in Chassis, 1 \in 1..Len(op[c].todo),
           NEW e \in Adding(op[c].todo[1]), NEW f \in db
    PROVE  Key(e) # Key(f)
<1>1. e \in ToAdd(op[c])
  BY DEF ToAdd
<1>2. e \in All /\ f \in All /\ e \notin db
  BY <1>1, InAll DEF Sound, Additions, AdderOK
<1>3. e.kind \in Kinds /\ e # CentralRouter
  BY <1>2, NamesByKind DEF Sound, Tree
<1>4. CASE e.kind \in {"ls", "lr"}
  BY <1>1, <1>4 DEF Solo, MeetsNone
<1>5. CASE e.kind \in {"lsp", "lrp", "lsr"}
  <2>1. SUFFICES ASSUME Key(e) = Key(f) PROVE FALSE
    OBVIOUS
  <2>2. e.kind = f.kind /\ e.a = f.a /\ e.b = f.b
    BY <2>1, KeyNames
  <2> DEFINE ls == IF e.kind = "lsp" THEN e.a ELSE e.b
  <2>3. Has(db, "ls", ls, f.by)
    BY <1>5, <2>2 DEF Sound, Tree, Supported
  <2>4. Supported(db, e)
    <3>1. Supported(db \cup UNION {Adding(op[c].todo[j]) : j \in 1..(1 - 1)}, e)
      BY DEF Sound, Additions, AdderOK
    <3>2. 1..(1 - 1) = {}
      OBVIOUS
    <3>3. db \cup UNION {Adding(op[c].todo[j]) : j \in 1..(1 - 1)} = db
      BY <3>2
    <3> QED
      BY <3>1, <3>3
  <2>5. Has(db, "ls", ls, e.by)
    BY <1>5, <2>4 DEF Supported
  <2> HIDE DEF ls
  <2>6. PICK g \in db : g.kind = "ls" /\ g.a = ls /\ g.by = f.by
    BY <2>3 DEF Has
  <2>7. PICK h \in db : h.kind = "ls" /\ h.a = ls /\ h.by = e.by
    BY <2>5 DEF Has
  <2>8. g = h
    BY <2>6, <2>7, OneOwner DEF Sound
  <2>9. e.by = f.by
    BY <2>6, <2>7, <2>8
  <2>10. PICK p : IsRoad(p) /\ Own(e.by) \subseteq RoadOf(p)
    BY <1>2, <1>3, Owner DEF Sound
  <2>11. e \in RoadOf(p) /\ f \in RoadOf(p)
    BY <1>2, <2>9, <2>10 DEF Own
  <2>12. e = f
    BY <2>2, <2>10, <2>11, PartByNames
  <2> QED
    BY <1>2, <2>12
<1> QED
  BY <1>3, <1>4, <1>5 DEF Kinds

\* So tpctl accepts each command of such a run.
LEMMA SoloAccepted ==
    ASSUME Types, Sound, Solo, NEW c \in Chassis
    PROVE  ~Refused(c)
<1>1. SUFFICES ASSUME op[c].todo # <<>>, Head(op[c].todo).verb # "sleep"
               PROVE  Accepts(db, Head(op[c].todo))
  BY DEF Refused
<1> DEFINE cmd == op[c].todo[1]
<1>2. JobOK(op[c])
  BY DEF Types
<1>3. 1 \in 1..Len(op[c].todo) /\ Head(op[c].todo) = cmd
  BY <1>1, <1>2, JobLength
<1>4. cmd.verb \in {"add", "del"}
  BY <1>1, <1>2, <1>3 DEF JobOK
<1>5. CASE cmd.verb = "add"
  <2>1. Adding(cmd) = cmd.what
    BY <1>5 DEF Adding
  <2>2. ASSUME NEW e \in cmd.what
        PROVE  Key(e) \notin Keys(db) /\ Parents(e) \subseteq Keys(db)
    <3>1. Key(e) \notin Keys(db)
      BY <1>3, <2>1, <2>2, FreshKeys DEF Keys
    <3>2. Supported(db, e)
      <4>1. Supported(db \cup UNION {Adding(op[c].todo[j]) : j \in 1..(1 - 1)}, e)
        BY <1>3, <2>1, <2>2 DEF Sound, Additions, AdderOK
      <4>2. 1..(1 - 1) = {}
        OBVIOUS
      <4>3. db \cup UNION {Adding(op[c].todo[j]) : j \in 1..(1 - 1)} = db
        BY <4>2
      <4> QED
        BY <4>1, <4>3
    <3>3. e.kind \in Kinds
      <4>1. e \in ToAdd(op[c])
        BY <1>3, <2>1, <2>2 DEF ToAdd
      <4> QED
        BY <4>1, NamesByKind, InAll DEF Sound
    <3>4. ASSUME NEW kind \in {"ls", "lr"}, NEW a, NEW n, Has(db, kind, a, n)
          PROVE  <<kind, a, NoName, NoIp>> \in Keys(db)
      <4>1. PICK f \in db : f.kind = kind /\ f.a = a
        BY <3>4 DEF Has
      <4>2. f.b = NoName
        BY <4>1, NamesByKind, InAll DEF Sound
      <4>3. Key(f) = <<kind, a, NoName, NoIp>>
        BY <4>1, <4>2 DEF Key
      <4> QED
        BY <4>3 DEF Keys
    <3>5. <<"lr", Central, NoName, NoIp>> \in Keys(db)
      <4>1. CentralRouter \in db /\ Key(CentralRouter) = <<"lr", Central, NoName, NoIp>>
        BY DEF Sound, Tree, CentralRouter, Entity, Key
      <4> QED
        BY <4>1 DEF Keys
    <3>6. CASE e.kind \in {"ls", "lr"}
      BY <3>1, <3>6 DEF Parents
    <3>7. CASE e.kind = "lsp"
      <4>1. <<"ls", e.a, NoName, NoIp>> \in Keys(db)
        BY <3>2, <3>4, <3>7 DEF Supported
      <4> QED
        BY <3>1, <3>7, <4>1 DEF Parents
    <3>8. CASE e.kind \in {"lrp", "lsr"}
      <4>1. <<"lr", e.a, NoName, NoIp>> \in Keys(db)
        BY <3>2, <3>4, <3>5, <3>8 DEF Supported
      <4> QED
        BY <3>1, <3>8, <4>1 DEF Parents
    <3> QED
      BY <3>3, <3>6, <3>7, <3>8 DEF Kinds
  <2>3. \A e \in cmd.what : Key(e) \notin Keys(db) /\ Parents(e) \subseteq Keys(db)
    BY <2>2
  <2> HIDE DEF cmd
  <2> QED
    BY <1>3, <1>5, <2>3 DEF Accepts
<1>6. CASE cmd.verb = "del"
  <2>1. \A k \in cmd.what : \E e \in db : Key(e) = k
    BY <1>3, <1>6 DEF Solo, Finds
  <2> HIDE DEF cmd
  <2> QED
    BY <1>3, <1>6, <2>1 DEF Accepts, Keys
<1> QED
  BY <1>4, <1>5, <1>6

LEMMA SoloInit == Init => Solo
<1> SUFFICES ASSUME Init PROVE Solo
  OBVIOUS
<1>1. \A c \in Chassis : op[c] = Idle
  BY DEF Init
<1>2. Idle.kind = "none" /\ ToAdd(Idle) = {} /\ 1..Len(Idle.todo) = {}
  BY IdleJob DEF Idle
<1> QED
  BY <1>1, <1>2 DEF Solo, MeetsNone, Finds

\* One run changes, the others are idle and stay so.
LEMMA SoloOfOne ==
    ASSUME NEW c \in Chassis, \A d \in Chassis : d # c => op'[d].kind = "none" /\ JobOK(op'[d]),
           MeetsNone(op'[c], db'), Finds(op'[c], db')
    PROVE  Solo'
<1>1. ASSUME NEW d \in Chassis, d # c
      PROVE  MeetsNone(op'[d], db') /\ Finds(op'[d], db')
  <2>1. op'[d].todo = <<>> /\ Len(op'[d].todo) = 0
    BY <1>1, JobLength DEF JobOK
  <2>2. 1..Len(op'[d].todo) = {}
    BY <2>1
  <2> QED
    BY <2>2 DEF MeetsNone, Finds, ToAdd
<1>2. \A d \in Chassis : MeetsNone(op'[d], db') /\ Finds(op'[d], db')
  BY <1>1
<1>3. \A d, b \in Chassis : d # b => "none" \in {op'[d].kind, op'[b].kind}
  OBVIOUS
<1> QED
  BY <1>2, <1>3 DEF Solo

\* It goes one command further, or sleeps.
LEMMA SoloAdvance ==
    ASSUME Types, Sound, Solo, NEW c \in Chassis, op[c].todo # <<>>, op[c].kind # "remove",
           op' = [op EXCEPT ![c] = Rest(op[c])],
           db' = db \cup Adding(op[c].todo[1])
    PROVE  Solo'
<1> DEFINE todo == op[c].todo
           new == Adding(todo[1])
           r == Rest(op[c])
<1>1. JobOK(op[c]) /\ op = [d \in Chassis |-> op[d]]
  BY DEF Types
<1>2. op'[c] = r /\ \A d \in Chassis : d # c => op'[d] = op[d]
  BY <1>1
<1>3. /\ Len(r.todo) = Len(todo) - 1
      /\ \A i \in 1..Len(r.todo) : r.todo[i] = todo[i + 1]
      /\ ToAdd(op[c]) = new \cup ToAdd(r)
  BY <1>1, RestOfJob DEF IsRest
<1>4. Len(todo) \in Nat /\ 1 \in 1..Len(todo)
  BY <1>1, JobLength
<1>5. \A d \in Chassis : d # c => op'[d].kind = "none" /\ JobOK(op'[d])
  <2>1. op[c].kind # "none"
    BY <1>1 DEF JobOK
  <2> QED
    BY <1>2, <2>1 DEF Types, Solo
<1>6. MeetsNone(r, db')
  <2>1. SUFFICES ASSUME NEW e \in ToAdd(r), NEW f \in new
                 PROVE  Key(e) # Key(f)
    <3>1. \A e \in ToAdd(r), f \in db : e.kind \in {"ls", "lr"} => Key(e) # Key(f)
      BY <1>3 DEF Solo, MeetsNone
    <3> QED
      BY <2>1, <3>1 DEF MeetsNone
  <2>2. PICK i \in 1..Len(r.todo) : e \in Adding(r.todo[i])
    BY DEF ToAdd
  <2>3. i + 1 \in 1..Len(todo) /\ i + 1 # 1 /\ e \in Adding(todo[i + 1])
    BY <1>3, <1>4, <2>2
  <2>4. e \notin new /\ e \notin db
    BY <1>4, <2>3 DEF Sound, Additions, AdderOK
  <2>5. e # CentralRouter
    BY <2>4 DEF Sound, Tree
  <2>6. e \in ToAdd(op[c]) /\ f \in ToAdd(op[c])
    BY <1>3
  <2> QED
    BY <2>4, <2>5, <2>6, AddedKeys DEF Sound
<1>7. Finds(r, db')
  <2>1. \A i \in 1..Len(r.todo) : r.todo[i].verb # "del"
    BY <1>1, <1>3, <1>4, SMTT(30) DEF JobOK
  <2> QED
    BY <2>1 DEF Finds
<1> HIDE DEF r
<1> QED
  BY <1>2, <1>5, <1>6, <1>7, SoloOfOne

LEMMA SoloRemove ==
    ASSUME Types, Sound, Solo, NEW c \in Chassis, op[c].todo # <<>>, op[c].kind = "remove",
           op' = [op EXCEPT ![c] = Rest(op[c])],
           db' = {e \in db : ~Takes(op[c].todo[1], e)}
    PROVE  Solo'
<1> DEFINE todo == op[c].todo
           r == Rest(op[c])
<1>1. JobOK(op[c]) /\ op = [d \in Chassis |-> op[d]]
  BY DEF Types
<1>2. op'[c] = r /\ \A d \in Chassis : d # c => op'[d] = op[d]
  BY <1>1
<1>3. /\ Len(r.todo) = Len(todo) - 1
      /\ \A i \in 1..Len(r.todo) : r.todo[i] = todo[i + 1]
      /\ ToAdd(op[c]) = Adding(todo[1]) \cup ToAdd(r)
  BY <1>1, RestOfJob DEF IsRest
<1>4. Len(todo) \in Nat /\ 1 \in 1..Len(todo)
  BY <1>1, JobLength
<1>5. \A d \in Chassis : d # c => op'[d].kind = "none" /\ JobOK(op'[d])
  BY <1>2 DEF Types, Solo
<1>6. MeetsNone(r, db')
  <2>1. ToAdd(r) = {}
    BY <1>3, NothingToAdd
  <2> QED
    BY <2>1 DEF MeetsNone
<1>7. Finds(r, db')
  <2>1. SUFFICES ASSUME NEW i \in 1..Len(r.todo), r.todo[i].verb = "del", NEW k \in r.todo[i].what
                 PROVE  \E e \in db' : Key(e) = k /\ \A j \in 1..(i - 1) : ~Takes(r.todo[j], e)
    BY DEF Finds
  <2> HIDE DEF r
  <2>2. i + 1 \in 1..Len(todo) /\ r.todo[i] = todo[i + 1] /\ (i + 1) - 1 = i
    BY <1>3, <1>4
  <2>3. PICK e \in db : Key(e) = k /\ \A j \in 1..((i + 1) - 1) : ~Takes(todo[j], e)
    BY <2>1, <2>2 DEF Solo, Finds
  <2>4. ~Takes(todo[1], e)
    BY <2>2, <2>3
  <2>5. \A j \in 1..(i - 1) : j \in 1..Len(r.todo) /\ j + 1 \in 1..i
    BY <1>3, <1>4
  <2>6. \A j \in 1..(i - 1) : r.todo[j] = todo[j + 1] /\ ~Takes(todo[j + 1], e)
    BY <1>3, <2>2, <2>3, <2>5
  <2> QED
    BY <2>3, <2>4, <2>6
<1> HIDE DEF r
<1> QED
  BY <1>2, <1>5, <1>6, <1>7, SoloOfOne

\* It begins: its names are free.
LEMMA SoloAdd ==
    ASSUME Types, Sound, NEW c \in Chassis, op[c] = Idle,
           NEW w \in BOOLEAN, NEW vip, NEW inner, NEW kind \in Adder,
           NEW t, t = _init_ecmp_road(db, w, Central, vip, inner, c, count + 1),
           Begin(c, kind, t), Types', overlap' = "none"
    PROVE  Solo'
<1> DEFINE p == NewRoad(db, c, vip, inner, count + 1)
           o == Started(kind, t)
<1>1. /\ op'[c] = o /\ \A d \in Chassis : d # c => op'[d] = op[d]
      /\ overlap' = Overlapped(c, kind) /\ db' = db
  BY BeginEffect
<1>2. IsRoad(p) /\ InParts(t, p)
  BY PlanParts
<1>3. /\ p.out = new_entity_name(db, "out") /\ p.edge = new_entity_name(db, "edge")
      /\ p.m = new_entity_name(db, "m")
  BY DEF NewRoad, Names
<1>4. o.todo = t /\ o.kind = kind
  BY DEF Started
<1> HIDE DEF p, o
<1>5. \A a \in {p.out, p.edge, p.m} : ~datalog_is_entity_exist(db, a)
  BY <1>3, NameIsFree DEF Sound
<1>6. MeetsNone(o, db')
  <2>1. SUFFICES ASSUME NEW e \in ToAdd(o), NEW f \in db, e.kind \in {"ls", "lr"}, Key(e) = Key(f)
                 PROVE  FALSE
    BY <1>1 DEF MeetsNone
  <2>2. e \in RoadOf(p)
    BY <1>2, <1>4 DEF ToAdd, InParts
  <2>3. e.a \in {p.out, p.edge, p.m} /\ e.b = NoName
    BY <1>2, <2>1, <2>2, PartOfRoad
  <2>4. f.kind = e.kind /\ f.a = e.a /\ f.b = e.b
    BY <2>1, KeyNames
  <2>5. datalog_is_entity_exist(db, e.a)
    BY <2>1, <2>3, <2>4 DEF datalog_is_entity_exist
  <2> QED
    BY <1>5, <2>3, <2>5
<1>7. Finds(o, db')
  <2>1. JobOK(o)
    BY <1>1 DEF Types
  <2>2. \A i \in 1..Len(o.todo) : o.todo[i].verb # "del"
    BY <1>4, <2>1 DEF JobOK, Adder
  <2> QED
    BY <2>2 DEF Finds
<1>8. \A d \in Chassis : d # c => op'[d].kind = "none" /\ JobOK(op'[d])
  BY <1>1, OverlapEffect DEF Types
<1> QED
  BY <1>1, <1>6, <1>7, <1>8, SoloOfOne

\* It begins to remove a road: all parts that it names are there, and no command
\* takes what a later one names.
LEMMA RemovePlanFinds ==
    ASSUME Shaped, Tree, NEW road \in dl_ecmp_road(db),
           NEW route \in Named(db, "lsr", road.central, road.m),
           NEW w \in BOOLEAN, NEW t, IsRemovePlan(t, w, road, route)
    PROVE  Finds(Started("remove", t), db)
<1> DEFINE k == IF w THEN 2 ELSE 1
           Name(kind, a) == <<kind, a, NoName, NoIp>>
<1>1. PICK p :
        /\ IsRoad(p)
        /\ road.edge = p.edge /\ road.out = p.out /\ road.m = p.m /\ road.central = Central
        /\ \E g \in db : g.kind = "lr" /\ g.a = p.edge /\ g.by = p.n
        /\ \E g \in db : g.kind = "ls" /\ g.a = p.out /\ g.by = p.n
        /\ \E g \in db : g.kind = "ls" /\ g.a = p.m /\ g.by = p.n
  BY RoadOfOne
<1>2. /\ Len(t) = k + 4
      /\ t[1] = Del({<<"lrp", Central, p.m, NoIp>>}, FALSE) /\ (w => t[2] = Sleep)
      /\ t[k + 1] = Del({Key(route)}, FALSE)
      /\ t[k + 2] = Del({Name("lr", p.edge)}, TRUE)
      /\ t[k + 3] = Del({Name("ls", p.m)}, TRUE) /\ t[k + 4] = Del({Name("ls", p.out)}, TRUE)
  BY <1>1 DEF IsRemovePlan, _cmd_del_lrp, _cmd_del_lsr, _cmd_del_lr, _cmd_del_ls
<1>3. k \in 1..2 /\ (~w => k = 1) /\ (w => k = 2)
  OBVIOUS
<1> HIDE DEF k
<1>4. \A i \in 1..Len(t) : i = 1 \/ t[i] = Sleep \/ i \in {k + 1, k + 2, k + 3, k + 4}
  BY <1>2, <1>3
<1>5. p.out # p.m
  BY <1>1, NamesApart
<1>6. route \in db /\ route.kind = "lsr" /\ Key(route)[1] = "lsr"
  BY <1>1 DEF Named, Key
\* The central router's port.
<1>7. \E e \in db : Key(e) = <<"lrp", Central, p.m, NoIp>>
  <2>1. Linked(There(db), Central, p.m)
    <3> DEFINE kk == There(db)
    <3>1. PICK r \in {r \in Routers(db) : r.at # Off} :
            road \in {[edge |-> r.a, at |-> r.at, out |-> out, m |-> x[1], central |-> x[2]] :
                        out \in Outsides(db, kk, r), x \in Insides(db, kk, r)}
      BY DEF dl_ecmp_road
    <3>2. PICK out \in Outsides(db, kk, r) : \E x \in Insides(db, kk, r) :
            road = [edge |-> r.a, at |-> r.at, out |-> out, m |-> x[1], central |-> x[2]]
      BY <3>1
    <3>3. PICK x \in Insides(db, kk, r) :
            road = [edge |-> r.a, at |-> r.at, out |-> out, m |-> x[1], central |-> x[2]]
      BY <3>2
    <3>4. Linked(kk, x[2], x[1])
      BY DEF Insides, dl_edge_LR_peer_LR
    <3>5. x[1] = p.m /\ x[2] = Central
      BY <1>1, <3>3
    <3> QED
      BY <3>4, <3>5
  <2>2. PICK e \in db : e.kind = "lrp" /\ e.a = Central /\ e.b = p.m
    BY <2>1 DEF Linked, There
  <2> QED
    BY <2>2 DEF Key
<1>8. \A n, a : \A kind \in {"ls", "lr"} : Has(db, kind, a, n) =>
        \E e \in db : Key(e) = Name(kind, a) /\ e.kind = kind
  <2>1. ASSUME NEW f \in db, f.kind \in {"ls", "lr"}
        PROVE  Key(f) = Name(f.kind, f.a)
    <3>1. f.b = NoName
      BY <2>1, NamesByKind, InAll
    <3> QED
      BY <2>1, <3>1 DEF Key
  <2> QED
    BY <2>1 DEF Has
<1>9. /\ \E e \in db : Key(e) = Name("lr", p.edge) /\ e.kind = "lr"
      /\ \E e \in db : Key(e) = Name("ls", p.m) /\ e.kind = "ls"
      /\ \E e \in db : Key(e) = Name("ls", p.out) /\ e.kind = "ls"
  <2>1. Has(db, "lr", p.edge, p.n) /\ Has(db, "ls", p.m, p.n) /\ Has(db, "ls", p.out, p.n)
    BY <1>1 DEF Has
  <2> QED
    BY <1>8, <2>1
\* What the commands take of these.
<1>10. ASSUME NEW i \in 1..Len(t), t[i].verb = "del", NEW x \in t[i].what
       PROVE  \E e \in db : Key(e) = x /\ \A j \in 1..(i - 1) : ~Takes(t[j], e)
  <2>0. \A j \in 1..(i - 1) : j \in 1..Len(t) /\ j < i
    BY <1>2, <1>3
  <2>1. \A e : e.kind \in {"ls", "lr"} => Parents(e) = {}
    BY DEF Parents
  <2>2. CASE i = 1
    <3>1. x = <<"lrp", Central, p.m, NoIp>> /\ 1..(i - 1) = {}
      BY <1>2, <1>10, <2>2 DEF Del
    <3> QED
      BY <1>7, <3>1
  <2>3. CASE i = k + 1
    <3>1. x = Key(route)
      BY <1>2, <1>10, <2>3 DEF Del
    <3>2. ASSUME NEW j \in 1..(i - 1)
          PROVE  ~Takes(t[j], route)
      <4>1. j = 1 \/ t[j] = Sleep
        BY <1>3, <1>4, <2>0, <2>3
      <4>2. Key(route) # <<"lrp", Central, p.m, NoIp>>
        BY <1>6
      <4> QED
        BY <1>2, <4>1, <4>2 DEF Takes, Del, Sleep
    <3> QED
      BY <1>6, <3>1, <3>2
  <2>4. CASE i = k + 2
    <3>1. x = Name("lr", p.edge)
      BY <1>2, <1>10, <2>4 DEF Del
    <3>2. PICK e \in db : Key(e) = x /\ e.kind = "lr"
      BY <1>9, <3>1
    <3>3. ASSUME NEW j \in 1..(i - 1)
          PROVE  ~Takes(t[j], e)
      <4>1. j = 1 \/ t[j] = Sleep \/ j = k + 1
        BY <1>3, <1>4, <2>0, <2>4
      <4>2. Key(e) # <<"lrp", Central, p.m, NoIp>> /\ Key(e) # Key(route)
        BY <1>6, <3>1, <3>2
      <4> QED
        BY <1>2, <4>1, <4>2 DEF Takes, Del, Sleep
    <3> QED
      BY <3>2, <3>3
  <2>5. CASE i \in {k + 3, k + 4}
    <3>1. (x = Name("ls", p.m) /\ i = k + 3) \/ (x = Name("ls", p.out) /\ i = k + 4)
      BY <1>2, <1>10, <2>5 DEF Del
    <3>2. PICK e \in db : Key(e) = x /\ e.kind = "ls"
      BY <1>9, <3>1
    <3>3. ASSUME NEW j \in 1..(i - 1)
          PROVE  ~Takes(t[j], e)
      <4>1. j = 1 \/ t[j] = Sleep \/ j \in {k + 1, k + 2} \/ (j = k + 3 /\ i = k + 4)
        BY <1>3, <1>4, <2>0, <2>5
      <4>2. /\ Key(e) # <<"lrp", Central, p.m, NoIp>> /\ Key(e) # Key(route)
            /\ Key(e) # Name("lr", p.edge) /\ (i = k + 4 => Key(e) # Name("ls", p.m))
        BY <1>3, <1>5, <1>6, <3>1, <3>2
      <4>3. Parents(e) = {}
        BY <2>1, <3>2
      <4> QED
        BY <1>2, <4>1, <4>2, <4>3 DEF Takes, Del, Sleep
    <3> QED
      BY <3>2, <3>3
  <2> QED
    BY <1>4, <1>10, <2>2, <2>3, <2>4, <2>5 DEF Sleep
<1>11. Started("remove", t).todo = t
  BY DEF Started
<1> QED
  BY <1>10, <1>11 DEF Finds

\* The commands that remove a road take parts of its run only.
LEMMA PlanTakesOwn ==
    ASSUME Shaped, Tree, NEW road, NEW p, IsRoad(p), NEW g1 \in db, NEW g2 \in db, NEW g3 \in db,
           road.edge = p.edge, road.out = p.out, road.m = p.m, road.central = Central,
           g1.kind = "lr" /\ g1.a = p.edge /\ g1.by = p.n,
           g2.kind = "ls" /\ g2.a = p.out /\ g2.by = p.n,
           g3.kind = "ls" /\ g3.a = p.m /\ g3.by = p.n,
           NEW route \in Named(db, "lsr", road.central, road.m),
           NEW w \in BOOLEAN, NEW t, IsRemovePlan(t, w, road, route),
           NEW e \in db, NEW i \in 1..Len(t), Takes(t[i], e)
    PROVE  e.by = p.n
<1> DEFINE k == IF w THEN 2 ELSE 1
           Name(kind, a) == <<kind, a, NoName, NoIp>>
<1>1. /\ Len(t) = k + 4
      /\ t[1] = Del({<<"lrp", Central, p.m, NoIp>>}, FALSE) /\ (w => t[2] = Sleep)
      /\ t[k + 1] = Del({Key(route)}, FALSE)
      /\ t[k + 2] = Del({Name("lr", p.edge)}, TRUE)
      /\ t[k + 3] = Del({Name("ls", p.m)}, TRUE) /\ t[k + 4] = Del({Name("ls", p.out)}, TRUE)
  BY DEF IsRemovePlan, _cmd_del_lrp, _cmd_del_lsr, _cmd_del_lr, _cmd_del_ls
<1>2. k \in 1..2 /\ (~w => k = 1) /\ (w => k = 2)
  OBVIOUS
<1> HIDE DEF k
<1>3. i = 1 \/ t[i] = Sleep \/ i \in {k + 1, k + 2, k + 3, k + 4}
  BY <1>1, <1>2
<1>4. p.edge # Central
  BY NamesApart
<1>5. route \in db /\ route.kind = "lsr" /\ route.a = Central /\ route.b = p.m
  BY DEF Named
<1>6. e.kind \in Kinds
  BY NamesByKind, InAll
<1>7. /\ \A x : Takes(Del({x}, TRUE), e) => Key(e) = x \/ x \in Parents(e)
      /\ \A x : Takes(Del({x}, FALSE), e) => Key(e) = x
      /\ ~Takes(Sleep, e)
  BY DEF Takes, Del, Sleep
<1>8. /\ e.kind = "lsp" => Parents(e) = {Name("ls", e.a)}
      /\ e.kind \in {"lrp", "lsr"} => Parents(e) = {Name("lr", e.a)}
      /\ e.kind \in {"ls", "lr"} => Parents(e) = {}
  BY DEF Parents
<1>9. Key(e)[1] = e.kind /\ Key(e)[2] = e.a /\ Key(e)[3] = e.b
  BY DEF Key
<1>10. ASSUME NEW a \in {p.m, p.out}, Key(e) = Name("ls", a) \/ Name("ls", a) \in Parents(e)
       PROVE  e.by = p.n
  <2>1. e.kind \in {"ls", "lsp"} /\ e.a = a
    BY <1>6, <1>8, <1>9, <1>10 DEF Kinds
  <2> QED
    BY <2>1, OneOwner, AboutSwitch
<1>11. ASSUME Key(e) = Name("lr", p.edge) \/ Name("lr", p.edge) \in Parents(e)
       PROVE  e.by = p.n
  <2>1. e.kind \in {"lr", "lrp", "lsr"} /\ e.a = p.edge
    BY <1>6, <1>8, <1>9, <1>11 DEF Kinds
  <2> QED
    BY <1>4, <2>1, OneOwner, AboutEdge
<1>12. ASSUME Key(e) = <<"lrp", Central, p.m, NoIp>> \/ Key(e) = Key(route)
       PROVE  e.by = p.n
  <2>1. e.kind \in {"lrp", "lsr"} /\ e.b = p.m
    BY <1>5, <1>9, <1>12, KeyNames
  <2> QED
    BY <2>1, AboutSwitch
<1>13. CASE i = 1 \/ i = k + 1
  <2>1. \/ Takes(Del({<<"lrp", Central, p.m, NoIp>>}, FALSE), e)
        \/ Takes(Del({Key(route)}, FALSE), e)
    <3> HIDE DEF Name
    <3> QED
      BY <1>1, <1>13
  <2> QED
    BY <1>7, <1>12, <2>1, Zenon
<1>14. CASE i = k + 2
  <2>1. Takes(Del({Name("lr", p.edge)}, TRUE), e)
    <3> HIDE DEF Name
    <3> QED
      BY <1>1, <1>14
  <2> QED
    BY <1>7, <1>11, <2>1, Zenon
<1>15. CASE i \in {k + 3, k + 4}
  <2>1. \E a \in {p.m, p.out} : Takes(Del({Name("ls", a)}, TRUE), e)
    <3> HIDE DEF Name
    <3> QED
      BY <1>1, <1>15
  <2> QED
    BY <1>7, <1>10, <2>1, Zenon
<1>16. CASE t[i] = Sleep
  BY <1>7, <1>16, Zenon
<1> QED
  BY <1>3, <1>13, <1>14, <1>15, <1>16

\* Those commands take all of the road's run, and nothing of any other run.
Clears(t) ==
    \E n \in 1..count :
        /\ Leaving(Started("remove", t), n)
        /\ \A e \in db : e.by # n => \A i \in 1..Len(t) : ~Takes(t[i], e)

LEMMA RemovePlanLeaves ==
    ASSUME Shaped, Tree, All = db, NEW road \in dl_ecmp_road(db),
           NEW route \in Named(db, "lsr", road.central, road.m),
           NEW w \in BOOLEAN, NEW t, IsRemovePlan(t, w, road, route)
    PROVE  Clears(t)
<1> DEFINE k == IF w THEN 2 ELSE 1
           Name(kind, a) == <<kind, a, NoName, NoIp>>
<1>1. PICK p :
        /\ IsRoad(p) /\ p.n \in 1..count /\ Own(p.n) \subseteq RoadOf(p)
        /\ road.edge = p.edge /\ road.out = p.out /\ road.m = p.m /\ road.central = Central
        /\ \E g \in db : g.kind = "lr" /\ g.a = p.edge /\ g.by = p.n
        /\ \E g \in db : g.kind = "ls" /\ g.a = p.out /\ g.by = p.n
        /\ \E g \in db : g.kind = "ls" /\ g.a = p.m /\ g.by = p.n
  BY RoadOfOne
<1>2. /\ Len(t) = k + 4
      /\ t[1] = Del({<<"lrp", Central, p.m, NoIp>>}, FALSE) /\ (w => t[2] = Sleep)
      /\ t[k + 1] = Del({Key(route)}, FALSE)
      /\ t[k + 2] = Del({Name("lr", p.edge)}, TRUE)
      /\ t[k + 3] = Del({Name("ls", p.m)}, TRUE) /\ t[k + 4] = Del({Name("ls", p.out)}, TRUE)
  BY <1>1 DEF IsRemovePlan, _cmd_del_lrp, _cmd_del_lsr, _cmd_del_lr, _cmd_del_ls
<1>3. k \in 1..2 /\ (~w => k = 1) /\ (w => k = 2)
  OBVIOUS
<1> HIDE DEF k
<1>4. \A i \in 1..Len(t) : i = 1 \/ t[i] = Sleep \/ i \in {k + 1, k + 2, k + 3, k + 4}
  BY <1>2, <1>3
<1>5. /\ p.out \notin {p.edge, p.m, Central, NoName}
      /\ p.edge \notin {p.out, p.m, Central, NoName}
      /\ p.m \notin {p.out, p.edge, Central, NoName}
  BY <1>1, NamesApart
<1>6. route \in db /\ route.kind = "lsr" /\ route.a = Central /\ route.b = p.m
  BY <1>1 DEF Named
<1>7. Len(t) \in Nat /\ {1, k + 1, k + 2, k + 3, k + 4} \subseteq 1..Len(t)
  BY <1>2, <1>3
<1>8. \A e, x, y : e.kind \in Kinds =>
        /\ Key(e) = x => Takes(Del({x}, y), e)
        /\ Parents(e) = {x} => Takes(Del({x}, TRUE), e)
        /\ Takes(Del({x}, y), e) => Key(e) = x \/ x \in Parents(e)
        /\ ~Takes(Sleep, e)
        /\ Takes(Del({x}, FALSE), e) => Key(e) = x
  BY DEF Takes, Del, Sleep
<1>9. ASSUME NEW e, e.kind \in Kinds
       PROVE  /\ Parents(e) = {Name("lr", p.edge)} => Takes(t[k + 2], e)
              /\ Parents(e) = {Name("ls", p.m)} => Takes(t[k + 3], e)
              /\ Parents(e) = {Name("ls", p.out)} => Takes(t[k + 4], e)
  <2>1. \A x : Parents(e) = {x} => Takes(Del({x}, TRUE), e)
    BY <1>8, <1>9
  <2>2. Parents(e) = {Name("lr", p.edge)} => Takes(t[k + 2], e)
    BY <1>2, <2>1
  <2>3. Parents(e) = {Name("ls", p.m)} => Takes(t[k + 3], e)
    BY <1>2, <2>1
  <2>4. Parents(e) = {Name("ls", p.out)} => Takes(t[k + 4], e)
    BY <1>2, <2>1
  <2> QED
    BY <2>2, <2>3, <2>4
<1>10. ASSUME NEW e \in Own(p.n)
      PROVE  \E i \in 1..Len(t) : Takes(t[i], e)
  <2>1. e \in RoadOf(p) /\ e \in db
    BY <1>1 DEF Own
  <2>2. e.kind \in Kinds
    BY <2>1, NamesByKind, InAll
  <2>3. CASE e.kind = "lr"
    <3>1. Key(e) = Name("lr", p.edge)
      BY <1>1, <2>1, <2>3, PartOfRoad DEF Key
    <3> QED
      BY <1>2, <1>7, <1>8, <2>2, <3>1
  <2>4. CASE e.kind = "ls"
    <3>1. Key(e) = Name("ls", p.out) \/ Key(e) = Name("ls", p.m)
      BY <1>1, <2>1, <2>4, PartOfRoad DEF Key
    <3> QED
      BY <1>2, <1>7, <1>8, <2>2, <3>1
  <2>5. CASE e.kind = "lsp"
    <3>1. Parents(e) = {Name("ls", p.out)} \/ Parents(e) = {Name("ls", p.m)}
      BY <1>1, <2>1, <2>5, PartOfRoad DEF Parents
    <3> QED
      BY <1>7, <1>9, <2>2, <3>1
  <2>6. CASE e.kind \in {"lrp", "lsr"} /\ e.a = p.edge
    <3>1. Parents(e) = {Name("lr", p.edge)}
      BY <2>6 DEF Parents
    <3> QED
      BY <1>7, <1>9, <2>2, <3>1
  <2>7. CASE e.kind = "lrp" /\ e.a # p.edge
    <3>1. Key(e) = <<"lrp", Central, p.m, NoIp>>
      BY <1>1, <2>1, <2>7, PartOfRoad DEF Key
    <3> QED
      BY <1>2, <1>7, <1>8, <2>2, <3>1
  <2>8. CASE e.kind = "lsr" /\ e.a # p.edge
    <3>1. e.a = Central /\ e.b = p.m
      BY <1>1, <2>1, <2>8, PartOfRoad
    <3>2. e = route
      BY <1>6, <2>1, <2>8, <3>1, NamedOnce
    <3> QED
      BY <1>2, <1>7, <1>8, <2>2, <3>2
  <2> QED
    BY <2>2, <2>3, <2>4, <2>5, <2>6, <2>7, <2>8 DEF Kinds
<1>11. ASSUME NEW e \in db, NEW i \in 1..Len(t), Takes(t[i], e)
       PROVE  e.by = p.n
  BY <1>1, <1>11, PlanTakesOwn
<1>12. Started("remove", t).todo = t
  BY DEF Started
<1>13. Leaving(Started("remove", t), p.n)
  BY <1>10, <1>12 DEF Leaving
<1> QED
  BY <1>1, <1>11, <1>13 DEF Clears

LEMMA SoloRemoval ==
    ASSUME Types, Sound, NEW c \in Chassis, op[c] = Idle, NEW road \in dl_ecmp_road(db),
           NEW route \in Named(db, "lsr", road.central, road.m), NEW w \in BOOLEAN,
           NEW t, t = _remove_ecmp_road(w, road, route),
           Begin(c, "remove", t), Types', overlap' = "none"
    PROVE  Solo'
<1> DEFINE o == Started("remove", t)
<1>1. IsRemovePlan(t, w, road, route)
  BY RemovePlan
<1>2. ToAdd(o) = {} /\ Finds(o, db)
  BY <1>1, RemovePlanTyped, RemovePlanFinds DEF Sound
<1>3. /\ op'[c] = o /\ \A d \in Chassis : d # c => op'[d] = op[d]
      /\ overlap' = Overlapped(c, "remove") /\ db' = db
  BY BeginEffect
<1> HIDE DEF o
<1>4. MeetsNone(o, db') /\ Finds(o, db')
  BY <1>2, <1>3 DEF MeetsNone
<1>5. \A d \in Chassis : d # c => op'[d].kind = "none" /\ JobOK(op'[d])
  BY <1>3, OverlapEffect DEF Types
<1> QED
  BY <1>3, <1>4, <1>5, SoloOfOne

LEMMA SoloEnd ==
    ASSUME Types, Solo, NEW c \in Chassis, op' = [op EXCEPT ![c] = Idle], db' = db
    PROVE  Solo'
<1>1. op'[c] = Idle /\ \A d \in Chassis : d # c => op'[d] = op[d]
  BY DEF Types
<1>2. Idle.kind = "none" /\ ToAdd(Idle) = {} /\ 1..Len(Idle.todo) = {}
  BY IdleJob DEF Idle
<1>3. MeetsNone(Idle, db) /\ Finds(Idle, db)
  BY <1>2 DEF MeetsNone, Finds
<1>4. \A d \in Chassis : MeetsNone(op'[d], db') /\ Finds(op'[d], db')
  BY <1>1, <1>3 DEF Solo
<1>5. \A d, b \in Chassis : d # b => "none" \in {op'[d].kind, op'[b].kind}
  BY <1>1, <1>2 DEF Solo
<1> QED
  BY <1>4, <1>5 DEF Solo

LEMMA SoloSame ==
    ASSUME Solo,
           \A d \in Chassis : /\ op'[d].todo = op[d].todo /\ op'[d].kind = op[d].kind
                              /\ ToAdd(op'[d]) = ToAdd(op[d]),
           db' = db
    PROVE  Solo'
<1>1. ASSUME NEW o, NEW r, r.todo = o.todo, ToAdd(r) = ToAdd(o)
      PROVE  (MeetsNone(o, db) => MeetsNone(r, db)) /\ (Finds(o, db) => Finds(r, db))
  <2>1. MeetsNone(o, db) => MeetsNone(r, db)
    BY <1>1 DEF MeetsNone
  <2>2. Finds(o, db) => Finds(r, db)
    <3> DEFINE Found(todo) ==
            \A i \in 1..Len(todo) : todo[i].verb = "del" =>
                \A k \in todo[i].what : \E e \in db :
                    Key(e) = k /\ \A j \in 1..(i - 1) : ~Takes(todo[j], e)
    <3>1. Finds(o, db) = Found(o.todo) /\ Finds(r, db) = Found(r.todo)
      BY DEF Finds
    <3> HIDE DEF Found
    <3> QED
      BY <1>1, <3>1
  <2> QED
    BY <2>1, <2>2
<1>2. \A d \in Chassis : MeetsNone(op'[d], db) /\ Finds(op'[d], db)
  BY <1>1 DEF Solo
<1>3. \A d, b \in Chassis : d # b => "none" \in {op'[d].kind, op'[b].kind}
  BY DEF Solo
<1> QED
  BY <1>2, <1>3 DEF Solo

------------------------------------------------------------------------------
(***************************************************************************)
(* Without kills either: a run leaves all of its road, or nothing.         *)
(***************************************************************************)

LEMMA WholeInit == Init => Undisturbed
<1> SUFFICES ASSUME Init PROVE Undisturbed
  OBVIOUS
<1>1. \A c \in Chassis : op[c].kind = "none"
  BY DEF Init, Idle
<1>2. 1..count = {}
  BY DEF Init
<1> QED
  BY <1>1, <1>2 DEF Undisturbed

LEMMA WholeSame ==
    ASSUME NEW n, Own(n)' = Own(n), Whole(n)
    PROVE  Whole(n)'
<1>1. CASE Own(n) = {}
  BY <1>1 DEF Whole
<1>2. CASE \E p : p.n = n /\ IsRoad(p) /\ Own(n) = RoadOf(p)
  BY <1>2 DEF Whole
<1> QED
  BY <1>1, <1>2 DEF Whole

\* The only run under way has all that is on its way.
LEMMA AllOfOne ==
    ASSUME Types, NEW c \in Chassis, \A d \in Chassis : d # c => op[d].kind = "none"
    PROVE  All = db \cup ToAdd(op[c])
<1>1. \A d \in Chassis : d # c => ToAdd(op[d]) = {}
  BY NothingToAdd
<1> QED
  BY <1>1 DEF All

LEMMA WholeAdvance ==
    ASSUME Types, Solo, Undisturbed, NEW c \in Chassis, op[c].todo # <<>>,
           op[c].kind # "remove", op' = [op EXCEPT ![c] = Rest(op[c])],
           db' = db \cup Adding(op[c].todo[1]), count' = count, Types'
    PROVE  Undisturbed'
<1> DEFINE r == Rest(op[c])
<1>1. JobOK(op[c]) /\ op = [d \in Chassis |-> op[d]]
  BY DEF Types
<1>2. op'[c] = r /\ \A d \in Chassis : d # c => op'[d] = op[d]
  BY <1>1
<1>3. /\ ToAdd(op[c]) = Adding(op[c].todo[1]) \cup ToAdd(r)
      /\ \/ r = Idle /\ Len(r.todo) = 0
         \/ r.kind = op[c].kind /\ r.begun /\ Len(r.todo) # 0
  BY <1>1, RestOfJob DEF IsRest
<1> HIDE DEF r
<1>4. op[c].kind # "none" /\ Idle.kind = "none"
  BY <1>1 DEF JobOK, Idle
<1>5. \A d \in Chassis : d # c => op[d].kind = "none" /\ op'[d].kind = "none"
  BY <1>2, <1>4 DEF Solo
<1>6. All = db \cup ToAdd(op[c])
  BY <1>5, AllOfOne
<1>7. All' = db' \cup ToAdd(op'[c])
  <2>1. \A d \in Chassis : d # c => ToAdd(op'[d]) = {}
    BY <1>2, <1>5, NothingToAdd
  <2>2. All' = db' \cup UNION {ToAdd(op'[d]) : d \in Chassis}
    BY DEF All, ToAdd
  <2> QED
    BY <2>1, <2>2
<1>8. All' = All
  BY <1>2, <1>3, <1>6, <1>7
<1>9. \A n : Own(n)' = Own(n)
  BY <1>8 DEF Own
<1>10. \A d \in Chassis : op[d].kind # "remove" /\ op'[d].kind # "remove"
  BY <1>2, <1>3, <1>4, <1>5
<1>11. \A n \in 1..count : Whole(n)
  BY <1>10 DEF Undisturbed
<1>12. \A n \in 1..count : Whole(n)'
  BY <1>9, <1>11, WholeSame
<1> QED
  BY <1>10, <1>12 DEF Undisturbed

\* What a removal takes goes away; when it has no command left, all has gone.
LEMMA WholeRemove ==
    ASSUME Types, Solo, Undisturbed, NEW c \in Chassis, op[c].todo # <<>>,
           op[c].kind = "remove", op' = [op EXCEPT ![c] = Rest(op[c])],
           db' = {e \in db : ~Takes(op[c].todo[1], e)}, count' = count
    PROVE  Undisturbed'
<1> DEFINE todo == op[c].todo
           r == Rest(op[c])
<1>1. JobOK(op[c]) /\ op = [d \in Chassis |-> op[d]]
  BY DEF Types
<1>2. op'[c] = r /\ \A d \in Chassis : d # c => op'[d] = op[d]
  BY <1>1
<1>3. /\ Len(r.todo) = Len(todo) - 1
      /\ \A i \in 1..Len(r.todo) : r.todo[i] = todo[i + 1]
      /\ ToAdd(op[c]) = Adding(todo[1]) \cup ToAdd(r)
      /\ \/ r = Idle /\ Len(r.todo) = 0
         \/ r.kind = op[c].kind /\ r.begun /\ Len(r.todo) # 0
  BY <1>1, RestOfJob DEF IsRest
<1>4. Len(todo) \in Nat /\ 1 \in 1..Len(todo)
  BY <1>1, JobLength
<1>5. \A d \in Chassis : d # c => op[d].kind = "none" /\ op'[d].kind = "none"
  BY <1>2 DEF Solo
<1>6. \A d \in Chassis : ToAdd(op[d]) = {} /\ ToAdd(op'[d]) = {}
  BY <1>2, <1>3, <1>5, NothingToAdd
<1>7. All = db
  BY <1>6 DEF All
<1>8. All' = db'
  <2>1. All' = db' \cup UNION {ToAdd(op'[d]) : d \in Chassis}
    BY DEF All, ToAdd
  <2> QED
    BY <1>6, <2>1
<1>9. PICK n \in 1..count :
        /\ Leaving(op[c], n)
        /\ \A e \in db : e.by # n => \A i \in 1..Len(todo) : ~Takes(todo[i], e)
  BY DEF Undisturbed
<1> HIDE DEF r
<1>10. ASSUME NEW e \in Own(n)'
       PROVE  \E i \in 1..Len(r.todo) : Takes(r.todo[i], e)
  <2>1. e \in db' /\ e \in Own(n)
    BY <1>7, <1>8 DEF Own
  <2>2. PICK i \in 1..Len(todo) : Takes(todo[i], e)
    BY <1>9, <2>1 DEF Leaving
  <2>3. i # 1
    BY <2>1, <2>2
  <2>4. i - 1 \in 1..Len(r.todo) /\ (i - 1) + 1 = i
    BY <1>3, <1>4, <2>3
  <2>5. r.todo[i - 1] = todo[i]
    BY <1>3, <2>4
  <2> QED
    BY <2>2, <2>4, <2>5
<1>11. ASSUME NEW m \in 1..count, m # n
       PROVE  Whole(m)'
  <2>1. \A e \in Own(m) : e \in db /\ \A i \in 1..Len(todo) : ~Takes(todo[i], e)
    BY <1>7, <1>9, <1>11 DEF Own
  <2>2. Own(m)' = Own(m)
    BY <1>4, <1>7, <1>8, <2>1 DEF Own
  <2>3. Whole(m)
    <3>1. CASE Whole(m)
      BY <3>1
    <3>2. CASE \E d \in Chassis : op[d].kind = "remove" /\ op[d].begun /\ Leaving(op[d], m)
      <4>1. Leaving(op[c], m)
        BY <1>5, <3>2
      <4>2. Own(m) = {}
        BY <2>1, <4>1 DEF Leaving
      <4> QED
        BY <4>2 DEF Whole
    <3> QED
      BY <3>1, <3>2 DEF Undisturbed
  <2> QED
    BY <2>2, <2>3, WholeSame
<1>12. CASE r = Idle /\ Len(r.todo) = 0
  <2>1. 1..Len(r.todo) = {}
    BY <1>12
  <2>2. Own(n)' = {}
    BY <1>10, <2>1
  <2>3. \A m \in 1..count : Whole(m)'
    BY <1>11, <2>2 DEF Whole
  <2>4. \A d \in Chassis : op'[d].kind # "remove"
    BY <1>2, <1>5, <1>12 DEF Idle
  <2> QED
    BY <2>3, <2>4 DEF Undisturbed
<1>13. CASE r.kind = op[c].kind /\ r.begun /\ Len(r.todo) # 0
  <2>1. Leaving(op[c], n)'
    BY <1>2, <1>10 DEF Leaving
  <2>2. \A i \in 1..Len(r.todo) : i + 1 \in 1..Len(todo) /\ r.todo[i] = todo[i + 1]
    BY <1>3, <1>4
  <2>3. \A e \in db' : e.by # n => \A i \in 1..Len(r.todo) : ~Takes(r.todo[i], e)
    BY <1>9, <2>2
  <2>4. \A d \in Chassis : op'[d].kind = "remove" => d = c
    BY <1>5
  <2>5. op'[c].kind = "remove" /\ op'[c].begun
    BY <1>2, <1>13
  <2>6. \A m \in 1..count :
            Whole(m)' \/ \E d \in Chassis : op'[d].kind = "remove" /\ op'[d].begun /\ Leaving(op[d], m)'
    BY <1>11, <2>1, <2>5
  <2>7. \A d \in Chassis : op'[d].kind = "remove" => \E m \in 1..count :
            /\ Leaving(op[d], m)'
            /\ \A e \in db' : e.by # m => \A i \in 1..Len(op'[d].todo) : ~Takes(op'[d].todo[i], e)
    BY <1>2, <2>1, <2>3, <2>4
  <2> QED
    BY <2>6, <2>7 DEF Undisturbed
<1> QED
  BY <1>3, <1>12, <1>13

\* A run that is called off before its first command has left nothing.
LEMMA WholeEnd ==
    ASSUME Types, Sound, Undisturbed, NEW c \in Chassis, ~op[c].begun,
           op' = [op EXCEPT ![c] = Idle], db' = db, count' = count, All' \subseteq All
    PROVE  Undisturbed'
<1>1. op'[c] = Idle /\ \A d \in Chassis : d # c => op'[d] = op[d]
  BY DEF Types
<1>2. Idle.kind = "none" /\ ToAdd(Idle) = {}
  BY IdleJob DEF Idle
<1>3. All' = db \cup UNION {ToAdd(op'[d]) : d \in Chassis}
  BY DEF All, ToAdd
<1>4. ASSUME NEW n, Own(n)' # Own(n)
      PROVE  Own(n)' = {}
  <2>1. PICK e \in All : e \notin All' /\ e.by = n
    BY <1>4 DEF Own
  <2>2. e \in ToAdd(op[c])
    <3>1. e \notin db /\ \A d \in Chassis : e \notin ToAdd(op'[d])
      BY <1>3, <2>1
    <3>2. PICK d \in Chassis : e \in ToAdd(op[d])
      BY <2>1, <3>1 DEF All
    <3> QED
      BY <1>1, <3>1, <3>2
  <2>3. \A f \in db : f.by # n
    BY <2>1, <2>2 DEF Sound, Additions, AdderOK
  <2>4. \A d \in Chassis : d # c => \A f \in ToAdd(op'[d]) : f.by # n
    BY <1>1, <2>1, <2>2 DEF Sound, Additions
  <2>5. \A f \in All' : f.by # n
    BY <1>1, <1>2, <1>3, <2>3, <2>4
  <2> QED
    BY <2>5 DEF Own
<1>5. ASSUME NEW n, Whole(n)
      PROVE  Whole(n)'
  <2>1. CASE Own(n)' = Own(n)
    BY <1>5, <2>1, WholeSame
  <2>2. CASE Own(n)' # Own(n)
    BY <1>4, <2>2 DEF Whole
  <2> QED
    BY <2>1, <2>2
<1>6. ASSUME NEW n, NEW d \in Chassis, d # c, Leaving(op[d], n)
      PROVE  Leaving(op[d], n)'
  <2>1. Own(n)' \subseteq Own(n)
    BY DEF Own
  <2>2. \A e \in Own(n)' : \E i \in 1..Len(op[d].todo) : Takes(op[d].todo[i], e)
    BY <1>6, <2>1 DEF Leaving
  <2> QED
    BY <1>1, <1>6, <2>2 DEF Leaving
<1>7. \A n \in 1..count :
        Whole(n)' \/ \E d \in Chassis : op'[d].kind = "remove" /\ op'[d].begun /\ Leaving(op[d], n)'
  <2>1. TAKE n \in 1..count
  <2>2. CASE Whole(n)
    BY <1>5, <2>2
  <2>3. CASE \E d \in Chassis : op[d].kind = "remove" /\ op[d].begun /\ Leaving(op[d], n)
    <3>1. PICK d \in Chassis : op[d].kind = "remove" /\ op[d].begun /\ Leaving(op[d], n)
      BY <2>3
    <3>2. d # c /\ op'[d] = op[d]
      BY <1>1, <3>1
    <3> QED
      BY <1>6, <3>1, <3>2
  <2> QED
    BY <2>2, <2>3 DEF Undisturbed
<1>8. ASSUME NEW d \in Chassis, op'[d].kind = "remove"
      PROVE  \E n \in 1..count :
                /\ Leaving(op[d], n)'
                /\ \A e \in db : e.by # n => \A i \in 1..Len(op'[d].todo) : ~Takes(op'[d].todo[i], e)
  <2>1. d # c /\ op'[d] = op[d]
    BY <1>1, <1>2, <1>8
  <2>2. PICK n \in 1..count :
            /\ Leaving(op[d], n)
            /\ \A e \in db : e.by # n => \A i \in 1..Len(op[d].todo) : ~Takes(op[d].todo[i], e)
    BY <1>8, <2>1 DEF Undisturbed
  <2> QED
    BY <1>6, <2>1, <2>2
<1> QED
  BY <1>7, <1>8 DEF Undisturbed

LEMMA WholeWaits ==
    ASSUME Undisturbed,
           \A d \in Chassis : /\ op'[d].todo = op[d].todo /\ op'[d].kind = op[d].kind
                              /\ op'[d].begun = op[d].begun,
           db' = db, count' = count, All' = All
    PROVE  Undisturbed'
<1>1. \A n : Own(n)' = Own(n)
  BY DEF Own
<1>2. \A n : Whole(n) => Whole(n)'
  BY <1>1, WholeSame
<1>3. ASSUME NEW n, NEW d \in Chassis, Leaving(op[d], n)
      PROVE  Leaving(op[d], n)'
  <2> DEFINE Gone(todo) == \A e \in Own(n) : \E i \in 1..Len(todo) : Takes(todo[i], e)
  <2>1. Gone(op[d].todo)
    BY <1>3 DEF Leaving
  <2>2. Gone(op'[d].todo)
    <3>1. op'[d].todo = op[d].todo
      OBVIOUS
    <3> HIDE DEF Gone
    <3> QED
      BY <2>1, <3>1
  <2> QED
    BY <1>1, <2>2 DEF Leaving
<1>4. \A n \in 1..count :
        Whole(n)' \/ \E d \in Chassis : op'[d].kind = "remove" /\ op'[d].begun /\ Leaving(op[d], n)'
  BY <1>2, <1>3 DEF Undisturbed
<1>5. ASSUME NEW d \in Chassis, op'[d].kind = "remove"
      PROVE  \E n \in 1..count :
                /\ Leaving(op[d], n)'
                /\ \A e \in db : e.by # n => \A i \in 1..Len(op'[d].todo) : ~Takes(op'[d].todo[i], e)
  <2> DEFINE Spares(todo, n) == \A e \in db : e.by # n => \A i \in 1..Len(todo) : ~Takes(todo[i], e)
  <2>1. PICK n \in 1..count : Leaving(op[d], n) /\ Spares(op[d].todo, n)
    BY <1>5 DEF Undisturbed
  <2>2. Spares(op'[d].todo, n)
    <3>1. op'[d].todo = op[d].todo
      OBVIOUS
    <3> HIDE DEF Spares
    <3> QED
      BY <2>1, <3>1
  <2> QED
    BY <1>3, <2>1, <2>2
<1> QED
  BY <1>4, <1>5 DEF Undisturbed

LEMMA WholeAdd ==
    ASSUME Types, Sound, Undisturbed, NEW c \in Chassis, op[c] = Idle,
           NEW w \in BOOLEAN, NEW vip, NEW inner, NEW kind \in Adder,
           NEW t, t = _init_ecmp_road(db, w, Central, vip, inner, c, count + 1),
           Begin(c, kind, t), overlap' = "none"
    PROVE  Undisturbed'
<1> DEFINE n == count + 1
           p == NewRoad(db, c, vip, inner, n)
           o == Started(kind, t)
<1>1. /\ op'[c] = o /\ \A d \in Chassis : d # c => op'[d] = op[d]
      /\ count' = n /\ overlap' = Overlapped(c, kind)
      /\ db' = db /\ All' = All \cup ToAdd(o)
  BY BeginEffect
<1>2. IsRoad(p) /\ p.n = n /\ InParts(t, p)
  BY PlanParts
<1>3. o.todo = t /\ o.kind = kind
  BY DEF Started
<1>4. Idle.kind = "none"
  BY DEF Idle
<1> HIDE DEF p, o
<1>5. ToAdd(o) = RoadOf(p)
  BY <1>2, <1>3 DEF ToAdd, InParts
<1>6. \A e \in ToAdd(o) : e.by = n
  BY <1>2, <1>5, PartOfRoad
<1>7. count \in Nat
  BY BoundsAssumption DEF Types
<1>8. \A e \in All : e.by # n
  BY <1>7 DEF Sound, Shaped
<1>9. \A d \in Chassis : op[d].kind # "remove" /\ op'[d].kind # "remove"
  BY <1>1, <1>3, <1>4, OverlapEffect DEF Adder
<1>10. ASSUME NEW k \in 1..n
       PROVE  Whole(k)'
  <2>1. CASE k = n
    <3>1. Own(k)' = ToAdd(o)
      <4>1. \A e : e \in Own(k)' <=> e \in All' /\ e.by = k
        BY DEF Own
      <4> QED
        BY <1>1, <1>6, <1>8, <2>1, <4>1
    <3>2. \E q : q.n = k /\ IsRoad(q) /\ Own(k)' = RoadOf(q)
      BY <1>2, <1>5, <2>1, <3>1
    <3> QED
      BY <2>1, <3>2 DEF Whole
  <2>2. CASE k # n
    <3>1. k \in 1..count
      BY <1>7, <2>2
    <3>2. Own(k)' = Own(k)
      BY <1>1, <1>6, <2>2 DEF Own
    <3>3. Whole(k)
      BY <1>9, <3>1 DEF Undisturbed
    <3> QED
      BY <3>2, <3>3, WholeSame
  <2> QED
    BY <2>1, <2>2
<1> QED
  BY <1>1, <1>9, <1>10 DEF Undisturbed

LEMMA WholeRemoval ==
    ASSUME Types, Sound, Undisturbed, NEW c \in Chassis, op[c] = Idle,
           NEW road \in dl_ecmp_road(db), NEW route \in Named(db, "lsr", road.central, road.m),
           NEW w \in BOOLEAN, NEW t, t = _remove_ecmp_road(w, road, route),
           Begin(c, "remove", t), overlap' = "none"
    PROVE  Undisturbed'
<1> DEFINE o == Started("remove", t)
<1>1. IsRemovePlan(t, w, road, route)
  BY RemovePlan
<1>2. ToAdd(o) = {}
  BY <1>1, RemovePlanTyped
<1>3. /\ op'[c] = o /\ \A d \in Chassis : d # c => op'[d] = op[d]
      /\ count' = count + 1 /\ overlap' = Overlapped(c, "remove")
      /\ db' = db /\ All' = All
  BY <1>2, BeginEffect
<1>4. \A d \in Chassis : op[d].kind = "none" /\ (d # c => op'[d].kind = "none")
  BY <1>3, OverlapEffect DEF Idle
<1>5. All = db
  BY <1>4, NothingToAdd DEF All
<1>6. PICK n \in 1..count :
        Leaving(o, n) /\ \A e \in db : e.by # n => \A i \in 1..Len(t) : ~Takes(t[i], e)
  <2>1. Clears(t)
    BY <1>1, <1>5, RemovePlanLeaves DEF Sound
  <2> QED
    BY <2>1 DEF Clears
<1>7. o.todo = t
  BY DEF Started
<1> HIDE DEF o
<1>8. count \in Nat
  BY BoundsAssumption DEF Types
<1>9. \A k : Own(k)' = Own(k)
  BY <1>3 DEF Own
<1>10. ASSUME NEW k \in 1..(count + 1)
       PROVE  Whole(k)'
  <2>1. Whole(k)
    <3>1. CASE k \in 1..count
      BY <1>4, <3>1 DEF Undisturbed
    <3>2. CASE k = count + 1
      <4>1. \A e \in All : e.by # k
        BY <1>8, <3>2 DEF Sound, Shaped
      <4> QED
        BY <4>1 DEF Whole, Own
    <3> QED
      BY <1>8, <3>1, <3>2
  <2> QED
    BY <1>9, <2>1, WholeSame
<1>11. Leaving(op[c], n)'
  BY <1>3, <1>6, <1>9 DEF Leaving
<1>12. n \in 1..(count + 1)
  BY <1>8
<1>13. \A d \in Chassis : op'[d].kind = "remove" => \E k \in 1..(count + 1) :
        /\ Leaving(op[d], k)'
        /\ \A e \in db' : e.by # k => \A i \in 1..Len(op'[d].todo) : ~Takes(op'[d].todo[i], e)
  BY <1>3, <1>4, <1>6, <1>7, <1>11, <1>12
<1> QED
  BY <1>3, <1>10, <1>13 DEF Undisturbed

\* All of a road is there: dl_ecmp_road finds it.
LEMMA RoadFound ==
    ASSUME NEW p, IsRoad(p), RoadOf(p) \subseteq db, CentralRouter \in db
    PROVE  [edge |-> p.edge, at |-> p.at, out |-> p.out, m |-> p.m, central |-> Central]
                \in dl_ecmp_road(db)
<1> DEFINE k == There(db)
           r == Entity("lr", p.edge, NoName, NoIp, p.at, p.n)
           x == <<p.m, Central>>
<1>1. \A kind, a, b, ip, at : Entity(kind, a, b, ip, at, p.n) \in RoadOf(p) => <<kind, a, b>> \in k
  <2>1. \A e \in db : <<e.kind, e.a, e.b>> \in k
    BY DEF There
  <2> QED
    BY <2>1 DEF Entity
<1>2. /\ r \in RoadOf(p)
      /\ Entity("ls", p.out, NoName, NoIp, Off, p.n) \in RoadOf(p)
      /\ Entity("ls", p.m, NoName, NoIp, Off, p.n) \in RoadOf(p)
      /\ Entity("lsp", p.out, NoName, PatchIp, p.at, p.n) \in RoadOf(p)
      /\ Entity("lrp", p.edge, p.out, p.vip, Off, p.n) \in RoadOf(p)
      /\ Entity("lsp", p.out, p.edge, p.vip, Off, p.n) \in RoadOf(p)
      /\ Entity("lrp", p.edge, p.m, p.inner, Off, p.n) \in RoadOf(p)
      /\ Entity("lsp", p.m, p.edge, p.inner, Off, p.n) \in RoadOf(p)
      /\ Entity("lrp", Central, p.m, p.hop, Off, p.n) \in RoadOf(p)
      /\ Entity("lsp", p.m, Central, p.hop, Off, p.n) \in RoadOf(p)
      /\ Entity("lsr", p.edge, p.out, NoIp, Off, p.n) \in RoadOf(p)
      /\ Entity("lsr", p.edge, p.m, p.hop, Off, p.n) \in RoadOf(p)
      /\ Entity("lsr", Central, p.m, p.inner, Off, p.n) \in RoadOf(p)
  BY DEF RoadOf
<1> HIDE DEF k
<1>3. /\ <<"ls", p.out, NoName>> \in k /\ <<"ls", p.m, NoName>> \in k
      /\ <<"lsp", p.out, NoName>> \in k
      /\ <<"lsr", p.edge, p.out>> \in k /\ <<"lsr", p.edge, p.m>> \in k
      /\ <<"lsr", Central, p.m>> \in k
      /\ Linked(k, p.edge, p.out) /\ Linked(k, p.edge, p.m) /\ Linked(k, Central, p.m)
  <2>1. /\ <<"ls", p.out, NoName>> \in k /\ <<"ls", p.m, NoName>> \in k
        /\ <<"lsp", p.out, NoName>> \in k
        /\ <<"lsr", p.edge, p.out>> \in k /\ <<"lsr", p.edge, p.m>> \in k
        /\ <<"lsr", Central, p.m>> \in k
    BY <1>1, <1>2
  <2>2. /\ <<"lrp", p.edge, p.out>> \in k /\ <<"lsp", p.out, p.edge>> \in k
        /\ <<"lrp", p.edge, p.m>> \in k /\ <<"lsp", p.m, p.edge>> \in k
        /\ <<"lrp", Central, p.m>> \in k /\ <<"lsp", p.m, Central>> \in k
    BY <1>1, <1>2
  <2> QED
    BY <2>1, <2>2 DEF Linked
<1>4. r \in db /\ r.kind = "lr" /\ r.a = p.edge /\ r.at = p.at
  BY <1>2 DEF Entity
<1>5. r.at # Off
  BY <1>4, ChassisAssumption DEF IsRoad, Off
<1>6. p.out \in Switches(db) /\ p.m \in Switches(db)
  <2>1. \A e \in db : e.kind = "ls" => e.a \in Switches(db)
    BY DEF Switches
  <2> QED
    BY <1>2, <2>1 DEF Entity
<1> HIDE DEF r
<1>7. p.out \in Outsides(db, k, r)
  BY <1>3, <1>4, <1>5, <1>6 DEF Outsides, dl_edge_LR_peer_LS, dl_LS_has_patchport
<1>8. x \in Insides(db, k, r)
  <2>1. CentralRouter \in Routers(db) /\ CentralRouter.a = Central
    BY DEF Routers, CentralRouter, Entity
  <2>2. x \in Switches(db) \X {e.a : e \in Routers(db)}
    BY <1>6, <2>1
  <2>3. x[1] = p.m /\ x[2] = Central
    OBVIOUS
  <2>4. p.edge # Central
    BY NamesApart
  <2> HIDE DEF x
  <2>5. dl_edge_LR_peer_LR(k, r, x[1], x[2])
    BY <1>3, <1>4, <1>5, <2>3, <2>4 DEF dl_edge_LR_peer_LR, dl_edge_LR_peer_LS
  <2> QED
    BY <1>3, <1>4, <2>2, <2>3, <2>5 DEF Insides
<1>9. r \in {e \in Routers(db) : e.at # Off}
  BY <1>4, <1>5 DEF Routers
<1> DEFINE Roads(e) == {[edge |-> e.a, at |-> e.at, out |-> out, m |-> t[1], central |-> t[2]] :
                            out \in Outsides(db, k, e), t \in Insides(db, k, e)}
<1>10. [edge |-> p.edge, at |-> p.at, out |-> p.out, m |-> p.m, central |-> Central] \in Roads(r)
  <2>1. x[1] = p.m /\ x[2] = Central
    OBVIOUS
  <2> HIDE DEF x
  <2> QED
    BY <1>4, <1>7, <1>8, <2>1
<1>11. dl_ecmp_road(db) = UNION {Roads(e) : e \in {e \in Routers(db) : e.at # Off}}
  BY DEF dl_ecmp_road, k
<1> HIDE DEF Roads
<1> QED
  BY <1>9, <1>10, <1>11

\* So nothing but roads is there when all runs have ended.
LEMMA LeftInRoads ==
    ASSUME Types, Sound, Undisturbed, \A c \in Chassis : op[c] = Idle,
           NEW e \in db, e # CentralRouter
    PROVE  \E r \in dl_ecmp_road(db) : {e.a, e.b} \cap {r.edge, r.out, r.m} # {}
<1>1. Idle.kind = "none"
  BY DEF Idle
<1>2. All = db
  BY <1>1, NothingToAdd DEF All
<1>3. e.by \in 1..count
  BY Owner, InAll DEF Sound
<1>4. Whole(e.by)
  BY <1>1, <1>3 DEF Undisturbed
<1>5. e \in Own(e.by)
  BY InAll DEF Own
<1>6. PICK p : IsRoad(p) /\ Own(e.by) = RoadOf(p)
  BY <1>4, <1>5 DEF Whole
<1>7. RoadOf(p) \subseteq db
  BY <1>2, <1>6 DEF Own
<1> DEFINE r == [edge |-> p.edge, at |-> p.at, out |-> p.out, m |-> p.m, central |-> Central]
<1>8. r \in dl_ecmp_road(db)
  BY <1>6, <1>7, RoadFound DEF Sound, Tree
<1>9. {e.a, e.b} \cap {p.edge, p.out, p.m} # {}
  <2>1. e \in RoadOf(p)
    BY <1>5, <1>6
  <2> QED
    BY <1>6, <2>1, PartOfRoad DEF Kinds
<1> QED
  BY <1>8, <1>9

------------------------------------------------------------------------------
(***************************************************************************)
(* The invariant and what follows.                                         *)
(***************************************************************************)

\* The actions, one by one, of a run without company.
LEMMA AloneNext ==
    ASSUME IInv, Next, Types', overlap' = "none"
    PROVE  Solo' /\ (stopped' = 0 => Undisturbed')
<1>1. PICK c \in Chassis :
        \/ init_ecmp_road(c) \/ add_ecmp_road(c) \/ remove_ecmp_road(c)
        \/ tpctl_execute(c) \/ Fail(c) \/ Slept(c) \/ Stop(c) \/ Apply(c)
  BY DEF Next
<1>0. Types /\ (overlap = "none" => Sound /\ Solo /\ (stopped = 0 => Undisturbed))
  BY DEF IInv
<1>2. CASE init_ecmp_road(c) \/ add_ecmp_road(c)
  <2>1. PICK vip \in Vips : \E inner \in 1..Hosts \cup Vips : \E w \in BOOLEAN : \E kind \in Adder :
            \E cen :
            /\ op[c] = Idle /\ IsCentral(cen)
            /\ Begin(c, kind, _init_ecmp_road(db, w, cen, vip, inner, c, count + 1))
    BY <1>0, <1>2, AddBegins
  <2>2. PICK inner \in 1..Hosts \cup Vips, w \in BOOLEAN, kind \in Adder : \E cen :
            /\ op[c] = Idle /\ IsCentral(cen)
            /\ Begin(c, kind, _init_ecmp_road(db, w, cen, vip, inner, c, count + 1))
    BY <2>1
  <2>3. PICK cen :
            /\ op[c] = Idle /\ IsCentral(cen)
            /\ Begin(c, kind, _init_ecmp_road(db, w, cen, vip, inner, c, count + 1))
    BY <2>2
  <2>4. overlap = "none" /\ stopped' = stopped
    BY <2>3, OverlapEffect DEF Begin
  <2>5. cen = Central
    BY <1>0, <2>3, <2>4, CentralFound
  <2> DEFINE t == _init_ecmp_road(db, w, Central, vip, inner, c, count + 1)
  <2>6. Begin(c, kind, t)
    BY <2>3, <2>5
  <2>7. t = _init_ecmp_road(db, w, Central, vip, inner, c, count + 1)
    OBVIOUS
  <2> HIDE DEF t
  <2> QED
    BY <1>0, <2>3, <2>4, <2>6, <2>7, SoloAdd, WholeAdd
<1>3. CASE remove_ecmp_road(c)
  <2>1. PICK road \in dl_ecmp_road(db) : \E route \in Named(db, "lsr", road.central, road.m) :
            \E w \in BOOLEAN :
            /\ op[c] = Idle
            /\ Begin(c, "remove", _remove_ecmp_road(w, road, route))
    BY <1>3, RemoveBegins
  <2>2. PICK route \in Named(db, "lsr", road.central, road.m), w \in BOOLEAN :
            /\ op[c] = Idle
            /\ Begin(c, "remove", _remove_ecmp_road(w, road, route))
    BY <2>1
  <2>3. overlap = "none" /\ stopped' = stopped
    BY <2>2, OverlapEffect DEF Begin
  <2> QED
    BY <1>0, <2>2, <2>3, SoloRemoval, WholeRemoval
<1>4. CASE tpctl_execute(c)
  <2>1. /\ op[c].todo # <<>> /\ op' = [op EXCEPT ![c] = Rest(op[c])]
        /\ UNCHANGED <<view, count, stopped, overlap>>
    BY <1>0, <1>4, ExecEffect
  <2>2. CASE op[c].kind # "remove"
    <3>1. db' = db \cup Adding(op[c].todo[1])
      BY <1>0, <1>4, <2>2, ExecEffect
    <3> QED
      BY <1>0, <2>1, <2>2, <3>1, SoloAdvance, WholeAdvance
  <2>3. CASE op[c].kind = "remove"
    <3>1. db' = {e \in db : ~Takes(op[c].todo[1], e)}
      BY <1>0, <1>4, <2>3, ExecEffect
    <3> QED
      BY <1>0, <2>1, <2>3, <3>1, SoloRemove, WholeRemove
  <2> QED
    BY <2>2, <2>3
<1>5. CASE Slept(c)
  <2>1. /\ op[c].todo # <<>> /\ op' = [op EXCEPT ![c] = Rest(op[c])]
        /\ UNCHANGED <<db, view, count, stopped, overlap>>
        /\ Adding(op[c].todo[1]) = {} /\ op[c].todo[1].verb = "sleep"
    BY <1>0, <1>5, SleptEffect
  <2>2. CASE op[c].kind # "remove"
    <3>1. db' = db \cup Adding(op[c].todo[1])
      BY <2>1
    <3> QED
      BY <1>0, <2>1, <2>2, <3>1, SoloAdvance, WholeAdvance
  <2>3. CASE op[c].kind = "remove"
    <3>1. db' = {e \in db : ~Takes(op[c].todo[1], e)}
      BY <2>1 DEF Takes
    <3> QED
      BY <1>0, <2>1, <2>3, <3>1, SoloRemove, WholeRemove
  <2> QED
    BY <2>2, <2>3
\* No command fails here, and who stops after the first one counts as killed.
<1>6. CASE Fail(c)
  <2>1. overlap = "none" /\ Refused(c)
    BY <1>6 DEF Fail
  <2> QED
    BY <1>0, <2>1, SoloAccepted
<1>7. CASE Stop(c)
  <2>1. /\ op' = [op EXCEPT ![c] = Idle] /\ UNCHANGED <<db, view, count, overlap>>
        /\ All' \subseteq All
    BY <1>0, <1>7, EndEffect
  <2>2. Solo'
    BY <1>0, <2>1, SoloEnd
  <2>3. ASSUME stopped' = 0
        PROVE  stopped = 0 /\ ~op[c].begun
    BY <1>0, <1>7, <2>3, BoundsAssumption DEF Stop, Types
  <2>4. stopped' = 0 => Undisturbed'
    BY <1>0, <2>1, <2>3, WholeEnd
  <2> QED
    BY <2>2, <2>4
<1>8. CASE Apply(c)
  <2>1. /\ \A d \in Chassis : /\ op'[d].todo = op[d].todo /\ op'[d].kind = op[d].kind
                              /\ op'[d].begun = op[d].begun /\ ToAdd(op'[d]) = ToAdd(op[d])
        /\ UNCHANGED <<db, count, stopped, overlap>> /\ All' = All
    BY <1>0, <1>8, ApplyEffect
  <2>2. Solo'
    BY <1>0, <2>1, SoloSame
  <2>3. stopped' = 0 => Undisturbed'
    BY <1>0, <2>1, WholeWaits
  <2> QED
    BY <2>2, <2>3
<1> QED
  BY <1>1, <1>2, <1>3, <1>4, <1>5, <1>6, <1>7, <1>8

LEMMA Inductive == Spec => []IInv
<1>1. Init => IInv
  BY TypesInit, SoundInit, SoloInit, WholeInit DEF IInv
<1>2. IInv /\ [Next]_vars => IInv'
  <2> SUFFICES ASSUME IInv, [Next]_vars PROVE IInv'
    OBVIOUS
  <2>1. CASE Next
    <3>1. Types'
      BY <2>1, TypesNext DEF IInv
    <3>2. overlap' # "removes" => Sound'
      BY <2>1, SoundNext DEF IInv
    <3> QED
      BY <2>1, <3>1, <3>2, AloneNext DEF IInv
  <2>2. CASE UNCHANGED vars
    <3>1. All' = All /\ \A n : Own(n)' = Own(n)
      BY <2>2 DEF vars, All, ToAdd, Own
    <3>2. Types' = Types
      BY <2>2, <3>1 DEF vars, Types, JobOK
    <3>3. Sound' = Sound
      BY <2>2, <3>1 DEF vars, Sound, Shaped, Own, Tree, Additions, Removals
    <3>4. Solo' = Solo
      BY <2>2 DEF vars, Solo
    <3>5. Undisturbed' = Undisturbed
      BY <2>2, <3>1, ZenonT(30) DEF vars, Undisturbed, Whole, Leaving
    <3> QED
      BY <2>2, <3>2, <3>3, <3>4, <3>5 DEF vars, IInv
  <2> QED
    BY <2>1, <2>2
<1> QED
  BY <1>1, <1>2, PTL DEF Spec

\* RoadsOfOneRun: while no removal runs beside another run, all that is about
\* the switches and the edge of a road is of one run of the tool: the second
\* run to use a name is refused by tpctl (Accepts) and stops, whatever other
\* runs and killed ones have left.
THEOREM OneRunPerRoad == Spec => []RoadsOfOneRun
<1>1. IInv => RoadsOfOneRun
  <2> SUFFICES ASSUME Types, Sound, NEW r \in dl_ecmp_road(db)
               PROVE  \E n \in 0..MaxOps :
                        \A e \in db : (e.a \in {r.edge, r.out, r.m} \/ e.b = r.m) => e.by = n
    BY DEF RoadsOfOneRun, IInv
  <2>1. \E n \in 1..count : \A e \in db : (e.a \in {r.edge, r.out, r.m} \/ e.b = r.m) => e.by = n
    BY RoadsApart DEF Sound
  <2>2. 1..count \subseteq 0..MaxOps
    BY BoundsAssumption DEF Types
  <2> QED
    BY <2>1, <2>2
<1> QED
  BY <1>1, Inductive, PTL

\* NeverRefused: a run that has the tree for itself finds each name free that it
\* took for free in its snapshot, each parent there and each thing it deletes
\* still there, whatever runs that were killed have left: tpctl accepts all of
\* its commands (ecmp_execute_cmds).
THEOREM AloneAccepted == Spec => []NeverRefused
<1>1. IInv => NeverRefused
  BY SoloAccepted DEF IInv, NeverRefused
<1> QED
  BY <1>1, Inductive, PTL

\* NothingLeft: runs that had the tree for themselves and were not killed leave
\* whole roads and nothing else: what _remove_ecmp_road deletes is all that
\* _init_ecmp_road has added.
THEOREM RoadsOnly == Spec => []NothingLeft
<1>1. IInv => NothingLeft
  <2> SUFFICES ASSUME Types, Sound, Undisturbed, \A c \in Chassis : op[c] = Idle, NEW e \in db,
                      ~(e.a = Central /\ e.kind = "lr")
               PROVE  \E r \in dl_ecmp_road(db) : {e.a, e.b} \cap {r.edge, r.out, r.m} # {}
    BY DEF NothingLeft, IInv
  <2>1. e # CentralRouter
    BY DEF CentralRouter, Entity
  <2> QED
    BY <2>1, LeftInRoads
<1> QED
  BY <1>1, Inductive, PTL

==============================================================================

------------------------------ MODULE FlowSync ------------------------------
(***************************************************************************)
(* How the entity zoo of an agent becomes OpenFlow rules.                  *)
(*                                                                         *)
(* lcp/logicalview.py (LogicalEntityZoo) keeps the live entities and, in   *)
(* a sink, the ones that went away; lcp/tuplesync.py (update_ovs_side)     *)
(* derives the rules to add and to delete from the state of the entities,  *)
(* sweeps the zoo, and commits the rules with lcp/commit_ovs.py.  Three    *)
(* threads work on the zoo: main applies what it read from etcd, ovsdb     *)
(* applies the ports of Open vSwitch, pkt (lcp/state_update.py) touches    *)
(* the entities that a packet asked for; main and pkt both derive and      *)
(* commit rules.                                                           *)
(*                                                                         *)
(* Data abstraction.  A rule joins a logical port, the chassis it is on    *)
(* and the tunnel port to the chassis (remote_lsp); its match is the value *)
(* of the logical port, its action the value of the tunnel port.           *)
(***************************************************************************)
EXTENDS Naturals

CONSTANTS
    Lsps,        \* logical switch ports
    Addrs,       \* their values: what rules match on, unique in the zoo
    Ofports,     \* values of the tunnel port
    OnDemand,    \* the ONDEMAND option: remote entities need a touch
    MaxOps,      \* bound: changes to the zoo
    MaxTouches   \* bound: packets that ask for an entity

ASSUME OptionAssumption == OnDemand \in BOOLEAN

VARIABLES
    live,      \* entity_set
    sink,      \* entity_sink_set: the entities with a clause, all State_DEL
    dirty,     \* zoo_ver # prev_zoo_ver
    hadClean,  \* had_clean_ovs_flows
    flows,     \* the rules of br-int: match -> action
    pc,        \* where each thread is
    fresh,     \* the entity a thread has inserted and not yet populated
    job,       \* the rules a thread has derived and not yet committed
    older,     \* bookkeeping: the thread whose job is the oldest, or "none"
    ops, touches,
    lostBy     \* the windows of the code through which rules got lost

vars == <<live, sink, dirty, hadClean, flows, pc, fresh, job, older, ops,
          touches, lostBy>>

Chassis == "chassis"
Port == "port"
Ents == Lsps \cup {Chassis, Port}
Syncers == {"main", "pkt"}

ASSUME NamesAssumption == Lsps \cap {Chassis, Port, "none"} = {}

\* One value is enough for a chassis: no rule depends on it.
Values(e) == CASE e = Port -> Ofports [] e = Chassis -> {"up"} [] OTHER -> Addrs

-----------------------------------------------------------------------------
(* Entities, their clauses, and the rules that follow from them            *)

None == [val |-> "none"]
NoFlow == "noflow"
NoJob == [add |-> {}, del |-> {}]

\* A clause is asserted for an entity that was touched and populated.
Entity(v, st, touched, up) == [val |-> v, st |-> st, touched |-> touched, up |-> up]
Alive(e) == live[e] # None

\* _should_touch: without ONDEMAND everything counts at once, and a port of
\* Open vSwitch always does.
TouchedAtBirth(e) == ~OnDemand \/ e = Port

\* The clauses of every entity: value and state.
Clauses == [e \in Ents |->
    {[val |-> live[e].val, st |-> live[e].st] :
        x \in {y \in {e} : Alive(y) /\ live[y].touched /\ live[y].up}}
    \cup {[val |-> s.val, st |-> "DEL"] : s \in {x \in sink : x.ent = e}}]

\* The derivations of one rule, from the clauses cl: State is the sum of
\* State_ADD = 1, State_NO = 0 and State_DEL = -100.
Joins(cl) ==
    UNION {{[lsp |-> l, chassis |-> c, port |-> p] :
                c \in cl[Chassis], p \in cl[Port], l \in cl[k]} : k \in Lsps}
States(j) == {j.lsp.st, j.chassis.st, j.port.st}

\* convert_tuple2flow: a positive State adds the rule, a multiple of
\* State_DEL deletes whatever has its match, others are skipped.
Adds(cl) ==
    {[match |-> j.lsp.val, action |-> j.port.val] :
        j \in {x \in Joins(cl) : "ADD" \in States(x) /\ "DEL" \notin States(x)}}
Dels(cl) ==
    {j.lsp.val : j \in {x \in Joins(cl) : "DEL" \in States(x) /\ "ADD" \notin States(x)}}

\* Mutant of Committed: the deletions come last.
CommittedAddFirst(f, add, del) ==
    [m \in Addrs |->
        IF m \in del THEN NoFlow
        ELSE IF \E r \in add : r.match = m
             THEN (CHOOSE r \in add : r.match = m).action ELSE f[m]]

\* commit_flows: first the deletions, then the additions.
Committed(f, add, del) ==
    [m \in Addrs |->
        IF \E r \in add : r.match = m THEN (CHOOSE r \in add : r.match = m).action
        ELSE IF m \in del THEN NoFlow ELSE f[m]]

NoFlows == [m \in Addrs |-> NoFlow]

-----------------------------------------------------------------------------
(* Operations on the zoo, each under the lock of the zoo                   *)

\* move_entity2sink: only a clause that exists is marked State_DEL.
Sunk(e) ==
    IF Alive(e) /\ live[e].touched
    THEN sink \cup {[ent |-> e, val |-> live[e].val]} ELSE sink

\* The index of the zoo rejects a second logical port with the same value.
Conflict(e, v) == \E k \in Lsps \ {e} : e \in Lsps /\ Alive(k) /\ live[k].val = v

\* add_entity up to the insertion: the old entity of the same key goes to
\* the sink even if the new one is then rejected.
AddEntity(t, e, v) ==
    /\ fresh[t] = "none" /\ ops < MaxOps /\ ops' = ops + 1
    /\ ~(Alive(e) /\ live[e].val = v)
    /\ sink' = Sunk(e)
    /\ dirty' = (dirty \/ Alive(e) \/ ~Conflict(e, v))
    /\ IF Conflict(e, v)
       THEN live' = [live EXCEPT ![e] = None] /\ UNCHANGED fresh
       ELSE /\ live' = [live EXCEPT ![e] =
                            Entity(v, "ADD", TouchedAtBirth(e), FALSE)]
            /\ fresh' = [fresh EXCEPT ![t] = e]
    /\ UNCHANGED <<hadClean, flows, pc, job, older, touches, lostBy>>

\* add_entity after it released the lock: populate
Populate(t) ==
    /\ fresh[t] # "none"
    /\ live' = [live EXCEPT ![fresh[t]].up = TRUE]
    /\ fresh' = [fresh EXCEPT ![t] = "none"]
    /\ UNCHANGED <<sink, dirty, hadClean, flows, pc, job, older, ops, touches,
                   lostBy>>

\* Mutant of MoveEntity2Sink: the entity is marked but not popped.
MarkEntityDel(t, e) ==
    /\ fresh[t] = "none" /\ ops < MaxOps /\ ops' = ops + 1
    /\ Alive(e)
    /\ live' = [live EXCEPT ![e].st = "DEL"]
    /\ dirty' = TRUE
    /\ UNCHANGED <<sink, hadClean, flows, pc, fresh, job, older, touches, lostBy>>

\* Mutant of MoveEntity2Sink: a removal is not a new version of the zoo.
MoveEntity2SinkSameVer(t, e) ==
    /\ fresh[t] = "none" /\ ops < MaxOps /\ ops' = ops + 1
    /\ Alive(e)
    /\ sink' = Sunk(e)
    /\ live' = [live EXCEPT ![e] = None]
    /\ UNCHANGED <<dirty, hadClean, flows, pc, fresh, job, older, touches, lostBy>>

MoveEntity2Sink(t, e) ==
    /\ fresh[t] = "none" /\ ops < MaxOps /\ ops' = ops + 1
    /\ Alive(e)
    /\ sink' = Sunk(e)
    /\ live' = [live EXCEPT ![e] = None]
    /\ dirty' = TRUE
    /\ UNCHANGED <<hadClean, flows, pc, fresh, job, older, touches, lostBy>>

\* touch: it does not count as a new version of the zoo.
Touch(e) ==
    live' = IF Alive(e) /\ ~live[e].touched
            THEN [live EXCEPT ![e] = Entity(@.val, "ADD", TRUE, TRUE)]
            ELSE live

-----------------------------------------------------------------------------
(* update_ovs_side                                                         *)

\* sweep_zoo meets a new entity that has no clause yet: mark fails.
Unpopulated == {e \in Ents : Alive(e) /\ live[e].st = "ADD"
                                      /\ live[e].touched /\ ~live[e].up}
New == {e \in Ents : Alive(e) /\ live[e].st = "ADD"}

Marked(S) == [e \in Ents |-> IF e \in S THEN [live[e] EXCEPT !.st = "NO"] ELSE live[e]]

\* Under the lock of the zoo: derive the rules, empty the sink, mark every
\* new entity State_NO.
Compute(t) ==
    /\ Unpopulated = {}
    /\ job' = [job EXCEPT ![t] = [add |-> Adds(Clauses), del |-> Dels(Clauses)]]
    /\ older' = IF older = "none" THEN t ELSE older
    /\ sink' = {}
    /\ live' = Marked(New)
    /\ pc' = [pc EXCEPT ![t] = "commit"]
    /\ UNCHANGED <<dirty, hadClean, flows, fresh, ops, touches, lostBy>>

\* The mark of an entity without a clause raises in the middle of the sweep:
\* the sink is already empty, some entities are marked, no rule is committed.
ComputeRaises(t) ==
    /\ \E e \in Unpopulated, S \in SUBSET (New \ Unpopulated) :
          live' = Marked(S \cup {e})
    /\ sink' = {}
    /\ lostBy' = lostBy \cup {"populate"}
    /\ pc' = [pc EXCEPT ![t] = "idle"]
    /\ UNCHANGED <<dirty, hadClean, flows, fresh, job, older, ops, touches>>

Other(t) == IF t = "main" THEN "pkt" ELSE "main"
HasJob(t) == pc[t] \in {"commit", "replace"}

JobDone(t) ==
    /\ job' = [job EXCEPT ![t] = NoJob]
    /\ older' = IF older # t THEN older
                ELSE IF HasJob(Other(t)) THEN Other(t) ELSE "none"
    /\ pc' = [pc EXCEPT ![t] = "idle"]

Matches(j) == j.del \cup {r.match : r \in j.add}

\* A job is committed before an older one that is about the same match, or
\* while replace-flows, which does not know it, is under way.
CommitTags(t) ==
    LET u == Other(t)
    IN (IF older # t /\ Matches(job[u]) \cap Matches(job[t]) # {}
        THEN {"reorder"} ELSE {})
       \cup (IF pc[u] = "replace" /\ Matches(job[t]) # {} THEN {"boot"} ELSE {})

CommitFlows(t) ==
    /\ pc[t] = "commit" /\ hadClean
    /\ flows' = Committed(flows, job[t].add, job[t].del)
    /\ lostBy' = lostBy \cup CommitTags(t)
    /\ JobDone(t)
    /\ UNCHANGED <<live, sink, dirty, hadClean, fresh, ops, touches>>

\* Of the first job only the additions are committed, in place of whatever
\* rules the bridge has.  had_clean_ovs_flows is set before.
StartReplace(t) ==
    /\ pc[t] = "commit" /\ ~hadClean
    /\ hadClean' = TRUE
    /\ pc' = [pc EXCEPT ![t] = "replace"]
    /\ UNCHANGED <<live, sink, dirty, flows, fresh, job, older, ops, touches,
                   lostBy>>

CommitReplaceFlows(t) ==
    /\ pc[t] = "replace"
    /\ flows' = Committed(NoFlows, job[t].add, {})
    /\ lostBy' = lostBy \cup CommitTags(t)
    /\ JobDone(t)
    /\ UNCHANGED <<live, sink, dirty, hadClean, fresh, ops, touches>>

\* ovs-ofctl fails, for one rule of a batch that is retried rule by rule or
\* for replace-flows as a whole: nobody repeats it.
CommitFails(t) ==
    /\ pc[t] \in {"commit", "replace"} /\ hadClean
    /\ \/ pc[t] = "replace" /\ UNCHANGED flows
       \/ /\ pc[t] = "commit"
          /\ \E a \in SUBSET job[t].add, d \in SUBSET job[t].del :
                /\ <<a, d>> # <<job[t].add, job[t].del>>
                /\ flows' = Committed(flows, a, d)
    /\ lostBy' = lostBy \cup {"ovs"}
    /\ JobDone(t)
    /\ UNCHANGED <<live, sink, dirty, hadClean, fresh, ops, touches>>

UpdateOvsSide(t) ==
    \/ pc[t] = "update" /\ (Compute(t) \/ ComputeRaises(t))
    \/ CommitFlows(t) \/ StartReplace(t) \/ CommitReplaceFlows(t)

-----------------------------------------------------------------------------
(* The threads                                                             *)

\* main: update_entity, then need_recompute
MainAdd == /\ pc["main"] = "idle"
           /\ \E e \in Lsps \cup {Chassis} : \E v \in Values(e) : AddEntity("main", e, v)
MainDel == /\ pc["main"] = "idle"
           /\ \E e \in Lsps \cup {Chassis} : MoveEntity2Sink("main", e)

NeedRecompute ==
    /\ pc["main"] = "idle" /\ fresh["main"] = "none"
    /\ dirty
    /\ dirty' = FALSE
    /\ pc' = [pc EXCEPT !["main"] = "update"]
    /\ UNCHANGED <<live, sink, hadClean, flows, fresh, job, older, ops,
                   touches, lostBy>>

\* ovsdb: update_ovsport
OvsdbAdd == \E v \in Ofports : AddEntity("ovsdb", Port, v)
OvsdbDel == MoveEntity2Sink("ovsdb", Port)

\* pkt: process_unknow_dst touches the logical port, then, under the lock
\* again, its chassis, and derives the rules if it found one.
TouchLsp(l) ==
    /\ pc["pkt"] = "idle" /\ touches < MaxTouches /\ touches' = touches + 1
    /\ Alive(l)
    /\ Touch(l)
    /\ pc' = [pc EXCEPT !["pkt"] = "touched"]
    /\ UNCHANGED <<sink, dirty, hadClean, flows, fresh, job, older, ops, lostBy>>

TouchChassis ==
    /\ pc["pkt"] = "touched"
    /\ Touch(Chassis)
    /\ pc' = [pc EXCEPT !["pkt"] = IF Alive(Chassis) THEN "update" ELSE "idle"]
    /\ UNCHANGED <<sink, dirty, hadClean, flows, fresh, job, older, ops, touches,
                   lostBy>>

\* The bridge has the rules of an earlier run of the agent.
Init ==
    /\ live = [e \in Ents |-> None] /\ sink = {}
    /\ dirty = FALSE /\ hadClean = FALSE
    /\ flows \in [Addrs -> Ofports \cup {NoFlow}]
    /\ pc = [t \in Syncers |-> "idle"]
    /\ fresh = [t \in {"main", "ovsdb"} |-> "none"]
    /\ job = [t \in Syncers |-> NoJob] /\ older = "none"
    /\ ops = 0 /\ touches = 0 /\ lostBy = {}

Main == \/ NeedRecompute \/ Populate("main") \/ UpdateOvsSide("main")
Ovsdb == Populate("ovsdb")
Pkt == TouchChassis \/ UpdateOvsSide("pkt")
Changes == \/ MainAdd \/ MainDel \/ OvsdbAdd \/ OvsdbDel
           \/ \E l \in Lsps : TouchLsp(l)
           \/ \E t \in Syncers : CommitFails(t)

Next == Main \/ Ovsdb \/ Pkt \/ Changes

\* Every thread goes on with what it has begun, and main keeps polling.
Fairness == WF_vars(Main) /\ WF_vars(Ovsdb) /\ WF_vars(Pkt)

Spec == Init /\ [][Next]_vars
FairSpec == Spec /\ Fairness

-----------------------------------------------------------------------------
(* Properties *)

EntityOK(e) ==
    Alive(e) => live[e] \in [val : Values(e), st : {"ADD", "NO"},
                             touched : BOOLEAN, up : BOOLEAN]

TypeOK ==
    /\ \A e \in Ents : EntityOK(e)
    /\ \A s \in sink : s.ent \in Ents /\ s.val \in Values(s.ent)
    /\ flows \in [Addrs -> Ofports \cup {NoFlow}]
    /\ pc \in [Syncers -> {"idle", "touched", "update", "commit", "replace"}]
    /\ older \in {t \in Syncers : HasJob(t)} \cup {"none"}
    /\ older = "none" => \A t \in Syncers : ~HasJob(t)
    /\ lostBy \subseteq {"populate", "reorder", "boot", "ovs"}

\* The rules that the live entities stand for.
Desired ==
    [m \in Addrs |->
        IF /\ Alive(Port) /\ Alive(Chassis) /\ live[Chassis].touched
           /\ \E l \in Lsps : Alive(l) /\ live[l].touched /\ live[l].val = m
        THEN live[Port].val ELSE NoFlow]

\* The clauses there will be when every thread has populated its entity.
AllClauses == [e \in Ents |->
    {[val |-> live[e].val, st |-> live[e].st] :
        x \in {y \in {e} : Alive(y) /\ live[y].touched}}
    \cup {[val |-> s.val, st |-> "DEL"] : s \in {x \in sink : x.ent = e}}]

\* The rules after every job that is under way, oldest first.
AfterJobs ==
    LET Step(f, t) == Committed(f, job[t].add, job[t].del)
        Replacing == ~hadClean \/ \E t \in Syncers : pc[t] = "replace"
        base == IF Replacing THEN NoFlows ELSE flows
    IN IF older = "none" THEN base ELSE Step(Step(base, older), Other(older))

\* The rules in the bridge, the jobs under way and one more derivation add
\* up to what the live entities stand for: no change of the zoo is swept
\* before its rules were derived, and no deletion takes a live rule along.
FlowsOwed ==
    lostBy = {} =>
        Committed(AfterJobs, Adds(AllClauses), Dels(AllClauses)) = Desired

\* When the zoo stays as it is the bridge gets, and keeps, its rules.
FlowsConverge == <>[](lostBy = {} => flows = Desired \/ ~hadClean)

-----------------------------------------------------------------------------
(* A claim of the repository that the code does not keep.                  *)

\* tuplesync.py:243-245: "we must lock the whole process of generating flow
\* and sweepping zoo otherwise we may mark some new entities to State_NO,
\* without generating any ovs flows".  A touched new entity is only marked
\* State_NO once its clause took part in a derivation.
NewEntitiesGenerateFlows ==
    [][\A e \in Ents :
        Alive(e) /\ live[e].touched /\ live[e].st = "ADD"
            /\ live'[e] = [live[e] EXCEPT !.st = "NO"] => live[e].up]_vars
=============================================================================

--------------------------- MODULE FlowSync_proofs ---------------------------
(***************************************************************************)
(* Proofs about FlowSync, for any number of logical ports, addresses,      *)
(* tunnel ports and changes, with and without ONDEMAND.                    *)
(*                                                                         *)
(* FlowsOwed speaks of the next derivation.  That it stays true when       *)
(* entities come and go between two derivations needs to be known of the   *)
(* past one: an entity marked State_NO has been there ever since, so its   *)
(* rules are there (Kept), and a rule that is there came from entities     *)
(* each of which is still there or left a deletion in the sink (Owed).     *)
(* These, with the uniqueness of addresses, make Synced, and FlowsOwed     *)
(* follows.  A derivation turns "the next one will give what is desired"   *)
(* into "the jobs give what was desired"; a commit moves rules from a job  *)
(* to the bridge and changes nothing of their sum.                         *)
(***************************************************************************)
EXTENDS FlowSync, TLAPS

------------------------------------------------------------------------------
(***************************************************************************)
(* The inductive invariant.                                                *)
(***************************************************************************)

Rules == [match : Addrs, action : Ofports]
Jobs == [add : SUBSET Rules, del : SUBSET Addrs]
Writers == {"main", "ovsdb"}

\* main and ovsdb each own the entities they insert, and remove no other's.
FreshOK ==
    /\ fresh \in [Writers -> Ents \cup {"none"}]
    /\ fresh["main"] # Port /\ fresh["ovsdb"] \in {Port, "none"}
    /\ \A t \in Writers : fresh[t] # "none" => Alive(fresh[t])

\* A thread that is not about to commit has nothing to commit; at most one
\* thread replaces all the rules, after had_clean_ovs_flows was set.
JobsOK ==
    /\ job \in [Syncers -> Jobs]
    /\ \A t \in Syncers : HasJob(t) \/ job[t] = NoJob
    /\ hadClean \in BOOLEAN
    /\ \A t \in Syncers : pc[t] = "replace" => hadClean /\ pc[Other(t)] # "replace"

Types ==
    /\ TypeOK
    /\ live = [e \in Ents |-> live[e]]
    /\ Alive(Port) => live[Port].touched
    /\ FreshOK /\ JobsOK

\* An entity that counts, and one that has counted since the last derivation.
On(e) == Alive(e) /\ live[e].touched
Stable(e) == On(e) /\ live[e].st = "NO"

\* An entity with value v that counted and went away since.
Gone(e, v) == \E s \in sink : s.ent = e /\ s.val = v

\* An entity that may have counted at the last derivation, with value v.
Past(e, v) == (Stable(e) /\ live[e].val = v) \/ Gone(e, v)

\* What counts and has no clause yet is new.
Clausal == \A e \in Ents : On(e) /\ ~live[e].up => live[e].st = "ADD"

\* Two live ports never have one address.
Distinct ==
    \A k, l \in Lsps : Alive(k) /\ Alive(l) /\ live[k].val = live[l].val => k = l

\* What was there all the time did not go away, and nobody else had its address.
Steady ==
    /\ \A e \in Ents : Stable(e) => \A s \in sink : s.ent # e
    /\ \A k, l \in Lsps : Stable(k) => ~Gone(l, live[k].val)

\* The rules of what was there all the time are there.
Kept ==
    \A l \in Lsps : Stable(l) /\ Stable(Chassis) /\ Stable(Port)
        => AfterJobs[live[l].val] = live[Port].val

\* A rule that is there came from entities that are there or in the sink.
Owed ==
    \A m \in Addrs : AfterJobs[m] # NoFlow =>
        /\ \E l \in Lsps : Past(l, m)
        /\ \E v \in Values(Chassis) : Past(Chassis, v)
        /\ \E v \in Values(Port) : Past(Port, v)

Synced == Clausal /\ Steady /\ Kept /\ Owed

IInv == Types /\ Distinct /\ (lostBy = {} => Synced)

------------------------------------------------------------------------------
(***************************************************************************)
(* Names and records.                                                      *)
(***************************************************************************)

\* The three kinds of entities, and the values of each.
LEMMA Kinds ==
    /\ Chassis \notin Lsps /\ Port \notin Lsps /\ "none" \notin Ents /\ Chassis # Port
    /\ Ents = Lsps \cup {Chassis, Port}
    /\ \A l \in Lsps : Values(l) = Addrs
    /\ Values(Port) = Ofports /\ Values(Chassis) = {"up"}
BY NamesAssumption DEF Ents, Chassis, Port, Values

\* There are two syncers.
LEMMA TwoSyncers ==
    \A t \in Syncers : Other(t) \in Syncers /\ Other(t) # t /\ Other(Other(t)) = t
                        /\ \A u \in Syncers : u = t \/ u = Other(t)
BY DEF Syncers, Other

\* A live entity is a record, whose fields are known.
LEMMA LiveRecord ==
    ASSUME TypeOK, NEW e \in Ents, Alive(e)
    PROVE  /\ live[e] \in [val : Values(e), st : {"ADD", "NO"}, touched : BOOLEAN, up : BOOLEAN]
           /\ live[e].val \in Values(e) /\ live[e].st \in {"ADD", "NO"}
           /\ live[e].touched \in BOOLEAN /\ live[e].up \in BOOLEAN
BY DEF TypeOK, EntityOK

\* Setting one field leaves the others.
LEMMA ChangedRecord ==
    ASSUME NEW V,
           NEW r \in [val : V, st : {"ADD", "NO"}, touched : BOOLEAN, up : BOOLEAN]
    PROVE  /\ LET n == [r EXCEPT !.st = "NO"]
              IN  /\ n \in [val : V, st : {"ADD", "NO"}, touched : BOOLEAN, up : BOOLEAN]
                  /\ n # None /\ n.st = "NO"
                  /\ n.val = r.val /\ n.touched = r.touched /\ n.up = r.up
           /\ LET n == [r EXCEPT !.up = TRUE]
              IN  /\ n \in [val : V, st : {"ADD", "NO"}, touched : BOOLEAN, up : BOOLEAN]
                  /\ n # None /\ n.up = TRUE
                  /\ n.val = r.val /\ n.touched = r.touched /\ n.st = r.st
BY DEF None

------------------------------------------------------------------------------
(***************************************************************************)
(* Committing rules.                                                       *)
(***************************************************************************)

\* A bridge has rules with the actions that were given.
LEMMA CommittedType ==
    ASSUME NEW f \in [Addrs -> Ofports \cup {NoFlow}],
           NEW add \in SUBSET Rules, NEW del
    PROVE  Committed(f, add, del) \in [Addrs -> Ofports \cup {NoFlow}]
<1>1. ASSUME NEW m \in Addrs, \E r \in add : r.match = m
      PROVE  (CHOOSE r \in add : r.match = m).action \in Ofports
  BY <1>1 DEF Rules
<1> QED
  BY <1>1 DEF Committed

\* An empty job changes nothing.
LEMMA CommitNothing ==
    ASSUME NEW f \in [Addrs -> Ofports \cup {NoFlow}]
    PROVE  Committed(f, {}, {}) = f
BY DEF Committed

\* In a bridge without rules there is nothing to delete.
LEMMA CommitReset ==
    ASSUME NEW add, NEW del
    PROVE  Committed(NoFlows, add, del) = Committed(NoFlows, add, {})
BY DEF Committed, NoFlows

\* Two jobs about different matches may be committed in either order.
LEMMA CommitsCommute ==
    ASSUME NEW f, NEW j, NEW k, Matches(j) \cap Matches(k) = {}
    PROVE  Committed(Committed(f, j.add, j.del), k.add, k.del)
             = Committed(Committed(f, k.add, k.del), j.add, j.del)
<1> DEFINE A == Committed(Committed(f, j.add, j.del), k.add, k.del)
           B == Committed(Committed(f, k.add, k.del), j.add, j.del)
<1>1. ASSUME NEW m \in Addrs PROVE A[m] = B[m]
  <2>1. ~((m \in j.del \/ \E r \in j.add : r.match = m)
           /\ (m \in k.del \/ \E r \in k.add : r.match = m))
    BY DEF Matches
  <2>2. A[m] = IF \E r \in k.add : r.match = m THEN (CHOOSE r \in k.add : r.match = m).action
               ELSE IF m \in k.del THEN NoFlow ELSE Committed(f, j.add, j.del)[m]
    BY DEF Committed
  <2>3. B[m] = IF \E r \in j.add : r.match = m THEN (CHOOSE r \in j.add : r.match = m).action
               ELSE IF m \in j.del THEN NoFlow ELSE Committed(f, k.add, k.del)[m]
    BY DEF Committed
  <2>4. Committed(f, j.add, j.del)[m] =
            IF \E r \in j.add : r.match = m THEN (CHOOSE r \in j.add : r.match = m).action
            ELSE IF m \in j.del THEN NoFlow ELSE f[m]
    BY DEF Committed
  <2>5. Committed(f, k.add, k.del)[m] =
            IF \E r \in k.add : r.match = m THEN (CHOOSE r \in k.add : r.match = m).action
            ELSE IF m \in k.del THEN NoFlow ELSE f[m]
    BY DEF Committed
  <2> HIDE DEF A, B
  <2> QED
    BY <2>1, <2>2, <2>3, <2>4, <2>5
<1>2. A = [m \in Addrs |-> A[m]] /\ B = [m \in Addrs |-> B[m]]
  BY DEF Committed
<1> QED
  BY <1>1, <1>2

\* The rules after all jobs, as a function of what is there and of the jobs.
Applied(f, o, j) ==
    IF o = "none" THEN f
    ELSE Committed(Committed(f, j[o].add, j[o].del), j[Other(o)].add, j[Other(o)].del)

\* What the jobs under way start from.
Base == IF ~hadClean \/ \E t \in Syncers : pc[t] = "replace" THEN NoFlows ELSE flows

LEMMA AfterJobsIs == AfterJobs = Applied(Base, older, job)
BY DEF AfterJobs, Applied, Base

LEMMA AfterJobsNext == AfterJobs' = Applied(Base', older', job')
BY DEF AfterJobs, Applied, Base

\* If one of the two jobs is empty the other remains.
LEMMA OneJob ==
    ASSUME NEW f \in [Addrs -> Ofports \cup {NoFlow}], NEW j \in [Syncers -> Jobs],
           NEW o \in Syncers \cup {"none"}, NEW t \in Syncers,
           j[t] = NoJob, o = "none" => j[Other(t)] = NoJob
    PROVE  Applied(f, o, j) = Committed(f, j[Other(t)].add, j[Other(t)].del)
<1>1. j[t].add = {} /\ j[t].del = {}
  BY DEF NoJob
<1>2. Other(t) \in Syncers /\ j[Other(t)].add \in SUBSET Rules
  BY TwoSyncers DEF Jobs
<1>3. Committed(f, j[Other(t)].add, j[Other(t)].del) \in [Addrs -> Ofports \cup {NoFlow}]
  BY <1>2, CommittedType
<1>4. CASE o = "none"
  <2>1. j[Other(t)].add = {} /\ j[Other(t)].del = {}
    BY <1>4 DEF NoJob
  <2> QED
    BY <1>4, <2>1, CommitNothing DEF Applied
<1>5. CASE o = t
  BY <1>5, <1>1, CommitNothing DEF Applied, Syncers
<1>6. CASE o = Other(t)
  BY <1>6, <1>1, <1>2, <1>3, CommitNothing, TwoSyncers DEF Applied, Syncers, Other
<1> QED
  BY <1>4, <1>5, <1>6, TwoSyncers

\* The job that is committed first may as well be the oldest, unless the two
\* are about the same match.
LEMMA FirstJob ==
    ASSUME NEW f, NEW j, NEW o \in Syncers, NEW t \in Syncers,
           o = t \/ Matches(j[Other(t)]) \cap Matches(j[t]) = {}
    PROVE  Applied(f, o, j)
             = Committed(Committed(f, j[t].add, j[t].del), j[Other(t)].add, j[Other(t)].del)
<1>1. CASE o = t
  BY <1>1 DEF Applied, Syncers
<1>2. CASE o = Other(t) /\ o # t
  BY <1>2, CommitsCommute, TwoSyncers DEF Applied, Syncers
<1> QED
  BY <1>1, <1>2, TwoSyncers

------------------------------------------------------------------------------
(***************************************************************************)
(* What the next derivation will give.                                     *)
(***************************************************************************)

\* A clause is that of a live entity that counts, or of one in the sink.
LEMMA ClauseOf ==
    ASSUME NEW e \in Ents, NEW c
    PROVE  c \in AllClauses[e] <=>
             \/ On(e) /\ c = [val |-> live[e].val, st |-> live[e].st]
             \/ \E s \in sink : s.ent = e /\ c = [val |-> s.val, st |-> "DEL"]
BY DEF AllClauses, On

\* A rule is added if all it joins counts and a part of it is new.
LEMMA RuleAdded ==
    ASSUME TypeOK, NEW r
    PROVE  r \in Adds(AllClauses) <=>
             /\ On(Port) /\ On(Chassis)
             /\ \E l \in Lsps :
                  /\ On(l) /\ r = [match |-> live[l].val, action |-> live[Port].val]
                  /\ live[l].st = "ADD" \/ live[Chassis].st = "ADD" \/ live[Port].st = "ADD"
<1>1. ASSUME r \in Adds(AllClauses)
      PROVE  /\ On(Port) /\ On(Chassis)
             /\ \E l \in Lsps :
                  /\ On(l) /\ r = [match |-> live[l].val, action |-> live[Port].val]
                  /\ live[l].st = "ADD" \/ live[Chassis].st = "ADD" \/ live[Port].st = "ADD"
  <2>1. PICK k, a, c, q :
          /\ k \in Lsps
          /\ a \in AllClauses[k] /\ c \in AllClauses[Chassis] /\ q \in AllClauses[Port]
          /\ r = [match |-> a.val, action |-> q.val]
          /\ "ADD" \in {a.st, c.st, q.st} /\ "DEL" \notin {a.st, c.st, q.st}
    BY <1>1 DEF Adds, Joins, States
  <2>2. On(k) /\ a = [val |-> live[k].val, st |-> live[k].st]
    BY <2>1, ClauseOf, Kinds
  <2>3. On(Chassis) /\ c = [val |-> live[Chassis].val, st |-> live[Chassis].st]
    BY <2>1, ClauseOf, Kinds
  <2>4. On(Port) /\ q = [val |-> live[Port].val, st |-> live[Port].st]
    BY <2>1, ClauseOf, Kinds
  <2> QED
    BY <2>1, <2>2, <2>3, <2>4
<1>2. ASSUME On(Port), On(Chassis), NEW l \in Lsps, On(l),
             r = [match |-> live[l].val, action |-> live[Port].val],
             live[l].st = "ADD" \/ live[Chassis].st = "ADD" \/ live[Port].st = "ADD"
      PROVE  r \in Adds(AllClauses)
  <2> DEFINE j == [lsp |-> [val |-> live[l].val, st |-> live[l].st],
                   chassis |-> [val |-> live[Chassis].val, st |-> live[Chassis].st],
                   port |-> [val |-> live[Port].val, st |-> live[Port].st]]
  <2>1. j.lsp \in AllClauses[l] /\ j.chassis \in AllClauses[Chassis]
          /\ j.port \in AllClauses[Port]
    BY <1>2, ClauseOf, Kinds
  <2>2. j \in Joins(AllClauses)
    BY <2>1 DEF Joins
  <2>3. {live[l].st, live[Chassis].st, live[Port].st} \subseteq {"ADD", "NO"}
    BY <1>2, LiveRecord, Kinds DEF On
  <2>4. "ADD" \in States(j) /\ "DEL" \notin States(j)
    BY <1>2, <2>3 DEF States
  <2> QED
    BY <1>2, <2>2, <2>4 DEF Adds
<1> QED
  BY <1>1, <1>2

\* A match is deleted if all it joins may have counted before and a part of it
\* went away.
LEMMA MatchDeleted ==
    ASSUME TypeOK, NEW m
    PROVE  m \in Dels(AllClauses) <=>
             \E l \in Lsps : \E c, v :
                /\ Past(l, m) /\ Past(Chassis, c) /\ Past(Port, v)
                /\ Gone(l, m) \/ Gone(Chassis, c) \/ Gone(Port, v)
<1>1. ASSUME NEW e \in Ents, NEW c \in AllClauses[e], c.st # "ADD"
      PROVE  Past(e, c.val) /\ (c.st = "DEL" => Gone(e, c.val))
  <2>1. CASE On(e) /\ c = [val |-> live[e].val, st |-> live[e].st]
    <3>1. c.val = live[e].val /\ c.st = live[e].st
      BY <2>1
    <3>2. live[e].st \in {"ADD", "NO"}
      BY <2>1, LiveRecord DEF On
    <3> QED
      BY <1>1, <2>1, <3>1, <3>2 DEF Past, Stable
  <2>2. CASE \E s \in sink : s.ent = e /\ c = [val |-> s.val, st |-> "DEL"]
    <3>1. PICK s \in sink : s.ent = e /\ c = [val |-> s.val, st |-> "DEL"]
      BY <2>2
    <3>2. c.val = s.val
      BY <3>1
    <3> QED
      BY <3>1, <3>2 DEF Past, Gone
  <2> QED
    BY <1>1, <2>1, <2>2, ClauseOf
<1>2. ASSUME NEW e \in Ents, NEW v, Past(e, v)
      PROVE  \E c \in AllClauses[e] : c.val = v /\ c.st # "ADD" /\ (Gone(e, v) => c.st = "DEL")
  <2>1. CASE Gone(e, v)
    <3>1. [val |-> v, st |-> "DEL"] \in AllClauses[e]
      BY <2>1, ClauseOf DEF Gone
    <3>2. [val |-> v, st |-> "DEL"].val = v /\ [val |-> v, st |-> "DEL"].st = "DEL"
      OBVIOUS
    <3> QED
      BY <3>1, <3>2
  <2>2. CASE Stable(e) /\ live[e].val = v /\ ~Gone(e, v)
    <3>1. [val |-> v, st |-> "NO"] \in AllClauses[e]
      BY <2>2, ClauseOf DEF Stable
    <3>2. [val |-> v, st |-> "NO"].val = v /\ [val |-> v, st |-> "NO"].st = "NO"
      OBVIOUS
    <3> QED
      BY <2>2, <3>1, <3>2
  <2> QED
    BY <1>2, <2>1, <2>2 DEF Past
<1>3. ASSUME m \in Dels(AllClauses)
      PROVE  \E l \in Lsps : \E c, v :
                /\ Past(l, m) /\ Past(Chassis, c) /\ Past(Port, v)
                /\ Gone(l, m) \/ Gone(Chassis, c) \/ Gone(Port, v)
  <2>1. PICK k, a, c, q :
          /\ k \in Lsps
          /\ a \in AllClauses[k] /\ c \in AllClauses[Chassis] /\ q \in AllClauses[Port]
          /\ m = a.val /\ "ADD" \notin {a.st, c.st, q.st} /\ "DEL" \in {a.st, c.st, q.st}
    BY <1>3 DEF Dels, Joins, States
  <2>2. Past(k, m) /\ (a.st = "DEL" => Gone(k, m))
    BY <1>1, <2>1, Kinds
  <2>3. Past(Chassis, c.val) /\ (c.st = "DEL" => Gone(Chassis, c.val))
    BY <1>1, <2>1, Kinds
  <2>4. Past(Port, q.val) /\ (q.st = "DEL" => Gone(Port, q.val))
    BY <1>1, <2>1, Kinds
  <2> QED
    BY <2>1, <2>2, <2>3, <2>4
<1>4. ASSUME NEW l \in Lsps, NEW c, NEW v,
             Past(l, m), Past(Chassis, c), Past(Port, v),
             Gone(l, m) \/ Gone(Chassis, c) \/ Gone(Port, v)
      PROVE  m \in Dels(AllClauses)
  <2>1. PICK a \in AllClauses[l] : a.val = m /\ a.st # "ADD" /\ (Gone(l, m) => a.st = "DEL")
    BY <1>2, <1>4, Kinds
  <2>2. PICK d \in AllClauses[Chassis] : d.st # "ADD" /\ (Gone(Chassis, c) => d.st = "DEL")
    BY <1>2, <1>4, Kinds
  <2>3. PICK q \in AllClauses[Port] : q.st # "ADD" /\ (Gone(Port, v) => q.st = "DEL")
    BY <1>2, <1>4, Kinds
  <2> DEFINE j == [lsp |-> a, chassis |-> d, port |-> q]
  <2>4. j \in Joins(AllClauses)
    BY <2>1, <2>2, <2>3 DEF Joins
  <2>5. "DEL" \in States(j) /\ "ADD" \notin States(j)
    BY <1>4, <2>1, <2>2, <2>3 DEF States
  <2>6. m = j.lsp.val
    BY <2>1
  <2> QED
    BY <2>4, <2>5, <2>6 DEF Dels
<1> QED
  BY <1>3, <1>4

------------------------------------------------------------------------------
(***************************************************************************)
(* The invariant implies FlowsOwed.                                        *)
(***************************************************************************)

\* What is in the bridge, and what the jobs make of it, are rules.
LEMMA AfterJobsType ==
    ASSUME Types
    PROVE  /\ Base \in [Addrs -> Ofports \cup {NoFlow}]
           /\ AfterJobs \in [Addrs -> Ofports \cup {NoFlow}]
<1>1. Base \in [Addrs -> Ofports \cup {NoFlow}]
  BY DEF Types, TypeOK, Base, NoFlows
<1>2. older \in Syncers \cup {"none"} /\ job \in [Syncers -> Jobs]
  BY DEF Types, TypeOK, JobsOK
<1>3. CASE older = "none"
  BY <1>1, <1>3, AfterJobsIs DEF Applied
<1>4. CASE older \in Syncers
  <2>1. job[older].add \in SUBSET Rules /\ job[Other(older)].add \in SUBSET Rules
    BY <1>2, <1>4, TwoSyncers DEF Jobs
  <2>2. Committed(Base, job[older].add, job[older].del) \in [Addrs -> Ofports \cup {NoFlow}]
    BY <1>1, <2>1, CommittedType
  <2>3. Committed(Committed(Base, job[older].add, job[older].del),
                  job[Other(older)].add, job[Other(older)].del)
          \in [Addrs -> Ofports \cup {NoFlow}]
    BY <2>1, <2>2, CommittedType
  <2>4. older # "none"
    BY <1>4 DEF Syncers
  <2> QED
    BY <1>1, <2>3, <2>4, AfterJobsIs DEF Applied
<1> QED
  BY <1>1, <1>2, <1>3, <1>4

\* The jobs under way and one more derivation give what the entities stand for.
LEMMA SyncedOwes ==
    ASSUME Types, Synced
    PROVE  Committed(AfterJobs, Adds(AllClauses), Dels(AllClauses)) = Desired
<1> DEFINE A == Adds(AllClauses)
           D == Dels(AllClauses)
           All(l, m) == On(Port) /\ On(Chassis) /\ On(l) /\ live[l].val = m
<1>1. TypeOK
  BY DEF Types
<1>2. ASSUME NEW m \in Addrs
      PROVE  /\ (\E l \in Lsps : All(l, m)) => Desired[m] = live[Port].val
             /\ ~(\E l \in Lsps : All(l, m)) => Desired[m] = NoFlow
  <2>1. Desired[m] = IF /\ Alive(Port) /\ Alive(Chassis) /\ live[Chassis].touched
                        /\ \E l \in Lsps : Alive(l) /\ live[l].touched /\ live[l].val = m
                     THEN live[Port].val ELSE NoFlow
    BY DEF Desired
  <2>2. (\E l \in Lsps : All(l, m))
          <=> /\ Alive(Port) /\ Alive(Chassis) /\ live[Chassis].touched
              /\ \E l \in Lsps : Alive(l) /\ live[l].touched /\ live[l].val = m
    BY DEF On, Types
  <2> QED
    BY <2>1, <2>2
<1>3. ASSUME NEW m \in Addrs, \E r \in A : r.match = m
      PROVE  (CHOOSE r \in A : r.match = m).action = Desired[m]
  <2>1. ASSUME NEW r \in A, r.match = m PROVE r.action = Desired[m]
    <3>1. PICK l \in Lsps : /\ On(Port) /\ On(Chassis) /\ On(l)
                            /\ r = [match |-> live[l].val, action |-> live[Port].val]
      BY <1>1, <2>1, RuleAdded
    <3>2. All(l, m) /\ r.action = live[Port].val
      BY <2>1, <3>1
    <3> QED
      BY <1>2, <3>2
  <2> HIDE DEF A
  <2> QED
    BY <1>3, <2>1
<1>4. ASSUME NEW m \in Addrs, ~(\E r \in A : r.match = m), NEW l \in Lsps, All(l, m)
      PROVE  Stable(l) /\ Stable(Chassis) /\ Stable(Port)
  <2>1. ~(live[l].st = "ADD" \/ live[Chassis].st = "ADD" \/ live[Port].st = "ADD")
    <3>1. [match |-> live[l].val, action |-> live[Port].val].match = m
      BY <1>4
    <3> QED
      BY <1>1, <1>4, <3>1, RuleAdded
  <2>2. {live[l].st, live[Chassis].st, live[Port].st} \subseteq {"ADD", "NO"}
    BY <1>1, <1>4, LiveRecord, Kinds DEF On
  <2> QED
    BY <1>4, <2>1, <2>2 DEF Stable
<1>5. ASSUME NEW m \in Addrs, ~(\E r \in A : r.match = m), m \in D
      PROVE  Desired[m] = NoFlow
  <2>1. SUFFICES ASSUME NEW l \in Lsps, All(l, m) PROVE FALSE
    BY <1>2
  <2>2. Stable(l) /\ Stable(Chassis) /\ Stable(Port)
    BY <1>4, <1>5, <2>1
  <2>3. PICK k \in Lsps : \E c, v : Gone(k, m) \/ Gone(Chassis, c) \/ Gone(Port, v)
    BY <1>1, <1>5, MatchDeleted
  <2> QED
    BY <2>1, <2>2, <2>3, Kinds DEF Synced, Steady, Gone
<1>6. ASSUME NEW m \in Addrs, ~(\E r \in A : r.match = m), m \notin D
      PROVE  Desired[m] = AfterJobs[m]
  <2>1. CASE \E l \in Lsps : All(l, m)
    <3>1. PICK l \in Lsps : All(l, m)
      BY <2>1
    <3>2. Stable(l) /\ Stable(Chassis) /\ Stable(Port)
      BY <1>4, <1>6, <3>1
    <3> QED
      BY <1>2, <3>1, <3>2 DEF Synced, Kept
  <2>2. CASE ~(\E l \in Lsps : All(l, m))
    <3>1. SUFFICES ASSUME AfterJobs[m] # NoFlow PROVE FALSE
      BY <1>2, <2>2
    <3>2. PICK l \in Lsps, c \in Values(Chassis), v \in Values(Port) :
             Past(l, m) /\ Past(Chassis, c) /\ Past(Port, v)
      BY <3>1 DEF Synced, Owed
    <3>3. ~(Gone(l, m) \/ Gone(Chassis, c) \/ Gone(Port, v))
      BY <1>1, <1>6, <3>2, MatchDeleted
    <3>4. All(l, m)
      BY <3>2, <3>3 DEF Past, Stable
    <3> QED
      BY <2>2, <3>4
  <2> QED
    BY <2>1, <2>2
<1>7. ASSUME NEW m \in Addrs PROVE Committed(AfterJobs, A, D)[m] = Desired[m]
  <2>1. Committed(AfterJobs, A, D)[m] =
            IF \E r \in A : r.match = m THEN (CHOOSE r \in A : r.match = m).action
            ELSE IF m \in D THEN NoFlow ELSE AfterJobs[m]
    BY DEF Committed
  <2> HIDE DEF A, D
  <2> QED
    BY <1>3, <1>5, <1>6, <2>1
<1>8. /\ Committed(AfterJobs, A, D) = [m \in Addrs |-> Committed(AfterJobs, A, D)[m]]
      /\ Desired = [m \in Addrs |-> Desired[m]]
  BY DEF Committed, Desired
<1> QED
  BY <1>7, <1>8

------------------------------------------------------------------------------
(***************************************************************************)
(* The parts of the invariant, and what keeps each of them.                *)
(***************************************************************************)

\* What is known of the entities, of the sink, and of the threads' work.
Zoo == /\ \A e \in Ents : EntityOK(e)
       /\ live = [e \in Ents |-> live[e]]
       /\ Alive(Port) => live[Port].touched
       /\ FreshOK
       /\ Distinct
Sinks == \A s \in sink : s.ent \in Ents /\ s.val \in Values(s.ent)
Work == /\ flows \in [Addrs -> Ofports \cup {NoFlow}]
        /\ pc \in [Syncers -> {"idle", "touched", "update", "commit", "replace"}]
        /\ older \in {t \in Syncers : HasJob(t)} \cup {"none"}
        /\ older = "none" => \A t \in Syncers : ~HasJob(t)
        /\ JobsOK
        /\ lostBy \subseteq {"populate", "reorder", "boot", "ovs"}

LEMMA Parts == Types /\ Distinct <=> Zoo /\ Sinks /\ Work
BY DEF Types, TypeOK, Zoo, Sinks, Work

LEMMA PartsNext == Zoo' /\ Sinks' /\ Work' => Types' /\ Distinct'
BY DEF Types, TypeOK, Zoo, Sinks, Work

\* One entity is replaced, or goes away.
LEMMA ZooPut ==
    ASSUME Zoo, NEW e \in Ents, NEW n, live' = [live EXCEPT ![e] = n],
           \/ n = None
           \/ /\ n \in [val : Values(e), st : {"ADD", "NO"}, touched : BOOLEAN, up : BOOLEAN]
              /\ e = Port => n.touched
              /\ \A k \in Lsps \ {e} : e \in Lsps /\ Alive(k) => live[k].val # n.val
    PROVE  /\ \A x \in Ents \ {e} : live'[x] = live[x]
           /\ live'[e] = n
           /\ live' = [x \in Ents |-> live'[x]]
           /\ \A x \in Ents : EntityOK(x)'
           /\ Alive(Port)' => live'[Port].touched
           /\ Distinct'
<1>1. \A x \in Ents \ {e} : live'[x] = live[x]
  BY DEF Zoo
<1>2. live'[e] = n
  BY DEF Zoo
<1>3. live' = [x \in Ents |-> live'[x]]
  BY DEF Zoo
<1>4. ASSUME NEW x \in Ents PROVE EntityOK(x)'
  <2>1. CASE x = e
    BY <1>2, <2>1 DEF EntityOK, Alive
  <2>2. CASE x # e
    BY <1>1, <2>2 DEF Zoo, EntityOK, Alive
  <2> QED
    BY <2>1, <2>2
<1>5. Alive(Port)' => live'[Port].touched
  BY <1>1, <1>2, Kinds DEF Zoo, Alive
<1>6. Distinct'
  <2>1. SUFFICES ASSUME NEW k \in Lsps, NEW l \in Lsps,
                        live'[k] # None, live'[l] # None, live'[k].val = live'[l].val
                 PROVE  k = l
    BY DEF Distinct, Alive
  <2>2. CASE k # e /\ l # e
    BY <1>1, <2>1, <2>2, Kinds DEF Zoo, Distinct, Alive
  <2>3. CASE k = e /\ l # e
    <3>1. live'[l] = live[l] /\ live'[k] = n
      BY <1>1, <1>2, <2>3, Kinds
    <3> QED
      BY <2>1, <2>3, <3>1 DEF Alive
  <2>4. CASE k # e /\ l = e
    <3>1. live'[k] = live[k] /\ live'[l] = n
      BY <1>1, <1>2, <2>4, Kinds
    <3> QED
      BY <2>1, <2>4, <3>1 DEF Alive
  <2> QED
    BY <2>2, <2>3, <2>4
<1> QED
  BY <1>1, <1>2, <1>3, <1>4, <1>5, <1>6

\* Entities keep their values, whatever else of them changes.
LEMMA ZooKeeps ==
    ASSUME Zoo, live' = [x \in Ents |-> live'[x]], UNCHANGED fresh,
           \A x \in Ents :
              /\ Alive(x)' <=> Alive(x)
              /\ Alive(x) => /\ live'[x] \in [val : Values(x), st : {"ADD", "NO"},
                                              touched : BOOLEAN, up : BOOLEAN]
                             /\ live'[x].val = live[x].val
                             /\ live[x].touched => live'[x].touched
    PROVE  Zoo'
<1>1. \A x \in Ents : EntityOK(x)'
  BY DEF EntityOK, Alive
<1>2. Alive(Port)' => live'[Port].touched
  BY Kinds DEF Zoo
<1>3. FreshOK'
  BY DEF Zoo, FreshOK
<1>4. Distinct'
  BY Kinds DEF Zoo, Distinct
<1> QED
  BY <1>1, <1>2, <1>3, <1>4 DEF Zoo

\* Of the entities that count as new, some are marked.
LEMMA MarkedRecord ==
    ASSUME Zoo, NEW S \in SUBSET New, live' = Marked(S)
    PROVE  /\ live' = [x \in Ents |-> live'[x]]
           /\ \A x \in Ents :
                 /\ Alive(x)' <=> Alive(x)
                 /\ Alive(x) =>
                      /\ live'[x] \in [val : Values(x), st : {"ADD", "NO"},
                                       touched : BOOLEAN, up : BOOLEAN]
                      /\ live'[x].val = live[x].val /\ live'[x].touched = live[x].touched
                      /\ live'[x].up = live[x].up
                      /\ live'[x].st = IF x \in S THEN "NO" ELSE live[x].st
<1>1. live' = [x \in Ents |-> live'[x]]
  BY DEF Marked
<1>2. ASSUME NEW x \in Ents, x \in S
      PROVE  /\ Alive(x)' /\ Alive(x)
             /\ live'[x] \in [val : Values(x), st : {"ADD", "NO"},
                              touched : BOOLEAN, up : BOOLEAN]
             /\ live'[x].val = live[x].val /\ live'[x].touched = live[x].touched
             /\ live'[x].up = live[x].up /\ live'[x].st = "NO"
  <2>1. Alive(x) /\ live'[x] = [live[x] EXCEPT !.st = "NO"]
    BY <1>2 DEF Marked, New
  <2>2. live[x] \in [val : Values(x), st : {"ADD", "NO"}, touched : BOOLEAN, up : BOOLEAN]
    BY <2>1 DEF Zoo, EntityOK
  <2> DEFINE n == [live[x] EXCEPT !.st = "NO"]
  <2>3. /\ n \in [val : Values(x), st : {"ADD", "NO"}, touched : BOOLEAN, up : BOOLEAN]
        /\ n # None /\ n.st = "NO" /\ n.val = live[x].val
        /\ n.touched = live[x].touched /\ n.up = live[x].up
    BY <2>2, ChangedRecord, ZenonT(30)
  <2>4. live'[x] = n
    BY <2>1
  <2> HIDE DEF n
  <2> QED
    BY <2>1, <2>3, <2>4 DEF Alive
<1>3. ASSUME NEW x \in Ents, x \notin S PROVE live'[x] = live[x]
  BY <1>3 DEF Marked
<1>4. ASSUME NEW x \in Ents, Alive(x)
      PROVE  live[x] \in [val : Values(x), st : {"ADD", "NO"}, touched : BOOLEAN, up : BOOLEAN]
  BY <1>4 DEF Zoo, EntityOK
<1> QED
  BY <1>1, <1>2, <1>3, <1>4 DEF Alive

\* What is taken away goes to the sink.
LEMMA SunkOK ==
    ASSUME Zoo, Sinks, NEW e \in Ents, sink' = Sunk(e)
    PROVE  /\ Sinks'
           /\ sink \subseteq sink'
           /\ \A s \in sink' \ sink : On(e) /\ s.ent = e /\ s.val = live[e].val
           /\ On(e) => \E s \in sink' : s.ent = e /\ s.val = live[e].val
<1> DEFINE s0 == [ent |-> e, val |-> live[e].val]
<1>1. CASE On(e)
  <2>1. live[e].val \in Values(e)
    BY <1>1 DEF Zoo, EntityOK, On
  <2>2. s0.ent = e /\ s0.val = live[e].val
    OBVIOUS
  <2>3. sink' = sink \cup {s0}
    BY <1>1 DEF Sunk, On
  <2> HIDE DEF s0
  <2> QED
    BY <1>1, <2>1, <2>2, <2>3 DEF Sinks
<1>2. CASE ~On(e)
  BY <1>2 DEF Sunk, On, Sinks
<1> QED
  BY <1>1, <1>2

\* AfterJobs depends on the jobs and the bridge only.
LEMMA AfterJobsKept ==
    ASSUME UNCHANGED <<hadClean, flows, job, older>>,
           \A t \in Syncers : pc'[t] = "replace" <=> pc[t] = "replace"
    PROVE  AfterJobs' = AfterJobs
<1>1. Base' = Base
  BY DEF Base, NoFlows
<1>2. AfterJobs' = Applied(Base', older', job')
  BY AfterJobsNext
<1> QED
  BY <1>1, <1>2, AfterJobsIs

\* Nothing that a derivation has seen changes.
LEMMA SyncedKeeps ==
    ASSUME Synced, sink' = sink, AfterJobs' = AfterJobs, Clausal',
           \A x \in Ents : /\ Stable(x)' <=> Stable(x)
                           /\ Stable(x) => live'[x].val = live[x].val
    PROVE  Synced'
<1>1. \A x \in Ents : \A v : Gone(x, v)' <=> Gone(x, v)
  BY DEF Gone
<1>2. \A x \in Ents : \A v : Past(x, v)' <=> Past(x, v)
  BY <1>1 DEF Past
<1>3. Steady'
  BY <1>1, Kinds DEF Synced, Steady
<1>4. Kept'
  BY Kinds DEF Synced, Kept
<1>5. Owed'
  <2>1. SUFFICES ASSUME NEW m \in Addrs, AfterJobs'[m] # NoFlow
                 PROVE  /\ \E l \in Lsps : Past(l, m)'
                        /\ \E v \in Values(Chassis) : Past(Chassis, v)'
                        /\ \E v \in Values(Port) : Past(Port, v)'
    BY DEF Owed
  <2> QED
    BY <1>2, <2>1, Kinds DEF Synced, Owed
<1> QED
  BY <1>3, <1>4, <1>5 DEF Synced

\* One entity goes to the sink, and nothing or a new entity takes its place.
LEMMA SyncedReplaces ==
    ASSUME Zoo, Sinks, Synced, NEW e \in Ents, sink' = Sunk(e), AfterJobs' = AfterJobs,
           \A x \in Ents \ {e} : live'[x] = live[x],
           Alive(e)' => live'[e].st = "ADD"
    PROVE  Synced'
<1>1. /\ sink \subseteq sink'
      /\ \A s \in sink' \ sink : On(e) /\ s.ent = e /\ s.val = live[e].val
      /\ On(e) => \E s \in sink' : s.ent = e /\ s.val = live[e].val
  BY SunkOK
<1>2. ASSUME NEW x \in Ents, Stable(x)'
      PROVE  x # e /\ Stable(x) /\ live'[x] = live[x]
  <2>1. x # e
    BY <1>2 DEF Stable, On
  <2> QED
    BY <1>2, <2>1 DEF Stable, On, Alive
<1>3. Clausal'
  BY DEF Synced, Clausal, On, Alive
<1>4. Steady'
  <2>1. ASSUME NEW x \in Ents, Stable(x)', NEW s \in sink' PROVE s.ent # x
    BY <1>1, <1>2, <2>1 DEF Synced, Steady
  <2>2. ASSUME NEW k \in Lsps, NEW l \in Lsps, Stable(k)', NEW s \in sink',
               s.ent = l, s.val = live'[k].val
        PROVE  FALSE
    <3>1. k # e /\ Stable(k) /\ live'[k] = live[k]
      BY <1>2, <2>2, Kinds
    <3>2. CASE s \in sink
      BY <2>2, <3>1, <3>2 DEF Synced, Steady, Gone
    <3>3. CASE s \notin sink
      <4>1. On(e) /\ l = e /\ live[e].val = live[k].val
        BY <1>1, <2>2, <3>1, <3>3
      <4> QED
        BY <3>1, <4>1 DEF Zoo, Distinct, On, Stable
    <3> QED
      BY <3>2, <3>3
  <2> QED
    BY <2>1, <2>2 DEF Steady, Gone
<1>5. Kept'
  <2>1. SUFFICES ASSUME NEW l \in Lsps, Stable(l)', Stable(Chassis)', Stable(Port)'
                 PROVE  AfterJobs'[live'[l].val] = live'[Port].val
    BY DEF Kept
  <2> QED
    BY <1>2, <2>1, Kinds DEF Synced, Kept
<1>6. Owed'
  <2>1. ASSUME NEW x \in Ents, NEW v, Past(x, v) PROVE Past(x, v)'
    <3>1. CASE Gone(x, v)
      BY <1>1, <3>1 DEF Gone, Past
    <3>2. CASE Stable(x) /\ live[x].val = v /\ x = e
      BY <1>1, <3>2 DEF Gone, Past, Stable
    <3>3. CASE Stable(x) /\ live[x].val = v /\ x # e
      BY <3>3 DEF Past, Stable, On, Alive
    <3> QED
      BY <2>1, <3>1, <3>2, <3>3 DEF Past
  <2>2. SUFFICES ASSUME NEW m \in Addrs, AfterJobs'[m] # NoFlow
                 PROVE  /\ \E l \in Lsps : Past(l, m)'
                        /\ \E v \in Values(Chassis) : Past(Chassis, v)'
                        /\ \E v \in Values(Port) : Past(Port, v)'
    BY DEF Owed
  <2> QED
    BY <2>1, <2>2, Kinds DEF Synced, Owed
<1> QED
  BY <1>3, <1>4, <1>5, <1>6 DEF Synced

\* The work of the threads is not touched by what changes the zoo.
LEMMA WorkKept ==
    ASSUME Work, UNCHANGED <<flows, older, job, hadClean, lostBy>>,
           pc' \in [Syncers -> {"idle", "touched", "update", "commit", "replace"}],
           \A t \in Syncers : /\ pc'[t] = "replace" <=> pc[t] = "replace"
                              /\ pc'[t] = "commit" <=> pc[t] = "commit"
    PROVE  Work' /\ AfterJobs' = AfterJobs
<1>1. \A t \in Syncers : HasJob(t)' <=> HasJob(t)
  BY DEF HasJob
<1>2. JobsOK'
  BY <1>1, TwoSyncers DEF Work, JobsOK, Jobs, Rules, NoJob, Other
<1>3. older' \in {t \in Syncers : HasJob(t)'} \cup {"none"}
  BY <1>1 DEF Work
<1> QED
  BY <1>1, <1>2, <1>3, AfterJobsKept DEF Work

------------------------------------------------------------------------------
(***************************************************************************)
(* The operations on the zoo.                                              *)
(***************************************************************************)

\* main inserts and removes logical ports and chassis, ovsdb the tunnel port.
Owns(t, e) == (e = Port) <=> (t = "ovsdb")

\* The freshly inserted entity of the other thread is another one.
LEMMA FreshElsewhere ==
    ASSUME Zoo, NEW t \in Writers, NEW u \in Writers, NEW e \in Ents, Owns(t, e),
           fresh[t] = "none", fresh[u] # "none"
    PROVE  fresh[u] \in Ents /\ fresh[u] # e /\ Alive(fresh[u])
BY Kinds DEF Zoo, FreshOK, Owns, Writers

LEMMA AddEntityStep ==
    ASSUME IInv, NEW t \in Writers, NEW e \in Ents, NEW v \in Values(e), Owns(t, e),
           AddEntity(t, e, v), UNCHANGED pc
    PROVE  IInv'
<1> DEFINE n == IF Conflict(e, v) THEN None ELSE Entity(v, "ADD", TouchedAtBirth(e), FALSE)
<1>1. Zoo /\ Sinks /\ Work
  BY Parts DEF IInv
<1>2. live' = [live EXCEPT ![e] = n] /\ sink' = Sunk(e) /\ fresh[t] = "none"
  BY DEF AddEntity
<1>3. \/ n = None
      \/ /\ n \in [val : Values(e), st : {"ADD", "NO"}, touched : BOOLEAN, up : BOOLEAN]
         /\ n # None /\ n.st = "ADD" /\ (e = Port => n.touched)
         /\ \A k \in Lsps \ {e} : e \in Lsps /\ Alive(k) => live[k].val # n.val
  <2>1. CASE Conflict(e, v)
    BY <2>1
  <2>2. CASE ~Conflict(e, v)
    <3>1. TouchedAtBirth(e) \in BOOLEAN /\ (e = Port => TouchedAtBirth(e))
      BY DEF TouchedAtBirth
    <3>2. \A k \in Lsps \ {e} : e \in Lsps /\ Alive(k) => live[k].val # v
      BY <2>2 DEF Conflict
    <3> DEFINE b == TouchedAtBirth(e)
               r == Entity(v, "ADD", b, FALSE)
    <3>3. n = r
      BY <2>2
    <3>4. b \in BOOLEAN /\ (e = Port => b)
      BY <3>1
    <3> HIDE DEF b
    <3>5. /\ r # None
          /\ r \in [val : Values(e), st : {"ADD", "NO"}, touched : BOOLEAN, up : BOOLEAN]
          /\ r.val = v /\ r.st = "ADD" /\ r.touched = b
      BY <3>4 DEF Entity, None
    <3> HIDE DEF n, r
    <3> QED
      BY <3>2, <3>3, <3>4, <3>5
  <2> QED
    BY <2>1, <2>2
<1>4. (fresh' = fresh /\ n = None) \/ (fresh' = [fresh EXCEPT ![t] = e] /\ n # None)
  <2>1. CASE Conflict(e, v)
    BY <2>1 DEF AddEntity
  <2>2. CASE ~Conflict(e, v)
    <3>1. n # None
      BY <2>2 DEF Entity, None
    <3> QED
      BY <2>2, <3>1 DEF AddEntity
  <2> QED
    BY <2>1, <2>2
<1> HIDE DEF n
<1>5. /\ \A x \in Ents \ {e} : live'[x] = live[x]
      /\ live'[e] = n
      /\ live' = [x \in Ents |-> live'[x]]
      /\ \A x \in Ents : EntityOK(x)'
      /\ Alive(Port)' => live'[Port].touched
      /\ Distinct'
  BY <1>1, <1>2, <1>3, ZooPut
<1>6. FreshOK'
  <2>1. fresh' \in [Writers -> Ents \cup {"none"}]
    BY <1>1, <1>4 DEF Zoo, FreshOK
  <2>2. fresh'["main"] # Port /\ fresh'["ovsdb"] \in {Port, "none"}
    BY <1>1, <1>4, Kinds DEF Zoo, FreshOK, Owns, Writers
  <2>3. ASSUME NEW u \in Writers, fresh'[u] # "none" PROVE live'[fresh'[u]] # None
    <3>1. CASE fresh'[u] = fresh[u]
      <4>1. fresh[u] \in Ents /\ fresh[u] # e /\ live[fresh[u]] # None
        BY <1>1, <1>2, <2>3, <3>1, FreshElsewhere DEF Alive
      <4> QED
        BY <1>5, <3>1, <4>1
    <3>2. CASE fresh'[u] = e /\ n # None
      BY <1>5, <3>2
    <3> QED
      BY <1>1, <1>4, <3>1, <3>2 DEF Zoo, FreshOK
  <2> QED
    BY <2>1, <2>2, <2>3 DEF FreshOK, Alive
<1>7. Zoo'
  BY <1>5, <1>6 DEF Zoo
<1>8. Sinks'
  BY <1>1, <1>2, SunkOK
<1>9. Work' /\ AfterJobs' = AfterJobs
  <2>1. pc \in [Syncers -> {"idle", "touched", "update", "commit", "replace"}]
    BY <1>1 DEF Work
  <2>2. UNCHANGED <<flows, older, job, hadClean, lostBy>>
    BY DEF AddEntity
  <2> QED
    BY <1>1, <2>1, <2>2, WorkKept
<1>10. lostBy' = {} => Synced'
  <2>1. Alive(e)' => live'[e].st = "ADD"
    BY <1>3, <1>5 DEF Alive
  <2>2. lostBy' = lostBy
    BY DEF AddEntity
  <2> QED
    BY <1>1, <1>2, <1>5, <1>9, <2>1, <2>2, SyncedReplaces DEF IInv
<1> QED
  BY <1>7, <1>8, <1>9, <1>10, PartsNext DEF IInv

LEMMA MoveEntity2SinkStep ==
    ASSUME IInv, NEW t \in Writers, NEW e \in Ents, Owns(t, e),
           MoveEntity2Sink(t, e), UNCHANGED pc
    PROVE  IInv'
<1>1. Zoo /\ Sinks /\ Work
  BY Parts DEF IInv
<1>2. live' = [live EXCEPT ![e] = None] /\ sink' = Sunk(e) /\ fresh[t] = "none"
  BY DEF MoveEntity2Sink
<1>3. UNCHANGED <<flows, older, job, hadClean, lostBy, fresh>>
  BY DEF MoveEntity2Sink
<1>4. /\ \A x \in Ents \ {e} : live'[x] = live[x]
      /\ live'[e] = None
      /\ live' = [x \in Ents |-> live'[x]]
      /\ \A x \in Ents : EntityOK(x)'
      /\ Alive(Port)' => live'[Port].touched
      /\ Distinct'
  BY <1>1, <1>2, ZooPut
<1>5. FreshOK'
  <2>1. ASSUME NEW u \in Writers, fresh[u] # "none" PROVE live'[fresh[u]] # None
    <3>1. fresh[u] \in Ents /\ fresh[u] # e /\ live[fresh[u]] # None
      BY <1>1, <1>2, <2>1, FreshElsewhere DEF Alive
    <3> QED
      BY <1>4, <3>1
  <2> QED
    BY <1>1, <1>3, <2>1 DEF Zoo, FreshOK, Alive
<1>6. Zoo'
  BY <1>4, <1>5 DEF Zoo
<1>7. Sinks'
  BY <1>1, <1>2, SunkOK
<1>8. Work' /\ AfterJobs' = AfterJobs
  <2>1. pc \in [Syncers -> {"idle", "touched", "update", "commit", "replace"}]
    BY <1>1 DEF Work
  <2> QED
    BY <1>1, <1>3, <2>1, WorkKept
<1>9. lostBy' = {} => Synced'
  <2>1. Alive(e)' => live'[e].st = "ADD"
    BY <1>4 DEF Alive
  <2> QED
    BY <1>1, <1>2, <1>3, <1>4, <1>8, <2>1, SyncedReplaces DEF IInv
<1> QED
  BY <1>6, <1>7, <1>8, <1>9, PartsNext DEF IInv

LEMMA PopulateStep ==
    ASSUME IInv, NEW t \in Writers, Populate(t)
    PROVE  IInv'
<1> DEFINE e == fresh[t]
           n == [live[e] EXCEPT !.up = TRUE]
<1>1. Zoo /\ Sinks /\ Work
  BY Parts DEF IInv
<1>2. e \in Ents /\ Alive(e)
  BY <1>1 DEF Populate, Zoo, FreshOK
<1>3. live[e] \in [val : Values(e), st : {"ADD", "NO"}, touched : BOOLEAN, up : BOOLEAN]
  BY <1>1, <1>2 DEF Zoo, EntityOK
<1>4. /\ n \in [val : Values(e), st : {"ADD", "NO"}, touched : BOOLEAN, up : BOOLEAN]
      /\ n # None /\ n.up = TRUE
      /\ n.val = live[e].val /\ n.touched = live[e].touched /\ n.st = live[e].st
  BY <1>3, ChangedRecord, ZenonT(30)
<1>5. live' = [live EXCEPT ![e] = n] /\ fresh' = [fresh EXCEPT ![t] = "none"]
  BY DEF Populate
<1> HIDE DEF n, e
<1>6. /\ e = Port => n.touched
      /\ \A k \in Lsps \ {e} : e \in Lsps /\ Alive(k) => live[k].val # n.val
  BY <1>1, <1>2, <1>4 DEF Zoo, Distinct
<1>7. /\ \A x \in Ents \ {e} : live'[x] = live[x]
      /\ live'[e] = n
      /\ live' = [x \in Ents |-> live'[x]]
      /\ \A x \in Ents : EntityOK(x)'
      /\ Alive(Port)' => live'[Port].touched
      /\ Distinct'
  BY <1>1, <1>2, <1>4, <1>5, <1>6, ZooPut
<1>8. \A x \in Ents : Alive(x)' <=> Alive(x)
  BY <1>2, <1>4, <1>7 DEF Alive
<1>9. FreshOK'
  <2>1. ASSUME NEW u \in Writers, fresh'[u] # "none" PROVE live'[fresh'[u]] # None
    <3>1. u # t /\ fresh'[u] = fresh[u]
      BY <1>1, <1>5, <2>1 DEF Zoo, FreshOK
    <3> QED
      BY <1>1, <1>8, <2>1, <3>1 DEF Zoo, FreshOK, Alive
  <2>2. fresh' \in [Writers -> Ents \cup {"none"}]
    BY <1>1, <1>5 DEF Zoo, FreshOK
  <2>3. fresh'["main"] # Port /\ fresh'["ovsdb"] \in {Port, "none"}
    BY <1>1, <1>5, Kinds DEF Zoo, FreshOK, Writers, Ents
  <2> QED
    BY <2>1, <2>2, <2>3 DEF FreshOK, Alive
<1>10. Zoo'
  BY <1>7, <1>9 DEF Zoo
<1>11. Sinks' /\ sink' = sink
  BY <1>1 DEF Populate, Sinks
<1>12. Work' /\ AfterJobs' = AfterJobs
  <2>1. UNCHANGED <<flows, older, job, hadClean, lostBy, pc>>
    BY DEF Populate
  <2>2. pc \in [Syncers -> {"idle", "touched", "update", "commit", "replace"}]
    BY <1>1 DEF Work
  <2> QED
    BY <1>1, <2>1, <2>2, WorkKept
<1>13. lostBy' = {} => Synced'
  <2>1. lostBy' = lostBy
    BY DEF Populate
  <2>2. \A x \in Ents : /\ Stable(x)' <=> Stable(x)
                        /\ Stable(x) => live'[x].val = live[x].val
    BY <1>2, <1>4, <1>7, <1>8 DEF Stable, On, Alive
  <2>3. Clausal => Clausal'
    BY <1>2, <1>4, <1>7, <1>8 DEF Clausal, On, Alive
  <2> QED
    BY <1>11, <1>12, <2>1, <2>2, <2>3, SyncedKeeps DEF IInv, Synced
<1> QED
  BY <1>10, <1>11, <1>12, <1>13, PartsNext DEF IInv

\* An entity that is touched only now counts as new.
LEMMA TouchStep ==
    ASSUME IInv, NEW e \in Ents, Touch(e), UNCHANGED <<sink, fresh>>,
           UNCHANGED <<flows, older, job, hadClean, lostBy>>,
           pc' \in [Syncers -> {"idle", "touched", "update", "commit", "replace"}],
           \A t \in Syncers : /\ pc'[t] = "replace" <=> pc[t] = "replace"
                              /\ pc'[t] = "commit" <=> pc[t] = "commit"
    PROVE  IInv'
<1> DEFINE n == Entity(live[e].val, "ADD", TRUE, TRUE)
<1>1. Zoo /\ Sinks /\ Work
  BY Parts DEF IInv
<1>2. live' = [x \in Ents |-> live'[x]]
  BY <1>1 DEF Touch, Zoo
<1>3. \A x \in Ents : live'[x] = live[x] \/ (x = e /\ Alive(x) /\ ~live[x].touched /\ live'[x] = n)
  BY <1>1 DEF Touch, Zoo
<1>4. \A x \in Ents : Alive(x) => live[x] \in [val : Values(x), st : {"ADD", "NO"},
                                               touched : BOOLEAN, up : BOOLEAN]
  BY <1>1 DEF Zoo, EntityOK
<1>5. Alive(e) => n \in [val : Values(e), st : {"ADD", "NO"}, touched : BOOLEAN, up : BOOLEAN]
  BY <1>4 DEF Entity
<1>6. /\ n # None /\ n.val = live[e].val /\ n.st = "ADD"
      /\ n.touched = TRUE /\ n.up = TRUE
  BY DEF Entity, None
<1> HIDE DEF n
<1>7. ASSUME NEW x \in Ents
      PROVE  /\ Alive(x)' <=> Alive(x)
             /\ Alive(x) => /\ live'[x] \in [val : Values(x), st : {"ADD", "NO"},
                                             touched : BOOLEAN, up : BOOLEAN]
                            /\ live'[x].val = live[x].val
                            /\ live[x].touched => live'[x].touched
  <2>1. CASE live'[x] = live[x]
    BY <1>4, <2>1 DEF Alive
  <2>2. CASE x = e /\ Alive(x) /\ live'[x] = n
    BY <1>5, <1>6, <2>2 DEF Alive
  <2> QED
    BY <1>3, <2>1, <2>2
<1>8. Zoo'
  BY <1>1, <1>2, <1>7, ZooKeeps
<1>9. Work' /\ AfterJobs' = AfterJobs
  BY <1>1, WorkKept
<1>10. lostBy' = {} => Synced'
  <2>1. ASSUME NEW x \in Ents
        PROVE  /\ Stable(x)' <=> Stable(x)
               /\ Stable(x) => live'[x].val = live[x].val
    <3>1. CASE live'[x] = live[x]
      BY <3>1 DEF Stable, On, Alive
    <3>2. CASE x = e /\ Alive(x) /\ ~live[x].touched /\ live'[x] = n
      <4>1. ~Stable(x) /\ live'[x].st = "ADD"
        BY <1>6, <3>2 DEF Stable, On
      <4> QED
        BY <4>1 DEF Stable
    <3> QED
      BY <1>3, <3>1, <3>2
  <2>2. Clausal => Clausal'
    BY <1>3, <1>6 DEF Clausal, On, Alive
  <2> QED
    BY <1>9, <2>1, <2>2, SyncedKeeps DEF IInv, Synced
<1> QED
  BY <1>1, <1>8, <1>9, <1>10, PartsNext DEF IInv, Sinks

------------------------------------------------------------------------------
(***************************************************************************)
(* Deriving rules.                                                         *)
(***************************************************************************)

\* A derivation takes the clauses for what there will be when all are populated.
LEMMA AllPopulated ==
    ASSUME Types, Clausal, Unpopulated = {}
    PROVE  Clauses = AllClauses
<1>1. ASSUME NEW e \in Ents
      PROVE  Alive(e) /\ live[e].touched /\ live[e].up <=> Alive(e) /\ live[e].touched
  BY DEF Unpopulated, Clausal, On
<1>2. ASSUME NEW e \in Ents
      PROVE  {y \in {e} : Alive(y) /\ live[y].touched /\ live[y].up}
               = {y \in {e} : Alive(y) /\ live[y].touched}
  BY <1>1
<1> QED
  BY <1>2 DEF Clauses, AllClauses

\* The job that is derived is of rules, whether all is populated or not.
LEMMA ClausesType ==
    ASSUME TypeOK
    PROVE  [add |-> Adds(Clauses), del |-> Dels(Clauses)] \in Jobs
<1>1. ASSUME NEW e \in Ents, NEW c \in Clauses[e]
      PROVE  c.val \in Values(e)
  <2>1. CASE Alive(e) /\ c = [val |-> live[e].val, st |-> live[e].st]
    BY <2>1, LiveRecord
  <2>2. CASE \E s \in sink : s.ent = e /\ c = [val |-> s.val, st |-> "DEL"]
    BY <2>2 DEF TypeOK
  <2> QED
    BY <1>1, <2>1, <2>2 DEF Clauses
<1>2. ASSUME NEW j \in Joins(Clauses)
      PROVE  j.lsp.val \in Addrs /\ j.port.val \in Ofports
  <2>1. PICK k, a, c, q :
           /\ k \in Lsps
           /\ a \in Clauses[k] /\ c \in Clauses[Chassis] /\ q \in Clauses[Port]
           /\ j = [lsp |-> a, chassis |-> c, port |-> q]
    BY <1>2 DEF Joins
  <2>2. a.val \in Addrs /\ q.val \in Ofports
    BY <1>1, <2>1, Kinds
  <2> QED
    BY <2>1, <2>2
<1>3. Adds(Clauses) \in SUBSET Rules
  BY <1>2 DEF Adds, Rules
<1>4. Dels(Clauses) \in SUBSET Addrs
  BY <1>2 DEF Dels
<1> QED
  BY <1>3, <1>4 DEF Jobs

\* The new job comes last: it is applied to what the jobs under way will give.
LEMMA JobAppended ==
    ASSUME Types, NEW t \in Syncers, pc[t] = "update", Compute(t)
    PROVE  /\ Work'
           /\ AfterJobs' = Committed(AfterJobs, job'[t].add, job'[t].del)
<1> DEFINE u == Other(t)
<1>1. u = Other(t) /\ u \in Syncers /\ u # t /\ Other(u) = t /\ \A x \in Syncers : x = t \/ x = u
  BY TwoSyncers
<1>2. /\ job' = [job EXCEPT ![t] = [add |-> Adds(Clauses), del |-> Dels(Clauses)]]
      /\ pc' = [pc EXCEPT ![t] = "commit"]
      /\ older' = IF older = "none" THEN t ELSE older
      /\ UNCHANGED <<flows, hadClean, lostBy>>
  BY DEF Compute
<1>3. /\ ~HasJob(t) /\ job[t] = NoJob /\ older # t /\ older \in {u, "none"}
      /\ older = u => HasJob(u)
  BY <1>1 DEF HasJob, Types, TypeOK, JobsOK, Syncers
<1>4. older = "none" => job[u] = NoJob
  BY <1>1 DEF Types, TypeOK, JobsOK
<1> HIDE DEF u
<1>5. job' \in [Syncers -> Jobs] /\ job'[u] = job[u]
  <2>1. [add |-> Adds(Clauses), del |-> Dels(Clauses)] \in Jobs
    BY ClausesType DEF Types
  <2> QED
    BY <1>1, <1>2, <2>1 DEF Types, JobsOK
<1>6. /\ pc'[t] = "commit" /\ pc'[u] = pc[u] /\ HasJob(t)' /\ (HasJob(u)' <=> HasJob(u))
      /\ pc' \in [Syncers -> {"idle", "touched", "update", "commit", "replace"}]
  BY <1>1, <1>2 DEF Types, TypeOK, HasJob
<1>7. Work'
  <2>1. older' \in {x \in Syncers : HasJob(x)'} /\ older' # "none"
    BY <1>1, <1>2, <1>3, <1>6 DEF Syncers
  <2>2. \A x \in Syncers : HasJob(x)' \/ job'[x] = NoJob
    BY <1>1, <1>5, <1>6 DEF Types, JobsOK
  <2>3. \A x \in Syncers : pc'[x] = "replace" => hadClean' /\ pc'[Other(x)] # "replace"
    BY <1>1, <1>2, <1>6 DEF Types, JobsOK
  <2>4. JobsOK'
    BY <1>2, <1>5, <2>2, <2>3 DEF Types, JobsOK
  <2> QED
    BY <1>2, <1>6, <2>1, <2>4 DEF Types, TypeOK, Work
<1>8. Base' = Base /\ Base \in [Addrs -> Ofports \cup {NoFlow}]
  <2>1. (\E x \in Syncers : pc'[x] = "replace") <=> (\E x \in Syncers : pc[x] = "replace")
    BY <1>1, <1>6
  <2>2. Base' = Base
    BY <1>2, <2>1 DEF Base, NoFlows
  <2> QED
    BY <2>2, AfterJobsType
<1>9. AfterJobs' = Applied(Base, older', job') /\ AfterJobs = Applied(Base, older, job)
  BY <1>8, AfterJobsIs, AfterJobsNext
<1>10. CASE older = "none"
  <2>1. AfterJobs = Base
    BY <1>9, <1>10 DEF Applied
  <2>2. older' = t /\ job'[u] = NoJob
    BY <1>2, <1>4, <1>5, <1>10
  <2>3. Applied(Base, older', job') = Committed(Base, job'[t].add, job'[t].del)
    BY <1>1, <1>5, <1>8, <2>2, OneJob DEF Syncers
  <2> QED
    BY <1>7, <1>9, <2>1, <2>3
<1>11. CASE older = u
  <2>1. older' = u /\ u # "none"
    BY <1>1, <1>2, <1>11 DEF Syncers
  <2>2. Applied(Base, older', job')
          = Committed(Committed(Base, job[u].add, job[u].del), job'[t].add, job'[t].del)
    BY <1>1, <1>5, <2>1 DEF Applied
  <2>3. AfterJobs = Committed(Base, job[u].add, job[u].del)
    BY <1>1, <1>3, <1>8, <1>9, <1>11, <2>1, OneJob DEF Types, JobsOK
  <2> QED
    BY <1>7, <1>9, <2>2, <2>3
<1> QED
  BY <1>3, <1>7, <1>10, <1>11

\* After a derivation what counts is what was there, and its rules are owed.
LEMMA DerivedSynced ==
    ASSUME Zoo, Synced, AfterJobs' = Desired, sink' = {}, Unpopulated = {},
           live' = Marked(New)
    PROVE  Synced'
<1>1. ASSUME NEW x \in Ents
      PROVE  /\ Alive(x)' <=> Alive(x)
             /\ Alive(x) =>
                  /\ live'[x].val = live[x].val /\ live[x].val \in Values(x)
                  /\ live'[x].touched = live[x].touched
                  /\ live'[x].up = live[x].up /\ live'[x].st = "NO"
  <2>1. Alive(x) => live[x].st \in {"ADD", "NO"} /\ live[x].val \in Values(x)
    BY DEF Zoo, EntityOK
  <2>2. /\ Alive(x)' <=> Alive(x)
        /\ Alive(x) =>
             /\ live'[x].val = live[x].val /\ live'[x].touched = live[x].touched
             /\ live'[x].up = live[x].up
             /\ live'[x].st = IF x \in New THEN "NO" ELSE live[x].st
    BY MarkedRecord
  <2>3. x \in New <=> Alive(x) /\ live[x].st = "ADD"
    BY DEF New
  <2> QED
    BY <2>1, <2>2, <2>3
<1>2. ASSUME NEW x \in Ents
      PROVE  /\ On(x)' <=> On(x)
             /\ Stable(x)' <=> On(x)
             /\ On(x) => live'[x].val = live[x].val /\ live[x].val \in Values(x)
  BY <1>1 DEF On, Stable
<1>3. Clausal'
  <2>1. SUFFICES ASSUME NEW x \in Ents, On(x)', ~live'[x].up PROVE FALSE
    BY DEF Clausal
  <2>2. On(x) /\ ~live[x].up
    BY <1>1, <1>2, <2>1 DEF On
  <2> QED
    BY <2>2 DEF Synced, Clausal, Unpopulated, On
<1>4. Steady'
  BY DEF Steady, Gone
<1>5. Kept'
  <2>1. SUFFICES ASSUME NEW l \in Lsps, On(l), On(Chassis), On(Port)
                 PROVE  Desired[live[l].val] = live[Port].val
    BY <1>2, Kinds DEF Kept
  <2>2. live[l].val \in Addrs
    BY <1>2, <2>1, Kinds
  <2> QED
    BY <2>1, <2>2 DEF Desired, On
<1>6. Owed'
  <2>1. SUFFICES ASSUME NEW m \in Addrs, Desired[m] # NoFlow
                 PROVE  /\ \E l \in Lsps : Past(l, m)'
                        /\ \E v \in Values(Chassis) : Past(Chassis, v)'
                        /\ \E v \in Values(Port) : Past(Port, v)'
    BY DEF Owed
  <2>2. /\ On(Port) /\ On(Chassis)
        /\ \E l \in Lsps : On(l) /\ live[l].val = m
    <3>1. /\ Alive(Port) /\ Alive(Chassis) /\ live[Chassis].touched
          /\ \E l \in Lsps : Alive(l) /\ live[l].touched /\ live[l].val = m
      BY <2>1 DEF Desired
    <3> QED
      BY <3>1 DEF On, Zoo
  <2>3. \A x \in Ents : On(x) => Past(x, live[x].val)'
    BY <1>2 DEF Past
  <2> QED
    BY <1>2, <2>2, <2>3, Kinds
<1> QED
  BY <1>3, <1>4, <1>5, <1>6 DEF Synced

LEMMA ComputeStep ==
    ASSUME IInv, NEW t \in Syncers, pc[t] = "update", Compute(t)
    PROVE  IInv'
<1>1. Types /\ Zoo /\ Sinks /\ Work
  BY Parts DEF IInv
<1>2. live' = Marked(New) /\ sink' = {} /\ Unpopulated = {} /\ UNCHANGED <<fresh, lostBy>>
  BY DEF Compute
<1>3. Zoo'
  BY <1>1, <1>2, MarkedRecord, ZooKeeps
<1>4. Work' /\ AfterJobs' = Committed(AfterJobs, job'[t].add, job'[t].del)
  BY <1>1, JobAppended
<1>5. lostBy' = {} => Synced'
  <2>1. SUFFICES ASSUME lostBy = {} PROVE Synced'
    BY <1>2
  <2>2. Synced
    BY <2>1 DEF IInv
  <2>3. Clauses = AllClauses
    BY <1>1, <1>2, <2>2, AllPopulated DEF Synced
  <2>4. job'[t].add = Adds(AllClauses) /\ job'[t].del = Dels(AllClauses)
    BY <1>1, <2>3 DEF Compute, Types, JobsOK
  <2>5. AfterJobs' = Desired
    BY <1>1, <1>4, <2>2, <2>4, SyncedOwes
  <2> QED
    BY <1>1, <1>2, <2>2, <2>5, DerivedSynced
<1> QED
  BY <1>2, <1>3, <1>4, <1>5, PartsNext DEF IInv, Sinks

LEMMA ComputeRaisesStep ==
    ASSUME IInv, NEW t \in Syncers, pc[t] = "update", ComputeRaises(t)
    PROVE  IInv'
<1>1. Types /\ Zoo /\ Sinks /\ Work
  BY Parts DEF IInv
<1>2. PICK e \in Unpopulated, S \in SUBSET (New \ Unpopulated) : live' = Marked(S \cup {e})
  BY DEF ComputeRaises
<1>3. S \cup {e} \in SUBSET New
  BY DEF Unpopulated, New
<1>4. sink' = {} /\ lostBy' = lostBy \cup {"populate"} /\ pc' = [pc EXCEPT ![t] = "idle"]
        /\ UNCHANGED <<hadClean, flows, fresh, job, older>>
  BY DEF ComputeRaises
<1>5. Zoo'
  BY <1>1, <1>2, <1>3, <1>4, MarkedRecord, ZooKeeps
<1>6. Work'
  <2>1. /\ pc' \in [Syncers -> {"idle", "touched", "update", "commit", "replace"}]
        /\ \A x \in Syncers : /\ pc'[x] = "replace" <=> pc[x] = "replace"
                              /\ HasJob(x)' <=> HasJob(x)
    BY <1>1, <1>4 DEF Work, HasJob
  <2>2. JobsOK'
    BY <1>1, <1>4, <2>1, TwoSyncers DEF Work, JobsOK, Jobs, Rules, NoJob, Other
  <2> QED
    BY <1>1, <1>4, <2>1, <2>2 DEF Work
<1> QED
  BY <1>4, <1>5, <1>6, PartsNext DEF IInv, Sinks

------------------------------------------------------------------------------
(***************************************************************************)
(* Committing jobs.                                                        *)
(***************************************************************************)

\* The zoo and what is known of it do not depend on the threads' work.
LEMMA ZooKept ==
    ASSUME Zoo, Sinks, UNCHANGED <<live, sink, fresh>>
    PROVE  /\ Zoo' /\ Sinks'
           /\ Synced /\ AfterJobs' = AfterJobs => Synced'
<1>1. Zoo' /\ Sinks'
  BY DEF Zoo, Sinks, EntityOK, Alive, FreshOK, Distinct
<1>2. ASSUME Synced, AfterJobs' = AfterJobs PROVE Synced'
  <2>1. Clausal'
    BY <1>2 DEF Synced, Clausal, On, Alive
  <2>2. \A x \in Ents : Stable(x)' <=> Stable(x)
    BY DEF Stable, On, Alive
  <2> QED
    BY <1>2, <2>1, <2>2, SyncedKeeps
<1> QED
  BY <1>1, <1>2

\* A thread gives its job up, whatever became of it.
LEMMA JobDoneWork ==
    ASSUME Work, NEW t \in Syncers, HasJob(t), JobDone(t), UNCHANGED hadClean,
           flows' \in [Addrs -> Ofports \cup {NoFlow}],
           lostBy' \subseteq {"populate", "reorder", "boot", "ovs"}
    PROVE  Work'
<1> DEFINE u == Other(t)
<1>1. u = Other(t) /\ u \in Syncers /\ u # t /\ Other(u) = t /\ \A x \in Syncers : x = t \/ x = u
  BY TwoSyncers
<1> HIDE DEF u
<1>2. job' = [job EXCEPT ![t] = NoJob] /\ pc' = [pc EXCEPT ![t] = "idle"]
  BY DEF JobDone
<1>3. /\ pc' \in [Syncers -> {"idle", "touched", "update", "commit", "replace"}]
      /\ pc'[t] = "idle" /\ pc'[u] = pc[u] /\ ~HasJob(t)' /\ (HasJob(u)' <=> HasJob(u))
  BY <1>1, <1>2 DEF Work, HasJob
<1>4. job' \in [Syncers -> Jobs] /\ job'[t] = NoJob /\ job'[u] = job[u]
  BY <1>1, <1>2 DEF Work, JobsOK, Jobs, NoJob
<1>5. older' = IF older # t THEN older ELSE IF HasJob(u) THEN u ELSE "none"
  BY <1>1 DEF JobDone
<1>6. older \in {t, u} /\ (older = u => HasJob(u))
  BY <1>1 DEF Work
<1>7. /\ older' \in {x \in Syncers : HasJob(x)'} \cup {"none"}
      /\ older' = "none" => \A x \in Syncers : ~HasJob(x)'
  <2>1. u # "none"
    BY <1>1 DEF Syncers
  <2>2. older' = (IF HasJob(u) THEN u ELSE "none")
    BY <1>1, <1>5, <1>6
  <2> QED
    BY <1>1, <1>3, <2>1, <2>2
<1>8. JobsOK'
  <2>1. \A x \in Syncers : HasJob(x)' \/ job'[x] = NoJob
    BY <1>1, <1>3, <1>4 DEF Work, JobsOK
  <2>2. \A x \in Syncers : pc'[x] = "replace" => hadClean' /\ pc'[Other(x)] # "replace"
    BY <1>1, <1>3 DEF Work, JobsOK
  <2> QED
    BY <1>4, <2>1, <2>2 DEF Work, JobsOK
<1> QED
  BY <1>3, <1>7, <1>8 DEF Work

\* What a commit moves from a job to the bridge is in their sum before and after.
LEMMA JobDoneAfter ==
    ASSUME Types, Types', NEW t \in Syncers, HasJob(t), JobDone(t),
           older = t \/ Matches(job[Other(t)]) \cap Matches(job[t]) = {},
           Base' = Committed(Base, job[t].add, job[t].del)
    PROVE  AfterJobs' = AfterJobs
<1> DEFINE u == Other(t)
<1>1. u = Other(t) /\ u \in Syncers /\ u # t /\ Other(u) = t /\ \A x \in Syncers : x = t \/ x = u
  BY TwoSyncers
<1> HIDE DEF u
<1>2. job' \in [Syncers -> Jobs] /\ job'[t] = NoJob /\ job'[u] = job[u]
  BY <1>1 DEF Types, JobsOK, JobDone
<1>3. older \in Syncers /\ older' \in Syncers \cup {"none"}
  BY DEF Types, TypeOK
<1>4. Base' \in [Addrs -> Ofports \cup {NoFlow}]
  <2>1. Base \in [Addrs -> Ofports \cup {NoFlow}] /\ job[t].add \in SUBSET Rules
    BY AfterJobsType DEF Types, JobsOK, Jobs
  <2> QED
    BY <2>1, CommittedType
<1>5. older' = "none" => job'[u] = NoJob
  BY <1>1 DEF Types, TypeOK, JobsOK
<1>6. Applied(Base', older', job') = Committed(Base', job'[u].add, job'[u].del)
  BY <1>1, <1>2, <1>3, <1>4, <1>5, OneJob
<1>7. Applied(Base, older, job)
        = Committed(Committed(Base, job[t].add, job[t].del), job[u].add, job[u].del)
  BY <1>1, <1>3, FirstJob
<1> QED
  BY <1>2, <1>6, <1>7, AfterJobsIs, AfterJobsNext

\* Commits of which nothing is lost leave the sum of bridge and jobs as it is.
LEMMA CommitStep ==
    ASSUME IInv, NEW t \in Syncers, HasJob(t), JobDone(t), UNCHANGED hadClean,
           UNCHANGED <<live, sink, fresh>>, lostBy' = lostBy \cup CommitTags(t),
           flows' \in [Addrs -> Ofports \cup {NoFlow}],
           CommitTags(t) = {} => Base' = Committed(Base, job[t].add, job[t].del)
    PROVE  IInv'
<1>1. Types /\ Zoo /\ Sinks /\ Work
  BY Parts DEF IInv
<1>2. Work'
  BY <1>1, JobDoneWork DEF Work, CommitTags
<1>3. Zoo' /\ Sinks'
  BY <1>1, ZooKept
<1>4. Types' /\ Distinct'
  BY <1>2, <1>3, PartsNext
<1>5. ASSUME lostBy' = {} PROVE Synced'
  <2>1. CommitTags(t) = {} /\ lostBy = {}
    BY <1>5
  <2>2. older = t \/ Matches(job[Other(t)]) \cap Matches(job[t]) = {}
    BY <2>1 DEF CommitTags
  <2>3. AfterJobs' = AfterJobs
    BY <1>1, <1>4, <2>1, <2>2, JobDoneAfter
  <2> QED
    BY <1>1, <2>1, <2>3, ZooKept DEF IInv
<1> QED
  BY <1>4, <1>5 DEF IInv

LEMMA CommitFlowsStep ==
    ASSUME IInv, NEW t \in Syncers, CommitFlows(t)
    PROVE  IInv'
<1> DEFINE u == Other(t)
<1>1. u = Other(t) /\ u \in Syncers /\ u # t /\ Other(u) = t /\ \A x \in Syncers : x = t \/ x = u
  BY TwoSyncers
<1> HIDE DEF u
<1>2. Types /\ HasJob(t) /\ pc[t] = "commit" /\ hadClean /\ JobDone(t)
        /\ UNCHANGED <<live, sink, fresh, hadClean>> /\ lostBy' = lostBy \cup CommitTags(t)
        /\ flows' = Committed(flows, job[t].add, job[t].del)
  BY DEF IInv, CommitFlows, HasJob
<1>3. job[t] \in Jobs /\ job[t].add \in SUBSET Rules /\ flows \in [Addrs -> Ofports \cup {NoFlow}]
  BY <1>2 DEF Types, TypeOK, JobsOK, Jobs
<1>4. flows' \in [Addrs -> Ofports \cup {NoFlow}]
  BY <1>2, <1>3, CommittedType
<1>5. pc'[t] = "idle" /\ pc'[u] = pc[u]
  BY <1>1, <1>2 DEF JobDone, Types, TypeOK
<1>6. ASSUME CommitTags(t) = {} PROVE Base' = Committed(Base, job[t].add, job[t].del)
  <2>1. CASE pc[u] = "replace"
    <3>1. Matches(job[t]) = {}
      BY <1>1, <1>6, <2>1 DEF CommitTags
    <3>2. job[t].add = {} /\ job[t].del = {}
      BY <3>1 DEF Matches
    <3>3. Base = NoFlows /\ Base' = NoFlows
      BY <1>1, <1>5, <2>1 DEF Base, NoFlows
    <3>4. NoFlows \in [Addrs -> Ofports \cup {NoFlow}]
      BY DEF NoFlows
    <3> QED
      BY <3>2, <3>3, <3>4, CommitNothing
  <2>2. CASE pc[u] # "replace"
    <3>1. Base = flows
      BY <1>1, <1>2, <2>2 DEF Base
    <3>2. Base' = flows'
      BY <1>1, <1>2, <1>5, <2>2 DEF Base
    <3> QED
      BY <1>2, <3>1, <3>2
  <2> QED
    BY <2>1, <2>2
<1> QED
  BY <1>2, <1>4, <1>6, CommitStep

LEMMA StartReplaceStep ==
    ASSUME IInv, NEW t \in Syncers, StartReplace(t)
    PROVE  IInv'
<1> DEFINE u == Other(t)
<1>1. u = Other(t) /\ u \in Syncers /\ u # t /\ Other(u) = t /\ \A x \in Syncers : x = t \/ x = u
  BY TwoSyncers
<1> HIDE DEF u
<1>2. Zoo /\ Sinks /\ Work
  BY Parts DEF IInv
<1>3. /\ pc[t] = "commit" /\ ~hadClean /\ hadClean' = TRUE
      /\ pc' = [pc EXCEPT ![t] = "replace"]
      /\ UNCHANGED <<live, sink, fresh, flows, job, older, lostBy>>
  BY DEF StartReplace
<1>4. /\ pc' \in [Syncers -> {"idle", "touched", "update", "commit", "replace"}]
      /\ pc'[t] = "replace" /\ pc'[u] = pc[u] /\ pc[u] # "replace"
  BY <1>1, <1>2, <1>3 DEF Work, JobsOK
<1>5. \A x \in Syncers : HasJob(x)' <=> HasJob(x)
  BY <1>1, <1>3, <1>4 DEF HasJob
<1>6. JobsOK'
  <2>1. \A x \in Syncers : pc'[x] = "replace" => hadClean' /\ pc'[Other(x)] # "replace"
    BY <1>1, <1>3, <1>4
  <2>2. \A x \in Syncers : HasJob(x)' \/ job'[x] = NoJob
    BY <1>2, <1>3, <1>5 DEF Work, JobsOK
  <2>3. job' \in [Syncers -> Jobs]
    BY <1>2, <1>3 DEF Work, JobsOK
  <2> QED
    BY <1>3, <2>1, <2>2, <2>3 DEF JobsOK
<1>7. Work'
  BY <1>2, <1>3, <1>4, <1>5, <1>6 DEF Work
<1>8. Base' = Base
  BY <1>3, <1>4 DEF Base, NoFlows
<1>9. AfterJobs' = AfterJobs
  BY <1>3, <1>8, AfterJobsIs, AfterJobsNext
<1> QED
  BY <1>2, <1>3, <1>7, <1>9, ZooKept, PartsNext DEF IInv

LEMMA CommitReplaceFlowsStep ==
    ASSUME IInv, NEW t \in Syncers, CommitReplaceFlows(t)
    PROVE  IInv'
<1> DEFINE u == Other(t)
<1>1. u = Other(t) /\ u \in Syncers /\ u # t /\ Other(u) = t /\ \A x \in Syncers : x = t \/ x = u
  BY TwoSyncers
<1> HIDE DEF u
<1>2. Types /\ HasJob(t) /\ pc[t] = "replace" /\ JobDone(t)
        /\ UNCHANGED <<live, sink, fresh, hadClean>> /\ lostBy' = lostBy \cup CommitTags(t)
        /\ flows' = Committed(NoFlows, job[t].add, {})
  BY DEF IInv, CommitReplaceFlows, HasJob
<1>3. hadClean /\ pc[u] # "replace" /\ job[t].add \in SUBSET Rules
  BY <1>1, <1>2 DEF Types, JobsOK, Jobs
<1>4. flows' \in [Addrs -> Ofports \cup {NoFlow}]
  BY <1>2, <1>3, CommittedType DEF NoFlows
<1>5. pc'[t] = "idle" /\ pc'[u] = pc[u]
  BY <1>1, <1>2 DEF JobDone, Types, TypeOK
<1>6. Base = NoFlows
  BY <1>2 DEF Base
<1>7. Base' = flows'
  BY <1>1, <1>2, <1>3, <1>5 DEF Base
<1>8. Base' = Committed(Base, job[t].add, job[t].del)
  BY <1>2, <1>6, <1>7, CommitReset
<1> QED
  BY <1>2, <1>4, <1>8, CommitStep

LEMMA CommitFailsStep ==
    ASSUME IInv, NEW t \in Syncers, CommitFails(t)
    PROVE  IInv'
<1>1. Types /\ Zoo /\ Sinks /\ Work
  BY Parts DEF IInv
<1>2. HasJob(t) /\ JobDone(t) /\ UNCHANGED <<live, sink, fresh, hadClean>>
        /\ lostBy' = lostBy \cup {"ovs"}
  BY DEF CommitFails, HasJob
<1>3. flows' \in [Addrs -> Ofports \cup {NoFlow}]
  <2>1. flows \in [Addrs -> Ofports \cup {NoFlow}] /\ job[t].add \in SUBSET Rules
    BY <1>1 DEF Work, JobsOK, Jobs
  <2>2. \A a \in SUBSET job[t].add : \A d :
            Committed(flows, a, d) \in [Addrs -> Ofports \cup {NoFlow}]
    BY <2>1, CommittedType
  <2> QED
    BY <2>1, <2>2 DEF CommitFails
<1>4. Work'
  BY <1>1, <1>2, <1>3, JobDoneWork DEF Work
<1> QED
  BY <1>1, <1>2, <1>4, ZooKept, PartsNext DEF IInv

------------------------------------------------------------------------------
(***************************************************************************)
(* The theorems.                                                           *)
(***************************************************************************)

LEMMA InitInvariant == Init => IInv
<1> SUFFICES ASSUME Init PROVE IInv
  OBVIOUS
<1>1. \A e \in Ents : ~Alive(e)
  BY DEF Init, Alive
<1>2. \A t \in Syncers : pc[t] = "idle" /\ job[t] = NoJob
  BY DEF Init
<1>3. Zoo
  <2>1. \A t \in Writers : fresh[t] = "none"
    BY DEF Init, Writers
  <2>2. FreshOK
    BY <2>1, Kinds DEF Init, FreshOK, Writers, Ents
  <2> QED
    BY <1>1, <2>2, Kinds DEF Init, Zoo, EntityOK, Distinct
<1>4. Sinks
  BY DEF Init, Sinks
<1>5. Work
  BY <1>2 DEF Init, Work, JobsOK, HasJob, Jobs, NoJob
<1>6. Synced
  <2>1. \A e \in Ents : ~Stable(e) /\ ~On(e)
    BY <1>1 DEF Stable, On
  <2>2. AfterJobs = NoFlows
    BY AfterJobsIs DEF Init, Applied, Base
  <2> QED
    BY <2>1, <2>2, Kinds DEF Synced, Clausal, Steady, Kept, Owed, NoFlows
<1> QED
  BY <1>3, <1>4, <1>5, <1>6, Parts DEF IInv

LEMMA StepInvariant == IInv /\ [Next]_vars => IInv'
<1> SUFFICES ASSUME IInv, [Next]_vars PROVE IInv'
  OBVIOUS
<1>1. Types /\ Zoo /\ Sinks /\ Work
  BY Parts DEF IInv
<1>2. pc \in [Syncers -> {"idle", "touched", "update", "commit", "replace"}]
  BY <1>1 DEF Work
<1>3. ASSUME NEW t \in Syncers, UpdateOvsSide(t) PROVE IInv'
  BY <1>3, ComputeStep, ComputeRaisesStep, CommitFlowsStep, StartReplaceStep,
     CommitReplaceFlowsStep DEF UpdateOvsSide
<1>4. ASSUME NEW t \in Writers, Populate(t) PROVE IInv'
  BY <1>4, PopulateStep
<1>5. CASE MainAdd
  <2>1. PICK e \in Lsps \cup {Chassis} : \E v \in Values(e) : AddEntity("main", e, v)
    BY <1>5 DEF MainAdd
  <2> QED
    BY <2>1, AddEntityStep, Kinds DEF Owns, Writers, AddEntity
<1>6. CASE MainDel
  <2>1. PICK e \in Lsps \cup {Chassis} : MoveEntity2Sink("main", e)
    BY <1>6 DEF MainDel
  <2> QED
    BY <2>1, MoveEntity2SinkStep, Kinds DEF Owns, Writers, MoveEntity2Sink
<1>7. CASE OvsdbAdd
  BY <1>7, AddEntityStep, Kinds DEF OvsdbAdd, Owns, Writers, AddEntity
<1>8. CASE OvsdbDel
  BY <1>8, MoveEntity2SinkStep, Kinds DEF OvsdbDel, Owns, Writers, MoveEntity2Sink
<1>9. CASE NeedRecompute
  <2>1. /\ UNCHANGED <<live, sink, fresh, flows, older, job, hadClean, lostBy>>
        /\ pc' = [pc EXCEPT !["main"] = "update"] /\ pc["main"] = "idle"
    BY <1>9 DEF NeedRecompute
  <2>2. /\ pc' \in [Syncers -> {"idle", "touched", "update", "commit", "replace"}]
        /\ \A t \in Syncers : /\ pc'[t] = "replace" <=> pc[t] = "replace"
                              /\ pc'[t] = "commit" <=> pc[t] = "commit"
    BY <1>2, <2>1 DEF Syncers
  <2>3. Work' /\ AfterJobs' = AfterJobs
    BY <1>1, <2>1, <2>2, WorkKept
  <2> QED
    BY <1>1, <2>1, <2>3, ZooKept, PartsNext DEF IInv
<1>10. ASSUME NEW l \in Lsps, TouchLsp(l) PROVE IInv'
  <2>1. /\ Touch(l) /\ UNCHANGED <<sink, fresh>>
        /\ UNCHANGED <<flows, older, job, hadClean, lostBy>>
        /\ pc' = [pc EXCEPT !["pkt"] = "touched"] /\ pc["pkt"] = "idle"
    BY <1>10 DEF TouchLsp
  <2>2. /\ pc' \in [Syncers -> {"idle", "touched", "update", "commit", "replace"}]
        /\ \A t \in Syncers : /\ pc'[t] = "replace" <=> pc[t] = "replace"
                              /\ pc'[t] = "commit" <=> pc[t] = "commit"
    BY <1>2, <2>1 DEF Syncers
  <2> QED
    BY <2>1, <2>2, TouchStep, Kinds
<1>11. CASE TouchChassis
  <2>1. /\ Touch(Chassis) /\ UNCHANGED <<sink, fresh>>
        /\ UNCHANGED <<flows, older, job, hadClean, lostBy>>
        /\ pc' = [pc EXCEPT !["pkt"] = IF Alive(Chassis) THEN "update" ELSE "idle"]
        /\ pc["pkt"] = "touched"
    BY <1>11 DEF TouchChassis
  <2>2. /\ pc' \in [Syncers -> {"idle", "touched", "update", "commit", "replace"}]
        /\ \A t \in Syncers : /\ pc'[t] = "replace" <=> pc[t] = "replace"
                              /\ pc'[t] = "commit" <=> pc[t] = "commit"
    BY <1>2, <2>1 DEF Syncers
  <2> QED
    BY <2>1, <2>2, TouchStep, Kinds
<1>12. ASSUME NEW t \in Syncers, CommitFails(t) PROVE IInv'
  BY <1>12, CommitFailsStep
<1>13. CASE UNCHANGED vars
  <2>1. UNCHANGED <<live, sink, fresh, flows, older, job, hadClean, lostBy, pc>>
    BY <1>13 DEF vars
  <2>2. Work' /\ AfterJobs' = AfterJobs
    BY <1>1, <1>2, <2>1, WorkKept
  <2> QED
    BY <1>1, <2>1, <2>2, ZooKept, PartsNext DEF IInv
<1> QED
  BY <1>3, <1>4, <1>5, <1>6, <1>7, <1>8, <1>9, <1>10, <1>11, <1>12, <1>13
     DEF Next, Main, Ovsdb, Pkt, Changes, Syncers, Writers

LEMMA Invariant == Spec => []IInv
BY InitInvariant, StepInvariant, PTL DEF Spec

\* The zoo, the sink, the bridge and the threads stay what they should be.
THEOREM TypeCorrect == Spec => []TypeOK
<1>1. IInv => TypeOK
  BY DEF IInv, Types
<1> QED
  BY <1>1, Invariant, PTL

\* However the threads interleave, as long as nothing was lost through one of
\* the known windows, the rules in the bridge, the jobs under way and one more
\* derivation add up to the rules of the live entities (update_ovs_side).
THEOREM FlowsOwedAlways == Spec => []FlowsOwed
<1>1. IInv => FlowsOwed
  BY SyncedOwes DEF IInv, FlowsOwed
<1> QED
  BY <1>1, Invariant, PTL

==============================================================================

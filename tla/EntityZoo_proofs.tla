-------------------------- MODULE EntityZoo_proofs ---------------------------
(***************************************************************************)
(* Proofs about EntityZoo, for every set of entities, every tree the       *)
(* controller may let come into being and every _max_ilk_n.                *)
(*                                                                         *)
(* TypeOK comes first; the other invariants assume it.  UniqueInZoo is     *)
(* inductive beside it: a value that leaves the zoo takes exactly its own  *)
(* keys out of the index, for no other value has one of them.              *)
(* IlkDistinct needs to know that the numbers in use are recorded, and     *)
(* that no entity of the sink has a number of an entity of the zoo, the    *)
(* same entity's new value included (IlkInv).  RefusedForCause needs to    *)
(* know where the zoo differs from the tree last read (ZooOfSeen), and     *)
(* that every number in use has a holder while nothing was refused (Held): *)
(* the number of a refused entity is lost.                                 *)
(***************************************************************************)
EXTENDS EntityZoo, TLAPS, WellFoundedInduction

------------------------------------------------------------------------------
\* Indices of a value's keys.

LEMMA KeyIndex ==
    ASSUME NEW v \in Values
    PROVE  /\ \A i \in DOMAIN v.keys : 1..i \subseteq DOMAIN v.keys /\ i \in 1..i
           /\ \A i \in DOMAIN v.keys : v.keys[i] \in Keys(v)
           /\ \A k \in Keys(v) : \E i \in DOMAIN v.keys : v.keys[i] = k
<1>1. v.keys \in Seq(Keys(v))
  BY ValuesAssumption
<1>2. PICK n \in Nat : DOMAIN v.keys = 1..n
  BY <1>1
<1>3. \A i \in 1..n : 1..i \subseteq 1..n /\ i \in 1..i
  OBVIOUS
<1> QED
  BY <1>2, <1>3 DEF Keys

\* What _insert_entity_idxmap leaves in the index are keys of the value that
\* were free.
LEMMA InsertedFree ==
    ASSUME NEW v \in Values, NEW x
    PROVE  Inserted(x, v) \subseteq Keys(v) /\ Inserted(x, v) \cap x = {}
BY KeyIndex DEF Inserted

\* A value whose keys are all in the index takes all of them away.
LEMMA DeletedAll ==
    ASSUME NEW v \in Values, NEW x, Keys(v) \subseteq x
    PROVE  Deleted(x, v) = Keys(v)
BY KeyIndex DEF Deleted

\* A value that does not fit meets one of its keys in the index.
LEMMA Unfit ==
    ASSUME NEW v \in Values, NEW x, ~Fits(x, v)
    PROVE  Keys(v) \cap x # {}
BY KeyIndex DEF Fits, Inserted

------------------------------------------------------------------------------
\* What add_entity does.

Old(v) == {e \in zoo : e.val.uuid = v.uuid}
Rest(v) == zoo \ Old(v)
Free(v) == idx \ UNION {Deleted(idx, e.val) : e \in Old(v)}

\* A value that gets a number and finds its keys free, and one that does not.
Entered(v, new) ==
    /\ new \in [val : {v}, ilk : _get_ilk_idx(v), touched : BOOLEAN]
    /\ new.touched = (~v.lazy \/ _touch_gateway_by_chassis(Rest(v), v))
    /\ ilk' = ilk \cup Numbers({new})
    /\ sink' = sink \cup Old(v)
    /\ idx' = Free(v) \cup Inserted(Free(v), v)

LEMMA AddCases ==
    ASSUME NEW v, add_entity(v)
    PROVE  \/ is_same(v) /\ UNCHANGED <<zoo, sink, idx, ilk, refused>>
           \/ _get_ilk_idx(v) = {} /\ refused' = refused \cup {v}
              /\ UNCHANGED <<zoo, sink, idx, ilk>>
           \/ \E new : /\ Entered(v, new)
                       /\ \/ /\ Fits(Free(v), v) /\ refused' = refused
                             /\ zoo' = _touch_gateway_by_LR(Rest(v), v) \cup {new}
                          \/ /\ ~Fits(Free(v), v) /\ refused' = refused \cup {v}
                             /\ zoo' = Rest(v)
<1>1. CASE is_same(v)
  BY <1>1 DEF add_entity
<1>2. CASE ~is_same(v) /\ _get_ilk_idx(v) = {}
  BY <1>2 DEF add_entity
<1>3. CASE ~is_same(v) /\ _get_ilk_idx(v) # {}
  <2> DEFINE n == CHOOSE n \in _get_ilk_idx(v) : TRUE
             new == [val |-> v, ilk |-> n,
                     touched |-> ~v.lazy \/ _touch_gateway_by_chassis(Rest(v), v)]
  <2>1. n \in _get_ilk_idx(v)
    BY <1>3
  <2>2. Entered(v, new)
    <3>1. /\ ilk' = ilk \cup Numbers({new})
          /\ sink' = sink \cup Old(v)
          /\ idx' = Free(v) \cup Inserted(Free(v), v)
      BY <1>3 DEF add_entity, Old, Rest, Free
    <3>2. new \in [val : {v}, ilk : {n}, touched : BOOLEAN]
          /\ new.touched = (~v.lazy \/ _touch_gateway_by_chassis(Rest(v), v))
      OBVIOUS
    <3> HIDE DEF new, n
    <3> QED
      BY <3>1, <3>2, <2>1 DEF Entered
  <2>3. \/ /\ Fits(Free(v), v) /\ refused' = refused
           /\ zoo' = _touch_gateway_by_LR(Rest(v), v) \cup {new}
        \/ /\ ~Fits(Free(v), v) /\ refused' = refused \cup {v}
           /\ zoo' = Rest(v)
    BY <1>3 DEF add_entity, Old, Rest, Free
  <2> HIDE DEF new
  <2> QED
    BY <2>2, <2>3
<1> QED
  BY <1>1, <1>2, <1>3

\* A touch changes neither value nor number of an entity.
LEMMA Touched ==
    ASSUME NEW es, NEW v, NEW f \in _touch_gateway_by_LR(es, v),
           \A e \in es : e \in [val : Values, ilk : Int, touched : BOOLEAN]
    PROVE  \E e \in es : /\ e.val = f.val /\ e.ilk = f.ilk
                         /\ f \in [val : Values, ilk : Int, touched : BOOLEAN]
                         /\ f = IF e.val.uuid = v.pin THEN [e EXCEPT !.touched = TRUE] ELSE e
<1>1. PICK e \in es : f = IF e.val.uuid = v.pin THEN [e EXCEPT !.touched = TRUE] ELSE e
  BY DEF _touch_gateway_by_LR
<1>2. e \in [val : Values, ilk : Int, touched : BOOLEAN]
  OBVIOUS
<1>3. CASE e.val.uuid = v.pin
  <2>1. f = [e EXCEPT !.touched = TRUE]
    BY <1>1, <1>3
  <2>2. f.val = e.val /\ f.ilk = e.ilk /\ f \in [val : Values, ilk : Int, touched : BOOLEAN]
    BY <2>1, <1>2
  <2> QED
    BY <1>1, <2>2
<1>4. CASE e.val.uuid # v.pin
  BY <1>1, <1>2, <1>4
<1> QED
  BY <1>3, <1>4

------------------------------------------------------------------------------
\* Type correctness.

Entities == [val : Values, ilk : Int, touched : BOOLEAN]

\* What TypeOK says of one entity.
Well(e) ==
    /\ e \in Entities
    /\ e.ilk \in IF e.val.group = NoGroup THEN {NoIlk} ELSE 0..(MaxIlk - 1)

LEMMA GetIlk ==
    ASSUME NEW v, NEW n \in _get_ilk_idx(v)
    PROVE  /\ n \in IF v.group = NoGroup THEN {NoIlk} ELSE 0..(MaxIlk - 1)
           /\ n \in Int
           /\ v.group # NoGroup => <<v.group, n>> \notin ilk
BY MaxIlkAssumption DEF _get_ilk_idx, _get_free_idx, NoIlk

\* TypeOK holds in every step of add_entity.
LEMMA AddTypeOK ==
    ASSUME TypeOK, NEW v \in Values, add_entity(v)
    PROVE  /\ \A e \in zoo' \cup sink' : Well(e)
           /\ idx' \subseteq UNION {Keys(w) : w \in Values}
           /\ refused' \subseteq Values
<1>0. /\ \A e \in zoo \cup sink : Well(e)
      /\ idx \subseteq UNION {Keys(w) : w \in Values}
      /\ refused \subseteq Values
  BY DEF TypeOK, Well, Entities
<1>1. CASE UNCHANGED <<zoo, sink, idx>> /\ refused' \in {refused, refused \cup {v}}
  BY <1>0, <1>1
<1>2. CASE \E new : /\ Entered(v, new)
                    /\ zoo' \in {Rest(v), _touch_gateway_by_LR(Rest(v), v) \cup {new}}
                    /\ refused' \in {refused, refused \cup {v}}
  <2>1. PICK new : /\ Entered(v, new)
                   /\ zoo' \in {Rest(v), _touch_gateway_by_LR(Rest(v), v) \cup {new}}
                   /\ refused' \in {refused, refused \cup {v}}
    BY <1>2
  <2>2. Well(new)
    <3>1. /\ new.val = v /\ new.ilk \in _get_ilk_idx(v) /\ new.touched \in BOOLEAN
          /\ new = [val |-> new.val, ilk |-> new.ilk, touched |-> new.touched]
      BY <2>1 DEF Entered
    <3>2. new.ilk \in Int
      BY <3>1, GetIlk
    <3> QED
      BY <3>1, <3>2, GetIlk DEF Well, Entities
  <2>3. \A e \in Rest(v) : Well(e)
    BY <1>0 DEF Rest
  <2>4. ASSUME NEW f \in _touch_gateway_by_LR(Rest(v), v) PROVE Well(f)
    <3>1. \A e \in Rest(v) : e \in Entities
      BY <2>3 DEF Well
    <3>2. PICK e \in Rest(v) : e.val = f.val /\ e.ilk = f.ilk /\ f \in Entities
      BY <3>1, Touched DEF Entities
    <3> QED
      BY <3>2, <2>3 DEF Well
  <2>5. \A e \in zoo' : Well(e)
    BY <2>1, <2>2, <2>3, <2>4
  <2>6. \A e \in sink' : Well(e)
    BY <2>1, <1>0 DEF Entered, Old
  <2>7. idx' \subseteq UNION {Keys(w) : w \in Values}
    BY <2>1, <1>0, InsertedFree DEF Entered, Free
  <2> QED
    BY <2>1, <2>5, <2>6, <2>7, <1>0
<1> QED
  BY <1>1, <1>2, AddCases

\* Type correctness: the numbers handed out stay below _max_ilk_n, and what the
\* zoo, the sink and the index hold comes from the tree.
THEOREM TypeCorrect == Spec => []TypeOK
<1>1. Init => TypeOK
  BY BoundsAssumption DEF Init, TypeOK, Uuids
<1>2. ASSUME TypeOK, [Next]_vars PROVE TypeOK'
  <2> USE <1>2
  <2>1. CASE change_tree
    <3>1. tree' \subseteq Values
      BY <2>1 DEF change_tree, TypeOK, Create, Remove
    <3>2. changes' \in 0..MaxChanges
      BY <2>1, BoundsAssumption DEF change_tree, TypeOK
    <3> QED
      BY <2>1, <3>1, <3>2 DEF change_tree, TypeOK
  <2>2. CASE read_remote_kvdata
    <3>1. del' \subseteq Uuids(Values) /\ add' \subseteq Values /\ seen' \subseteq Values
      BY <2>2 DEF read_remote_kvdata, TypeOK, Uuids
    <3> QED
      BY <2>2, <3>1 DEF read_remote_kvdata, TypeOK
  <2>3. CASE move_all_entity2sink
    <3>1. resyncs' \in 0..MaxResyncs
      BY <2>3, BoundsAssumption DEF move_all_entity2sink, TypeOK
    <3> QED
      BY <2>3, <3>1 DEF move_all_entity2sink, TypeOK
  <2>4. CASE move_entity2sink_by_pool
    BY <2>4 DEF move_entity2sink_by_pool, move_entity2sink, TypeOK
  <2>5. CASE convert_pool2entity
    <3>1. PICK v \in add : add_entity(v) /\ add' = add \ {v}
      BY <2>5 DEF convert_pool2entity
    <3>2. v \in Values
      BY DEF TypeOK
    <3>3. /\ \A e \in zoo' \cup sink' : Well(e)
          /\ idx' \subseteq UNION {Keys(w) : w \in Values}
          /\ refused' \subseteq Values
      BY <3>1, <3>2, AddTypeOK
    <3> QED
      BY <2>5, <3>1, <3>3 DEF convert_pool2entity, TypeOK, Well, Entities
  <2>6. CASE sweep_zoo
    BY <2>6 DEF sweep_zoo, TypeOK
  <2>7. CASE UNCHANGED vars
    BY <2>7 DEF vars, TypeOK
  <2> QED
    BY <2>1, <2>2, <2>3, <2>4, <2>5, <2>6, <2>7 DEF Next
<1> QED
  BY <1>1, <1>2, PTL DEF Spec

------------------------------------------------------------------------------
\* Unique values.

\* UniqueInZoo, of any set of entities, index and flag "nothing was refused".
Unique(es, x, clean) ==
    /\ \A e, f \in es : e # f => e.val.uuid # f.val.uuid /\ Keys(e.val) \cap Keys(f.val) = {}
    /\ \A e \in es : Keys(e.val) \subseteq x
    /\ clean => x = UNION {Keys(e.val) : e \in es}

\* Entities that leave the zoo take exactly their own keys along.
LEMMA UniqueLess ==
    ASSUME TypeOK, UniqueInZoo, NEW S, S \subseteq zoo
    PROVE  Unique(zoo \ S, idx \ UNION {Deleted(idx, e.val) : e \in S}, refused = {})
<1> DEFINE x == idx \ UNION {Deleted(idx, e.val) : e \in S}
<1>1. \A e \in S : Deleted(idx, e.val) = Keys(e.val)
  BY DeletedAll DEF UniqueInZoo, TypeOK
<1>2. x = idx \ UNION {Keys(e.val) : e \in S}
  BY <1>1
<1>3. \A e, f \in zoo \ S : e # f => /\ e.val.uuid # f.val.uuid
                                    /\ Keys(e.val) \cap Keys(f.val) = {}
  BY DEF UniqueInZoo
<1>4. \A e \in zoo \ S, f \in S : Keys(e.val) \cap Keys(f.val) = {}
  BY DEF UniqueInZoo
<1>5. \A e \in zoo \ S : Keys(e.val) \subseteq x
  BY <1>2, <1>4 DEF UniqueInZoo
<1>6. ASSUME refused = {} PROVE x = UNION {Keys(e.val) : e \in zoo \ S}
  <2>1. idx = UNION {Keys(e.val) : e \in zoo}
    BY <1>6 DEF UniqueInZoo
  <2> HIDE DEF x
  <2> QED
    BY <2>1, <1>2, <1>5
<1> QED
  BY <1>3, <1>5, <1>6 DEF Unique

\* A value that fits into the index keeps the values unique.
LEMMA UniqueMore ==
    ASSUME NEW es, NEW x, NEW clean \in BOOLEAN, Unique(es, x, clean),
           NEW v \in Values, Fits(x, v), NEW new, new.val = v,
           \A e \in es : e.val.uuid # v.uuid
    PROVE  Unique(es \cup {new}, x \cup Inserted(x, v), clean)
<1>1. Inserted(x, v) = Keys(v) /\ Keys(v) \cap x = {}
  BY InsertedFree DEF Fits
<1>2. \A e \in es : Keys(e.val) \cap Keys(v) = {}
  BY <1>1 DEF Unique
<1>3. \A e, f \in es \cup {new} : e # f => /\ e.val.uuid # f.val.uuid
                                          /\ Keys(e.val) \cap Keys(f.val) = {}
  BY <1>2 DEF Unique
<1>4. \A e \in es \cup {new} : Keys(e.val) \subseteq x \cup Keys(v)
  BY DEF Unique
<1>5. clean => x \cup Keys(v) = UNION {Keys(e.val) : e \in es \cup {new}}
  BY DEF Unique
<1> QED
  BY <1>1, <1>3, <1>4, <1>5 DEF Unique

\* A touch does not matter.
LEMMA UniqueTouched ==
    ASSUME NEW es, \A e \in es : e \in Entities, NEW v,
           NEW x, NEW clean \in BOOLEAN, Unique(es, x, clean)
    PROVE  Unique(_touch_gateway_by_LR(es, v), x, clean)
<1> DEFINE ts == _touch_gateway_by_LR(es, v)
           T(e) == IF e.val.uuid = v.pin THEN [e EXCEPT !.touched = TRUE] ELSE e
<1>1. \A f \in ts : \E e \in es : e.val = f.val /\ f = T(e)
  BY Touched DEF Entities
<1>2. \A e \in es : \E f \in ts : e.val = f.val
  <2>1. SUFFICES ASSUME NEW e \in es PROVE \E f \in ts : e.val = f.val
    OBVIOUS
  <2>2. (IF e.val.uuid = v.pin THEN [e EXCEPT !.touched = TRUE] ELSE e) \in ts
    BY DEF _touch_gateway_by_LR
  <2>3. [e EXCEPT !.touched = TRUE].val = e.val
    BY DEF Entities
  <2> QED
    BY <2>2, <2>3
<1> HIDE DEF ts, T
<1>3. \A e, f \in ts : e # f => e.val.uuid # f.val.uuid /\ Keys(e.val) \cap Keys(f.val) = {}
  BY <1>1 DEF Unique
<1>4. \A e \in ts : Keys(e.val) \subseteq x
  BY <1>1 DEF Unique
<1>5. {e.val : e \in ts} = {e.val : e \in es}
  <2>1. \A f \in ts : f.val \in {e.val : e \in es}
    BY <1>1
  <2>2. \A e \in es : e.val \in {f.val : f \in ts}
    BY <1>2
  <2> QED
    BY <2>1, <2>2
<1>6. clean => x = UNION {Keys(e.val) : e \in ts}
  <2>1. UNION {Keys(e.val) : e \in ts} = UNION {Keys(w) : w \in {e.val : e \in ts}}
    OBVIOUS
  <2>2. UNION {Keys(e.val) : e \in es} = UNION {Keys(w) : w \in {e.val : e \in es}}
    OBVIOUS
  <2> QED
    BY <2>1, <2>2, <1>5 DEF Unique
<1> QED
  BY <1>3, <1>4, <1>6 DEF Unique, ts

LEMMA UniqueIs == UniqueInZoo <=> Unique(zoo, idx, refused = {})
BY DEF UniqueInZoo, Unique

\* A refused value leaves keys in the index that no entity of the zoo has: from
\* then on the index may only be too large.
LEMMA UniqueLarger ==
    ASSUME NEW es, NEW x, NEW clean, Unique(es, x, clean), NEW y, x \subseteq y
    PROVE  Unique(es, y, FALSE)
BY DEF Unique

LEMMA AddUnique ==
    ASSUME TypeOK, UniqueInZoo, NEW v \in Values, add_entity(v)
    PROVE  UniqueInZoo'
<1>0. Unique(Rest(v), Free(v), refused = {}) /\ \A e \in Rest(v) : e.val.uuid # v.uuid
  BY UniqueLess DEF Rest, Free, Old
<1>1. CASE UNCHANGED <<zoo, sink, idx, ilk, refused>>
  BY <1>1 DEF UniqueInZoo
<1>2. CASE refused' = refused \cup {v} /\ UNCHANGED <<zoo, idx>>
  BY <1>2 DEF UniqueInZoo
<1>3. ASSUME NEW new, Entered(v, new), Fits(Free(v), v), refused' = refused,
             zoo' = _touch_gateway_by_LR(Rest(v), v) \cup {new}
      PROVE  UniqueInZoo'
  <2>1. \A e \in Rest(v) : e \in Entities
    BY DEF Rest, TypeOK, Entities
  <2>2. Unique(_touch_gateway_by_LR(Rest(v), v), Free(v), refused = {})
    BY <1>0, <2>1, UniqueTouched
  <2>3. \A e \in _touch_gateway_by_LR(Rest(v), v) : e.val.uuid # v.uuid
    BY <1>0, <2>1, Touched DEF Entities
  <2>4. new.val = v /\ idx' = Free(v) \cup Inserted(Free(v), v)
    BY <1>3 DEF Entered
  <2>5. Unique(zoo', idx', refused = {})
    BY <2>2, <2>3, <2>4, <1>3, UniqueMore
  <2> QED
    BY <2>5, <1>3 DEF Unique, UniqueInZoo
<1>4. ASSUME NEW new, Entered(v, new), refused' = refused \cup {v}, zoo' = Rest(v)
      PROVE  UniqueInZoo'
  <2>1. Free(v) \subseteq idx'
    BY <1>4 DEF Entered
  <2>2. Unique(zoo', idx', FALSE)
    BY <1>0, <1>4, <2>1, UniqueLarger
  <2> QED
    BY <2>2, <1>4 DEF Unique, UniqueInZoo
<1> QED
  BY <1>1, <1>2, <1>3, <1>4, AddCases

LEMMA UniqueStep ==
    ASSUME TypeOK, UniqueInZoo, [Next]_vars
    PROVE  UniqueInZoo'
<1>1. CASE move_all_entity2sink
  <2>1. Unique(zoo \ zoo, idx', refused = {})
    BY <1>1, UniqueLess DEF move_all_entity2sink
  <2>2. zoo' = zoo \ zoo /\ refused' = refused
    BY <1>1 DEF move_all_entity2sink
  <2> QED
    BY <2>1, <2>2 DEF Unique, UniqueInZoo
<1>2. CASE move_entity2sink_by_pool
  <2>1. PICK u \in del : move_entity2sink(u) /\ refused' = refused
    BY <1>2 DEF move_entity2sink_by_pool
  <2> DEFINE S == {e \in zoo : e.val.uuid = u}
  <2>2. Unique(zoo \ S, idx \ UNION {Deleted(idx, e.val) : e \in S}, refused = {})
    BY UniqueLess
  <2>3. zoo' = zoo \ S /\ idx' = idx \ UNION {Deleted(idx, e.val) : e \in S}
    BY <2>1 DEF move_entity2sink
  <2> QED
    BY <2>1, <2>2, <2>3 DEF Unique, UniqueInZoo
<1>3. CASE convert_pool2entity
  <2>1. PICK v \in add : add_entity(v)
    BY <1>3 DEF convert_pool2entity
  <2> QED
    BY <2>1, AddUnique DEF TypeOK
<1>4. CASE UNCHANGED <<zoo, idx, refused>>
  BY <1>4 DEF UniqueInZoo
<1> QED
  BY <1>1, <1>2, <1>3, <1>4
  DEF Next, vars, change_tree, read_remote_kvdata, sweep_zoo

\* Two entities of the zoo never share a unique value, whatever the tree went
\* through, and as long as nothing was refused the index is exact.
THEOREM ZooUnique == Spec => []UniqueInZoo
<1>1. Init => UniqueInZoo
  BY DEF Init, UniqueInZoo
<1>2. TypeOK /\ UniqueInZoo /\ [Next]_vars => UniqueInZoo'
  BY UniqueStep
<1> QED
  BY <1>1, <1>2, TypeCorrect, PTL DEF Spec

------------------------------------------------------------------------------
\* Numbers.

Grouped(e) == e.val.group # NoGroup

SameRank(e, f) == Grouped(e) /\ e.val.group = f.val.group

\* The numbers held are recorded; they differ within the zoo and within the
\* sink, and no entity of the sink has the number of one in the zoo.
IlkInv ==
    /\ \A e \in zoo \cup sink : Grouped(e) => <<e.val.group, e.ilk>> \in ilk
    /\ \A e, f \in zoo : e # f /\ SameRank(e, f) => e.ilk # f.ilk
    /\ \A e, f \in sink : e # f /\ SameRank(e, f) => e.ilk # f.ilk
    /\ \A e \in zoo, f \in sink : SameRank(e, f) => e.ilk # f.ilk

LEMMA AddIlk ==
    ASSUME TypeOK, IlkInv, NEW v \in Values, add_entity(v)
    PROVE  IlkInv'
<1>1. CASE UNCHANGED <<zoo, sink, ilk>>
  BY <1>1 DEF IlkInv
<1>2. ASSUME NEW new, Entered(v, new),
             \/ zoo' = Rest(v)
             \/ zoo' = _touch_gateway_by_LR(Rest(v), v) \cup {new}
      PROVE  IlkInv'
  <2>1. /\ new.val = v /\ new.ilk \in _get_ilk_idx(v)
        /\ ilk' = ilk \cup Numbers({new})
        /\ sink' = sink \cup Old(v)
    BY <1>2 DEF Entered
  <2>2. Grouped(new) => <<new.val.group, new.ilk>> \in ilk' /\ <<new.val.group, new.ilk>> \notin ilk
    <3>1. Grouped(new) => new \in {e \in {new} : e.val.group # NoGroup}
      BY DEF Grouped
    <3>2. Grouped(new) => <<new.val.group, new.ilk>> \in Numbers({new})
      BY <3>1 DEF Numbers
    <3> QED
      BY <2>1, <3>2, GetIlk DEF Grouped
  <2>3. \A e \in Old(v) \cup Rest(v) : e \in zoo /\ e \in Entities
    BY DEF Old, Rest, TypeOK, Entities
  <2>4. \A e \in Rest(v), f \in Old(v) : e # f
    BY DEF Old, Rest
  \* Every entity of the new zoo is the new one or one of the old zoo, with the
  \* same value and number.
  <2> DEFINE T(e) == IF e.val.uuid = v.pin THEN [e EXCEPT !.touched = TRUE] ELSE e
  <2>5. \A f \in zoo' : \/ f = new
                        \/ \E e \in Rest(v) : e.val = f.val /\ e.ilk = f.ilk /\ f \in {e, T(e)}
    <3>1. \A f \in _touch_gateway_by_LR(Rest(v), v) :
            \E e \in Rest(v) : e.val = f.val /\ e.ilk = f.ilk /\ f = T(e)
      BY <2>3, Touched DEF Entities
    <3> HIDE DEF T
    <3> QED
      BY <3>1, <1>2
  <2>6. \A e, f \in zoo' : e # f /\ SameRank(e, f) => e.ilk # f.ilk
    <3>1. CASE zoo' = Rest(v)
      BY <3>1, <2>3 DEF IlkInv
    <3>2. CASE zoo' = _touch_gateway_by_LR(Rest(v), v) \cup {new}
      <4>1. \A f \in zoo' : \/ f = new
                            \/ \E e \in Rest(v) : e.val = f.val /\ e.ilk = f.ilk /\ f = T(e)
        BY <3>2, <2>3, Touched DEF Entities
      <4> HIDE DEF T
      <4>2. ASSUME NEW e \in zoo', NEW f \in zoo', e # f, SameRank(e, f), e # new, f # new
            PROVE  e.ilk # f.ilk
        <5>1. PICK e0 \in Rest(v) : e0.val = e.val /\ e0.ilk = e.ilk /\ e = T(e0)
          BY <4>1, <4>2
        <5>2. PICK f0 \in Rest(v) : f0.val = f.val /\ f0.ilk = f.ilk /\ f = T(f0)
          BY <4>1, <4>2
        <5>3. e0 # f0
          BY <5>1, <5>2, <4>2
        <5> QED
          BY <5>1, <5>2, <5>3, <2>3, <4>2 DEF IlkInv, SameRank, Grouped
      <4>3. ASSUME NEW e \in zoo', e # new, SameRank(e, new)
            PROVE  e.ilk # new.ilk
        <5>1. PICK e0 \in Rest(v) : e0.val = e.val /\ e0.ilk = e.ilk
          BY <4>1, <4>3
        <5>2. Grouped(e0) /\ Grouped(new) /\ e0.val.group = new.val.group
          BY <5>1, <4>3 DEF SameRank, Grouped
        <5>3. <<e0.val.group, e0.ilk>> \in ilk
          BY <5>2, <2>3 DEF IlkInv
        <5> QED
          BY <5>1, <5>2, <5>3, <2>2
      <4> QED
        BY <4>2, <4>3 DEF SameRank, Grouped
    <3> QED
      BY <3>1, <3>2, <1>2
  <2> HIDE DEF T
  <2>7. \A e, f \in sink' : e # f /\ SameRank(e, f) => e.ilk # f.ilk
    BY <2>1, <2>3 DEF IlkInv, SameRank, Grouped
  <2>8. \A e \in zoo', f \in sink' : SameRank(e, f) => e.ilk # f.ilk
    <3>1. SUFFICES ASSUME NEW e \in zoo', NEW f \in sink', SameRank(e, f) PROVE e.ilk # f.ilk
      OBVIOUS
    <3>2. f \in zoo \cup sink
      BY <2>1, <2>3
    <3>3. CASE e = new
      BY <3>1, <3>2, <3>3, <2>2 DEF IlkInv, SameRank, Grouped
    <3>4. CASE e # new
      <4>1. PICK e0 \in Rest(v) : e0.val = e.val /\ e0.ilk = e.ilk
        BY <2>5, <3>4
      <4>2. SameRank(e0, f)
        BY <3>1, <4>1 DEF SameRank, Grouped
      <4>3. CASE f \in Old(v)
        BY <4>1, <4>2, <4>3, <2>3, <2>4 DEF IlkInv
      <4>4. CASE f \in sink
        BY <4>1, <4>2, <4>4, <2>3 DEF IlkInv
      <4> QED
        BY <4>3, <4>4, <2>1
    <3> QED
      BY <3>3, <3>4
  <2>9. \A e \in zoo' \cup sink' : Grouped(e) => <<e.val.group, e.ilk>> \in ilk'
    <3>1. SUFFICES ASSUME NEW e \in zoo' \cup sink', Grouped(e)
                   PROVE  <<e.val.group, e.ilk>> \in ilk'
      OBVIOUS
    <3>2. e = new \/ \E e0 \in zoo \cup sink : e0.val = e.val /\ e0.ilk = e.ilk
      BY <2>1, <2>3, <2>5
    <3> QED
      BY <3>1, <3>2, <2>1, <2>2 DEF IlkInv, Grouped
  <2> QED
    BY <2>6, <2>7, <2>8, <2>9 DEF IlkInv, SameRank, Grouped
<1> QED
  BY <1>1, <1>2, AddCases

LEMMA IlkStep ==
    ASSUME TypeOK, IlkInv, [Next]_vars
    PROVE  IlkInv'
<1>1. CASE move_all_entity2sink
  BY <1>1 DEF move_all_entity2sink, IlkInv, SameRank, Grouped
<1>2. CASE move_entity2sink_by_pool
  BY <1>2 DEF move_entity2sink_by_pool, move_entity2sink, IlkInv, SameRank, Grouped
<1>3. CASE convert_pool2entity
  <2>1. PICK v \in add : add_entity(v)
    BY <1>3 DEF convert_pool2entity
  <2> QED
    BY <2>1, AddIlk DEF TypeOK
<1>4. CASE sweep_zoo
  <2>1. \A e \in zoo : Grouped(e) => <<e.val.group, e.ilk>> \notin Numbers(sink)
    BY DEF Numbers, IlkInv, SameRank, Grouped
  <2> QED
    BY <1>4, <2>1 DEF sweep_zoo, IlkInv, SameRank, Grouped
<1>5. CASE UNCHANGED <<zoo, sink, ilk>>
  BY <1>5 DEF IlkInv
<1> QED
  BY <1>1, <1>2, <1>3, <1>4, <1>5 DEF Next, vars, change_tree, read_remote_kvdata

\* Two routes of equal rank never have one number while the rules of both may
\* be installed: ILKEntity frees a number only when its rules are deleted.
THEOREM NumbersDistinct == Spec => []IlkDistinct
<1>1. Init => IlkInv
  BY DEF Init, IlkInv
<1>2. TypeOK /\ IlkInv /\ [Next]_vars => IlkInv'
  BY IlkStep
<1>3. IlkInv => IlkDistinct
  BY DEF IlkInv, IlkDistinct, SameRank, Grouped
<1> QED
  BY <1>1, <1>2, <1>3, TypeCorrect, PTL DEF Spec

------------------------------------------------------------------------------
\* Refusals.

OneEach(S) == \A v, w \in S : v.uuid = w.uuid => v = w

\* Where the zoo differs from the tree last read there is something left to do.
ZooOfSeen ==
    /\ OneEach(tree) /\ OneEach(seen) /\ add \subseteq seen
    /\ refused = {} =>
         \A e \in zoo : e.val \in seen \/ e.val.uuid \in del \/ e.val.uuid \in Uuids(add)

LEMMA AddSeen ==
    ASSUME TypeOK, UniqueInZoo, ZooOfSeen, NEW v \in add, del = {}, add_entity(v), add' = add \ {v},
           UNCHANGED <<tree, seen, del>>
    PROVE  ZooOfSeen'
<1>1. OneEach(tree)' /\ OneEach(seen)' /\ (add \subseteq seen)' /\ v \in seen
  BY DEF ZooOfSeen, OneEach
<1>2. ASSUME NEW e \in zoo, refused = {}, e.val.uuid # v.uuid
      PROVE  e.val \in seen \/ e.val.uuid \in Uuids(add')
  BY <1>2 DEF ZooOfSeen, Uuids
<1>3. CASE is_same(v) /\ UNCHANGED <<zoo, refused>>
  <2>1. \A e \in zoo : e.val.uuid = v.uuid => e.val = v
    BY <1>3 DEF is_same, UniqueInZoo
  <2> QED
    BY <1>1, <1>2, <1>3, <2>1 DEF ZooOfSeen
<1>4. CASE refused' = refused \cup {v}
  BY <1>1, <1>4 DEF ZooOfSeen
<1>5. ASSUME NEW new, Entered(v, new), refused' = refused,
             zoo' = _touch_gateway_by_LR(Rest(v), v) \cup {new}
      PROVE  ZooOfSeen'
  <2>1. new.val = v
    BY <1>5 DEF Entered
  <2>2. \A e \in Rest(v) : e \in Entities /\ e \in zoo /\ e.val.uuid # v.uuid
    BY DEF Rest, Old, TypeOK, Entities
  <2>3. \A f \in _touch_gateway_by_LR(Rest(v), v) : \E e \in Rest(v) : e.val = f.val
    BY <2>2, Touched DEF Entities
  <2> QED
    BY <1>1, <1>2, <1>5, <2>1, <2>2, <2>3 DEF ZooOfSeen
<1> QED
  BY <1>3, <1>4, <1>5, AddCases

LEMMA SeenStep ==
    ASSUME TypeOK, UniqueInZoo, ZooOfSeen, [Next]_vars
    PROVE  ZooOfSeen'
<1>1. CASE change_tree
  <2>1. OneEach(tree)'
    BY <1>1 DEF change_tree, Create, Remove, Uuids, OneEach, ZooOfSeen
  <2> QED
    BY <1>1, <2>1 DEF change_tree, ZooOfSeen, OneEach, Uuids
<1>2. CASE read_remote_kvdata
  <2>1. \A e \in zoo : refused = {} =>
          e.val \in tree \/ e.val.uuid \in del' \/ e.val.uuid \in Uuids(add')
    <3>1. SUFFICES ASSUME NEW e \in zoo, refused = {}, e.val \notin tree, e.val.uuid \notin del'
                   PROVE  e.val.uuid \in Uuids(add')
      OBVIOUS
    <3>2. e.val \in seen
      BY <1>2, <3>1 DEF read_remote_kvdata, ZooOfSeen, Uuids
    <3>3. PICK w \in tree : w.uuid = e.val.uuid
      BY <1>2, <3>1, <3>2 DEF read_remote_kvdata, Uuids
    <3>4. w \notin seen
      BY <3>1, <3>2, <3>3 DEF ZooOfSeen, OneEach
    <3> QED
      BY <1>2, <3>3, <3>4 DEF read_remote_kvdata, Uuids
  <2> QED
    BY <1>2, <2>1 DEF read_remote_kvdata, ZooOfSeen, OneEach
<1>3. CASE move_all_entity2sink
  BY <1>3 DEF move_all_entity2sink, ZooOfSeen, OneEach
<1>4. CASE move_entity2sink_by_pool
  <2>1. PICK u \in del : /\ del' = del \ {u}
                         /\ zoo' = zoo \ {e \in zoo : e.val.uuid = u}
                         /\ UNCHANGED <<tree, seen, add, refused>>
    BY <1>4 DEF move_entity2sink_by_pool, move_entity2sink
  <2> QED
    BY <2>1 DEF ZooOfSeen, OneEach
<1>5. CASE convert_pool2entity
  BY <1>5, AddSeen DEF convert_pool2entity
<1>6. CASE UNCHANGED <<tree, seen, del, add, zoo, refused>>
  BY <1>6 DEF ZooOfSeen, OneEach
<1> QED
  BY <1>1, <1>2, <1>3, <1>4, <1>5, <1>6 DEF Next, vars, sweep_zoo

\* A number in use is held by a route, of the zoo or of the sink.
Held ==
    refused = {} =>
        \A p \in ilk : \E e \in zoo \cup sink : Grouped(e) /\ p = <<e.val.group, e.ilk>>

LEMMA AddHeld ==
    ASSUME TypeOK, Held, NEW v, add_entity(v)
    PROVE  Held'
<1>1. CASE UNCHANGED <<zoo, sink, idx, ilk, refused>>
  BY <1>1 DEF Held
<1>2. CASE refused' = refused \cup {v}
  BY <1>2 DEF Held
<1>3. ASSUME NEW new, Entered(v, new), refused' = refused,
             zoo' = _touch_gateway_by_LR(Rest(v), v) \cup {new}
      PROVE  Held'
  <2>1. ilk' = ilk \cup Numbers({new}) /\ sink' = sink \cup Old(v)
    BY <1>3 DEF Entered
  <2>2. ASSUME NEW e \in Rest(v) PROVE \E f \in zoo' : f.val = e.val /\ f.ilk = e.ilk
    <3>1. e \in Entities
      BY DEF Rest, TypeOK, Entities
    <3>2. (IF e.val.uuid = v.pin THEN [e EXCEPT !.touched = TRUE] ELSE e) \in zoo'
      BY <1>3 DEF _touch_gateway_by_LR
    <3>3. [e EXCEPT !.touched = TRUE].val = e.val /\ [e EXCEPT !.touched = TRUE].ilk = e.ilk
      BY <3>1 DEF Entities
    <3> QED
      BY <3>2, <3>3
  <2>3. \A e \in zoo \cup sink : \E f \in zoo' \cup sink' : f.val = e.val /\ f.ilk = e.ilk
    BY <2>1, <2>2 DEF Rest
  <2>4. \A p \in Numbers({new}) : Grouped(new) /\ p = <<new.val.group, new.ilk>>
    BY DEF Numbers, Grouped
  <2>5. new \in zoo'
    BY <1>3
  <2>6. SUFFICES ASSUME refused = {}, NEW p \in ilk'
                 PROVE  \E f \in zoo' \cup sink' : Grouped(f) /\ p = <<f.val.group, f.ilk>>
    BY <1>3 DEF Held
  <2>7. CASE p \in ilk
    <3>1. PICK e \in zoo \cup sink : Grouped(e) /\ p = <<e.val.group, e.ilk>>
      BY <2>6, <2>7 DEF Held
    <3> QED
      BY <2>3, <3>1 DEF Grouped
  <2>8. CASE p \in Numbers({new})
    BY <2>4, <2>5, <2>8
  <2> QED
    BY <2>1, <2>7, <2>8
<1> QED
  BY <1>1, <1>2, <1>3, AddCases

LEMMA HeldStep ==
    ASSUME TypeOK, Held, [Next]_vars
    PROVE  Held'
<1>1. CASE move_all_entity2sink
  BY <1>1 DEF move_all_entity2sink, Held
<1>2. CASE move_entity2sink_by_pool
  BY <1>2 DEF move_entity2sink_by_pool, move_entity2sink, Held
<1>3. CASE convert_pool2entity
  BY <1>3, AddHeld DEF convert_pool2entity
<1>4. CASE sweep_zoo
  <2>1. \A e \in sink : Grouped(e) => <<e.val.group, e.ilk>> \in Numbers(sink)
    BY DEF Numbers, Grouped
  <2> QED
    BY <1>4, <2>1 DEF sweep_zoo, Held
<1>5. CASE UNCHANGED <<zoo, sink, ilk, refused>>
  BY <1>5 DEF Held
<1> QED
  BY <1>1, <1>2, <1>3, <1>4, <1>5 DEF Next, vars, change_tree, read_remote_kvdata

\* What is refused met a unique value, or a rank without a free number.
RefusalCause(v) ==
    \/ \E w \in seen : Clash(v, w)
    \/ \E e \in Current : Clash(v, e.val)
    \/ /\ v.group # NoGroup
       /\ \A i \in 0..(MaxIlk - 1) :
            \E e \in Current \cup sink : e.val.group = v.group /\ e.ilk = i

\* A set of numbers has a smallest one.
LEMMA Smallest ==
    ASSUME NEW T, T \subseteq Nat, T # {}
    PROVE  \E m \in T : \A k \in T : m <= k
<1>1. PICK m \in T : \A k \in T : <<k, m>> \notin OpToRel(<, Nat)
  BY WFMin, NatLessThanWellFounded, Zenon
<1>2. \A k \in T : ~(k < m)
  BY <1>1 DEF OpToRel
<1>3. \A k \in T : k \in Nat /\ m \in Nat
  OBVIOUS
<1>4. \A k \in T : m <= k
  BY <1>2, <1>3
<1> QED
  BY <1>4

\* An entity that gets no number finds none free.
LEMMA NoneFree ==
    ASSUME NEW v, v.group # NoGroup, _get_ilk_idx(v) = {}
    PROVE  _get_free_idx(v.group) = {}
<1>1. _get_free_idx(v.group) \subseteq Nat
  BY MaxIlkAssumption DEF _get_free_idx
<1>2. ~ \E i \in _get_free_idx(v.group) : \A j \in _get_free_idx(v.group) : i <= j
  BY DEF _get_ilk_idx
<1> QED
  BY <1>1, <1>2, Smallest

LEMMA RefusalStep ==
    ASSUME TypeOK, UniqueInZoo, ZooOfSeen, Held, [Next]_vars,
           refused = {}, refused' # {}, NEW v \in refused'
    PROVE  RefusalCause(v)
<1>1. convert_pool2entity
  BY DEF Next, vars, change_tree, read_remote_kvdata, move_all_entity2sink,
         move_entity2sink_by_pool, sweep_zoo
<1>2. PICK w \in add : add_entity(w) /\ del = {}
  BY <1>1 DEF convert_pool2entity
<1>3. w \in Values
  BY DEF TypeOK
<1>4. zoo \subseteq Current
  BY <1>2 DEF ZooOfSeen, Current
<1>5. CASE _get_ilk_idx(w) = {} /\ refused' = refused \cup {w}
  <2>1. w.group # NoGroup
    BY <1>5 DEF _get_ilk_idx
  <2>2. _get_free_idx(w.group) = {}
    BY <1>5, <2>1, NoneFree
  <2>3. ASSUME NEW i \in 0..(MaxIlk - 1)
        PROVE  \E e \in Current \cup sink : e.val.group = w.group /\ e.ilk = i
    <3>1. <<w.group, i>> \in ilk
      BY <2>2 DEF _get_free_idx
    <3>2. PICK e \in zoo \cup sink : <<w.group, i>> = <<e.val.group, e.ilk>>
      BY <3>1 DEF Held
    <3> QED
      BY <3>2, <1>4
  <2>4. v = w
    BY <1>5
  <2> QED
    BY <2>1, <2>3, <2>4 DEF RefusalCause
<1>6. CASE ~Fits(Free(w), w) /\ refused' = refused \cup {w}
  <2>1. PICK k : k \in Keys(w) /\ k \in Free(w)
    BY <1>3, <1>6, Unfit
  <2>2. Unique(Rest(w), Free(w), TRUE)
    BY UniqueLess DEF Rest, Free, Old
  <2>3. PICK e \in Rest(w) : k \in Keys(e.val)
    BY <2>1, <2>2 DEF Unique
  <2>4. e \in zoo /\ e.val.uuid # w.uuid
    BY DEF Rest, Old
  <2>5. Clash(w, e.val)
    BY <2>1, <2>3, <2>4 DEF Clash
  <2>6. v = w
    BY <1>6
  <2> QED
    BY <1>4, <2>4, <2>5, <2>6 DEF RefusalCause
<1> QED
  BY <1>2, <1>5, <1>6, AddCases

\* The first refusal meets a unique value of what etcd accounts for, or all the
\* numbers of its rank are held, by routes that etcd accounts for or by routes
\* that wait in the sink for their rules to be deleted.
THEOREM RefusalsCaused == Spec => RefusedForCause
<1>1. Init => ZooOfSeen /\ Held
  BY DEF Init, ZooOfSeen, OneEach, Held
<1>2. TypeOK /\ UniqueInZoo /\ ZooOfSeen /\ Held /\ [Next]_vars => ZooOfSeen' /\ Held'
  BY SeenStep, HeldStep
<1>3. TypeOK /\ UniqueInZoo /\ ZooOfSeen /\ Held /\ [Next]_vars =>
        [(refused = {} /\ refused' # {}) =>
           \A v \in refused' :
              \/ \E w \in seen : Clash(v, w)
              \/ \E e \in Current : Clash(v, e.val)
              \/ /\ v.group # NoGroup
                 /\ \A i \in 0..(MaxIlk - 1) :
                      \E e \in Current \cup sink : e.val.group = v.group /\ e.ilk = i]_vars
  BY RefusalStep DEF RefusalCause
<1> QED
  BY <1>1, <1>2, <1>3, TypeCorrect, ZooUnique, PTL DEF Spec, RefusedForCause

------------------------------------------------------------------------------
\* Tunnels to gateways.

LEMMA AddTouches ==
    ASSUME TypeOK, GatewayTouched, NEW v \in Values, add_entity(v)
    PROVE  GatewayTouched'
<1>1. CASE UNCHANGED zoo
  BY <1>1 DEF GatewayTouched
<1>2. CASE zoo' = Rest(v)
  BY <1>2 DEF GatewayTouched, Rest
<1>3. ASSUME NEW new, Entered(v, new),
             zoo' = _touch_gateway_by_LR(Rest(v), v) \cup {new}
      PROVE  GatewayTouched'
  <2>1. /\ new.val = v
        /\ new.touched = (~v.lazy \/ _touch_gateway_by_chassis(Rest(v), v))
    BY <1>3 DEF Entered
  <2>2. \A e \in Rest(v) : e \in Entities /\ e \in zoo
    BY DEF Rest, TypeOK, Entities
  <2>3. \A f \in _touch_gateway_by_LR(Rest(v), v) :
          \E e \in Rest(v) : e.val = f.val /\ (e.touched \/ f.val.uuid = v.pin => f.touched)
    <3>1. SUFFICES ASSUME NEW f \in _touch_gateway_by_LR(Rest(v), v)
                   PROVE  \E e \in Rest(v) : /\ e.val = f.val
                                             /\ e.touched \/ f.val.uuid = v.pin => f.touched
      OBVIOUS
    <3>2. PICK e \in Rest(v) :
            e.val = f.val /\ f = IF e.val.uuid = v.pin THEN [e EXCEPT !.touched = TRUE] ELSE e
      BY <2>2, Touched DEF Entities
    <3>3. CASE e.val.uuid = v.pin
      <4>1. f = [e EXCEPT !.touched = TRUE] /\ e \in Entities
        BY <3>2, <3>3, <2>2
      <4>2. f.touched
        BY <4>1 DEF Entities
      <4> QED
        BY <3>2, <4>2
    <3>4. CASE e.val.uuid # v.pin
      BY <3>2, <3>4
    <3> QED
      BY <3>3, <3>4
  <2>4. ASSUME NEW e \in zoo', NEW f \in zoo', e.val.pin = f.val.uuid PROVE f.touched
    <3>1. CASE e = new /\ f = new
      BY <3>1, <2>1, <2>4, ValuesAssumption
    <3>2. CASE e = new /\ f # new
      BY <3>2, <1>3, <2>1, <2>3, <2>4
    <3>3. CASE e # new /\ f = new
      <4>1. PICK e0 \in Rest(v) : e0.val = e.val
        BY <3>3, <1>3, <2>3
      <4>2. _touch_gateway_by_chassis(Rest(v), v)
        BY <4>1, <3>3, <2>1, <2>4 DEF _touch_gateway_by_chassis
      <4> QED
        BY <4>2, <3>3, <2>1
    <3>4. CASE e # new /\ f # new
      <4>1. PICK e0 \in Rest(v) : e0.val = e.val
        BY <3>4, <1>3, <2>3
      <4>2. PICK f0 \in Rest(v) : f0.val = f.val /\ (f0.touched => f.touched)
        BY <3>4, <1>3, <2>3
      <4>3. f0.touched
        BY <4>1, <4>2, <2>2, <2>4 DEF GatewayTouched
      <4> QED
        BY <4>2, <4>3
    <3> QED
      BY <3>1, <3>2, <3>3, <3>4
  <2> QED
    BY <2>4 DEF GatewayTouched
<1> QED
  BY <1>1, <1>2, <1>3, AddCases

\* The tunnel to a chassis that a router is pinned on is pulled up, whichever
\* of the two arrived first and whichever was replaced.
THEOREM GatewaysTouched == Spec => []GatewayTouched
<1>1. Init => GatewayTouched
  BY DEF Init, GatewayTouched
<1>2. ASSUME TypeOK, GatewayTouched, [Next]_vars PROVE GatewayTouched'
  <2>1. CASE convert_pool2entity
    <3>1. PICK v \in add : add_entity(v)
      BY <2>1 DEF convert_pool2entity
    <3> QED
      BY <1>2, <3>1, AddTouches DEF TypeOK
  <2>2. CASE zoo' \subseteq zoo
    BY <1>2, <2>2 DEF GatewayTouched
  <2> QED
    BY <1>2, <2>1, <2>2
    DEF Next, vars, change_tree, read_remote_kvdata, move_all_entity2sink,
        move_entity2sink_by_pool, move_entity2sink, sweep_zoo
<1> QED
  BY <1>1, <1>2, TypeCorrect, PTL DEF Spec
==============================================================================

------------------------------ MODULE EntityZoo ------------------------------
(***************************************************************************)
(* lcp/logicalview.py: the zoo, the set of logical entities an agent works *)
(* with, kept up to date with etcd by lcp/tuplesync.py.                    *)
(*                                                                         *)
(* The zoo refuses an entity that clashes with another one (an index over  *)
(* the properties that must be unique), numbers the routes and router      *)
(* ports of equal rank so that their rules can be told apart (ILKEntity),  *)
(* keeps what was removed in a sink until its rules are deleted, and pulls *)
(* up the tunnels to gateways at once.  How the entities become rules, and *)
(* the threads that work on them, is FlowSync's matter.                    *)
(***************************************************************************)
EXTENDS Integers, Sequences, FiniteSets

CONSTANTS
    Values,       \* entities as etcd may hold them: records of
                  \*   uuid   name; a new value of an entity keeps the uuid
                  \*   keys   the values of its uniq_check_keys, in their order
                  \*   group  the routes of equal rank it belongs to, or NoGroup
                  \*   pin    the chassis a router is bound to, or NoChassis
                  \*   lazy   a remote chassis: it needs a touch to count
    NoGroup, NoChassis,
    MaxIlk,       \* _max_ilk_n
    Legal(_),     \* the trees that the controller lets come into being
    MaxChanges,   \* bound: changes to the tree
    MaxResyncs    \* bound: reads of the whole tree after a compaction

ASSUME MaxIlkAssumption == MaxIlk \in Nat \ {0}
ASSUME BoundsAssumption == MaxChanges \in Nat /\ MaxResyncs \in Nat

VARIABLES
    tree,      \* the entities in etcd
    seen,      \* the tree as of the last read
    del, add,  \* what is left to do of the last read: uuids, values
    zoo,       \* entity_set: records of val, ilk and touched
    sink,      \* entity_sink_set
    idx,       \* entity_idxmap: the unique values in use
    ilk,       \* _ilk_group: the numbers in use, <<group, number>>
    changes, resyncs,
    refused    \* ghost: values that the zoo did not accept

vars == <<tree, seen, del, add, zoo, sink, idx, ilk, changes, resyncs, refused>>

Keys(v) == {v.keys[i] : i \in DOMAIN v.keys}

Uuids(S) == {v.uuid : v \in S}

\* A router is not the chassis it is pinned on.
ASSUME ValuesAssumption ==
    \A v \in Values : v.keys \in Seq(Keys(v)) /\ v.pin # v.uuid

NoIlk == -1

------------------------------------------------------------------------------
\* Numbers for routes of equal rank.

\* Mutant of _get_free_idx: one number too many.
_get_free_idx_more(g) == {i \in 0..MaxIlk : <<g, i>> \notin ilk}

\* Mutant of _get_free_idx: the number of a route that was removed is free,
\* though its rules are not deleted yet.
_get_free_idx_early(g) ==
    {i \in 0..(MaxIlk - 1) : \A e \in zoo : e.val.group = g => e.ilk # i}

_get_free_idx(g) == {i \in 0..(MaxIlk - 1) : <<g, i>> \notin ilk}

\* ILKEntity.__init__: the numbers an entity may get; no number is an exception.
_get_ilk_idx(v) ==
    IF v.group = NoGroup THEN {NoIlk}
    ELSE {i \in _get_free_idx(v.group) : \A j \in _get_free_idx(v.group) : i <= j}

\* The numbers that a set of entities holds.
Numbers(es) == {<<e.val.group, e.ilk>> : e \in {e \in es : e.val.group # NoGroup}}

------------------------------------------------------------------------------
\* The index.

\* _insert_entity_idxmap: key by key, up to the first that is taken; what went
\* in before stays.
Inserted(x, v) == {v.keys[i] : i \in {i \in DOMAIN v.keys : \A j \in 1..i : v.keys[j] \notin x}}

\* Mutant of Fits: the first key decides.
Fits_first(x, v) == Inserted(x, v) # {}

Fits(x, v) == Inserted(x, v) = Keys(v)

\* _del_entity_idxmap: key by key, up to the first that is missing.
Deleted(x, v) == {v.keys[i] : i \in {i \in DOMAIN v.keys : \A j \in 1..i : v.keys[j] \in x}}

------------------------------------------------------------------------------
\* Operations on the zoo.

\* move_entity2sink
move_entity2sink(uuid) ==
    LET gone == {e \in zoo : e.val.uuid = uuid}
    IN  /\ zoo' = zoo \ gone
        /\ sink' = sink \cup gone
        /\ idx' = idx \ UNION {Deleted(idx, e.val) : e \in gone}
        /\ UNCHANGED ilk

\* A router that is pinned pulls up the tunnel to its chassis.
_touch_gateway_by_LR(es, v) ==
    {IF e.val.uuid = v.pin THEN [e EXCEPT !.touched = TRUE] ELSE e : e \in es}

\* Mutant of _touch_gateway_by_chassis: only the router's arrival counts.
_touch_gateway_by_chassis_no(es, v) == FALSE

_touch_gateway_by_chassis(es, v) == \E e \in es : e.val.pin = v.uuid

\* Mutant of is_same: an entity with this name is enough.
is_same_name(v) == \E e \in zoo : e.val.uuid = v.uuid

is_same(v) == \E e \in zoo : e.val = v

\* add_entity: the constructor takes the number first; then the old value goes
\* into the sink; then the index may still refuse the new one.
add_entity(v) ==
    IF is_same(v) THEN UNCHANGED <<zoo, sink, idx, ilk, refused>>
    ELSE IF _get_ilk_idx(v) = {}
    THEN refused' = refused \cup {v} /\ UNCHANGED <<zoo, sink, idx, ilk>>
    ELSE LET n == CHOOSE n \in _get_ilk_idx(v) : TRUE
             old == {e \in zoo : e.val.uuid = v.uuid}
             rest == zoo \ old
             free == idx \ UNION {Deleted(idx, e.val) : e \in old}
             new == [val |-> v, ilk |-> n,
                     touched |-> ~v.lazy \/ _touch_gateway_by_chassis(rest, v)]
         IN  /\ ilk' = ilk \cup Numbers({new})
             /\ sink' = sink \cup old
             /\ idx' = free \cup Inserted(free, v)
             /\ IF Fits(free, v)
                THEN zoo' = _touch_gateway_by_LR(rest, v) \cup {new} /\ UNCHANGED refused
                ELSE zoo' = rest /\ refused' = refused \cup {v}

\* sweep_zoo, after the rules of what is in the sink were deleted: the numbers
\* become free.  Any thread that computes the rules ends with it.
sweep_zoo ==
    /\ sink # {}
    /\ sink' = {}
    /\ ilk' = ilk \ Numbers(sink)
    /\ UNCHANGED <<tree, seen, del, add, zoo, idx, changes, resyncs, refused>>

------------------------------------------------------------------------------
\* The main thread: update_entity_from_remote, one entity at a time.

\* The changes since the last read, the latest value of each entity.
read_remote_kvdata ==
    /\ del = {} /\ add = {} /\ seen # tree
    /\ seen' = tree
    /\ add' = tree \ seen
    /\ del' = Uuids(seen) \ Uuids(tree)
    /\ UNCHANGED <<tree, zoo, sink, idx, ilk, changes, resyncs, refused>>

\* After a compaction the whole tree is read and everything starts anew.
move_all_entity2sink ==
    /\ del = {} /\ add = {} /\ resyncs < MaxResyncs
    /\ resyncs' = resyncs + 1
    /\ seen' = tree /\ add' = tree
    /\ zoo' = {} /\ sink' = sink \cup zoo
    /\ idx' = idx \ UNION {Deleted(idx, e.val) : e \in zoo}
    /\ UNCHANGED <<tree, del, ilk, changes, refused>>

\* update_entity: all deletions come first.
move_entity2sink_by_pool ==
    \E u \in del :
        /\ move_entity2sink(u)
        /\ del' = del \ {u}
        /\ UNCHANGED <<tree, seen, add, changes, resyncs, refused>>

\* Mutant of convert_pool2entity: additions need not wait for the deletions.
convert_pool2entity_any ==
    \E v \in add :
        /\ add_entity(v)
        /\ add' = add \ {v}
        /\ UNCHANGED <<tree, seen, del, changes, resyncs>>

convert_pool2entity ==
    \E v \in add :
        /\ del = {}
        /\ add_entity(v)
        /\ add' = add \ {v}
        /\ UNCHANGED <<tree, seen, del, changes, resyncs>>

------------------------------------------------------------------------------
\* The controller, and the specification.

Create(v) == tree' = tree \cup {v}
Remove(v) == tree' = tree \ {v}

change_tree ==
    /\ changes < MaxChanges /\ changes' = changes + 1
    /\ \E v \in Values :
        \/ v \in tree /\ Remove(v)
        \/ v.uuid \notin Uuids(tree) /\ Create(v) /\ Legal(tree')
    /\ UNCHANGED <<seen, del, add, zoo, sink, idx, ilk, resyncs, refused>>

Init ==
    /\ tree = {} /\ seen = {} /\ del = {} /\ add = {}
    /\ zoo = {} /\ sink = {} /\ idx = {} /\ ilk = {}
    /\ changes = 0 /\ resyncs = 0 /\ refused = {}

Next ==
    \/ change_tree
    \/ read_remote_kvdata \/ move_all_entity2sink
    \/ move_entity2sink_by_pool \/ convert_pool2entity
    \/ sweep_zoo

\* The main thread polls and works off what it read.
Fairness ==
    /\ WF_vars(read_remote_kvdata)
    /\ WF_vars(move_entity2sink_by_pool)
    /\ WF_vars(convert_pool2entity)

Spec == Init /\ [][Next]_vars
FairSpec == Spec /\ Fairness

------------------------------------------------------------------------------
(***************************************************************************)
(* Properties.                                                             *)
(***************************************************************************)

\* Type invariant.  Numbers stay below _max_ilk_n: the rules' priorities leave
\* room for no more.
TypeOK ==
    /\ tree \subseteq Values /\ seen \subseteq Values
    /\ del \subseteq Uuids(Values) /\ add \subseteq Values
    /\ refused \subseteq Values
    /\ \A e \in zoo \cup sink :
        /\ e \in [val : Values, ilk : Int, touched : BOOLEAN]
        /\ e.ilk \in IF e.val.group = NoGroup THEN {NoIlk} ELSE 0..(MaxIlk - 1)
    /\ idx \subseteq UNION {Keys(v) : v \in Values}
    /\ changes \in 0..MaxChanges /\ resyncs \in 0..MaxResyncs

\* Two entities of the zoo never share a unique value, the index knows every
\* value in use, and, while nothing was refused, no other.  The rules rely on
\* it: an address stands for one port.
UniqueInZoo ==
    /\ \A e, f \in zoo : e # f => e.val.uuid # f.val.uuid /\ Keys(e.val) \cap Keys(f.val) = {}
    /\ \A e \in zoo : Keys(e.val) \subseteq idx
    /\ refused = {} => idx = UNION {Keys(e.val) : e \in zoo}

\* Two routes of equal rank never have one number, not even when one of them was
\* removed and its rules are still to be deleted: deleting the rules of the one
\* would delete the other's (the comment on ILKEntity).
IlkDistinct ==
    \A e, f \in zoo \cup sink :
        (e # f /\ e.val.group = f.val.group /\ e.val.group # NoGroup) => e.ilk # f.ilk

\* The tunnel to a chassis that a router is pinned on is there, whichever of the
\* two came first and whichever was replaced.
GatewayTouched ==
    \A e, f \in zoo : e.val.pin = f.val.uuid => f.touched

Clash(v, w) == v.uuid # w.uuid /\ Keys(v) \cap Keys(w) # {}

\* What etcd still accounts for: what it held at the last read, and old values of
\* entities that this read brings a new value for.
Current == {e \in zoo : e.val \in seen \/ e.val.uuid \in Uuids(add)}

\* The first entity to be refused meets a unique value of another one that etcd
\* holds too, or of the old value of an entity that the same read brings a new
\* value for: deletions come first, so what was deleted in etcd before never
\* keeps an address.  Numbers are another matter: a route is refused only when
\* each number of its rank is held by a route that etcd accounts for or by one
\* in the sink, removed or replaced but not swept yet (logicalview.py:102-106).
\* A number that nothing holds is never missing.
RefusedForCause ==
    [][(refused = {} /\ refused' # {}) =>
         \A v \in refused' :
            \/ \E w \in seen : Clash(v, w)
            \/ \E e \in Current : Clash(v, e.val)
            \/ /\ v.group # NoGroup
               /\ \A i \in 0..(MaxIlk - 1) :
                    \E e \in Current \cup sink : e.val.group = v.group /\ e.ilk = i]_vars

\* When etcd comes to rest the zoo holds what etcd holds, unless an entity was
\* refused: that one is not tried again.
Converges == <>[]({e.val : e \in zoo} = tree \/ refused # {})
==============================================================================

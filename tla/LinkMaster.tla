----------------------------- MODULE LinkMaster -----------------------------
(***************************************************************************)
(* How one TupleNet agent keeps its copy of the entity view of etcd.       *)
(*                                                                         *)
(* lcp/link_master.py (class WatchMaster) polls from the main thread: it   *)
(* reads either everything under the prefix or the changes that the watch  *)
(* callback, which runs on the etcd client's thread, has merged into two   *)
(* pools since the last poll.  lcp/tuplesync.py (update_entity_from_remote)*)
(* applies what a poll returned to the entity zoo.  The module follows the *)
(* two threads step by step, with the faults they are written for: a       *)
(* broken watch stream, a reconnection (from the main thread or from the   *)
(* pkt_controller thread), a compaction, a read or a watch that fails.     *)
(* Of the second watch, on the communicate prefix, it has what touches the *)
(* first: both share watch_canceled, and are disabled together.            *)
(*                                                                         *)
(* Data abstraction.  An entity's value is the etcd revision that wrote it,*)
(* 0 when the key is absent, so two writes are never confused, and etcd is *)
(* the sequence of its stores: hist[r] is the store at revision r.         *)
(***************************************************************************)
EXTENDS Integers, Sequences

CONSTANTS
    Keys,       \* keys under the entity-view prefix
    MaxRev,     \* bound: last revision etcd reaches
    MaxFaults   \* bound: how many faults of the connection happen

ASSUME BoundsAssumption == MaxRev \in Nat \ {0} /\ MaxFaults \in Nat

VARIABLES
    \* etcd (external)
    hist,        \* hist[r] is the store at revision r
    compactRev,  \* the last compacted revision
    \* WatchMaster, shared by its threads
    mode,        \* read_remote_func: "entire" or "incremental"
    lastVer,     \* last_ver
    canceled,    \* watch_canceled
    status,      \* WATCH_STATUS of the entity watch is not None
    commStatus,  \* WATCH_STATUS of the communicate watch is not None
    addPool,     \* entity_add_pool: key -> revision of the value, 0 if not in it
    delPool,     \* entity_del_pool
    poolsNone,   \* the pools are None
    \* the entity watch's stream: whether there is one, next revision to
    \* deliver, keys of it already delivered
    live, pos, done,
    disabling,   \* reconn_master is in the middle of _disable_all_watches
    \* main thread: where it is in a poll, what the read returned
    pc, rd,
    \* update_entity_from_remote
    acceptDiff,  \* update_entity_from_remote.accept_diff
    zoo,         \* the etcd-fed part of the entity zoo
    \* bookkeeping of the model: not in the code
    faults,      \* faults so far
    readRev,     \* revision of the last entire read, 0 if none
    lostBy       \* the windows of the code through which a change got lost

etcdVars == <<hist, compactRev>>
watchVars == <<mode, lastVer, canceled, status, commStatus, addPool, delPool, poolsNone>>
streamVars == <<live, pos, done>>
mainVars == <<pc, rd, acceptDiff, zoo>>
vars == <<etcdVars, watchVars, streamVars, disabling, mainVars, faults, readRev, lostBy>>

-----------------------------------------------------------------------------
(* Stores, pools and reads *)

Store == [Keys -> Nat]
Empty == [k \in Keys |-> 0]
Now == Len(hist)

\* What read_remote_kvdata has in hand: "entire" and "incr" carry pools,
\* "nil" is an incremental read of pools that are None, "failed" an entire
\* read whose get_prefix failed, "none" no read.
ReadKinds == {"none", "entire", "incr", "nil", "failed"}
Read(kind, add, del) == [kind |-> kind, add |-> add, del |-> del]
NoRead == Read("none", Empty, {})

\* The keys that revision r changed: one event each on the watch stream.
Changed(r) == {k \in Keys : hist[r][k] # (IF r = 1 THEN 0 ELSE hist[r - 1][k])}

\* The zoo after del and then add are applied to it.
UpdateEntity(z, add, del) ==
    [k \in Keys |-> IF add[k] # 0 THEN add[k] ELSE IF k \in del THEN 0 ELSE z[k]]

\* An entire read replaces the zoo once accept_diff is set.
ApplyRead(z, diff, r) ==
    UpdateEntity(IF r.kind = "entire" /\ diff THEN Empty ELSE z, r.add, r.del)

\* v is the version an entire read of store s computes: the largest
\* mod_revision of its keys, or the -1 it starts from.
IsVersion(v, s) ==
    /\ v = -1 \/ (v # 0 /\ \E k \in Keys : s[k] = v)
    /\ \A k \in Keys : s[k] # 0 => s[k] <= v

MaxOf(a, b) == IF a >= b THEN a ELSE b

-----------------------------------------------------------------------------
(* What the replica amounts to: the zoo with the read in hand, then with   *)
(* the pools, applied to it.  A main thread past its read that finds the   *)
(* entity watch disabled is about to empty the pools.                      *)
Held == ApplyRead(zoo, acceptDiff, rd)
PoolsDoomed == pc = "drained" /\ ~status
View == IF PoolsDoomed THEN Held ELSE UpdateEntity(Held, addPool, delPool)

\* The agent knows that it has to read everything (again).
OwesEntireRead ==
    \/ poolsNone /\ ~(rd.kind = "entire" /\ pc = "drained")
    \/ rd.kind \in {"nil", "failed"}
    \/ mode = "entire" /\ rd.kind # "entire"

\* The revision up to which the changes of key k have reached the agent.
SeenRev(k) ==
    CASE live /\ k \in done -> pos
      [] live /\ k \notin done -> pos - 1
      [] ~live /\ lastVer = -1 -> readRev
      [] OTHER -> lastVer

-----------------------------------------------------------------------------
(* etcd, external: what the agent's calls rely on.                         *)

\* A transaction (of a controller, or of another agent, which also
\* overwrites live keys) that puts the keys P and deletes the keys D.
Commit(P, D) ==
    /\ Now < MaxRev
    /\ P \cup D # {} /\ P \cap D = {}
    /\ \A k \in D : hist[Now][k] # 0
    /\ hist' = Append(hist, [k \in Keys |-> IF k \in P THEN Now + 1
                                            ELSE IF k \in D THEN 0
                                            ELSE hist[Now][k]])
    /\ UNCHANGED <<compactRev, watchVars, streamVars, disabling, mainVars,
                   faults, readRev, lostBy>>

Compact(c) ==
    /\ compactRev' = c
    /\ UNCHANGED <<hist, watchVars, streamVars, disabling, mainVars, faults,
                   readRev, lostBy>>

-----------------------------------------------------------------------------
(* The watch callback.  It runs under watch_lock and returns at once when  *)
(* watch_canceled is set.                                                  *)

\* _disable_all_watches.  Under watch_lock it is one step: what goes on in other
\* threads in between (MarkWatch, a reconnection) has the same effect after it.
DisableAllWatches ==
    /\ status' = FALSE /\ commStatus' = FALSE
    /\ canceled' = TRUE

\* What the callback puts in the pools after the main thread's read is thrown
\* away if the watch is disabled before the main thread looks at it: the new
\* watch starts with empty pools, after the revisions they stood for.
PoolTag == IF status /\ pc = "drained" /\ (addPool # Empty \/ delPool # {})
           THEN {"pool"} ELSE {}
DoomTag == IF PoolsDoomed THEN {"pool"} ELSE {}

\* A stream that ends between two events of a revision: the next one starts
\* after the whole revision.
SplitTag == IF live /\ done # {} THEN {"split"} ELSE {}

\* Key k of revision pos has been delivered; the last one ends the revision.
Delivered(k) ==
    IF done \cup {k} = Changed(pos)
    THEN pos' = pos + 1 /\ done' = {}
    ELSE pos' = pos /\ done' = done \cup {k}

\* The callback has an event for key k.
HasEvent(k) == live /\ ~canceled /\ pos <= Now /\ k \in Changed(pos) \ done

\* Mutant of WatchPut: last_ver does not follow the stream.
WatchPutKeepsLastVer(k) ==
    /\ HasEvent(k)
    /\ hist[pos][k] = pos
    /\ delPool' = delPool \ {k}
    /\ addPool' = [addPool EXCEPT ![k] = pos]
    /\ lostBy' = lostBy \cup DoomTag
    /\ Delivered(k)
    /\ UNCHANGED <<etcdVars, mode, lastVer, canceled, status, commStatus, poolsNone,
                   live, disabling, mainVars, faults, readRev>>

WatchPut(k) ==
    /\ HasEvent(k)
    /\ hist[pos][k] = pos
    /\ lastVer' = MaxOf(pos, lastVer)
    /\ delPool' = delPool \ {k}
    /\ addPool' = [addPool EXCEPT ![k] = pos]
    /\ lostBy' = lostBy \cup DoomTag
    /\ Delivered(k)
    /\ UNCHANGED <<etcdVars, mode, canceled, status, commStatus, poolsNone, live,
                   disabling, mainVars, faults, readRev>>

\* Mutant of WatchDelete: a pooled put of the key outlives the delete.
WatchDeleteKeepsPut(k) ==
    /\ HasEvent(k)
    /\ hist[pos][k] = 0
    /\ lastVer' = MaxOf(pos, lastVer)
    /\ delPool' = delPool \cup {k}
    /\ lostBy' = lostBy \cup DoomTag
    /\ Delivered(k)
    /\ UNCHANGED <<etcdVars, mode, canceled, status, commStatus, poolsNone, addPool,
                   live, disabling, mainVars, faults, readRev>>

\* A delete that finds a put of the key in the pool cancels it, and is lost
\* itself if the agent holds an older value of the key.
WatchDelete(k) ==
    /\ HasEvent(k)
    /\ hist[pos][k] = 0
    /\ lastVer' = MaxOf(pos, lastVer)
    /\ addPool' = [addPool EXCEPT ![k] = 0]
    /\ delPool' = IF addPool[k] # 0 THEN delPool ELSE delPool \cup {k}
    /\ lostBy' = lostBy \cup DoomTag
                 \cup (IF addPool[k] # 0 /\ Held[k] # 0 THEN {"merge"} ELSE {})
    /\ Delivered(k)
    /\ UNCHANGED <<etcdVars, mode, canceled, status, commStatus, poolsNone, live,
                   disabling, mainVars, faults, readRev>>

\* RevisionCompactedError: etcd no longer has the events from pos on, and the
\* stream ends.  The main thread, if it is between its read and the restart
\* of the watch, puts empty pools and the incremental mode over what the
\* callback sets.
WatchCompacted ==
    /\ live /\ ~canceled /\ done = {} /\ pos < compactRev
    /\ live' = FALSE
    /\ lastVer' = compactRev
    /\ mode' = "entire"
    /\ addPool' = Empty /\ delPool' = {} /\ poolsNone' = TRUE
    /\ DisableAllWatches
    /\ lostBy' = IF pc = "drained" /\ rd.kind \in {"incr", "entire"}
                 THEN lostBy \cup {"compact"} ELSE lostBy
    /\ UNCHANGED <<etcdVars, pos, done, disabling, mainVars, faults, readRev>>

\* grpc.RpcError, on the connection that carries both watches.  The client
\* passes the events of one response to the callback without an error in
\* between (done = {}).
WatchRpcError ==
    /\ faults < MaxFaults /\ faults' = faults + 1
    /\ ~canceled /\ (live => done = {})
    /\ DisableAllWatches
    /\ live' = FALSE
    /\ lostBy' = lostBy \cup PoolTag
    /\ UNCHANGED <<etcdVars, mode, lastVer, addPool, delPool, poolsNone, pos, done,
                   disabling, mainVars, readRev>>

-----------------------------------------------------------------------------
(* reconn_master, without watch_lock: called from the main thread and, by  *)
(* lease_communicate, from the thread that serves the pkt_controller, while *)
(* the main thread may be anywhere in its poll.                            *)

\* The loop of _disable_all_watches
ReconnectDisables ==
    /\ faults < MaxFaults /\ faults' = faults + 1
    /\ ~disabling /\ disabling' = TRUE
    /\ status' = FALSE /\ commStatus' = FALSE
    /\ lostBy' = lostBy \cup PoolTag
    /\ UNCHANGED <<etcdVars, mode, lastVer, canceled, addPool, delPool, poolsNone,
                   streamVars, mainVars, readRev>>

\* Its last assignment, and the new client: whatever was watched with the old
\* one is over, be it a watch that the main thread has just restarted.
ReconnectCancels ==
    /\ disabling /\ disabling' = FALSE
    /\ canceled' = TRUE
    /\ live' = FALSE
    /\ lostBy' = lostBy \cup SplitTag \cup (IF status THEN {"mark"} ELSE {})
    /\ UNCHANGED <<etcdVars, mode, lastVer, status, commStatus, addPool, delPool,
                   poolsNone, pos, done, mainVars, faults, readRev>>

-----------------------------------------------------------------------------
(* The main thread: read_remote_kvdata and update_entity_from_remote.      *)

\* read_remote_entire_kvdata
ReadEntire ==
    /\ pc = "idle" /\ mode = "entire"
    /\ rd' = Read("entire", hist[Now], {})
    /\ \E v \in -1..Now : IsVersion(v, hist[Now]) /\ lastVer' = MaxOf(v, lastVer)
    /\ readRev' = Now
    /\ lostBy' = IF live /\ pos <= Now THEN lostBy \cup {"live"} ELSE lostBy
    /\ pc' = "drained"
    /\ UNCHANGED <<etcdVars, mode, canceled, status, commStatus, addPool, delPool,
                   poolsNone, streamVars, disabling, acceptDiff, zoo, faults>>

\* get_prefix fails: None, None, None
ReadEntireFails ==
    /\ pc = "idle" /\ mode = "entire"
    /\ faults < MaxFaults /\ faults' = faults + 1
    /\ rd' = Read("failed", Empty, {})
    /\ pc' = "drained"
    /\ UNCHANGED <<etcdVars, watchVars, streamVars, disabling, acceptDiff, zoo,
                   readRev, lostBy>>

\* Iterating over the answer raises: read_remote_kvdata returns True, None,
\* None at once, which update_entity_from_remote takes for an empty view.
ReadEntireRaises ==
    /\ pc = "idle" /\ mode = "entire"
    /\ faults < MaxFaults /\ faults' = faults + 1
    /\ zoo' = IF acceptDiff THEN Empty ELSE zoo
    /\ acceptDiff' = TRUE
    /\ UNCHANGED <<etcdVars, watchVars, streamVars, disabling, pc, rd, readRev,
                   lostBy>>

\* read_remote_incremental_kvdata
ReadIncremental ==
    /\ pc = "idle" /\ mode = "incremental"
    /\ rd' = IF poolsNone THEN Read("nil", Empty, {})
                          ELSE Read("incr", addPool, delPool)
    /\ addPool' = Empty /\ delPool' = {} /\ poolsNone' = FALSE
    /\ pc' = "drained"
    /\ UNCHANGED <<etcdVars, mode, lastVer, canceled, status, commStatus, streamVars,
                   disabling, acceptDiff, zoo, faults, readRev, lostBy>>

\* _run_entity_watch finds the watch enabled.
KeepWatch ==
    /\ pc = "drained" /\ status
    /\ pc' = "watched"
    /\ UNCHANGED <<etcdVars, watchVars, streamVars, disabling, rd, acceptDiff, zoo,
                   faults, readRev, lostBy>>

InitEntityPool == addPool' = Empty /\ delPool' = {} /\ poolsNone' = FALSE

\* A watch from revision 0 starts at etcd's current revision.
StartTag == IF lastVer = -1 /\ readRev < Now /\ ~OwesEntireRead
            THEN {"rev0"} ELSE {}

\* Mutant of Rewatch: the watch skips one revision.
RewatchSkips ==
    /\ pc = "drained" /\ ~status
    /\ InitEntityPool
    /\ live' = TRUE /\ pos' = IF lastVer + 1 = 0 THEN Now + 1 ELSE lastVer + 2
    /\ done' = {}
    /\ canceled' = FALSE
    /\ lostBy' = lostBy \cup StartTag \cup SplitTag
    /\ pc' = "marking"
    /\ UNCHANGED <<etcdVars, mode, lastVer, status, commStatus, disabling, rd,
                   acceptDiff, zoo, faults, readRev>>

\* _add_watch of the entity watch: it stops the old stream, and starts a new
\* one under watch_lock.
Rewatch ==
    /\ pc = "drained" /\ ~status
    /\ InitEntityPool
    /\ live' = TRUE /\ pos' = IF lastVer + 1 = 0 THEN Now + 1 ELSE lastVer + 1
    /\ done' = {}
    /\ canceled' = FALSE
    /\ lostBy' = lostBy \cup StartTag \cup SplitTag
    /\ pc' = "marking"
    /\ UNCHANGED <<etcdVars, mode, lastVer, status, commStatus, disabling, rd,
                   acceptDiff, zoo, faults, readRev>>

\* add_watch_callback fails
RewatchFails ==
    /\ pc = "drained" /\ ~status
    /\ faults < MaxFaults /\ faults' = faults + 1
    /\ InitEntityPool
    /\ live' = FALSE
    /\ lostBy' = lostBy \cup SplitTag
    /\ pc' = "watched"
    /\ UNCHANGED <<etcdVars, mode, lastVer, canceled, status, commStatus, pos, done,
                   disabling, rd, acceptDiff, zoo, readRev>>

\* _add_watch records the watch as enabled after it released watch_lock.
MarkWatch ==
    /\ pc = "marking"
    /\ status' = TRUE
    /\ lostBy' = IF live THEN lostBy ELSE lostBy \cup {"mark"}
    /\ pc' = "watched"
    /\ UNCHANGED <<etcdVars, mode, lastVer, canceled, commStatus, addPool, delPool,
                   poolsNone, streamVars, disabling, rd, acceptDiff, zoo, faults,
                   readRev>>

\* _run_communicate_watch follows.  It has no pools of its own and starts at
\* the current revision; what it does to the entity watch is that
\* watch_canceled is unset, whether that one was added again or not.
KeepCommunicateWatch ==
    /\ pc = "watched" /\ commStatus
    /\ pc' = "ready"
    /\ UNCHANGED <<etcdVars, watchVars, streamVars, disabling, rd, acceptDiff, zoo,
                   faults, readRev, lostBy>>

RewatchCommunicate ==
    /\ pc = "watched" /\ ~commStatus
    /\ canceled' = FALSE
    /\ pc' = "commMarking"
    /\ UNCHANGED <<etcdVars, mode, lastVer, status, commStatus, addPool, delPool,
                   poolsNone, streamVars, disabling, rd, acceptDiff, zoo, faults,
                   readRev, lostBy>>

RewatchCommunicateFails ==
    /\ pc = "watched" /\ ~commStatus
    /\ faults < MaxFaults /\ faults' = faults + 1
    /\ pc' = "ready"
    /\ UNCHANGED <<etcdVars, watchVars, streamVars, disabling, rd, acceptDiff, zoo,
                   readRev, lostBy>>

MarkCommunicateWatch ==
    /\ pc = "commMarking"
    /\ commStatus' = TRUE
    /\ pc' = "ready"
    /\ UNCHANGED <<etcdVars, mode, lastVer, canceled, status, addPool, delPool,
                   poolsNone, streamVars, disabling, rd, acceptDiff, zoo, faults,
                   readRev, lostBy>>

\* Mutant of Apply: a failed entire read is not repeated.
ApplyForgetsFailure ==
    /\ pc = "ready"
    /\ mode' = IF rd.kind = "nil" THEN "entire" ELSE "incremental"
    /\ zoo' = ApplyRead(zoo, acceptDiff, rd)
    /\ acceptDiff' = TRUE
    /\ rd' = NoRead
    /\ pc' = "idle"
    /\ UNCHANGED <<etcdVars, lastVer, canceled, status, commStatus, addPool, delPool,
                   poolsNone, streamVars, disabling, faults, readRev, lostBy>>

\* The end of read_remote_kvdata, and update_entity_from_remote.
Apply ==
    /\ pc = "ready"
    /\ mode' = IF rd.kind \in {"failed", "nil"} THEN "entire" ELSE "incremental"
    /\ zoo' = ApplyRead(zoo, acceptDiff, rd)
    /\ acceptDiff' = TRUE
    /\ rd' = NoRead
    /\ pc' = "idle"
    /\ UNCHANGED <<etcdVars, lastVer, canceled, status, commStatus, addPool, delPool,
                   poolsNone, streamVars, disabling, faults, readRev, lostBy>>

-----------------------------------------------------------------------------
(* The agent starts, with no watch, against any store etcd may hold.       *)
Init ==
    /\ \E K \in SUBSET Keys : hist = <<[k \in Keys |-> IF k \in K THEN 1 ELSE 0]>>
    /\ compactRev = 0
    /\ mode = "entire" /\ lastVer = -1 /\ canceled = TRUE
    /\ status = FALSE /\ commStatus = FALSE
    /\ addPool = Empty /\ delPool = {} /\ poolsNone = TRUE
    /\ live = FALSE /\ pos = 1 /\ done = {} /\ disabling = FALSE
    /\ pc = "idle" /\ rd = NoRead
    /\ acceptDiff = FALSE /\ zoo = Empty
    /\ faults = 0 /\ readRev = 0 /\ lostBy = {}

Main ==
    \/ ReadEntire \/ ReadIncremental
    \/ KeepWatch \/ Rewatch \/ MarkWatch
    \/ KeepCommunicateWatch \/ RewatchCommunicate \/ MarkCommunicateWatch
    \/ Apply

Callback == WatchCompacted \/ \E k \in Keys : WatchPut(k) \/ WatchDelete(k)

Fault == ReadEntireFails \/ ReadEntireRaises \/ RewatchFails
         \/ RewatchCommunicateFails \/ WatchRpcError

Reconnect == ReconnectDisables \/ ReconnectCancels

Etcd ==
    \/ \E P, D \in SUBSET Keys : Commit(P, D)
    \/ \E c \in compactRev + 1..Now : Compact(c)

Next == Main \/ Callback \/ Fault \/ Reconnect \/ Etcd

\* run_main polls for ever, and etcd delivers what it has on a live stream.
Fairness == WF_vars(Main) /\ WF_vars(Callback)

Spec == Init /\ [][Next]_vars
FairSpec == Spec /\ Fairness

-----------------------------------------------------------------------------
(* Properties *)

LossTags == {"merge", "compact", "split", "live", "pool", "rev0", "mark"}

TypeOK ==
    /\ hist \in Seq(Store) /\ Len(hist) \in 1..MaxRev
    /\ compactRev \in 0..Now
    /\ mode \in {"entire", "incremental"}
    /\ lastVer \in -1..Now
    /\ canceled \in BOOLEAN /\ status \in BOOLEAN /\ commStatus \in BOOLEAN
    /\ addPool \in Store /\ delPool \in SUBSET Keys /\ poolsNone \in BOOLEAN
    /\ live \in BOOLEAN /\ pos \in 1..Now + 1 /\ done \in SUBSET Keys
    /\ disabling \in BOOLEAN
    /\ pc \in {"idle", "drained", "marking", "watched", "commMarking", "ready"}
    /\ rd \in [kind : ReadKinds, add : Store, del : SUBSET Keys]
    /\ acceptDiff \in BOOLEAN /\ zoo \in Store
    /\ faults \in 0..MaxFaults
    /\ readRev \in 0..Now
    /\ lostBy \in SUBSET LossTags

\* Key k of the view is what etcd had at revision r; or it is already gone
\* in the view because the last entire read, at a revision after r, did not
\* find it.
Fresh(k, r) ==
    \/ View[k] = hist[r][k]
    \/ View[k] = 0 /\ r < readRev /\ hist[readRev][k] = 0

\* As long as none of the loss windows was hit and the agent does not know
\* that it must read everything, what it holds (zoo, read in hand, pools) is
\* etcd's store at the revision it would resume watching from.
ReplicaAgrees ==
    lostBy = {} /\ ~OwesEntireRead => \A k \in Keys : Fresh(k, SeenRev(k))

\* A write of an older value never replaces a newer value of the same key.
NoStaleOverwrite ==
    [][lostBy' = {} =>
        \A k \in Keys : zoo'[k] # 0 => zoo'[k] >= zoo[k]]_vars

\* Once etcd stays quiet the zoo becomes, and stays, etcd's store.
Converges == <>[](lostBy = {} => zoo = hist[Now])

-----------------------------------------------------------------------------
(* Claims of the repository that the code does not keep.                   *)

\* tuplesync.py:210-211: "Our etcd linkmaster can merge add-->delete
\* operation, so add-->delete is a empty operation".  If merging were all
\* that an agent does to its changes, its replica would still agree.
MergeIsEmpty ==
    lostBy \subseteq {"merge"} /\ ~OwesEntireRead
        => \A k \in Keys : Fresh(k, SeenRev(k))

\* link_master.py:285-286, on a compaction: "abandon the previous data we
\* get, we should get etcd whole data in next period".
WholeDataAfterCompaction == mode = "entire" ~> rd.kind = "entire"

\* link_master.py:403-404: watches are marked as disabled "so before we
\* recover watching we should stop them first in _add_watch".  A disabled
\* watch is recovered: an agent that has no stream of the entities gets one.
WatchRecovers == ~live ~> live
=============================================================================

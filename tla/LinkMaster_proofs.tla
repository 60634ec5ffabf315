-------------------------- MODULE LinkMaster_proofs --------------------------
(***************************************************************************)
(* Proof that the agent's replica agrees with etcd (LinkMaster) for every  *)
(* set of keys, every number of revisions and every number of faults.      *)
(***************************************************************************)
EXTENDS LinkMaster, TLAPS

-----------------------------------------------------------------------------
(* The inductive invariant *)

\* A value is the revision that wrote it and stays until the next write.
HistOK ==
    \A r \in 1..Now, k \in Keys :
        /\ hist[r][k] <= r
        /\ hist[r][k] # 0 =>
              \A q \in 1..Now : hist[r][k] <= q /\ q <= r => hist[q][k] = hist[r][k]

\* Where the main thread is, what it holds and what it has said of the watch.
MainOK ==
    /\ rd.kind = "none" <=> pc = "idle"
    /\ rd.kind \in {"none", "nil", "failed"} => rd.add = Empty
    /\ rd.kind # "incr" => rd.del = {}
    /\ ~acceptDiff => zoo = Empty
    /\ rd.kind = "entire" => readRev >= 1

\* Without a loss there is a stream of the entities when WATCH_STATUS says so,
\* and otherwise only while _add_watch is about to say it, or while a
\* reconnection is about to end it; and an incremental read is only in hand in
\* incremental mode.
WatchOK ==
    lostBy = {} =>
        /\ pc = "marking" => ~status
        /\ status => live
        /\ live => status \/ disabling \/ pc = "marking"
        /\ pc = "drained" /\ rd.kind = "incr" => ~poolsNone
        /\ rd.kind = "incr" /\ ~poolsNone => mode = "incremental"

\* last_ver covers the last entire read and follows the watch stream.
VersionOK ==
    lostBy = {} =>
        /\ lastVer # 0
        /\ ~OwesEntireRead => readRev >= 1
        /\ readRev >= 1 => \A k \in Keys :
                hist[readRev][k] # 0 => hist[readRev][k] <= lastVer
        /\ live =>
            /\ pos >= 2
            /\ done # {} => pos <= Now /\ lastVer = pos
            /\ done = {} => lastVer <= pos - 1
            /\ done = {} /\ ~OwesEntireRead => lastVer = pos - 1 \/ readRev = pos - 1

\* On a live stream a pooled change is the key's last delivered one.
PoolsOK ==
    lostBy = {} /\ live =>
        \A k \in Keys :
            /\ addPool[k] # 0 => addPool[k] = hist[SeenRev(k)][k]
            /\ addPool[k] = 0 /\ k \in delPool => hist[SeenRev(k)][k] = 0

IInv == TypeOK /\ HistOK /\ MainOK /\ WatchOK /\ VersionOK /\ PoolsOK /\ ReplicaAgrees

-----------------------------------------------------------------------------
(* Types *)

\* What UpdateEntity makes of three stores is a store.
LEMMA UpdateEntityType ==
    ASSUME NEW z \in Store, NEW add \in Store, NEW del
    PROVE  UpdateEntity(z, add, del) \in Store
  BY DEF UpdateEntity, Store

\* The empty store is a store.
LEMMA EmptyType == Empty \in Store
  BY DEF Empty, Store

\* A read applied to a store gives a store.
LEMMA ApplyReadType ==
    ASSUME NEW z \in Store, NEW diff \in BOOLEAN,
           NEW r \in [kind : ReadKinds, add : Store, del : SUBSET Keys]
    PROVE  ApplyRead(z, diff, r) \in Store
  <1>1. r.add \in Store
    OBVIOUS
  <1>2. (IF r.kind = "entire" /\ diff THEN Empty ELSE z) \in Store
    BY EmptyType
  <1>3. QED
    BY <1>1, <1>2, UpdateEntityType DEF ApplyRead

\* Every transition keeps the types of the variables.
LEMMA TypeStep == TypeOK /\ [Next]_vars => TypeOK'
  <1> SUFFICES ASSUME TypeOK, [Next]_vars PROVE TypeOK'
    OBVIOUS
  <1> USE BoundsAssumption, EmptyType DEF TypeOK, Now, etcdVars, watchVars, streamVars, mainVars, LossTags
  <1>1. ASSUME NEW P \in SUBSET Keys, NEW D \in SUBSET Keys, Commit(P, D)
        PROVE  TypeOK'
    <2> DEFINE s == [k \in Keys |-> IF k \in P THEN Now + 1
                                   ELSE IF k \in D THEN 0 ELSE hist[Now][k]]
    <2>1. hist[Now] \in Store
      OBVIOUS
    <2>2. s \in Store
      BY <2>1 DEF Store
    <2> HIDE DEF s
    <2>3. hist' = Append(hist, s)
      BY <1>1 DEF Commit, s
    <2>4. hist' \in Seq(Store) /\ Len(hist') = Len(hist) + 1
      BY <2>2, <2>3
    <2>5. QED
      BY <1>1, <2>4 DEF Commit
  <1>2. ASSUME NEW c \in compactRev + 1..Now, Compact(c) PROVE TypeOK'
    BY <1>2 DEF Compact
  <1>3. ASSUME NEW k \in Keys, WatchPut(k) PROVE TypeOK'
    <2>1. lastVer' \in -1..Now /\ pos' \in 1..Now + 1 /\ done' \in SUBSET Keys
      BY <1>3 DEF WatchPut, HasEvent, Delivered, MaxOf
    <2>2. addPool' \in Store
      BY <1>3 DEF WatchPut, Store
    <2>3. QED
      BY <1>3, <2>1, <2>2 DEF WatchPut, DoomTag
  <1>4. ASSUME NEW k \in Keys, WatchDelete(k) PROVE TypeOK'
    <2>1. lastVer' \in -1..Now /\ pos' \in 1..Now + 1 /\ done' \in SUBSET Keys
      BY <1>4 DEF WatchDelete, HasEvent, Delivered, MaxOf
    <2>2. addPool' \in Store
      BY <1>4 DEF WatchDelete, Store
    <2>3. QED
      BY <1>4, <2>1, <2>2 DEF WatchDelete, DoomTag
  <1>5. CASE WatchCompacted
    <2>1. addPool' \in Store /\ delPool' \in SUBSET Keys /\ lostBy' \in SUBSET LossTags
      BY <1>5 DEF WatchCompacted
    <2>2. lastVer' \in -1..Now
      BY <1>5 DEF WatchCompacted
    <2>3. QED
      BY <1>5, <2>1, <2>2 DEF WatchCompacted, DisableAllWatches
  <1>6. CASE WatchRpcError
    <2>1. lostBy' \in SUBSET LossTags /\ faults' \in 0..MaxFaults
      BY <1>6 DEF WatchRpcError, PoolTag
    <2>2. QED
      BY <1>6, <2>1 DEF WatchRpcError, DisableAllWatches
  <1>7. CASE ReconnectDisables
    <2>1. lostBy' \in SUBSET LossTags /\ faults' \in 0..MaxFaults
      BY <1>7 DEF ReconnectDisables, PoolTag
    <2>2. QED
      BY <1>7, <2>1 DEF ReconnectDisables
  <1>7a. CASE ReconnectCancels
    <2>1. lostBy' \in SUBSET LossTags
      BY <1>7a DEF ReconnectCancels, SplitTag
    <2>2. QED
      BY <1>7a, <2>1 DEF ReconnectCancels
  <1>8. CASE ReadEntire
    <2>1. hist[Now] \in Store
      OBVIOUS
    <2>2. rd' \in [kind : ReadKinds, add : Store, del : SUBSET Keys]
      BY <1>8, <2>1 DEF ReadEntire, Read, ReadKinds
    <2>3. lastVer' \in -1..Now
      BY <1>8 DEF ReadEntire, MaxOf
    <2>4. QED
      BY <1>8, <2>2, <2>3 DEF ReadEntire
  <1>9. CASE ReadEntireFails
    BY <1>9 DEF ReadEntireFails, Read, ReadKinds
  <1>10. CASE ReadEntireRaises
    BY <1>10 DEF ReadEntireRaises
  <1>11. CASE ReadIncremental
    BY <1>11 DEF ReadIncremental, Read, ReadKinds
  <1>12. CASE KeepWatch
    BY <1>12 DEF KeepWatch
  <1>13. CASE Rewatch
    <2>1. lostBy' \in SUBSET LossTags
      BY <1>13 DEF Rewatch, StartTag, SplitTag
    <2>2. pos' \in 1..Now + 1
      BY <1>13 DEF Rewatch
    <2>3. addPool' \in Store /\ delPool' \in SUBSET Keys /\ poolsNone' \in BOOLEAN
      BY <1>13 DEF Rewatch, InitEntityPool
    <2>4. QED
      BY <1>13, <2>1, <2>2, <2>3 DEF Rewatch
  <1>14. CASE RewatchFails
    <2>1. addPool' \in Store /\ delPool' \in SUBSET Keys /\ poolsNone' \in BOOLEAN
      BY <1>14 DEF RewatchFails, InitEntityPool
    <2>2. lostBy' \in SUBSET LossTags
      BY <1>14 DEF RewatchFails, SplitTag
    <2>3. /\ pc' = "watched" /\ live' = FALSE /\ faults' \in 0..MaxFaults
          /\ UNCHANGED <<hist, compactRev, mode, lastVer, canceled, status, commStatus,
                         pos, done, disabling, rd, acceptDiff, zoo, readRev>>
      BY <1>14 DEF RewatchFails
    <2>4. QED
      BY <2>1, <2>2, <2>3
  <1>15. CASE MarkWatch
    BY <1>15 DEF MarkWatch
  <1>16. CASE Apply
    <2>1. zoo' \in Store
      BY <1>16, ApplyReadType DEF Apply
    <2>2. QED
      BY <1>16, <2>1 DEF Apply, NoRead, Read, ReadKinds
  <1>17. CASE UNCHANGED vars
    BY <1>17 DEF vars
  <1>18. CASE KeepCommunicateWatch
    BY <1>18 DEF KeepCommunicateWatch
  <1>19. CASE RewatchCommunicate
    BY <1>19 DEF RewatchCommunicate
  <1>20. CASE RewatchCommunicateFails
    BY <1>20 DEF RewatchCommunicateFails
  <1>21. CASE MarkCommunicateWatch
    BY <1>21 DEF MarkCommunicateWatch
  <1>22. QED
    BY <1>1, <1>2, <1>3, <1>4, <1>5, <1>6, <1>7, <1>7a, <1>8, <1>9, <1>10,
       <1>11, <1>12, <1>13, <1>14, <1>15, <1>16, <1>17, <1>18, <1>19, <1>20, <1>21
       DEF Next, Main, Callback, Fault, Reconnect, Etcd

\* The initial states are well typed.
LEMMA TypeInit == Init => TypeOK
  <1> SUFFICES ASSUME Init PROVE TypeOK
    OBVIOUS
  <1>1. PICK K \in SUBSET Keys : hist = <<[k \in Keys |-> IF k \in K THEN 1 ELSE 0]>>
    BY DEF Init
  <1>2. [k \in Keys |-> IF k \in K THEN 1 ELSE 0] \in Store
    BY DEF Store
  <1>3. hist \in Seq(Store) /\ Len(hist) = 1
    BY <1>1, <1>2
  <1>4. NoRead \in [kind : ReadKinds, add : Store, del : SUBSET Keys]
    BY EmptyType DEF NoRead, Read, ReadKinds
  <1>5. faults \in 0..MaxFaults /\ Len(hist) \in 1..MaxRev
    BY <1>3, BoundsAssumption DEF Init
  <1>6. /\ hist \in Seq(Store) /\ compactRev \in 0..Now
        /\ lastVer \in -1..Now /\ pos \in 1..Now + 1 /\ readRev \in 0..Now
    BY <1>3 DEF Init, Now
  <1>7. /\ addPool \in Store /\ zoo \in Store
        /\ rd \in [kind : ReadKinds, add : Store, del : SUBSET Keys]
    BY <1>4, EmptyType DEF Init
  <1>8. QED
    BY <1>5, <1>6, <1>7 DEF Init, TypeOK

\* Type correctness of the agent and its environment.
THEOREM TypeCorrect == Spec => []TypeOK
  BY TypeInit, TypeStep, PTL DEF Spec

-----------------------------------------------------------------------------
(* The history of etcd *)

\* Only a transaction touches the history, and it appends one store to it.
LEMMA HistoryGrows ==
    ASSUME TypeOK, NEW P \in SUBSET Keys, NEW D \in SUBSET Keys, Commit(P, D)
    PROVE  /\ Now' = Now + 1
           /\ \A r \in 1..Now : hist'[r] = hist[r]
           /\ \A k \in Keys : hist'[Now + 1][k] \in {0, Now + 1, hist[Now][k]}
  <1> DEFINE s == [k \in Keys |-> IF k \in P THEN Now + 1
                                 ELSE IF k \in D THEN 0 ELSE hist[Now][k]]
  <1>1. hist' = Append(hist, s) /\ hist \in Seq(Store)
    BY DEF Commit, TypeOK
  <1>2. \A k \in Keys : s[k] \in {0, Now + 1, hist[Now][k]}
    OBVIOUS
  <1> HIDE DEF s
  <1>3. s = hist'[Now + 1] /\ Now' = Now + 1 /\ \A r \in 1..Now : hist'[r] = hist[r]
    BY <1>1 DEF Now
  <1>4. QED
    BY <1>2, <1>3

\* Every other transition leaves the history alone.
LEMMA HistoryStep ==
    ASSUME [Next]_vars
    PROVE  \/ hist' = hist
           \/ \E P, D \in SUBSET Keys : Commit(P, D)
  BY DEF Next, vars, Main, Callback, Fault, Etcd, etcdVars, Compact, WatchPut,
         WatchDelete, WatchCompacted, WatchRpcError, Reconnect, ReconnectDisables,
         ReconnectCancels, ReadEntire, ReadEntireFails, ReadEntireRaises,
         ReadIncremental, KeepWatch, Rewatch, RewatchFails, MarkWatch,
         KeepCommunicateWatch, RewatchCommunicate, RewatchCommunicateFails,
         MarkCommunicateWatch, Apply

\* The entries of the history are natural numbers.
LEMMA HistoryType ==
    ASSUME TypeOK
    PROVE  \A r \in 1..Now, k \in Keys : hist[r][k] \in Nat
  BY DEF TypeOK, Now, Store

\* The first store satisfies HistOK.
LEMMA HistInit == Init => HistOK
  <1> SUFFICES ASSUME Init PROVE HistOK
    OBVIOUS
  <1>1. PICK K \in SUBSET Keys : hist = <<[k \in Keys |-> IF k \in K THEN 1 ELSE 0]>>
    BY DEF Init
  <1> DEFINE s == [k \in Keys |-> IF k \in K THEN 1 ELSE 0]
  <1>a. \A k \in Keys : s[k] \in {0, 1}
    OBVIOUS
  <1> HIDE DEF s
  <1>b. hist = <<s>>
    BY <1>1 DEF s
  <1>2. Now = 1 /\ \A k \in Keys : hist[1][k] \in {0, 1}
    BY <1>a, <1>b DEF Now
  <1>3. SUFFICES ASSUME NEW r \in 1..Now, NEW k \in Keys
        PROVE  /\ hist[r][k] <= r
               /\ \A q \in 1..Now : q = r
    BY DEF HistOK
  <1>4. r = 1
    BY <1>2
  <1>5. QED
    BY <1>2, <1>4

\* A transaction extends the history so that every value is still the revision
\* that wrote it.
LEMMA HistStep == TypeOK /\ HistOK /\ [Next]_vars => HistOK'
  <1> SUFFICES ASSUME TypeOK, HistOK, [Next]_vars PROVE HistOK'
    OBVIOUS
  <1>1. CASE hist' = hist
    BY <1>1 DEF HistOK, Now
  <1>2. ASSUME NEW P \in SUBSET Keys, NEW D \in SUBSET Keys, Commit(P, D)
        PROVE  HistOK'
    <2>1. /\ Now' = Now + 1 /\ Now \in Nat \ {0}
          /\ \A r \in 1..Now : hist'[r] = hist[r]
          /\ \A k \in Keys : hist'[Now + 1][k] \in {0, Now + 1, hist[Now][k]}
      <3>1. Now \in Nat \ {0}
        BY DEF TypeOK, Now
      <3>2. QED
        BY <1>2, <3>1, HistoryGrows
    <2>2. \A r \in 1..Now, k \in Keys : hist[r][k] \in Nat
      BY HistoryType
    <2> SUFFICES ASSUME NEW r \in 1..Now + 1, NEW k \in Keys
                 PROVE  /\ hist'[r][k] <= r
                        /\ hist'[r][k] # 0 =>
                             \A q \in 1..Now + 1 : hist'[r][k] <= q /\ q <= r
                                                 => hist'[q][k] = hist'[r][k]
      BY <2>1 DEF HistOK
    <2>3. CASE r \in 1..Now
      BY <2>1, <2>2, <2>3 DEF HistOK
    <2>4. CASE r = Now + 1
      BY <2>1, <2>2, <2>4 DEF HistOK
    <2>5. QED
      BY <2>1, <2>3, <2>4
  <1>3. QED
    BY <1>1, <1>2, HistoryStep

-----------------------------------------------------------------------------
(* Views *)

\* UpdateEntity, key by key.
LEMMA UpdateEntityAt ==
    ASSUME NEW z, NEW add, NEW del, NEW k \in Keys
    PROVE  UpdateEntity(z, add, del)[k] =
             IF add[k] # 0 THEN add[k] ELSE IF k \in del THEN 0 ELSE z[k]
  BY DEF UpdateEntity

\* ApplyRead, key by key.
LEMMA ApplyReadAt ==
    ASSUME NEW z, NEW diff, NEW r, NEW k \in Keys
    PROVE  ApplyRead(z, diff, r)[k] =
             IF r.add[k] # 0 THEN r.add[k]
             ELSE IF k \in r.del THEN 0
             ELSE IF r.kind = "entire" /\ diff THEN 0 ELSE z[k]
  BY UpdateEntityAt DEF ApplyRead, Empty

\* Nothing is added by empty pools.
LEMMA EmptyPools ==
    ASSUME NEW z, NEW k \in Keys
    PROVE  UpdateEntity(z, Empty, {})[k] = z[k]
  BY UpdateEntityAt DEF Empty

\* A revision that the replica claims to have seen is in the history.
LEMMA SeenRevType ==
    ASSUME TypeOK, VersionOK, lostBy = {}, ~OwesEntireRead \/ live,
           NEW k \in Keys
    PROVE  SeenRev(k) \in 1..Now
  BY DEF TypeOK, VersionOK, SeenRev, Now

\* A delivered event moves the key it is about to revision pos, and every
\* other key either not at all or over a revision that did not change it.
LEMMA SeenAdvance ==
    ASSUME TypeOK, NEW k \in Keys, HasEvent(k), Delivered(k), pos >= 2,
           hist' = hist, live' = live
    PROVE  /\ SeenRev(k)' = pos
           /\ SeenRev(k) = pos - 1
           /\ \A j \in Keys \ {k} :
                 \/ SeenRev(j)' = SeenRev(j)
                 \/ /\ SeenRev(j) = pos - 1 /\ SeenRev(j)' = pos
                    /\ hist[pos][j] = hist[pos - 1][j]
  <1>1. live /\ live' /\ pos \in Nat /\ k \notin done
    BY DEF HasEvent, TypeOK, Now
  <1>2. CASE done \cup {k} = Changed(pos)
    <2>1. pos' = pos + 1 /\ done' = {}
      BY <1>2 DEF Delivered
    <2>2. \A j \in Keys \ {k} : j \notin done => hist[pos][j] = hist[pos - 1][j]
      BY <1>1, <1>2 DEF Changed
    <2>3. QED
      BY <1>1, <2>1, <2>2 DEF SeenRev
  <1>3. CASE done \cup {k} # Changed(pos)
    <2>1. pos' = pos /\ done' = done \cup {k}
      BY <1>3 DEF Delivered
    <2>2. QED
      BY <1>1, <2>1 DEF SeenRev
  <1>4. QED
    BY <1>2, <1>3

\* The revision from which a new watch continues.
Resume == IF lastVer = -1 THEN readRev ELSE lastVer

\* When a stream ends between two revisions, the replica falls back from the
\* stream's position to last_ver without becoming wrong.
LEMMA ResumeAgrees ==
    ASSUME TypeOK, HistOK, VersionOK, ReplicaAgrees, lostBy = {}, ~OwesEntireRead,
           live => done = {}, NEW k \in Keys
    PROVE  Fresh(k, Resume)
  <1>1. Fresh(k, SeenRev(k))
    BY DEF ReplicaAgrees
  <1>2. CASE ~live
    BY <1>1, <1>2 DEF SeenRev, Resume
  <1>3. CASE live
    <2>1. done = {} /\ SeenRev(k) = pos - 1
      BY <1>3 DEF SeenRev
    <2>2. /\ lastVer <= pos - 1 /\ lastVer # 0
          /\ lastVer = pos - 1 \/ readRev = pos - 1
          /\ readRev \in 1..Now /\ pos \in 2..Now + 1 /\ lastVer \in -1..Now /\ Now \in Nat
          /\ hist[readRev][k] # 0 => hist[readRev][k] <= lastVer
      BY <1>3, <2>1 DEF VersionOK, TypeOK, Now
    <2>3. CASE lastVer = pos - 1
      BY <1>1, <2>1, <2>2, <2>3 DEF Resume
    <2>4. CASE readRev = pos - 1 /\ lastVer = -1
      BY <1>1, <2>1, <2>4 DEF Resume
    <2>5. CASE readRev = pos - 1 /\ lastVer # -1
      <3>1. View[k] = hist[readRev][k]
        BY <1>1, <2>1, <2>2, <2>5 DEF Fresh
      <3>2. lastVer \in 1..readRev /\ Resume = lastVer
        BY <2>2, <2>5 DEF Resume
      <3>3. CASE hist[readRev][k] = 0
        BY <2>2, <3>1, <3>2, <3>3 DEF Fresh
      <3>4. CASE hist[readRev][k] # 0
        <4>1. hist[lastVer][k] = hist[readRev][k]
          BY <2>2, <3>2, <3>4 DEF HistOK
        <4>2. QED
          BY <3>1, <3>2, <4>1 DEF Fresh
      <3>5. QED
        BY <3>3, <3>4
    <2>6. QED
      BY <2>2, <2>3, <2>4, <2>5
  <1>4. QED
    BY <1>2, <1>3

-----------------------------------------------------------------------------
(* The steps.  SyncOK is the invariant without the parts proved above.     *)

SyncOK == MainOK /\ WatchOK /\ VersionOK /\ PoolsOK /\ ReplicaAgrees

\* A transaction of etcd.
LEMMA CommitStep ==
    ASSUME IInv, NEW P \in SUBSET Keys, NEW D \in SUBSET Keys, Commit(P, D)
    PROVE  SyncOK'
  <1>1. /\ Now' = Now + 1 /\ Now \in Nat \ {0}
        /\ \A r \in 1..Now : hist'[r] = hist[r]
    <2>1. TypeOK
      BY DEF IInv
    <2>2. Now \in Nat \ {0}
      BY <2>1 DEF TypeOK, Now
    <2>3. QED
      BY <2>1, <2>2, HistoryGrows
  <1>2. /\ UNCHANGED <<compactRev, watchVars, streamVars, disabling, mainVars, faults, readRev, lostBy>>
        /\ IInv
    BY DEF Commit
  <1>3. OwesEntireRead' = OwesEntireRead /\ View' = View
    BY <1>2 DEF OwesEntireRead, View, Held, PoolsDoomed, watchVars, mainVars
  <1>4. \A k \in Keys : SeenRev(k)' = SeenRev(k)
    BY <1>2 DEF SeenRev, watchVars, streamVars
  <1>5. MainOK' /\ WatchOK'
    BY <1>2 DEF IInv, MainOK, WatchOK, watchVars, streamVars, mainVars
  <1>6. VersionOK'
    BY <1>1, <1>2, <1>3 DEF IInv, VersionOK, TypeOK, watchVars, mainVars, streamVars
  <1>7. ASSUME lostBy = {}, ~OwesEntireRead \/ live, NEW k \in Keys
        PROVE  SeenRev(k) \in 1..Now
    BY <1>2, <1>7, SeenRevType DEF IInv
  <1>8. PoolsOK'
    BY <1>1, <1>2, <1>4, <1>7 DEF IInv, PoolsOK, watchVars, streamVars
  <1>9. ReplicaAgrees'
    <2> SUFFICES ASSUME lostBy = {}, ~OwesEntireRead, NEW k \in Keys
                 PROVE  Fresh(k, SeenRev(k))'
      BY <1>2, <1>3, <1>4 DEF ReplicaAgrees
    <2>1. Fresh(k, SeenRev(k))
      BY <1>2 DEF IInv, ReplicaAgrees
    <2>2. SeenRev(k) \in 1..Now /\ readRev \in 1..Now
      BY <1>2, <1>7 DEF IInv, VersionOK, TypeOK
    <2>3. QED
      BY <1>1, <1>2, <1>3, <1>4, <2>1, <2>2 DEF Fresh
  <1>10. QED
    BY <1>5, <1>6, <1>8, <1>9 DEF SyncOK

\* What the two kinds of events have in common: an event for k moves last_ver,
\* and unless it is merged away the view and the pools have k as of pos.
EventEffect(k) ==
    /\ HasEvent(k) /\ Delivered(k)
    /\ UNCHANGED <<etcdVars, mode, status, poolsNone, live, disabling, mainVars, readRev>>
    /\ lastVer' = MaxOf(pos, lastVer)
    /\ lostBy' = {} => lostBy = {} /\ ~PoolsDoomed /\ View'[k] = hist[pos][k]
    /\ lostBy' = {} => /\ addPool'[k] # 0 => addPool'[k] = hist[pos][k]
                       /\ addPool'[k] = 0 /\ k \in delPool' => hist[pos][k] = 0
    /\ \A j \in Keys \ {k} : /\ addPool'[j] = addPool[j]
                             /\ j \in delPool' <=> j \in delPool

\* A delivered event that does what EventEffect says keeps the invariant; both
\* kinds of events of the watch callback do (next two lemmas).
LEMMA EventStep ==
    ASSUME IInv, NEW k \in Keys, EventEffect(k)
    PROVE  SyncOK'
  <1>0. /\ HasEvent(k) /\ Delivered(k)
        /\ UNCHANGED <<etcdVars, mode, status, poolsNone, live, disabling, mainVars, readRev>>
        /\ lastVer' = MaxOf(pos, lastVer)
        /\ lostBy' = {} => lostBy = {} /\ ~PoolsDoomed /\ View'[k] = hist[pos][k]
        /\ lostBy' = {} => /\ addPool'[k] # 0 => addPool'[k] = hist[pos][k]
                           /\ addPool'[k] = 0 /\ k \in delPool' => hist[pos][k] = 0
    BY DEF EventEffect
  <1>p. ASSUME NEW j \in Keys, j # k
        PROVE  addPool'[j] = addPool[j] /\ (j \in delPool' <=> j \in delPool)
    BY <1>p DEF EventEffect
  <1>1. OwesEntireRead' = OwesEntireRead /\ Now' = Now /\ hist' = hist
    BY <1>0 DEF OwesEntireRead, mainVars, etcdVars, Now
  <1>2. MainOK'
    BY <1>0 DEF IInv, MainOK, mainVars
  <1>3. SUFFICES ASSUME lostBy' = {}
                 PROVE  WatchOK' /\ VersionOK' /\ PoolsOK' /\ ReplicaAgrees'
    BY <1>2 DEF SyncOK, WatchOK, VersionOK, PoolsOK, ReplicaAgrees
  <1>4. /\ lostBy = {} /\ live /\ pos \in 2..Now /\ k \notin done /\ readRev \in 0..Now
        /\ lastVer \in -1..pos /\ Now \in Nat
    BY <1>0, <1>3 DEF IInv, HasEvent, VersionOK, TypeOK, Now
  <1>5. WatchOK'
    BY <1>0, <1>4 DEF IInv, WatchOK, mainVars
  <1>6. /\ SeenRev(k)' = pos /\ SeenRev(k) = pos - 1
        /\ \A j \in Keys \ {k} :
                 \/ SeenRev(j)' = SeenRev(j)
                 \/ /\ SeenRev(j) = pos - 1 /\ SeenRev(j)' = pos
                    /\ hist[pos][j] = hist[pos - 1][j]
    BY <1>0, <1>1, <1>4, SeenAdvance DEF IInv
  <1>7. lastVer' = pos /\ ((pos' = pos + 1 /\ done' = {}) \/ (pos' = pos /\ done' # {}))
    <2>1. lastVer' = pos
      BY <1>0, <1>4 DEF MaxOf
    <2>2. k \in done \cup {k}
      OBVIOUS
    <2>3. done \cup {k} # {}
      BY <2>2
    <2>4. QED
      BY <1>0, <2>1, <2>3 DEF Delivered
  <1>8. VersionOK'
    <2>1. readRev >= 1 => \A j \in Keys : hist[readRev][j] # 0 => hist[readRev][j] <= pos
      BY <1>4, HistoryType DEF IInv, VersionOK
    <2>2. QED
      BY <1>0, <1>1, <1>4, <1>7, <2>1 DEF IInv, VersionOK
  <1>9. PoolsOK'
    <2> SUFFICES ASSUME NEW j \in Keys
                 PROVE  /\ addPool'[j] # 0 => addPool'[j] = hist[SeenRev(j)'][j]
                        /\ addPool'[j] = 0 /\ j \in delPool' => hist[SeenRev(j)'][j] = 0
      BY <1>1 DEF PoolsOK
    <2>1. CASE j = k
      BY <1>0, <1>3, <1>6, <2>1
    <2>2. CASE j # k
      <3>1. /\ addPool[j] # 0 => addPool[j] = hist[SeenRev(j)][j]
            /\ addPool[j] = 0 /\ j \in delPool => hist[SeenRev(j)][j] = 0
        BY <1>4 DEF IInv, PoolsOK
      <3>2. hist[SeenRev(j)'][j] = hist[SeenRev(j)][j]
        BY <1>6, <2>2
      <3>3. QED
        BY <1>p, <2>2, <3>1, <3>2
    <2>3. QED
      BY <2>1, <2>2
  <1>10. ReplicaAgrees'
    <2> SUFFICES ASSUME ~OwesEntireRead, NEW j \in Keys
                 PROVE  Fresh(j, SeenRev(j))'
      BY <1>1 DEF ReplicaAgrees
    <2>1. CASE j = k
      BY <1>0, <1>1, <1>3, <1>6, <2>1 DEF Fresh
    <2>2. CASE j # k
      <3>1. View'[j] = View[j]
        <4>1. PoolsDoomed' = FALSE /\ PoolsDoomed = FALSE /\ Held' = Held
          BY <1>0, <1>3 DEF PoolsDoomed, Held, mainVars
        <4>2. QED
          BY <1>p, <2>2, <4>1, UpdateEntityAt DEF View
      <3>2. Fresh(j, SeenRev(j))
        BY <1>4 DEF IInv, ReplicaAgrees
      <3>3. CASE SeenRev(j)' = SeenRev(j)
        BY <1>0, <1>1, <3>1, <3>2, <3>3 DEF Fresh
      <3>4. CASE /\ SeenRev(j) = pos - 1 /\ SeenRev(j)' = pos
                 /\ hist[pos][j] = hist[pos - 1][j]
        BY <1>0, <1>1, <1>4, <3>1, <3>2, <3>4 DEF Fresh
      <3>5. QED
        BY <1>6, <2>2, <3>3, <3>4
    <2>3. QED
      BY <2>1, <2>2
  <1>11. QED
    BY <1>5, <1>8, <1>9, <1>10

\* A put event: the pools hold the value of the key from now on.
LEMMA WatchPutStep ==
    ASSUME IInv, NEW k \in Keys, WatchPut(k) PROVE SyncOK'
  <1>1. /\ HasEvent(k) /\ Delivered(k) /\ lastVer' = MaxOf(pos, lastVer)
        /\ lostBy' = {} => lostBy = {} /\ ~PoolsDoomed
        /\ UNCHANGED <<etcdVars, mode, status, poolsNone, live, disabling, mainVars, readRev>>
    BY DEF WatchPut, DoomTag
  <1>2. /\ addPool'[k] = pos /\ hist[pos][k] = pos /\ pos # 0
        /\ \A j \in Keys \ {k} : /\ addPool'[j] = addPool[j]
                                 /\ j \in delPool' <=> j \in delPool
    <2>1. addPool \in [Keys -> Nat] /\ pos \in 1..Now + 1
      BY DEF IInv, TypeOK, Store
    <2>2. pos # 0
      BY <2>1
    <2>3. QED
      BY <2>1, <2>2 DEF WatchPut
  <1>3. ASSUME lostBy' = {} PROVE View'[k] = pos
    <2>1. ~PoolsDoomed'
      BY <1>1, <1>3 DEF PoolsDoomed, mainVars
    <2>2. QED
      BY <1>2, <2>1, UpdateEntityAt DEF View
  <1>4. lostBy' = {} => lostBy = {} /\ ~PoolsDoomed /\ View'[k] = hist[pos][k]
    BY <1>1, <1>2, <1>3
  <1>5. lostBy' = {} => /\ addPool'[k] # 0 => addPool'[k] = hist[pos][k]
                        /\ addPool'[k] = 0 /\ k \in delPool' => hist[pos][k] = 0
    BY <1>2
  <1>6. EventEffect(k)
    BY <1>1, <1>2, <1>4, <1>5 DEF EventEffect
  <1>7. QED
    BY <1>6, EventStep

\* A delete event: the key is gone, unless the delete was merged away.
LEMMA WatchDeleteStep ==
    ASSUME IInv, NEW k \in Keys, WatchDelete(k) PROVE SyncOK'
  <1>1. /\ HasEvent(k) /\ Delivered(k) /\ lastVer' = MaxOf(pos, lastVer)
        /\ UNCHANGED <<etcdVars, mode, status, poolsNone, live, disabling, mainVars, readRev>>
    BY DEF WatchDelete
  <1>2. /\ addPool'[k] = 0 /\ hist[pos][k] = 0
        /\ \A j \in Keys \ {k} : /\ addPool'[j] = addPool[j]
                                 /\ j \in delPool' <=> j \in delPool
    BY DEF WatchDelete, IInv, TypeOK, Store
  <1>3. lostBy' = {} => lostBy = {} /\ ~PoolsDoomed /\ (k \in delPool' \/ Held[k] = 0)
    BY DEF WatchDelete, DoomTag
  <1>4. ASSUME lostBy' = {} PROVE View'[k] = 0
    <2>1. ~PoolsDoomed' /\ Held' = Held
      BY <1>1, <1>3, <1>4 DEF PoolsDoomed, Held, mainVars
    <2>2. QED
      BY <1>2, <1>3, <1>4, <2>1, UpdateEntityAt DEF View
  <1>5. lostBy' = {} => lostBy = {} /\ ~PoolsDoomed /\ View'[k] = hist[pos][k]
    BY <1>2, <1>3, <1>4
  <1>6. lostBy' = {} => /\ addPool'[k] # 0 => addPool'[k] = hist[pos][k]
                        /\ addPool'[k] = 0 /\ k \in delPool' => hist[pos][k] = 0
    BY <1>2
  <1>7. EventEffect(k)
    BY <1>1, <1>2, <1>5, <1>6 DEF EventEffect
  <1>8. QED
    BY <1>7, EventStep

\* A compaction: the agent owes an entire read.
LEMMA WatchCompactedStep ==
    ASSUME IInv, WatchCompacted PROVE SyncOK'
  <1>1. /\ UNCHANGED <<etcdVars, mainVars, faults, readRev>>
        /\ mode' = "entire" /\ poolsNone' = TRUE /\ status' = FALSE /\ live' = FALSE
        /\ lastVer' = compactRev /\ pos < compactRev /\ live /\ done = {}
        /\ lostBy' = {} => lostBy = {} /\ ~(pc = "drained" /\ rd.kind \in {"incr", "entire"})
    BY DEF WatchCompacted, DisableAllWatches
  <1>2. MainOK'
    BY <1>1 DEF IInv, MainOK, mainVars
  <1>3. SUFFICES ASSUME lostBy' = {} PROVE WatchOK' /\ VersionOK' /\ PoolsOK' /\ ReplicaAgrees'
    BY <1>2 DEF SyncOK, WatchOK, VersionOK, PoolsOK, ReplicaAgrees
  <1>4. lostBy = {} /\ OwesEntireRead'
    BY <1>1, <1>3 DEF OwesEntireRead, mainVars
  <1>5. WatchOK'
    <2>1. pc # "marking" \/ ~status
      BY <1>4 DEF IInv, WatchOK
    <2>2. QED
      BY <1>1, <1>3, <2>1 DEF WatchOK, mainVars
  <1>6. VersionOK'
    <2>1. lastVer <= pos - 1 /\ pos \in Nat /\ compactRev \in Nat /\ lastVer \in Int
      BY <1>1, <1>4 DEF IInv, VersionOK, TypeOK
    <2>2. readRev >= 1 => \A k \in Keys : hist[readRev][k] # 0 => hist[readRev][k] <= compactRev
      <3>1. readRev >= 1 => \A k \in Keys : hist[readRev][k] \in Nat
        BY HistoryType DEF IInv, TypeOK
      <3>2. QED
        BY <1>1, <1>4, <2>1, <3>1 DEF IInv, VersionOK
    <2>3. QED
      BY <1>1, <1>4, <2>1, <2>2 DEF VersionOK, etcdVars
  <1>7. PoolsOK' /\ ReplicaAgrees'
    BY <1>1, <1>4 DEF PoolsOK, ReplicaAgrees
  <1>8. QED
    BY <1>5, <1>6, <1>7

\* A step that moves data between the pools, the read in hand and the zoo, or
\* changes where the main thread is and what it knows of the watch, and neither
\* the versions nor the stream.
MoveEffect ==
    /\ UNCHANGED <<hist, lastVer, streamVars, readRev>>
    /\ MainOK' /\ WatchOK'
    /\ lostBy' = {} =>
          /\ lostBy = {}
          /\ ~OwesEntireRead' => ~OwesEntireRead /\ \A k \in Keys : View'[k] = View[k]
          /\ live => \/ UNCHANGED <<addPool, delPool>>
                     \/ addPool' = Empty /\ delPool' = {}

\* A step that only moves data towards the zoo (MoveEffect) keeps the invariant.
LEMMA MoveStep ==
    ASSUME IInv, MoveEffect PROVE SyncOK'
  <1>1. UNCHANGED <<hist, lastVer, streamVars, readRev>> /\ MainOK' /\ WatchOK'
    BY DEF MoveEffect
  <1>2. SUFFICES ASSUME lostBy' = {} PROVE VersionOK' /\ PoolsOK' /\ ReplicaAgrees'
    BY <1>1 DEF SyncOK, VersionOK, PoolsOK, ReplicaAgrees
  <1>3. /\ lostBy = {}
        /\ ~OwesEntireRead' => ~OwesEntireRead /\ \A k \in Keys : View'[k] = View[k]
        /\ live => \/ UNCHANGED <<addPool, delPool>>
                   \/ addPool' = Empty /\ delPool' = {}
    BY <1>2 DEF MoveEffect
  <1>4. Now' = Now /\ \A k \in Keys : SeenRev(k)' = SeenRev(k)
    BY <1>1 DEF SeenRev, Now, streamVars
  <1>5. VersionOK'
    BY <1>1, <1>3, <1>4 DEF IInv, VersionOK, streamVars
  <1>6. PoolsOK'
    BY <1>1, <1>3, <1>4 DEF IInv, PoolsOK, Empty, streamVars
  <1>7. ReplicaAgrees'
    BY <1>1, <1>3, <1>4 DEF IInv, ReplicaAgrees, Fresh
  <1>8. QED
    BY <1>5, <1>6, <1>7

\* The stream ends, by an error, a reconnection or a new watch that fails: the
\* replica falls back from the stream's position to last_ver.
StopEffect ==
    /\ UNCHANGED <<hist, lastVer, readRev>> /\ ~live'
    /\ MainOK' /\ WatchOK'
    /\ lostBy' = {} =>
          /\ lostBy = {}
          /\ live => done = {}
          /\ ~OwesEntireRead' => ~OwesEntireRead /\ \A k \in Keys : View'[k] = View[k]

\* A stream that ends with no event left undelivered in a revision, and none
\* lost from the pools (StopEffect), leaves the invariant true.
LEMMA StopStep ==
    ASSUME IInv, StopEffect PROVE SyncOK'
  <1>1. UNCHANGED <<hist, lastVer, readRev>> /\ ~live' /\ MainOK' /\ WatchOK'
    BY DEF StopEffect
  <1>2. SUFFICES ASSUME lostBy' = {} PROVE VersionOK' /\ PoolsOK' /\ ReplicaAgrees'
    BY <1>1 DEF SyncOK, VersionOK, PoolsOK, ReplicaAgrees
  <1>3. /\ lostBy = {} /\ (live => done = {})
        /\ ~OwesEntireRead' => ~OwesEntireRead /\ \A k \in Keys : View'[k] = View[k]
    BY <1>2 DEF StopEffect
  <1>4. VersionOK' /\ PoolsOK'
    BY <1>1, <1>3 DEF IInv, VersionOK, PoolsOK
  <1>5. ReplicaAgrees'
    <2> SUFFICES ASSUME ~OwesEntireRead', NEW k \in Keys PROVE Fresh(k, SeenRev(k))'
      BY DEF ReplicaAgrees
    <2>1. Fresh(k, Resume)
      BY <1>3, ResumeAgrees DEF IInv
    <2>2. SeenRev(k)' = Resume
      BY <1>1 DEF SeenRev, Resume
    <2>3. QED
      BY <1>1, <1>3, <2>1, <2>2 DEF Fresh
  <1>6. QED
    BY <1>4, <1>5

\* The callback disables the watches on an error of the connection.
LEMMA WatchRpcErrorStep ==
    ASSUME IInv, WatchRpcError PROVE SyncOK'
  <1>1. /\ UNCHANGED <<hist, mode, lastVer, addPool, delPool, poolsNone, mainVars, readRev>>
        /\ status' = FALSE /\ ~live' /\ (live => done = {})
        /\ lostBy' = lostBy \cup PoolTag
    BY DEF WatchRpcError, DisableAllWatches, etcdVars
  <1>2. MainOK' /\ WatchOK'
    BY <1>1 DEF IInv, MainOK, WatchOK, mainVars
  <1>3. OwesEntireRead' = OwesEntireRead
    BY <1>1 DEF OwesEntireRead, mainVars
  <1>4. ASSUME lostBy' = {}, NEW k \in Keys PROVE View'[k] = View[k]
    BY <1>1, <1>4, EmptyPools DEF View, Held, PoolsDoomed, PoolTag, mainVars
  <1>5. StopEffect
    BY <1>1, <1>2, <1>3, <1>4 DEF StopEffect
  <1>6. QED
    BY <1>5, StopStep

\* A reconnection marks the watches as disabled, from whichever thread.
LEMMA ReconnectDisablesStep ==
    ASSUME IInv, ReconnectDisables PROVE SyncOK'
  <1>1. /\ UNCHANGED <<hist, mode, lastVer, addPool, delPool, poolsNone, streamVars,
                       mainVars, readRev>>
        /\ status' = FALSE /\ disabling'
        /\ lostBy' = lostBy \cup PoolTag
    BY DEF ReconnectDisables, etcdVars
  <1>2. MainOK' /\ WatchOK'
    BY <1>1 DEF IInv, MainOK, WatchOK, mainVars, streamVars
  <1>3. OwesEntireRead' = OwesEntireRead
    BY <1>1 DEF OwesEntireRead, mainVars
  <1>4. ASSUME lostBy' = {}, NEW k \in Keys PROVE View'[k] = View[k]
    BY <1>1, <1>4, EmptyPools DEF View, Held, PoolsDoomed, PoolTag, mainVars
  <1>5. MoveEffect
    BY <1>1, <1>2, <1>3, <1>4 DEF MoveEffect
  <1>6. QED
    BY <1>5, MoveStep

\* A reconnection ends every stream of the old client.
LEMMA ReconnectCancelsStep ==
    ASSUME IInv, ReconnectCancels PROVE SyncOK'
  <1>1. /\ UNCHANGED <<hist, mode, lastVer, status, addPool, delPool, poolsNone, mainVars,
                       readRev>>
        /\ ~live'
        /\ lostBy' = {} => lostBy = {} /\ ~status /\ (live => done = {})
    BY DEF ReconnectCancels, SplitTag, etcdVars
  <1>2. MainOK' /\ WatchOK'
    BY <1>1 DEF IInv, MainOK, WatchOK, mainVars
  <1>3. OwesEntireRead' = OwesEntireRead /\ View' = View
    BY <1>1 DEF OwesEntireRead, View, Held, PoolsDoomed, mainVars
  <1>4. StopEffect
    BY <1>1, <1>2, <1>3 DEF StopEffect
  <1>5. QED
    BY <1>4, StopStep

\* A compaction in etcd concerns nothing the replica claims.
LEMMA CompactStep ==
    ASSUME IInv, NEW c, Compact(c) PROVE SyncOK'
  <1>1. UNCHANGED <<hist, watchVars, streamVars, disabling, mainVars, faults, readRev, lostBy>>
    BY DEF Compact
  <1>2. OwesEntireRead' = OwesEntireRead /\ View' = View /\ Now' = Now
    BY <1>1 DEF OwesEntireRead, View, Held, PoolsDoomed, watchVars, mainVars, Now
  <1>3. \A k \in Keys : SeenRev(k)' = SeenRev(k)
    BY <1>1 DEF SeenRev, watchVars, streamVars
  <1>4. MainOK' /\ WatchOK'
    BY <1>1 DEF IInv, MainOK, WatchOK, watchVars, streamVars, mainVars
  <1>5. VersionOK'
    BY <1>1, <1>2 DEF IInv, VersionOK, watchVars, streamVars
  <1>6. PoolsOK' /\ ReplicaAgrees'
    BY <1>1, <1>2, <1>3 DEF IInv, PoolsOK, ReplicaAgrees, Fresh, watchVars, streamVars
  <1>7. QED
    BY <1>4, <1>5, <1>6 DEF SyncOK

\* Nothing happens.
LEMMA StutterStep ==
    ASSUME IInv, UNCHANGED vars PROVE SyncOK'
  <1>1. UNCHANGED <<hist, watchVars, streamVars, disabling, mainVars, faults, readRev, lostBy>>
    BY DEF vars, etcdVars
  <1>2. OwesEntireRead' = OwesEntireRead /\ View' = View /\ Now' = Now
    BY <1>1 DEF OwesEntireRead, View, Held, PoolsDoomed, watchVars, mainVars, Now
  <1>3. \A k \in Keys : SeenRev(k)' = SeenRev(k)
    BY <1>1 DEF SeenRev, watchVars, streamVars
  <1>4. MainOK' /\ WatchOK'
    BY <1>1 DEF IInv, MainOK, WatchOK, watchVars, streamVars, mainVars
  <1>5. VersionOK'
    BY <1>1, <1>2 DEF IInv, VersionOK, watchVars, streamVars
  <1>6. PoolsOK' /\ ReplicaAgrees'
    BY <1>1, <1>2, <1>3 DEF IInv, PoolsOK, ReplicaAgrees, Fresh, watchVars, streamVars
  <1>7. QED
    BY <1>4, <1>5, <1>6 DEF SyncOK

\* An entire read gives the store of its revision; a stream that is still
\* live has delivered everything up to it, or the read is a loss window.
LEMMA ReadEntireStep ==
    ASSUME IInv, ReadEntire PROVE SyncOK'
  <1>1. /\ pc = "idle" /\ pc' = "drained" /\ mode = "entire"
        /\ rd' = [kind |-> "entire", add |-> hist[Now], del |-> {}]
        /\ readRev' = Now
        /\ UNCHANGED <<etcdVars, mode, status, addPool, delPool, poolsNone, streamVars,
                       disabling, acceptDiff, zoo>>
        /\ lostBy' = {} => lostBy = {} /\ (~live \/ pos > Now)
    <2>1. pos \in Nat /\ Now \in Nat
      BY DEF IInv, TypeOK, Now
    <2>2. QED
      BY <2>1 DEF ReadEntire, Read
  <1>2. /\ hist' = hist /\ Now' = Now /\ Now \in Nat \ {0} /\ pos \in 1..Now + 1
        /\ lastVer \in -1..Now
    BY <1>1 DEF IInv, TypeOK, Now, etcdVars
  <1>3. PICK v \in -1..Now : IsVersion(v, hist[Now]) /\ lastVer' = MaxOf(v, lastVer)
    BY DEF ReadEntire
  <1>4. \A k \in Keys : hist[Now][k] \in Nat /\ (hist[Now][k] # 0 => hist[Now][k] <= v)
    BY <1>2, <1>3, HistoryType DEF IsVersion, IInv
  <1>5. /\ v # 0 /\ lastVer' \in -1..Now /\ v <= lastVer' /\ lastVer <= lastVer'
        /\ lastVer' \in {v, lastVer}
    BY <1>2, <1>3 DEF MaxOf, IsVersion
  <1>6. ~OwesEntireRead'
    BY <1>1 DEF OwesEntireRead
  <1>7. MainOK'
    BY <1>1, <1>2 DEF IInv, MainOK
  <1>8. SUFFICES ASSUME lostBy' = {}
                 PROVE  WatchOK' /\ VersionOK' /\ PoolsOK' /\ ReplicaAgrees'
    BY <1>7 DEF SyncOK, WatchOK, VersionOK, PoolsOK, ReplicaAgrees
  <1>9. lostBy = {} /\ (live => pos = Now + 1 /\ done = {})
    BY <1>1, <1>2, <1>8 DEF IInv, VersionOK
  <1>10. WatchOK'
    BY <1>1, <1>9 DEF IInv, WatchOK, streamVars
  <1>11. VersionOK'
    <2>1. lastVer' # 0
      BY <1>5, <1>9 DEF IInv, VersionOK
    <2>2. \A k \in Keys : hist[Now][k] # 0 => hist[Now][k] <= lastVer'
      BY <1>2, <1>4, <1>5
    <2>3. live => lastVer' <= pos - 1 /\ pos >= 2
      BY <1>2, <1>5, <1>9
    <2>4. QED
      BY <1>1, <1>2, <1>9, <2>1, <2>2, <2>3 DEF VersionOK, streamVars
  <1>12. \A k \in Keys : SeenRev(k)' = IF live THEN Now
                                       ELSE IF lastVer' = -1 THEN Now ELSE lastVer'
    BY <1>1, <1>2, <1>9 DEF SeenRev, streamVars
  <1>13. live => \A k \in Keys : SeenRev(k) = Now
    BY <1>2, <1>9 DEF SeenRev
  <1>14. PoolsOK'
    BY <1>1, <1>2, <1>9, <1>12, <1>13 DEF IInv, PoolsOK, streamVars
  <1>15. ReplicaAgrees'
    <2> SUFFICES ASSUME NEW k \in Keys PROVE Fresh(k, SeenRev(k))'
      BY DEF ReplicaAgrees
    <2>1. Held'[k] = hist[Now][k]
      <3>1. acceptDiff \/ zoo[k] = 0
        BY DEF IInv, MainOK, Empty
      <3>2. QED
        BY <1>1, <3>1, ApplyReadAt DEF Held
    <2>2. View'[k] = hist[Now][k]
      <3>1. CASE ~status
        BY <1>1, <2>1, <3>1 DEF View, PoolsDoomed
      <3>2. CASE status
        <4>1. /\ addPool[k] # 0 => addPool[k] = hist[Now][k]
              /\ addPool[k] = 0 /\ k \in delPool => hist[Now][k] = 0
          BY <1>9, <1>13, <3>2 DEF IInv, PoolsOK, WatchOK
        <4>2. ~PoolsDoomed'
          BY <1>1, <3>2 DEF PoolsDoomed
        <4>3. QED
          BY <1>1, <2>1, <4>1, <4>2, UpdateEntityAt DEF View
      <3>3. QED
        BY <3>1, <3>2
    <2>3. CASE SeenRev(k)' = Now
      BY <1>1, <1>2, <2>2, <2>3 DEF Fresh
    <2>4. CASE SeenRev(k)' # Now
      <3>1. SeenRev(k)' = lastVer' /\ lastVer' \in 1..Now - 1
        BY <1>2, <1>5, <1>9, <1>12, <2>4 DEF IInv, VersionOK
      <3>2. CASE hist[Now][k] = 0
        BY <1>1, <1>2, <2>2, <3>1, <3>2 DEF Fresh
      <3>3. CASE hist[Now][k] # 0
        <4>1. hist[Now][k] <= lastVer'
          BY <1>2, <1>4, <1>5, <3>3
        <4>2. hist[lastVer'][k] = hist[Now][k]
          BY <1>2, <3>1, <3>3, <4>1 DEF IInv, HistOK
        <4>3. QED
          BY <1>1, <1>2, <2>2, <3>1, <4>2 DEF Fresh
      <3>4. QED
        BY <3>2, <3>3
    <2>5. QED
      BY <2>3, <2>4
  <1>16. QED
    BY <1>10, <1>11, <1>14, <1>15

\* A failed entire read, in either form, leaves the agent owing one.
LEMMA ReadEntireFailsStep ==
    ASSUME IInv, ReadEntireFails \/ ReadEntireRaises PROVE SyncOK'
  <1>1. /\ UNCHANGED <<etcdVars, watchVars, streamVars, disabling, readRev, lostBy>>
        /\ pc = "idle" /\ pc' \in {"idle", "drained"}
        /\ mode = "entire" /\ rd'.kind \in {"none", "failed"}
        /\ rd'.kind = "none" <=> pc' = "idle"
        /\ rd'.add = Empty /\ rd'.del = {}
        /\ ~acceptDiff' => zoo' = Empty
    <2>1. pc = "idle" /\ rd.kind = "none" /\ rd.add = Empty /\ rd.del = {}
      BY DEF ReadEntireFails, ReadEntireRaises, IInv, MainOK
    <2>2. ~acceptDiff => zoo = Empty
      BY DEF IInv, MainOK
    <2>3. QED
      BY <2>1, <2>2 DEF ReadEntireFails, ReadEntireRaises, Read
  <1>2. OwesEntireRead' /\ Now' = Now /\ hist' = hist
    BY <1>1 DEF OwesEntireRead, watchVars, etcdVars, Now
  <1>3. MainOK'
    BY <1>1 DEF MainOK
  <1>4. WatchOK'
    BY <1>1 DEF IInv, WatchOK, watchVars, streamVars
  <1>5. VersionOK'
    BY <1>1, <1>2 DEF IInv, VersionOK, watchVars, streamVars
  <1>6. \A k \in Keys : SeenRev(k)' = SeenRev(k)
    BY <1>1 DEF SeenRev, watchVars, streamVars
  <1>7. PoolsOK' /\ ReplicaAgrees'
    BY <1>1, <1>2, <1>6 DEF IInv, PoolsOK, ReplicaAgrees, watchVars, streamVars
  <1>8. QED
    BY <1>3, <1>4, <1>5, <1>7 DEF SyncOK

\* Draining the pools into the read in hand.
LEMMA ReadIncrementalStep ==
    ASSUME IInv, ReadIncremental PROVE SyncOK'
  <1>1. /\ pc = "idle" /\ pc' = "drained" /\ mode = "incremental" /\ poolsNone' = FALSE
        /\ rd' = IF poolsNone THEN [kind |-> "nil", add |-> Empty, del |-> {}]
                 ELSE [kind |-> "incr", add |-> addPool, del |-> delPool]
        /\ addPool' = Empty /\ delPool' = {}
        /\ UNCHANGED <<hist, mode, lastVer, status, streamVars, disabling, acceptDiff,
                       zoo, readRev, lostBy>>
    BY DEF ReadIncremental, Read, etcdVars
  <1>2. rd.kind = "none" /\ rd.add = Empty /\ rd.del = {}
    BY <1>1 DEF IInv, MainOK
  <1>3. MainOK'
    BY <1>1 DEF IInv, MainOK
  <1>4. WatchOK'
    BY <1>1 DEF IInv, WatchOK, streamVars
  <1>5. ASSUME ~OwesEntireRead', NEW k \in Keys
        PROVE  ~OwesEntireRead /\ View'[k] = View[k]
    <2>1. ~poolsNone /\ ~OwesEntireRead
      BY <1>1, <1>2, <1>5 DEF OwesEntireRead
    <2>2. Held[k] = zoo[k]
      BY <1>2, ApplyReadAt DEF Held, Empty
    <2>3. View[k] = UpdateEntity(Held, addPool, delPool)[k]
      BY <1>1 DEF View, PoolsDoomed
    <2>4. Held'[k] = View[k]
      BY <1>1, <2>1, <2>2, <2>3, ApplyReadAt, UpdateEntityAt DEF Held
    <2>5. View'[k] = Held'[k]
      BY <1>1, EmptyPools DEF View
    <2>6. QED
      BY <2>1, <2>4, <2>5
  <1>6. ~OwesEntireRead' => ~OwesEntireRead
    BY <1>1, <1>2 DEF OwesEntireRead
  <1>7. MoveEffect
    BY <1>1, <1>3, <1>4, <1>5, <1>6 DEF MoveEffect
  <1>8. QED
    BY <1>7, MoveStep

\* Finding the watch enabled.
LEMMA KeepWatchStep ==
    ASSUME IInv, KeepWatch PROVE SyncOK'
  <1>1. /\ pc = "drained" /\ status /\ pc' = "watched"
        /\ UNCHANGED <<hist, watchVars, streamVars, disabling, rd, acceptDiff, zoo, readRev,
                       lostBy>>
    BY DEF KeepWatch, etcdVars
  <1>2. MainOK'
    BY <1>1 DEF IInv, MainOK
  <1>3. WatchOK'
    BY <1>1 DEF IInv, WatchOK, watchVars, streamVars
  <1>4. ~OwesEntireRead' => ~OwesEntireRead
    BY <1>1 DEF OwesEntireRead, watchVars
  <1>5. lostBy = {} => \A k \in Keys : View'[k] = View[k]
    <2>1. ~PoolsDoomed /\ ~PoolsDoomed'
      BY <1>1 DEF PoolsDoomed
    <2>2. QED
      BY <1>1, <2>1 DEF View, Held, watchVars
  <1>6. MoveEffect
    BY <1>1, <1>2, <1>3, <1>4, <1>5 DEF MoveEffect, watchVars
  <1>7. QED
    BY <1>6, MoveStep

\* A restart of the watch that fails leaves it disabled, with empty pools.
LEMMA RewatchFailsStep ==
    ASSUME IInv, RewatchFails PROVE SyncOK'
  <1>1. /\ pc = "drained" /\ ~status /\ pc' = "watched"
        /\ addPool' = Empty /\ delPool' = {} /\ poolsNone' = FALSE
        /\ ~live' /\ (lostBy' = {} => lostBy = {} /\ (live => done = {}))
        /\ UNCHANGED <<hist, mode, lastVer, status, rd, acceptDiff, zoo, readRev>>
    BY DEF RewatchFails, InitEntityPool, SplitTag, etcdVars
  <1>2. MainOK'
    BY <1>1 DEF IInv, MainOK
  <1>3. WatchOK'
    BY <1>1 DEF IInv, WatchOK
  <1>4. lostBy = {} /\ ~OwesEntireRead' => ~OwesEntireRead
    BY <1>1 DEF OwesEntireRead, IInv, WatchOK, MainOK, TypeOK, ReadKinds
  <1>5. \A k \in Keys : View'[k] = View[k]
    <2>1. PoolsDoomed
      BY <1>1 DEF PoolsDoomed
    <2>2. Held' = Held
      BY <1>1 DEF Held
    <2>3. QED
      BY <1>1, <2>1, <2>2, EmptyPools DEF View
  <1>6. StopEffect
    BY <1>1, <1>2, <1>3, <1>4, <1>5 DEF StopEffect
  <1>7. QED
    BY <1>6, StopStep

\* Applying the read in hand to the zoo.
LEMMA ApplyStep ==
    ASSUME IInv, Apply PROVE SyncOK'
  <1>1. /\ pc = "ready" /\ pc' = "idle" /\ acceptDiff' = TRUE
        /\ mode' = IF rd.kind \in {"failed", "nil"} THEN "entire" ELSE "incremental"
        /\ zoo' = ApplyRead(zoo, acceptDiff, rd)
        /\ rd' = [kind |-> "none", add |-> Empty, del |-> {}]
        /\ UNCHANGED <<hist, lastVer, status, addPool, delPool, poolsNone, streamVars,
                       disabling, readRev, lostBy>>
    BY DEF Apply, NoRead, Read, etcdVars
  <1>2. MainOK'
    BY <1>1 DEF IInv, MainOK
  <1>3. WatchOK'
    BY <1>1 DEF IInv, WatchOK, streamVars
  <1>4. lostBy = {} /\ ~OwesEntireRead' => ~OwesEntireRead
    BY <1>1 DEF OwesEntireRead, IInv, WatchOK, MainOK, TypeOK, ReadKinds
  <1>5. \A k \in Keys : View'[k] = View[k]
    <2> SUFFICES ASSUME NEW k \in Keys PROVE View'[k] = View[k]
      OBVIOUS
    <2>1. Held'[k] = Held[k]
      <3>1. zoo'[k] = Held[k]
        BY <1>1 DEF Held
      <3>2. rd'.add[k] = 0 /\ k \notin rd'.del /\ rd'.kind # "entire"
        BY <1>1 DEF Empty
      <3>3. Held'[k] = zoo'[k]
        BY <3>2, ApplyReadAt DEF Held
      <3>4. QED
        BY <3>1, <3>3
    <2>2. ~PoolsDoomed /\ ~PoolsDoomed'
      BY <1>1 DEF PoolsDoomed
    <2>3. QED
      BY <1>1, <2>1, <2>2, UpdateEntityAt DEF View
  <1>6. MoveEffect
    BY <1>1, <1>2, <1>3, <1>4, <1>5 DEF MoveEffect
  <1>7. QED
    BY <1>6, MoveStep

\* Recording the watch as enabled.
LEMMA MarkWatchStep ==
    ASSUME IInv, MarkWatch PROVE SyncOK'
  <1>1. /\ pc = "marking" /\ pc' = "watched" /\ status' = TRUE
        /\ lostBy' = {} => lostBy = {} /\ live
        /\ UNCHANGED <<hist, mode, lastVer, addPool, delPool, poolsNone, streamVars,
                       disabling, rd, acceptDiff, zoo, readRev>>
    BY DEF MarkWatch, etcdVars
  <1>2. MainOK'
    BY <1>1 DEF IInv, MainOK
  <1>3. WatchOK'
    BY <1>1 DEF IInv, WatchOK, streamVars
  <1>4. OwesEntireRead' = OwesEntireRead
    BY <1>1 DEF OwesEntireRead
  <1>5. View' = View
    BY <1>1 DEF View, Held, PoolsDoomed
  <1>6. MoveEffect
    BY <1>1, <1>2, <1>3, <1>4, <1>5 DEF MoveEffect
  <1>7. QED
    BY <1>6, MoveStep

\* The communicate watch is found enabled, added again, or not.
LEMMA CommunicateStep ==
    ASSUME IInv,
           \/ KeepCommunicateWatch \/ RewatchCommunicate
           \/ RewatchCommunicateFails \/ MarkCommunicateWatch
    PROVE  SyncOK'
  <1>1. /\ pc \in {"watched", "commMarking"} /\ pc' \in {"commMarking", "ready"}
        /\ UNCHANGED <<hist, mode, lastVer, status, addPool, delPool, poolsNone,
                       streamVars, disabling, rd, acceptDiff, zoo, readRev, lostBy>>
    BY DEF KeepCommunicateWatch, RewatchCommunicate, RewatchCommunicateFails,
           MarkCommunicateWatch, etcdVars, watchVars
  <1>2. MainOK'
    BY <1>1 DEF IInv, MainOK
  <1>3. WatchOK'
    BY <1>1 DEF IInv, WatchOK, streamVars
  <1>4. OwesEntireRead' = OwesEntireRead /\ View' = View
    BY <1>1 DEF OwesEntireRead, View, Held, PoolsDoomed
  <1>5. MoveEffect
    BY <1>1, <1>2, <1>3, <1>4 DEF MoveEffect
  <1>6. QED
    BY <1>5, MoveStep

\* A restart of the watch from last_ver, or from etcd's current revision,
\* with empty pools.
LEMMA RewatchStep ==
    ASSUME IInv, Rewatch PROVE SyncOK'
  <1>1. /\ pc = "drained" /\ pc' = "marking" /\ ~status
        /\ addPool' = Empty /\ delPool' = {} /\ poolsNone' = FALSE
        /\ pos' = IF lastVer + 1 = 0 THEN Now + 1 ELSE lastVer + 1
        /\ done' = {} /\ live' = TRUE
        /\ UNCHANGED <<hist, mode, lastVer, status, disabling, rd, acceptDiff, zoo, readRev>>
    BY DEF Rewatch, InitEntityPool, etcdVars
  <1>2. lostBy' = {} => /\ lostBy = {} /\ (live => done = {})
                        /\ ~OwesEntireRead /\ lastVer = -1 => ~(readRev < Now)
    BY DEF Rewatch, StartTag, SplitTag
  <1>3. MainOK'
    BY <1>1 DEF IInv, MainOK
  <1>4. CASE lostBy' = {}
    <2>1. PoolsDoomed
      BY <1>1 DEF PoolsDoomed
    <2>2. ~OwesEntireRead' => ~OwesEntireRead
      BY <1>1, <1>2, <1>4 DEF OwesEntireRead, IInv, WatchOK, MainOK, TypeOK, ReadKinds
    <2>3. \A k \in Keys : View'[k] = View[k]
      <3>1. Held' = Held /\ ~PoolsDoomed'
        BY <1>1 DEF Held, PoolsDoomed
      <3>2. QED
        BY <1>1, <2>1, <3>1, EmptyPools DEF View
    <2>4. /\ Now' = Now /\ Now \in Nat \ {0} /\ readRev \in 0..Now /\ lastVer \in -1..Now
          /\ lastVer # 0 /\ (~OwesEntireRead => readRev >= 1)
      BY <1>1, <1>2, <1>4 DEF IInv, TypeOK, VersionOK, Now
    <2>5. /\ pos' >= 2 /\ lastVer <= pos' - 1
          /\ ~OwesEntireRead => lastVer = pos' - 1 \/ (lastVer = -1 /\ readRev = pos' - 1)
      BY <1>1, <1>2, <1>4, <2>4
    <2>6. ~OwesEntireRead => \A k \in Keys : SeenRev(k)' = Resume /\ Fresh(k, Resume)
      <3>1. ~OwesEntireRead => \A k \in Keys : SeenRev(k)' = Resume
        BY <1>1, <2>4, <2>5 DEF SeenRev, Resume
      <3>2. QED
        BY <1>2, <1>4, <3>1, ResumeAgrees DEF IInv
    <2>7. WatchOK'
      BY <1>1, <1>2, <1>4 DEF IInv, WatchOK
    <2>8. VersionOK'
      BY <1>1, <1>2, <1>4, <2>2, <2>4, <2>5 DEF IInv, VersionOK
    <2>9. PoolsOK'
      BY <1>1 DEF PoolsOK, Empty
    <2>10. ReplicaAgrees'
      BY <1>1, <1>2, <1>4, <2>2, <2>3, <2>6 DEF IInv, ReplicaAgrees, Fresh
    <2>11. QED
      BY <1>3, <2>7, <2>8, <2>9, <2>10 DEF SyncOK
  <1>5. CASE lostBy' # {}
    BY <1>3, <1>5 DEF SyncOK, WatchOK, VersionOK, PoolsOK, ReplicaAgrees
  <1>6. QED
    BY <1>4, <1>5

-----------------------------------------------------------------------------
(* The invariant                                                           *)

\* The agent starts in the invariant: it owes an entire read.
LEMMA InvInit == Init => IInv
  <1> SUFFICES ASSUME Init PROVE IInv
    OBVIOUS
  <1>1. TypeOK /\ HistOK
    BY TypeInit, HistInit
  <1>2. MainOK /\ WatchOK
    BY DEF Init, MainOK, WatchOK, NoRead, Read
  <1>3. OwesEntireRead
    BY DEF Init, OwesEntireRead, NoRead, Read
  <1>4. VersionOK /\ PoolsOK
    <2>1. lastVer = -1 /\ readRev = 0 /\ live = FALSE
      BY DEF Init
    <2>2. QED
      BY <1>3, <2>1 DEF VersionOK, PoolsOK
  <1>5. ReplicaAgrees
    BY <1>3 DEF ReplicaAgrees
  <1>6. QED
    BY <1>1, <1>2, <1>4, <1>5 DEF IInv

\* Every step of every thread, and of etcd, keeps the invariant.
LEMMA InvStep == IInv /\ [Next]_vars => IInv'
  <1> SUFFICES ASSUME IInv, [Next]_vars PROVE IInv'
    OBVIOUS
  <1>1. TypeOK' /\ HistOK'
    BY TypeStep, HistStep DEF IInv
  <1> SUFFICES SyncOK'
    BY <1>1 DEF IInv, SyncOK
  <1>2. CASE Etcd
    <2>1. ASSUME NEW P \in SUBSET Keys, NEW D \in SUBSET Keys, Commit(P, D)
          PROVE  SyncOK'
      BY <2>1, CommitStep
    <2>2. ASSUME NEW c \in compactRev + 1..Now, Compact(c)
          PROVE  SyncOK'
      BY <2>2, CompactStep
    <2>3. QED
      BY <1>2, <2>1, <2>2 DEF Etcd
  <1>3. CASE Callback
    <2>1. ASSUME NEW k \in Keys, WatchPut(k) PROVE SyncOK'
      BY <2>1, WatchPutStep
    <2>2. ASSUME NEW k \in Keys, WatchDelete(k) PROVE SyncOK'
      BY <2>2, WatchDeleteStep
    <2>3. CASE WatchCompacted
      BY <2>3, WatchCompactedStep
    <2>4. QED
      BY <1>3, <2>1, <2>2, <2>3 DEF Callback
  <1>4. CASE Main
    BY <1>4, ReadEntireStep, ReadIncrementalStep, KeepWatchStep, RewatchStep,
       MarkWatchStep, CommunicateStep, ApplyStep DEF Main
  <1>5. CASE Fault \/ Reconnect
    BY <1>5, ReadEntireFailsStep, RewatchFailsStep, CommunicateStep, WatchRpcErrorStep,
       ReconnectDisablesStep, ReconnectCancelsStep DEF Fault, Reconnect
  <1>6. CASE UNCHANGED vars
    BY <1>6, StutterStep
  <1>7. QED
    BY <1>2, <1>3, <1>4, <1>5, <1>6 DEF Next

\* An agent that hit none of the loss windows and does not owe an entire read
\* holds etcd's store at the revision it would resume watching from, whatever
\* the interleaving of its threads, the transactions and the faults.
THEOREM ReplicaAgreement == Spec => []ReplicaAgrees
  <1>1. IInv => ReplicaAgrees
    BY DEF IInv
  <1>2. QED
    BY InvInit, InvStep, <1>1, PTL DEF Spec

-----------------------------------------------------------------------------
(* Old values never come back.  A value is a revision: all that the agent  *)
(* holds of a key was written at or before last_ver, and what will be      *)
(* applied later is not older than what will be applied before it.         *)

\* v is a value that history h gave to key k, not after revision last.
Origin(v, k, h, last) == v # 0 => v <= last /\ v \in 1..Len(h) /\ h[v][k] = v

\* The zoo, then the read in hand, then the pools, unless they are doomed.
OrderOK ==
    lostBy = {} =>
        \A k \in Keys :
            /\ Origin(zoo[k], k, hist, lastVer)
            /\ Origin(rd.add[k], k, hist, lastVer)
            /\ Origin(addPool[k], k, hist, lastVer)
            /\ rd.add[k] # 0 => zoo[k] <= rd.add[k]
            /\ ~PoolsDoomed /\ addPool[k] # 0 =>
                  zoo[k] <= addPool[k] /\ rd.add[k] <= addPool[k]

\* What is lost stays lost, and last_ver never goes back before that.
LEMMA VersionGrows ==
    ASSUME IInv, [Next]_vars, lostBy' = {}
    PROVE  lostBy = {} /\ lastVer \in Int /\ lastVer' \in Int /\ lastVer <= lastVer'
  <1>1. TypeOK /\ TypeOK'
    BY TypeStep DEF IInv
  <1>2. lastVer \in Int /\ lastVer' \in Int
    BY <1>1 DEF TypeOK
  <1>3. CASE WatchCompacted
    <2>1. lostBy = {} /\ live /\ done = {} /\ pos < compactRev /\ lastVer' = compactRev
      BY <1>3 DEF WatchCompacted
    <2>2. lastVer <= pos - 1 /\ pos \in Int /\ compactRev \in Int
      BY <1>1, <2>1 DEF IInv, VersionOK, TypeOK
    <2>3. QED
      BY <1>2, <2>1, <2>2
  <1>4. ASSUME NEW k \in Keys, WatchPut(k) \/ WatchDelete(k)
        PROVE  lostBy = {} /\ lastVer <= lastVer'
    <2>1. lostBy = {} /\ lastVer' = MaxOf(pos, lastVer) /\ pos \in Int
      BY <1>1, <1>4 DEF WatchPut, WatchDelete, TypeOK
    <2>2. QED
      BY <1>2, <2>1 DEF MaxOf
  <1>5. CASE ReadEntire
    <2>1. lostBy = {} /\ \E v \in Int : lastVer' = MaxOf(v, lastVer)
      BY <1>5 DEF ReadEntire
    <2>2. QED
      BY <1>2, <2>1 DEF MaxOf
  <1>6. CASE Etcd
    <2>1. ASSUME NEW P, NEW D, Commit(P, D) PROVE UNCHANGED <<watchVars, lostBy>>
      BY <2>1 DEF Commit
    <2>2. ASSUME NEW c, Compact(c) PROVE UNCHANGED <<watchVars, lostBy>>
      BY <2>2 DEF Compact
    <2>3. UNCHANGED <<watchVars, lostBy>>
      BY <1>6, <2>1, <2>2 DEF Etcd
    <2>4. QED
      BY <1>2, <2>3 DEF watchVars
  <1>7. CASE Fault \/ Reconnect
    BY <1>2, <1>7 DEF Fault, ReadEntireFails, ReadEntireRaises, RewatchFails,
                      RewatchCommunicateFails, WatchRpcError, Reconnect,
                      ReconnectDisables, ReconnectCancels, watchVars
  <1>8. CASE Main /\ ~ReadEntire
    BY <1>2, <1>8 DEF Main, ReadIncremental, KeepWatch, Rewatch, MarkWatch,
                      KeepCommunicateWatch, RewatchCommunicate, MarkCommunicateWatch,
                      Apply, watchVars
  <1>9. CASE UNCHANGED vars
    BY <1>2, <1>9 DEF vars, watchVars
  <1>10. QED
    BY <1>2, <1>3, <1>4, <1>5, <1>6, <1>7, <1>8, <1>9 DEF Next, Callback

\* Where a value comes from does not change.
LEMMA OriginStays ==
    ASSUME TypeOK, [Next]_vars, lastVer \in Int, lastVer' \in Int, lastVer <= lastVer',
           NEW k \in Keys, NEW v, Origin(v, k, hist, lastVer)
    PROVE  Origin(v, k, hist', lastVer')
  <1>1. CASE hist' = hist
    BY <1>1 DEF Origin
  <1>2. ASSUME NEW P \in SUBSET Keys, NEW D \in SUBSET Keys, Commit(P, D)
        PROVE  Origin(v, k, hist', lastVer')
    <2>1. Now' = Now + 1 /\ \A r \in 1..Now : hist'[r] = hist[r]
      BY <1>2, HistoryGrows
    <2>2. Len(hist) = Now /\ Len(hist') = Now + 1 /\ Now \in Nat
      BY <2>1, BoundsAssumption DEF Now, TypeOK
    <2>3. QED
      BY <2>1, <2>2 DEF Origin
  <1>3. QED
    BY <1>1, <1>2, HistoryStep

\* A step that moves nothing towards the zoo, and adds nothing to the pools.
LEMMA OrderKept ==
    ASSUME IInv, OrderOK, [Next]_vars, UNCHANGED <<zoo, rd>>,
           lostBy = {} => \/ addPool' = Empty
                          \/ addPool' = addPool /\ (PoolsDoomed => PoolsDoomed')
    PROVE  OrderOK'
  <1>1. SUFFICES ASSUME lostBy' = {}, NEW k \in Keys
                 PROVE  /\ Origin(zoo'[k], k, hist', lastVer')
                        /\ Origin(rd'.add[k], k, hist', lastVer')
                        /\ Origin(addPool'[k], k, hist', lastVer')
                        /\ rd'.add[k] # 0 => zoo'[k] <= rd'.add[k]
                        /\ ~PoolsDoomed' /\ addPool'[k] # 0 =>
                              zoo'[k] <= addPool'[k] /\ rd'.add[k] <= addPool'[k]
    BY DEF OrderOK
  <1>2. TypeOK /\ lostBy = {} /\ lastVer \in Int /\ lastVer' \in Int /\ lastVer <= lastVer'
    BY <1>1, VersionGrows DEF IInv
  <1>3. /\ Origin(zoo[k], k, hist', lastVer')
        /\ Origin(rd.add[k], k, hist', lastVer')
        /\ Origin(addPool[k], k, hist', lastVer')
    BY <1>2, OriginStays DEF OrderOK
  <1>4. CASE addPool' = Empty
    <2>1. addPool'[k] = 0
      BY <1>4 DEF Empty
    <2>2. QED
      BY <1>2, <1>3, <2>1 DEF OrderOK, Origin
  <1>5. CASE addPool' = addPool /\ (PoolsDoomed => PoolsDoomed')
    BY <1>2, <1>3, <1>5 DEF OrderOK
  <1>6. QED
    BY <1>2, <1>4, <1>5

\* A pooled event is the newest thing the agent has of its key.
LEMMA OrderEvent ==
    ASSUME IInv, OrderOK, [Next]_vars, NEW j \in Keys, WatchPut(j) \/ WatchDelete(j)
    PROVE  OrderOK'
  <1>1. SUFFICES ASSUME lostBy' = {}, NEW k \in Keys
                 PROVE  /\ Origin(zoo'[k], k, hist', lastVer')
                        /\ Origin(rd'.add[k], k, hist', lastVer')
                        /\ Origin(addPool'[k], k, hist', lastVer')
                        /\ rd'.add[k] # 0 => zoo'[k] <= rd'.add[k]
                        /\ ~PoolsDoomed' /\ addPool'[k] # 0 =>
                              zoo'[k] <= addPool'[k] /\ rd'.add[k] <= addPool'[k]
    BY DEF OrderOK
  <1>2. TypeOK /\ lostBy = {} /\ lastVer \in Int /\ lastVer' \in Int /\ lastVer <= lastVer'
    BY <1>1, VersionGrows DEF IInv
  <1>3. /\ Origin(zoo[k], k, hist', lastVer')
        /\ Origin(rd.add[k], k, hist', lastVer')
        /\ Origin(addPool[k], k, hist', lastVer')
    BY <1>2, OriginStays DEF OrderOK
  <1>4. /\ UNCHANGED <<hist, zoo, rd, status, pc>> /\ lastVer' = MaxOf(pos, lastVer)
        /\ live /\ pos <= Now
    BY DEF WatchPut, WatchDelete, HasEvent, mainVars, etcdVars
  <1>5. ~PoolsDoomed
    BY <1>1 DEF WatchPut, WatchDelete, DoomTag
  <1>6. CASE addPool'[k] = addPool[k]
    BY <1>2, <1>3, <1>4, <1>5, <1>6 DEF OrderOK
  <1>7. CASE addPool'[k] = 0
    BY <1>2, <1>3, <1>4, <1>7 DEF OrderOK, Origin
  <1>8. CASE addPool'[k] = pos /\ hist[pos][k] = pos
    <2>1. pos \in 1..Len(hist) /\ pos \in Int
      BY <1>2, <1>4 DEF TypeOK, Now
    <2>2. pos <= lastVer' /\ lastVer <= pos
      <3>1. lastVer <= pos
        BY <1>2, <1>4, <2>1 DEF IInv, VersionOK
      <3>2. QED
        BY <1>2, <1>4, <2>1, <3>1 DEF MaxOf
    <2>3. Origin(pos, k, hist', lastVer')
      BY <1>4, <1>8, <2>1, <2>2 DEF Origin
    <2>4. zoo[k] <= pos /\ rd.add[k] <= pos
      BY <1>2, <2>1, <2>2 DEF OrderOK, Origin
    <2>5. rd.add[k] # 0 => zoo[k] <= rd.add[k]
      BY <1>2 DEF OrderOK
    <2>6. QED
      BY <1>3, <1>4, <1>8, <2>3, <2>4, <2>5
  <1>9. addPool'[k] \in {addPool[k], 0} \/ (addPool'[k] = pos /\ hist[pos][k] = pos)
    BY <1>2 DEF WatchPut, WatchDelete, TypeOK, Store
  <1>10. QED
    BY <1>6, <1>7, <1>8, <1>9

\* An entire read gives what is newest in etcd.
LEMMA OrderReadEntire ==
    ASSUME IInv, OrderOK, [Next]_vars, ReadEntire
    PROVE  OrderOK'
  <1>1. SUFFICES ASSUME lostBy' = {}, NEW k \in Keys
                 PROVE  /\ Origin(zoo'[k], k, hist', lastVer')
                        /\ Origin(rd'.add[k], k, hist', lastVer')
                        /\ Origin(addPool'[k], k, hist', lastVer')
                        /\ rd'.add[k] # 0 => zoo'[k] <= rd'.add[k]
                        /\ ~PoolsDoomed' /\ addPool'[k] # 0 =>
                              zoo'[k] <= addPool'[k] /\ rd'.add[k] <= addPool'[k]
    BY DEF OrderOK
  <1>2. TypeOK /\ lostBy = {} /\ lastVer \in Int /\ lastVer' \in Int /\ lastVer <= lastVer'
    BY <1>1, VersionGrows DEF IInv
  <1>3. /\ Origin(zoo[k], k, hist', lastVer')
        /\ Origin(addPool[k], k, hist', lastVer')
    BY <1>2, OriginStays DEF OrderOK
  <1>4. /\ UNCHANGED <<hist, zoo, addPool, status, live, pos, done>>
        /\ pc' = "drained" /\ rd' = [kind |-> "entire", add |-> hist[Now], del |-> {}]
        /\ (~live \/ ~(pos <= Now))
    BY <1>1 DEF ReadEntire, Read, etcdVars, streamVars
  <1>5. Now = Len(hist) /\ Now \in Nat \ {0} /\ hist[Now][k] \in Nat /\ rd'.add[k] = hist[Now][k]
    BY <1>2, <1>4, HistoryType DEF TypeOK, Now
  <1>6. hist[Now][k] # 0 => hist[Now][k] <= lastVer'
    <2>1. PICK v \in -1..Now : IsVersion(v, hist[Now]) /\ lastVer' = MaxOf(v, lastVer)
      BY DEF ReadEntire
    <2>2. hist[Now][k] # 0 => hist[Now][k] <= v
      BY <2>1 DEF IsVersion
    <2>3. v <= lastVer'
      BY <1>2, <2>1 DEF MaxOf
    <2>4. QED
      BY <1>2, <1>5, <2>1, <2>2, <2>3
  <1>7. hist[Now][k] # 0 => hist[Now][k] \in 1..Now /\ hist[hist[Now][k]][k] = hist[Now][k]
    <2>1. SUFFICES ASSUME hist[Now][k] # 0
                   PROVE  hist[Now][k] \in 1..Now /\ hist[hist[Now][k]][k] = hist[Now][k]
      OBVIOUS
    <2>2. hist[Now][k] <= Now
      BY <1>5 DEF IInv, HistOK
    <2>3. hist[Now][k] \in 1..Now
      BY <1>5, <2>1, <2>2
    <2>4. QED
      BY <1>5, <2>1, <2>3 DEF IInv, HistOK
  <1>8. Origin(rd'.add[k], k, hist', lastVer')
    BY <1>4, <1>5, <1>6, <1>7 DEF Origin
  <1>9. hist[Now][k] # 0 => zoo[k] <= hist[Now][k]
    <2>1. SUFFICES ASSUME hist[Now][k] # 0, zoo[k] # 0, ~(zoo[k] <= hist[Now][k])
                   PROVE  FALSE
      BY <1>5
    <2>2. zoo[k] \in 1..Now /\ hist[zoo[k]][k] = zoo[k]
      BY <1>2, <1>5, <2>1 DEF OrderOK, Origin
    <2>3. hist[zoo[k]][k] = hist[Now][k]
      BY <1>5, <2>1, <2>2 DEF IInv, HistOK
    <2>4. QED
      BY <1>5, <2>1, <2>2, <2>3
  <1>10. ~PoolsDoomed' /\ addPool[k] # 0 => zoo[k] <= addPool[k] /\ hist[Now][k] <= addPool[k]
    <2>1. SUFFICES ASSUME status, live, addPool[k] # 0
                   PROVE  zoo[k] <= addPool[k] /\ hist[Now][k] <= addPool[k]
      BY <1>2, <1>4 DEF PoolsDoomed, IInv, WatchOK
    <2>2. zoo[k] <= addPool[k]
      BY <1>2, <2>1 DEF OrderOK, PoolsDoomed
    <2>3. pos = Now + 1 /\ done = {}
      BY <1>2, <1>4, <1>5, <2>1 DEF IInv, VersionOK, TypeOK
    <2>4. SeenRev(k) = Now
      BY <1>5, <2>1, <2>3 DEF SeenRev
    <2>5. addPool[k] = hist[Now][k]
      BY <1>2, <2>1, <2>4 DEF IInv, PoolsOK
    <2>6. QED
      BY <1>5, <2>2, <2>5
  <1>11. QED
    BY <1>3, <1>4, <1>5, <1>8, <1>9, <1>10

\* The steps that move the pools to the read in hand, the read to the zoo, or
\* give a read up.
LEMMA OrderMove ==
    ASSUME IInv, OrderOK, [Next]_vars,
           ReadIncremental \/ Apply \/ ReadEntireFails \/ ReadEntireRaises
    PROVE  /\ OrderOK'
           /\ lostBy' = {} => \A k \in Keys : zoo'[k] # 0 => zoo'[k] >= zoo[k]
  <1>1. SUFFICES ASSUME lostBy' = {}, NEW k \in Keys
                 PROVE  /\ Origin(zoo'[k], k, hist', lastVer')
                        /\ Origin(rd'.add[k], k, hist', lastVer')
                        /\ Origin(addPool'[k], k, hist', lastVer')
                        /\ rd'.add[k] # 0 => zoo'[k] <= rd'.add[k]
                        /\ ~PoolsDoomed' /\ addPool'[k] # 0 =>
                              zoo'[k] <= addPool'[k] /\ rd'.add[k] <= addPool'[k]
                        /\ zoo'[k] # 0 => zoo'[k] >= zoo[k]
    BY DEF OrderOK
  <1>2. TypeOK /\ lostBy = {} /\ lastVer \in Int /\ lastVer' \in Int /\ lastVer <= lastVer'
    BY <1>1, VersionGrows DEF IInv
  <1>3. /\ Origin(zoo[k], k, hist', lastVer')
        /\ Origin(rd.add[k], k, hist', lastVer')
        /\ Origin(addPool[k], k, hist', lastVer')
        /\ Origin(0, k, hist', lastVer')
    BY <1>2, OriginStays DEF OrderOK, Origin
  <1>4. zoo[k] \in Nat /\ rd.add[k] \in Nat /\ addPool[k] \in Nat
    BY <1>2 DEF TypeOK, Store
  <1>5. /\ rd.add[k] # 0 => zoo[k] <= rd.add[k]
        /\ pc # "drained" /\ addPool[k] # 0 => zoo[k] <= addPool[k] /\ rd.add[k] <= addPool[k]
    BY <1>2 DEF OrderOK, PoolsDoomed
  <1>6. CASE ReadIncremental
    <2>1. /\ pc = "idle" /\ zoo' = zoo /\ addPool'[k] = 0
          /\ rd'.add[k] = 0 \/ rd'.add[k] = addPool[k]
      BY <1>6 DEF ReadIncremental, Read, Empty
    <2>2. QED
      BY <1>3, <1>4, <1>5, <2>1
  <1>7. CASE Apply
    <2>1. /\ pc = "ready" /\ addPool' = addPool /\ rd'.add[k] = 0
          /\ zoo' = ApplyRead(zoo, acceptDiff, rd)
      BY <1>7 DEF Apply, NoRead, Read, Empty
    <2>2. zoo'[k] \in {0, rd.add[k], zoo[k]} /\ (rd.add[k] # 0 => zoo'[k] = rd.add[k])
      BY <2>1, ApplyReadAt
    <2>3. QED
      BY <1>3, <1>4, <1>5, <2>1, <2>2
  <1>8. CASE ReadEntireFails
    <2>1. pc = "idle" /\ zoo' = zoo /\ addPool' = addPool /\ rd'.add[k] = 0
      BY <1>8 DEF ReadEntireFails, Read, Empty, watchVars
    <2>2. QED
      BY <1>3, <1>4, <1>5, <2>1
  <1>9. CASE ReadEntireRaises
    <2>1. /\ pc = "idle" /\ zoo'[k] \in {0, zoo[k]} /\ addPool' = addPool /\ rd' = rd
      BY <1>9 DEF ReadEntireRaises, Empty, watchVars
    <2>2. rd.add[k] = 0
      BY <2>1 DEF IInv, MainOK, Empty
    <2>3. QED
      BY <1>3, <1>4, <1>5, <2>1, <2>2
  <1>10. QED
    BY <1>6, <1>7, <1>8, <1>9

\* Every step keeps the order of values.
LEMMA OrderStep ==
    ASSUME IInv, OrderOK, [Next]_vars
    PROVE  OrderOK'
  <1> USE DEF etcdVars, watchVars, streamVars, mainVars
  <1>1. CASE ReadIncremental \/ Apply \/ ReadEntireFails \/ ReadEntireRaises
    BY <1>1, OrderMove
  <1>2. CASE ReadEntire
    BY <1>2, OrderReadEntire
  <1>3. ASSUME NEW k \in Keys, WatchPut(k) \/ WatchDelete(k) PROVE OrderOK'
    BY <1>3, OrderEvent
  <1>4. CASE WatchCompacted \/ Rewatch \/ RewatchFails
    <2>1. UNCHANGED <<zoo, rd>> /\ addPool' = Empty
      BY <1>4 DEF WatchCompacted, Rewatch, RewatchFails, InitEntityPool
    <2>2. QED
      BY <2>1, OrderKept
  <1>5. CASE KeepWatch
    <2>1. UNCHANGED <<zoo, rd, addPool>> /\ pc = "drained" /\ status
      BY <1>5 DEF KeepWatch
    <2>2. ~PoolsDoomed
      BY <2>1 DEF PoolsDoomed
    <2>3. QED
      BY <2>1, <2>2, OrderKept
  <1>6. CASE \/ MarkWatch \/ KeepCommunicateWatch \/ RewatchCommunicate
            \/ RewatchCommunicateFails \/ MarkCommunicateWatch
    <2>1. UNCHANGED <<zoo, rd, addPool>> /\ ~PoolsDoomed
      BY <1>6 DEF MarkWatch, KeepCommunicateWatch, RewatchCommunicate,
                  RewatchCommunicateFails, MarkCommunicateWatch, PoolsDoomed
    <2>2. QED
      BY <2>1, OrderKept
  <1>7. CASE WatchRpcError \/ Reconnect
    <2>1. UNCHANGED <<zoo, rd, addPool, pc>> /\ (status' = FALSE \/ status' = status)
      BY <1>7 DEF WatchRpcError, Reconnect, ReconnectDisables, ReconnectCancels,
                  DisableAllWatches
    <2>2. QED
      BY <2>1, OrderKept DEF PoolsDoomed
  <1>8. CASE Etcd \/ UNCHANGED vars
    <2>1. ASSUME NEW P, NEW D, Commit(P, D) PROVE UNCHANGED <<zoo, rd, addPool, pc, status>>
      BY <2>1 DEF Commit
    <2>2. ASSUME NEW c, Compact(c) PROVE UNCHANGED <<zoo, rd, addPool, pc, status>>
      BY <2>2 DEF Compact
    <2>3. UNCHANGED vars => UNCHANGED <<zoo, rd, addPool, pc, status>>
      BY DEF vars
    <2>4. UNCHANGED <<zoo, rd, addPool, pc, status>>
      BY <1>8, <2>1, <2>2, <2>3 DEF Etcd
    <2>5. QED
      BY <2>4, OrderKept DEF PoolsDoomed
  <1>9. QED
    BY <1>1, <1>2, <1>3, <1>4, <1>5, <1>6, <1>7, <1>8 DEF Next, Main, Callback, Fault

\* Only applying a read, or giving one up, changes the zoo.
LEMMA ZooStep ==
    ASSUME [Next]_vars
    PROVE  zoo' = zoo \/ Apply \/ ReadEntireRaises
  BY DEF Next, vars, Main, Callback, Fault, Etcd, mainVars, Commit, Compact, WatchPut,
         WatchDelete, WatchCompacted, WatchRpcError, Reconnect, ReconnectDisables,
         ReconnectCancels, ReadEntire, ReadEntireFails, ReadIncremental, KeepWatch,
         Rewatch, RewatchFails, MarkWatch, KeepCommunicateWatch, RewatchCommunicate,
         RewatchCommunicateFails, MarkCommunicateWatch

\* An agent that hit none of the loss windows never puts an older value of a
\* key over a newer one, however reads, pools, reconnections and restarts of
\* the watch follow each other (update_entity_from_remote).
THEOREM NeverStale == Spec => NoStaleOverwrite
  <1> DEFINE Older == lostBy' = {} => \A k \in Keys : zoo'[k] # 0 => zoo'[k] >= zoo[k]
  <1>1. Init => OrderOK
    <2>1. Init => \A k \in Keys : zoo[k] = 0 /\ rd.add[k] = 0 /\ addPool[k] = 0
      <3>1. Init => zoo = Empty /\ rd.add = Empty /\ addPool = Empty
        BY DEF Init, NoRead, Read
      <3>2. QED
        BY <3>1 DEF Empty
    <2>2. QED
      BY <2>1 DEF OrderOK, Origin
  <1>2. IInv /\ OrderOK /\ [Next]_vars => OrderOK'
    BY OrderStep
  <1>3. IInv /\ OrderOK /\ [Next]_vars => Older
    <2>1. IInv /\ zoo' = zoo => Older
      BY DEF IInv, TypeOK, Store
    <2>2. QED
      BY <2>1, ZooStep, OrderMove
  <1>4. QED
    BY InvInit, InvStep, <1>1, <1>2, <1>3, PTL DEF Spec, NoStaleOverwrite

=============================================================================

---- MODULE Controller_proofs ----
(***************************************************************************)
(* Proof that the ID bitmap and the IP books (Controller) mark exactly     *)
(* what is in use, and that the controllers' protocol implements IDPool,   *)
(* for any number of clients, devices, ports, identifiers and calls.       *)
(***************************************************************************)
EXTENDS Controller, TLAPS

----
(***************************************************************************)
(* The inductive invariant.                                                *)
(***************************************************************************)

\* What a call in progress has in hand.  It speaks of the call alone: other
\* clients cannot disturb it.
CallOK(r) ==
  /\ r \in Calls
  /\ r.at \notin {"idle", "syncRouters", "syncSwitches", "syncTxn"} => r.d \in Devs
  /\ r.at \in AllocSteps \cup {"savePortFind", "savePortRead", "savePortTxn",
                               "delPortFind", "delPortRead", "delPortTxn"} => r.p \in Ports
  /\ r.at \in {"saveDevTxn", "delDevPorts", "delDevRead", "delDevTxn"} => r.n \in IDs
  /\ r.at \in {"savePortFind", "savePortRead", "savePortTxn", "allocReread", "allocTxn",
               "delPortRead", "delPortTxn"} => r.n \in IPs
  /\ r.at \in {"saveDevTxn", "delDevTxn", "syncRouters", "syncSwitches", "syncTxn"}
       => r.map \in Maps(IDs)
  /\ r.at \in {"savePortTxn", "allocTxn", "delPortTxn", "rebuildPorts", "rebuildTxn"}
       => r.map \in Maps(IPs)
  /\ r.at \in {"syncSwitches", "syncTxn"} => r.seen \subseteq IDs
  /\ r.at \in {"allocReread", "allocTxn", "rebuildTxn"} => r.seen \subseteq IPs
  /\ r.at \in {"saveDevTxn", "savePortTxn"} => r.n \notin Bits(r.map)
  /\ r.at \in {"allocReread", "allocTxn"} => r.n \notin r.seen

CallsOK == \A c \in Clients : CallOK(cl[c])

\* No two devices have the same ID.
IDsDistinct == \A d, e \in Devs : dev[d] = dev[e] => d = e \/ dev[d] = 0

\* No two ports of a device have the same address.
AddressesDistinct ==
  \A d \in Devs : \A p, q \in Ports : port[d][p] = port[d][q] => p = q \/ port[d][p] = 0

\* The two halves of what a state where nothing was lost looks like.
DevicesExact == IDsDistinct /\ Bits(ids) = DevIDs(Devs)
PortsExact == AddressesDistinct /\ \A d \in Devs : Bits(book[d]) = PortIPs(d)
Exact == NothingLost => DevicesExact /\ PortsExact

IInv == TypeOK /\ CallsOK /\ Exact

----
(***************************************************************************)
(* Bitmaps.                                                                *)
(***************************************************************************)

\* The bitmap that was written holds the bits that were written.
LEMMA BitsOfMap == ASSUME NEW S PROVE Bits(<<S>>) = S
  BY DEF Bits

\* A missing key has no bits.
LEMMA BitsOfMissing == Bits(<<>>) = {}
  BY DEF Bits

\* The bits of a bitmap over V are in V.
LEMMA BitsType == ASSUME NEW V, NEW m \in Maps(V) PROVE Bits(m) \subseteq V
  BY DEF Bits, Maps

\* A set of bits is a bitmap, and so is a missing key.
LEMMA MapType == ASSUME NEW V, NEW S \in SUBSET V PROVE <<S>> \in Maps(V) /\ <<>> \in Maps(V)
  BY DEF Maps

\* Delete removes one bit, whether or not the key goes with it.
LEMMA WithoutBits ==
  ASSUME NEW V, NEW m \in Maps(V), NEW i
  PROVE  Without(m, i) \in Maps(V) /\ Bits(Without(m, i)) = Bits(m) \ {i}
  <1>1. Bits(m) \ {i} \in SUBSET V
    BY BitsType
  <1>2. CASE Bits(m) \ {i} = {}
    <2>1. Without(m, i) = <<>>
      BY <1>2 DEF Without
    <2>2. QED
      BY <1>1, <1>2, <2>1, MapType, BitsOfMissing
  <1>3. CASE Bits(m) \ {i} # {}
    <2>1. Without(m, i) = <<Bits(m) \ {i}>>
      BY <1>3 DEF Without
    <2>2. QED
      BY <1>1, <2>1, MapType, BitsOfMap
  <1>4. QED
    BY <1>2, <1>3

\* A free identifier is an unmarked one.
LEMMA FreeID == ASSUME NEW m, NEW n \in Lowest(FreeIDs(m)) PROVE n \in IDs /\ n \notin Bits(m)
  BY DEF Lowest, FreeIDs

\* A free address is an unmarked one of the subnet.
LEMMA FreeIP == ASSUME NEW m, NEW n \in Lowest(FreeIPs(m)) PROVE n \in IPs /\ n \notin Bits(m)
  BY BoundsAssumption DEF Lowest, FreeIPs, IPs

----
(***************************************************************************)
(* Calls in progress.                                                      *)
(***************************************************************************)

\* The IDs of devices are IDs, the addresses of ports are addresses.
LEMMA ReadTypes ==
  ASSUME TypeOK
  PROVE  /\ \A D \in SUBSET Devs : DevIDs(D) \subseteq IDs
         /\ \A d \in Devs : PortIPs(d) \subseteq IPs
         /\ \A d \in Devs : dev[d] # 0 => dev[d] \in IDs
         /\ \A d \in Devs, p \in Ports : port[d][p] # 0 => port[d][p] \in IPs
         /\ Bits(ids) \subseteq IDs
         /\ \A d \in Devs : Bits(book[d]) \subseteq IPs
  <1>1. /\ \A d \in Devs : dev[d] # 0 => dev[d] \in IDs
        /\ \A d \in Devs, p \in Ports : port[d][p] # 0 => port[d][p] \in IPs
    BY BoundsAssumption DEF TypeOK, IDs, IPs
  <1>2. Bits(ids) \subseteq IDs /\ \A d \in Devs : Bits(book[d]) \subseteq IPs
    BY BitsType DEF TypeOK
  <1>3. QED
    BY <1>1, <1>2 DEF DevIDs, PortIPs

\* A client that is not in a call has nothing in hand.
LEMMA IdleOK == CallOK(Idle)
  BY DEF CallOK, Idle, Calls, Steps, AllocSteps, Maps

\* A step of one client leaves the calls of the others alone.
LEMMA OneCall ==
  ASSUME CallsOK, NEW c \in Clients, NEW r, CallOK(r), cl \in [Clients -> Calls],
         cl' = [cl EXCEPT ![c] = r]
  PROVE  CallsOK' /\ cl' \in [Clients -> Calls]
  BY DEF CallsOK, CallOK

\* The first step of a call: what it has read is what its record says.
LEMMA StartStep ==
  ASSUME TypeOK, CallsOK, NEW c \in Clients, Start(c)
  PROVE  \E r : CallOK(r) /\ Begin(c, r)
  <1> USE ReadTypes DEF CallOK, Calls, Steps, AllocSteps, Idle, TypeOK, Devs
  <1>1. ASSUME NEW d \in Devs, SaveDev(c, d) PROVE \E r : CallOK(r) /\ Begin(c, r)
    <2>1. PICK n \in Lowest(FreeIDs(ids)) :
            Begin(c, [Idle EXCEPT !.at = "saveDevTxn", !.d = d, !.n = n, !.map = ids])
      BY <1>1 DEF SaveDev
    <2>2. n \in IDs /\ n \notin Bits(ids)
      BY FreeID
    <2>3. QED
      BY <2>1, <2>2
  <1>2. ASSUME NEW d \in Devs, Rebuild(c, d) PROVE \E r : CallOK(r) /\ Begin(c, r)
    BY <1>2 DEF Rebuild, Maps
  <1>3. ASSUME NEW d \in Devs, NEW recursive \in BOOLEAN, DelDev(c, d, recursive)
        PROVE  \E r : CallOK(r) /\ Begin(c, r)
    BY <1>3 DEF DelDev, Maps
  <1>4. ASSUME NEW d \in Devs, NEW p \in Ports, NEW i \in IPs, SavePort(c, d, p, i)
        PROVE  \E r : CallOK(r) /\ Begin(c, r)
    BY <1>4 DEF SavePort, Maps
  <1>5. ASSUME NEW d \in Devs, NEW p \in Ports, DelPort(c, d, p)
        PROVE  \E r : CallOK(r) /\ Begin(c, r)
    BY <1>5 DEF DelPort, Maps
  <1>6. ASSUME NEW s \in Switches, NEW p \in Ports, Alloc(c, s, p)
        PROVE  \E r : CallOK(r) /\ Begin(c, r)
    BY <1>6 DEF Alloc, Maps
  <1>7. ASSUME NEW force \in BOOLEAN, Sync(c, force) PROVE \E r : CallOK(r) /\ Begin(c, r)
    BY <1>7 DEF Sync, Maps
  <1>8. QED
    BY <1>1, <1>2, <1>3, <1>4, <1>5, <1>6, <1>7 DEF Start

\* A read, a failure and the end of a call: whatever the client keeps in hand
\* is what its next step needs.
LEMMA CallStep ==
  ASSUME TypeOK, CallsOK, NEW c \in Clients,
         Devices(c) \/ PortCalls(c) \/ AllocLoop(c) \/ Repairs(c) \/ GiveUp(c)
  PROVE  \E r : CallOK(r) /\ cl' = [cl EXCEPT ![c] = r]
  <1> DEFINE Goal == \E r : CallOK(r) /\ cl' = [cl EXCEPT ![c] = r]
             r0 == cl[c]
  <1>0. CallOK(r0)
    BY DEF CallsOK
  <1>1. CASE Return(c)
    BY <1>1, IdleOK DEF Return
  <1>2. ASSUME NEW r, Read(c, r), CallOK(r) PROVE Goal
    BY <1>2 DEF Read
  <1>3. CASE SavePortFind(c) \/ SavePortRead(c) \/ DelPortFind(c) \/ DelPortRead(c)
    <2>1. CASE SavePortFind(c)
      <3>1. CallOK([r0 EXCEPT !.at = "savePortRead"])
        BY <1>0, <2>1 DEF SavePortFind, CallOK, Calls, Steps, AllocSteps
      <3>2. QED
        BY <1>2, <2>1, <3>1 DEF SavePortFind
    <2>2. CASE SavePortRead(c)
      <3>1. CallOK([r0 EXCEPT !.at = "savePortTxn", !.map = book[r0.d]])
        BY <1>0, <2>2 DEF SavePortRead, CallOK, Calls, Steps, AllocSteps, TypeOK
      <3>2. QED
        BY <1>2, <2>2, <3>1 DEF SavePortRead
    <2>3. CASE DelPortFind(c)
      <3>1. CallOK([r0 EXCEPT !.at = "delPortRead", !.n = port[r0.d][r0.p]])
        BY <1>0, <2>3, ReadTypes DEF DelPortFind, CallOK, Calls, Steps, AllocSteps
      <3>2. QED
        BY <1>2, <2>3, <3>1 DEF DelPortFind
    <2>4. CASE DelPortRead(c)
      <3>1. CallOK([r0 EXCEPT !.at = "delPortTxn", !.map = book[r0.d]])
        BY <1>0, <2>4 DEF DelPortRead, CallOK, Calls, Steps, AllocSteps, TypeOK
      <3>2. QED
        BY <1>2, <2>4, <3>1 DEF DelPortRead
    <2>5. QED
      BY <1>3, <2>1, <2>2, <2>3, <2>4
  <1>4. CASE DelDevPorts(c)
    <2>1. CallOK([r0 EXCEPT !.at = "delDevRead", !.flag = PortIPs(r0.d) # {}])
      BY <1>0, <1>4 DEF DelDevPorts, CallOK, Calls, Steps, AllocSteps
    <2>2. QED
      BY <1>2, <1>4, <2>1 DEF DelDevPorts
  <1>5. CASE DelDevRead(c)
    <2>1. CallOK([r0 EXCEPT !.at = "delDevTxn", !.map = ids])
      BY <1>0, <1>5 DEF DelDevRead, CallOK, Calls, Steps, AllocSteps, TypeOK
    <2>2. QED
      BY <1>2, <1>5, <2>1 DEF DelDevRead
  <1>6. CASE SyncRouters(c)
    <2>1. CallOK([r0 EXCEPT !.at = "syncSwitches", !.seen = DevIDs(Routers)])
      BY <1>0, <1>6, ReadTypes DEF SyncRouters, CallOK, Calls, Steps, AllocSteps, Devs
    <2>2. QED
      BY <1>2, <1>6, <2>1 DEF SyncRouters
  <1>7. CASE SyncSwitches(c)
    <2>1. CallOK([r0 EXCEPT !.at = "syncTxn", !.seen = r0.seen \cup DevIDs(Switches)])
      BY <1>0, <1>7, ReadTypes DEF SyncSwitches, CallOK, Calls, Steps, AllocSteps, Devs
    <2>2. QED
      BY <1>2, <1>7, <2>1 DEF SyncSwitches
  <1>8. CASE RebuildRead(c)
    <2>1. CallOK([r0 EXCEPT !.at = "rebuildPorts", !.map = book[r0.d]])
      BY <1>0, <1>8 DEF RebuildRead, CallOK, Calls, Steps, AllocSteps, TypeOK
    <2>2. QED
      BY <1>2, <1>8, <2>1 DEF RebuildRead
  <1>9. CASE RebuildPorts(c)
    <2> DEFINE S == PortIPs(r0.d)
    <2>1. S \in SUBSET IPs
      BY <1>0, <1>9, ReadTypes DEF RebuildPorts, CallOK
    <2> HIDE DEF S
    <2>2. CallOK([r0 EXCEPT !.at = "rebuildTxn", !.seen = S])
      BY <1>0, <1>9, <2>1 DEF RebuildPorts, CallOK, Calls, Steps, AllocSteps
    <2>3. QED
      BY <1>2, <1>9, <2>2, IdleOK DEF RebuildPorts, S
  <1>10. CASE AllocLoop(c)
    <2>1. CASE AllocFindPort(c)
      <3>1. CallOK([r0 EXCEPT !.at = "allocFind"])
        BY <1>0, <2>1 DEF AllocFindPort, CallOK, Calls, Steps, AllocSteps
      <3>2. QED
        BY <1>2, <2>1, <3>1, IdleOK DEF AllocFindPort
    <2>2. CASE AllocFind(c)
      <3>1. CallOK([r0 EXCEPT !.at = "allocRead"])
        BY <1>0, <2>2 DEF AllocFind, CallOK, Calls, Steps, AllocSteps
      <3>2. QED
        BY <1>2, <2>2, <3>1, IdleOK DEF AllocFind
    <2>3. CASE AllocRead(c)
      <3>1. ASSUME NEW n \in Lowest(FreeIPs(book[r0.d]))
            PROVE  CallOK([r0 EXCEPT !.at = "allocReread", !.n = n, !.seen = Bits(book[r0.d])])
        <4> DEFINE S == Bits(book[r0.d])
        <4>1. n \in IPs /\ n \notin S
          BY FreeIP
        <4>2. S \in SUBSET IPs
          BY <1>0, <2>3, ReadTypes DEF AllocRead, CallOK, AllocSteps
        <4> HIDE DEF S
        <4>3. CallOK([r0 EXCEPT !.at = "allocReread", !.n = n, !.seen = S])
          BY <1>0, <2>3, <4>1, <4>2 DEF AllocRead, CallOK, Calls, Steps, AllocSteps
        <4>4. QED
          BY <4>3 DEF S
      <3>2. QED
        BY <1>2, <2>3, <3>1, IdleOK DEF AllocRead
    <2>4. CASE AllocReread(c)
      <3> DEFINE m == IF book[r0.d] = <<>> THEN <<>> ELSE <<r0.seen>>
      <3>1. m \in Maps(IPs)
        BY <1>0, <2>4, MapType DEF AllocReread, CallOK
      <3> HIDE DEF m
      <3>2. CallOK([r0 EXCEPT !.at = "allocTxn", !.prev = r0.n, !.map = m])
        BY <1>0, <2>4, <3>1 DEF AllocReread, CallOK, Calls, Steps, AllocSteps
      <3>3. QED
        BY <1>2, <2>4, <3>2, IdleOK DEF AllocReread, m
    <2>5. ASSUME NEW committed \in BOOLEAN, NEW answered \in BOOLEAN,
                 AllocTxn(c, committed, answered)
          PROVE  Goal
      <3>1. CallOK([r0 EXCEPT !.at = "allocFind", !.n = 0, !.map = <<>>, !.seen = {}])
        BY <1>0, <2>5 DEF AllocTxn, CallOK, Calls, Steps, AllocSteps, Maps
      <3>2. QED
        BY <2>5, <3>1, IdleOK DEF AllocTxn
    <2>6. QED
      BY <1>10, <2>1, <2>2, <2>3, <2>4, <2>5 DEF AllocLoop
  <1>11. SaveDevTxn(c) \/ DelDevTxn(c) \/ SavePortTxn(c) \/ DelPortTxn(c)
         \/ SyncTxn(c) \/ RebuildTxn(c) \/ GiveUp(c) => Return(c)
    BY DEF SaveDevTxn, DelDevTxn, SavePortTxn, DelPortTxn, SyncTxn, RebuildTxn, GiveUp
  <1>12. QED
    BY <1>1, <1>3, <1>4, <1>5, <1>6, <1>7, <1>8, <1>9, <1>10, <1>11
       DEF Devices, PortCalls, Repairs

----
(***************************************************************************)
(* Bitmaps and what they mark.                                             *)
(***************************************************************************)

\* A device takes an unmarked ID, and marks it.
LEMMA TakeID ==
  ASSUME TypeOK, DevicesExact, NEW d \in Devs, NEW n \in IDs, n \notin Bits(ids), dev[d] = 0,
         dev' = [dev EXCEPT ![d] = n], ids' = <<Bits(ids) \cup {n}>>
  PROVE  DevicesExact'
  <1>1. n \notin DevIDs(Devs) /\ n # 0
    BY DEF DevicesExact, IDs
  <1>2. /\ dev'[d] = n
        /\ \A e \in Devs : e # d => dev'[e] = dev[e]
        /\ \A e \in Devs : dev[e] # n
    BY <1>1 DEF TypeOK, DevIDs
  <1>3. DevIDs(Devs)' = DevIDs(Devs) \cup {n}
    BY <1>1, <1>2 DEF DevIDs
  <1>4. IDsDistinct'
    BY <1>2 DEF DevicesExact, IDsDistinct
  <1>5. Bits(ids)' = Bits(ids) \cup {n}
    BY BitsOfMap
  <1>6. QED
    BY <1>3, <1>4, <1>5 DEF DevicesExact

\* A device goes, and its ID is unmarked.
LEMMA DropID ==
  ASSUME TypeOK, DevicesExact, NEW d \in Devs, dev[d] # 0,
         dev' = [dev EXCEPT ![d] = 0], ids' = Without(ids, dev[d])
  PROVE  DevicesExact'
  <1>1. /\ dev'[d] = 0
        /\ \A e \in Devs : e # d => dev'[e] = dev[e] /\ dev[e] # dev[d]
    BY DEF TypeOK, DevicesExact, IDsDistinct
  <1>2. DevIDs(Devs)' = DevIDs(Devs) \ {dev[d]}
    BY <1>1 DEF DevIDs
  <1>3. IDsDistinct'
    BY <1>1 DEF DevicesExact, IDsDistinct
  <1>4. Bits(ids)' = Bits(ids) \ {dev[d]}
    BY WithoutBits DEF TypeOK
  <1>5. QED
    BY <1>2, <1>3, <1>4 DEF DevicesExact

\* A port takes an unmarked address, and marks it.
LEMMA TakeAddress ==
  ASSUME TypeOK, PortsExact, NEW d \in Devs, NEW p \in Ports, NEW n \in IPs,
         n \notin Bits(book[d]), port[d][p] = 0,
         port' = [port EXCEPT ![d][p] = n],
         book' = [book EXCEPT ![d] = <<Bits(book[d]) \cup {n}>>]
  PROVE  PortsExact'
  <1>1. n \notin PortIPs(d) /\ n # 0
    BY DEF PortsExact, IPs
  <1>2. /\ port'[d][p] = n
        /\ \A q \in Ports : q # p => port'[d][q] = port[d][q]
        /\ \A q \in Ports : port[d][q] # n
        /\ \A e \in Devs : e # d => port'[e] = port[e] /\ book'[e] = book[e]
        /\ book'[d] = <<Bits(book[d]) \cup {n}>>
    BY <1>1 DEF TypeOK, PortIPs
  <1>3. PortIPs(d)' = PortIPs(d) \cup {n}
    BY <1>1, <1>2 DEF PortIPs
  <1>4. Bits(book[d])' = Bits(book[d]) \cup {n}
    BY <1>2, BitsOfMap
  <1>5. ASSUME NEW e \in Devs PROVE Bits(book[e])' = PortIPs(e)'
    <2>1. CASE e = d
      BY <2>1, <1>3, <1>4 DEF PortsExact
    <2>2. CASE e # d
      BY <2>2, <1>2 DEF PortsExact, PortIPs, Bits
    <2>3. QED
      BY <2>1, <2>2
  <1>6. AddressesDistinct'
    BY <1>2 DEF PortsExact, AddressesDistinct
  <1>7. QED
    BY <1>5, <1>6 DEF PortsExact

\* A port goes, and its address is unmarked.
LEMMA DropAddress ==
  ASSUME TypeOK, PortsExact, NEW d \in Devs, NEW p \in Ports, port[d][p] # 0,
         port' = [port EXCEPT ![d][p] = 0],
         book' = [book EXCEPT ![d] = Without(book[d], port[d][p])]
  PROVE  PortsExact'
  <1>1. /\ port'[d][p] = 0
        /\ \A q \in Ports : q # p => port'[d][q] = port[d][q] /\ port[d][q] # port[d][p]
        /\ \A e \in Devs : e # d => port'[e] = port[e] /\ book'[e] = book[e]
        /\ book'[d] = Without(book[d], port[d][p])
    BY DEF TypeOK, PortsExact, AddressesDistinct
  <1>2. PortIPs(d)' = PortIPs(d) \ {port[d][p]}
    BY <1>1 DEF PortIPs
  <1>3. Bits(book[d])' = Bits(book[d]) \ {port[d][p]}
    BY <1>1, WithoutBits DEF TypeOK
  <1>4. ASSUME NEW e \in Devs PROVE Bits(book[e])' = PortIPs(e)'
    <2>1. CASE e = d
      BY <2>1, <1>2, <1>3 DEF PortsExact
    <2>2. CASE e # d
      BY <2>2, <1>1 DEF PortsExact, PortIPs, Bits
    <2>3. QED
      BY <2>1, <2>2
  <1>5. AddressesDistinct'
    BY <1>1 DEF PortsExact, AddressesDistinct
  <1>6. QED
    BY <1>4, <1>5 DEF PortsExact

\* All the ports of a device go, and its book with them.
LEMMA DropBook ==
  ASSUME TypeOK, PortsExact, NEW d \in Devs,
         port' = [port EXCEPT ![d] = [p \in Ports |-> 0]],
         book' = [book EXCEPT ![d] = <<>>]
  PROVE  PortsExact'
  <1>1. /\ \A q \in Ports : port'[d][q] = 0
        /\ \A e \in Devs : e # d => port'[e] = port[e] /\ book'[e] = book[e]
        /\ book'[d] = <<>>
    BY DEF TypeOK
  <1>2. PortIPs(d)' = {} /\ Bits(book[d])' = {}
    BY <1>1, BitsOfMissing DEF PortIPs
  <1>3. ASSUME NEW e \in Devs PROVE Bits(book[e])' = PortIPs(e)'
    BY <1>1, <1>2 DEF PortsExact, PortIPs, Bits
  <1>4. AddressesDistinct'
    BY <1>1 DEF PortsExact, AddressesDistinct
  <1>5. QED
    BY <1>3, <1>4 DEF PortsExact

----
(***************************************************************************)
(* The transactions.                                                       *)
(***************************************************************************)

\* The types of what the clients share.
DbType ==
  /\ dev \in [Devs -> 0..MaxID]
  /\ ids \in Maps(IDs)
  /\ port \in [Devs -> [Ports -> 0..MaxIP]]
  /\ book \in [Devs -> Maps(IPs)]
  /\ lostBy \subseteq {"staleDelete", "stalePort", "sync", "rebuild", "bookRead"}

\* One value written into a table, or into a table of tables.
LEMMA Write ==
  ASSUME NEW S, NEW T, NEW f \in [S -> T], NEW x \in S, NEW y \in T
  PROVE  [f EXCEPT ![x] = y] \in [S -> T]
  OBVIOUS

LEMMA Write2 ==
  ASSUME NEW S, NEW T, NEW V, NEW f \in [S -> [T -> V]], NEW x \in S, NEW t \in T, NEW y \in V
  PROVE  [f EXCEPT ![x][t] = y] \in [S -> [T -> V]]
  OBVIOUS

\* A step that leaves the devices and their IDs alone, or the ports and their
\* books.
LEMMA QuietHalves ==
  /\ UNCHANGED <<dev, ids>> /\ DevicesExact => DevicesExact'
  /\ UNCHANGED <<port, book>> /\ PortsExact => PortsExact'
  BY DEF DevicesExact, PortsExact, IDsDistinct, AddressesDistinct, DevIDs, PortIPs, Bits

\* A step that writes nothing.
LEMMA QuietDb ==
  ASSUME IInv, UNCHANGED <<db, lostBy>>
  PROVE  DbType' /\ Exact'
  <1>1. DbType'
    BY DEF IInv, TypeOK, DbType, db
  <1>2. Exact'
    BY QuietHalves DEF IInv, Exact, NothingLost, db
  <1>3. QED
    BY <1>1, <1>2

\* Save(device) marks the ID it takes.
LEMMA SaveDevDb ==
  ASSUME IInv, NEW c \in Clients, SaveDevTxn(c)
  PROVE  DbType' /\ Exact'
  <1> DEFINE r == cl[c]
  <1>1. CASE ~MaySaveDev(r)
    BY <1>1, QuietDb DEF SaveDevTxn, db
  <1>2. CASE MaySaveDev(r)
    <2>1. /\ r.d \in Devs /\ r.n \in IDs /\ r.n \notin Bits(ids) /\ dev[r.d] = 0
      BY <1>2 DEF IInv, CallsOK, CallOK, SaveDevTxn, MaySaveDev
    <2>2. /\ dev' = [dev EXCEPT ![r.d] = r.n] /\ ids' = <<Bits(ids) \cup {r.n}>>
          /\ UNCHANGED <<port, book, lostBy>>
      BY <1>2 DEF SaveDevTxn, MaySaveDev
    <2>3. Bits(ids) \cup {r.n} \in SUBSET IDs
      BY <2>1, ReadTypes DEF IInv
    <2>4. DbType'
      <3>1. r.n \in 0..MaxID
        BY <2>1, BoundsAssumption DEF IDs
      <3>2. dev' \in [Devs -> 0..MaxID]
        BY <2>1, <2>2, <3>1, Write DEF IInv, TypeOK
      <3>3. ids' \in Maps(IDs)
        BY <2>2, <2>3, MapType
      <3>4. QED
        BY <2>2, <3>2, <3>3 DEF IInv, TypeOK, DbType
    <2>5. Exact'
      BY <2>1, <2>2, TakeID, QuietHalves DEF IInv, Exact, NothingLost
    <2>6. QED
      BY <2>4, <2>5
  <1>3. QED
    BY <1>1, <1>2

\* Delete(device) unmarks the ID it read, which is the device's unless the
\* device was created anew in between.
LEMMA DelDevDb ==
  ASSUME IInv, NEW c \in Clients, DelDevTxn(c)
  PROVE  DbType' /\ Exact'
  <1> DEFINE r == cl[c]
  <1>1. CASE ~MayDelDev(r)
    BY <1>1, QuietDb DEF DelDevTxn
  <1>2. CASE MayDelDev(r)
    <2>1. /\ r.d \in Devs /\ dev[r.d] # 0 /\ r.map = ids
      BY <1>2 DEF IInv, CallsOK, CallOK, DelDevTxn, MayDelDev
    <2>2. /\ dev' = [dev EXCEPT ![r.d] = 0] /\ ids' = Without(ids, r.n)
          /\ Lost(dev[r.d] # r.n, "staleDelete")
      BY <1>2, <2>1 DEF DelDevTxn
    <2>3. \/ UNCHANGED <<port, book>>
          \/ /\ port' = [port EXCEPT ![r.d] = [p \in Ports |-> 0]]
             /\ book' = [book EXCEPT ![r.d] = <<>>]
      BY <1>2 DEF DelDevTxn
    <2>4. DbType'
      <3>1. Without(ids, r.n) \in Maps(IDs) /\ <<>> \in Maps(IPs)
        BY WithoutBits, MapType DEF IInv, TypeOK
      <3>2. dev' \in [Devs -> 0..MaxID] /\ ids' \in Maps(IDs)
        <4>1. 0 \in 0..MaxID
          BY BoundsAssumption
        <4>2. QED
          BY <2>1, <2>2, <3>1, <4>1, Write DEF IInv, TypeOK
      <3>3. port' \in [Devs -> [Ports -> 0..MaxIP]] /\ book' \in [Devs -> Maps(IPs)]
        <4>1. [p \in Ports |-> 0] \in [Ports -> 0..MaxIP]
          BY BoundsAssumption
        <4>2. /\ [port EXCEPT ![r.d] = [p \in Ports |-> 0]] \in [Devs -> [Ports -> 0..MaxIP]]
              /\ [book EXCEPT ![r.d] = <<>>] \in [Devs -> Maps(IPs)]
              /\ port \in [Devs -> [Ports -> 0..MaxIP]] /\ book \in [Devs -> Maps(IPs)]
          BY <2>1, <3>1, <4>1 DEF IInv, TypeOK
        <4>3. QED
          BY <2>3, <4>2
      <3>4. QED
        BY <2>2, <3>2, <3>3 DEF IInv, TypeOK, DbType, Lost
    <2>5. ASSUME NothingLost' PROVE NothingLost /\ dev[r.d] = r.n
      BY <2>2, <2>5 DEF NothingLost, Lost
    <2>6. ASSUME DevicesExact, PortsExact, dev[r.d] = r.n PROVE DevicesExact' /\ PortsExact'
      <3>1. DevicesExact'
        BY <2>1, <2>2, <2>6, DropID DEF IInv
      <3>2. PortsExact'
        BY <2>1, <2>3, <2>6, DropBook, QuietHalves DEF IInv
      <3>3. QED
        BY <3>1, <3>2
    <2>7. QED
      BY <2>4, <2>5, <2>6 DEF IInv, Exact
  <1>3. QED
    BY <1>1, <1>2

\* Save(port) marks the address it is given.
LEMMA SavePortDb ==
  ASSUME IInv, NEW c \in Clients, SavePortTxn(c)
  PROVE  DbType' /\ Exact'
  <1> DEFINE r == cl[c]
  <1>1. CASE ~MaySavePort(r)
    BY <1>1, QuietDb DEF SavePortTxn, db
  <1>2. CASE MaySavePort(r)
    <2>1. /\ r.d \in Devs /\ r.p \in Ports /\ r.n \in IPs /\ r.n \notin Bits(book[r.d])
          /\ port[r.d][r.p] = 0
      BY <1>2 DEF IInv, CallsOK, CallOK, SavePortTxn, MaySavePort
    <2>2. /\ port' = [port EXCEPT ![r.d][r.p] = r.n]
          /\ book' = [book EXCEPT ![r.d] = <<Bits(book[r.d]) \cup {r.n}>>]
          /\ UNCHANGED <<dev, ids, lostBy>>
      BY <1>2 DEF SavePortTxn, MaySavePort
    <2>3. Bits(book[r.d]) \cup {r.n} \in SUBSET IPs
      BY <2>1, ReadTypes DEF IInv
    <2>4. DbType'
      <3>1. r.n \in 0..MaxIP
        BY <2>1, BoundsAssumption DEF IPs
      <3>2. port' \in [Devs -> [Ports -> 0..MaxIP]]
        BY <2>1, <2>2, <3>1, Write2 DEF IInv, TypeOK
      <3>3. book' \in [Devs -> Maps(IPs)]
        BY <2>1, <2>2, <2>3, MapType, Write DEF IInv, TypeOK
      <3>4. QED
        BY <2>2, <3>2, <3>3 DEF IInv, TypeOK, DbType
    <2>5. Exact'
      BY <2>1, <2>2, TakeAddress, QuietHalves DEF IInv, Exact, NothingLost
    <2>6. QED
      BY <2>4, <2>5
  <1>3. QED
    BY <1>1, <1>2

\* SaveSwitchPort marks the address it chose, in the book it read first: the
\* book its comparison names, unless the two reads differed.
LEMMA AllocDb ==
  ASSUME IInv, NEW c \in Clients, NEW committed \in BOOLEAN, NEW answered \in BOOLEAN,
         AllocTxn(c, committed, answered)
  PROVE  DbType' /\ Exact'
  <1> DEFINE r == cl[c]
  <1>1. CASE ~committed
    BY <1>1, QuietDb DEF AllocTxn, db
  <1>2. CASE committed
    <2>1. /\ r.d \in Devs /\ r.p \in Ports /\ r.n \in IPs /\ r.n \notin r.seen
          /\ r.seen \subseteq IPs /\ port[r.d][r.p] = 0 /\ book[r.d] = r.map
      BY <1>2 DEF IInv, CallsOK, CallOK, AllocTxn, AllocSteps, MaySavePort
    <2>2. /\ port' = [port EXCEPT ![r.d][r.p] = r.n]
          /\ book' = [book EXCEPT ![r.d] = <<r.seen \cup {r.n}>>]
          /\ Lost(Bits(r.map) # r.seen, "bookRead")
          /\ UNCHANGED <<dev, ids>>
      BY <1>2 DEF AllocTxn
    <2>3. r.seen \cup {r.n} \in SUBSET IPs
      BY <2>1
    <2>4. DbType'
      <3>1. r.n \in 0..MaxIP
        BY <2>1, BoundsAssumption DEF IPs
      <3>2. port' \in [Devs -> [Ports -> 0..MaxIP]]
        BY <2>1, <2>2, <3>1, Write2 DEF IInv, TypeOK
      <3>3. book' \in [Devs -> Maps(IPs)]
        BY <2>1, <2>2, <2>3, MapType, Write DEF IInv, TypeOK
      <3>4. QED
        BY <2>2, <3>2, <3>3 DEF IInv, TypeOK, DbType, Lost
    <2>5. ASSUME NothingLost' PROVE NothingLost /\ Bits(book[r.d]) = r.seen
      BY <2>1, <2>2, <2>5 DEF NothingLost, Lost
    <2>6. QED
      BY <2>1, <2>2, <2>4, <2>5, TakeAddress, QuietHalves DEF IInv, Exact
  <1>3. QED
    BY <1>1, <1>2

\* Delete(port) unmarks the address it read, which is the port's unless the
\* port was created anew in between.
LEMMA DelPortDb ==
  ASSUME IInv, NEW c \in Clients, DelPortTxn(c)
  PROVE  DbType' /\ Exact'
  <1> DEFINE r == cl[c]
  <1>1. CASE ~MayDelPort(r)
    BY <1>1, QuietDb DEF DelPortTxn, db
  <1>2. CASE MayDelPort(r)
    <2>1. r.d \in Devs /\ r.p \in Ports /\ port[r.d][r.p] # 0 /\ book[r.d] = r.map
      BY <1>2 DEF IInv, CallsOK, CallOK, DelPortTxn, MayDelPort
    <2>2. /\ port' = [port EXCEPT ![r.d][r.p] = 0]
          /\ book' = [book EXCEPT ![r.d] = Without(book[r.d], r.n)]
          /\ Lost(port[r.d][r.p] # r.n, "stalePort")
          /\ UNCHANGED <<dev, ids>>
      BY <1>2, <2>1 DEF DelPortTxn
    <2>3. DbType'
      <3>1. 0 \in 0..MaxIP
        BY BoundsAssumption
      <3>2. port' \in [Devs -> [Ports -> 0..MaxIP]]
        BY <2>1, <2>2, <3>1, Write2 DEF IInv, TypeOK
      <3>3. Without(book[r.d], r.n) \in Maps(IPs)
        BY <2>1, WithoutBits DEF IInv, TypeOK
      <3>4. book' \in [Devs -> Maps(IPs)]
        BY <2>1, <2>2, <3>3, Write DEF IInv, TypeOK
      <3>5. QED
        BY <2>2, <3>2, <3>4 DEF IInv, TypeOK, DbType, Lost
    <2>4. ASSUME NothingLost' PROVE NothingLost /\ port[r.d][r.p] = r.n
      BY <2>2, <2>4 DEF NothingLost, Lost
    <2>5. QED
      BY <2>1, <2>2, <2>3, <2>4, DropAddress, QuietHalves DEF IInv, Exact
  <1>3. QED
    BY <1>1, <1>2

\* SyncDeviceID writes the IDs it has read, which are those in use unless a
\* device came or went in between.
LEMMA SyncDb ==
  ASSUME IInv, NEW c \in Clients, SyncTxn(c)
  PROVE  DbType' /\ Exact'
  <1> DEFINE r == cl[c]
  <1>1. CASE ids # r.map
    BY <1>1, QuietDb DEF SyncTxn, db
  <1>2. CASE ids = r.map
    <2>1. r.seen \in SUBSET IDs
      BY DEF IInv, CallsOK, CallOK, SyncTxn
    <2>2. /\ ids' = <<r.seen>> /\ Lost(r.seen # DevIDs(Devs), "sync")
          /\ UNCHANGED <<dev, port, book>>
      BY <1>2 DEF SyncTxn
    <2>3. ids' \in Maps(IDs)
      BY <2>1, <2>2, MapType
    <2>4. DbType'
      BY <2>2, <2>3 DEF IInv, TypeOK, DbType, Lost
    <2>5. ASSUME NothingLost' PROVE NothingLost /\ r.seen = DevIDs(Devs)
      BY <2>2, <2>5 DEF NothingLost, Lost
    <2>6. DevIDs(Devs)' = DevIDs(Devs) /\ Bits(ids)' = r.seen
      BY <2>2, BitsOfMap DEF DevIDs
    <2>7. DevicesExact /\ r.seen = DevIDs(Devs) => DevicesExact'
      BY <2>2, <2>6 DEF DevicesExact, IDsDistinct
    <2>8. QED
      BY <2>2, <2>4, <2>5, <2>7, QuietHalves DEF IInv, Exact
  <1>3. QED
    BY <1>1, <1>2

\* RebuildIPBooks writes the addresses it has read, which are those in use
\* unless a port came or went in between.
LEMMA RebuildDb ==
  ASSUME IInv, NEW c \in Clients, RebuildTxn(c)
  PROVE  DbType' /\ Exact'
  <1> DEFINE r == cl[c]
  <1>1. CASE book[r.d] # r.map
    BY <1>1, QuietDb DEF RebuildTxn, db
  <1>2. CASE book[r.d] = r.map
    <2>1. r.d \in Devs /\ r.seen \in SUBSET IPs
      BY DEF IInv, CallsOK, CallOK, RebuildTxn
    <2>2. /\ book' = [book EXCEPT ![r.d] = <<r.seen>>] /\ Lost(r.seen # PortIPs(r.d), "rebuild")
          /\ UNCHANGED <<dev, ids, port>>
      BY <1>2 DEF RebuildTxn
    <2>3. book' \in [Devs -> Maps(IPs)]
      BY <2>1, <2>2, MapType, Write DEF IInv, TypeOK
    <2>4. DbType'
      BY <2>2, <2>3 DEF IInv, TypeOK, DbType, Lost
    <2>5. ASSUME NothingLost' PROVE NothingLost /\ r.seen = PortIPs(r.d)
      BY <2>2, <2>5 DEF NothingLost, Lost
    <2>6. ASSUME PortsExact, r.seen = PortIPs(r.d) PROVE PortsExact'
      <3>1. \A e \in Devs : PortIPs(e)' = PortIPs(e)
        BY <2>2 DEF PortIPs
      <3>2. /\ book'[r.d] = <<r.seen>>
            /\ \A e \in Devs : e # r.d => book'[e] = book[e]
        BY <2>1, <2>2 DEF IInv, TypeOK
      <3>3. ASSUME NEW e \in Devs PROVE Bits(book[e])' = PortIPs(e)'
        BY <2>6, <3>1, <3>2, BitsOfMap DEF PortsExact, Bits
      <3>4. QED
        BY <2>2, <2>6, <3>3 DEF PortsExact, AddressesDistinct
    <2>7. QED
      BY <2>2, <2>4, <2>5, <2>6, QuietHalves DEF IInv, Exact
  <1>3. QED
    BY <1>1, <1>2

----
(***************************************************************************)
(* The theorems.                                                           *)
(***************************************************************************)

\* The steps that can write the database.
Writes(c) == \/ SaveDevTxn(c) \/ DelDevTxn(c) \/ SavePortTxn(c) \/ DelPortTxn(c)
             \/ SyncTxn(c) \/ RebuildTxn(c)
             \/ \E committed, answered \in BOOLEAN : AllocTxn(c, committed, answered)

\* Every other step only reads.
LEMMA OtherSteps ==
  ASSUME NEW c \in Clients,
         Devices(c) \/ PortCalls(c) \/ AllocLoop(c) \/ Repairs(c) \/ GiveUp(c)
  PROVE  Writes(c) \/ UNCHANGED <<db, lostBy>>
  <1>1. ASSUME NEW r, Read(c, r) PROVE UNCHANGED <<db, lostBy>>
    BY <1>1 DEF Read
  <1>2. CASE GiveUp(c)
    BY <1>2 DEF GiveUp
  <1>3. CASE Devices(c)
    BY <1>1, <1>3 DEF Devices, DelDevPorts, DelDevRead, Writes
  <1>4. CASE PortCalls(c)
    BY <1>1, <1>4 DEF PortCalls, SavePortFind, SavePortRead, DelPortFind, DelPortRead, Writes
  <1>5. CASE AllocLoop(c)
    BY <1>1, <1>5 DEF AllocLoop, AllocFindPort, AllocFind, AllocRead, AllocReread, Writes
  <1>6. CASE Repairs(c)
    BY <1>1, <1>6 DEF Repairs, SyncRouters, SyncSwitches, RebuildRead, RebuildPorts, Writes
  <1>7. QED
    BY <1>2, <1>3, <1>4, <1>5, <1>6

\* The initial states: the IDs that devices have are marked, and no port is there.
LEMMA InitIInv == Init => IInv
  <1> SUFFICES ASSUME Init PROVE IInv
    OBVIOUS
  <1>1. /\ dev \in [Devs -> 0..MaxID] /\ IDsDistinct
        /\ ids = (IF DevIDs(Devs) = {} THEN <<>> ELSE <<DevIDs(Devs)>>)
        /\ port = [d \in Devs |-> [p \in Ports |-> 0]]
        /\ book = [d \in Devs |-> <<>>]
        /\ cl = [c \in Clients |-> Idle] /\ lostBy = {}
    BY DEF Init, IDsDistinct
  <1>2. CallsOK /\ cl \in [Clients -> Calls]
    BY <1>1, IdleOK DEF CallsOK, CallOK
  <1>3. DevIDs(Devs) \in SUBSET IDs
    BY <1>1, BoundsAssumption DEF DevIDs, IDs
  <1>4. ids \in Maps(IDs) /\ Bits(ids) = DevIDs(Devs)
    BY <1>1, <1>3, MapType, BitsOfMap, BitsOfMissing
  <1>5. port \in [Devs -> [Ports -> 0..MaxIP]] /\ book \in [Devs -> Maps(IPs)]
    BY <1>1, BoundsAssumption DEF Maps
  <1>6. PortsExact
    BY <1>1, BitsOfMissing DEF PortsExact, PortIPs, AddressesDistinct
  <1>7. TypeOK
    BY <1>1, <1>2, <1>4, <1>5, BoundsAssumption DEF TypeOK
  <1>8. QED
    BY <1>1, <1>2, <1>4, <1>6, <1>7 DEF IInv, Exact, DevicesExact

\* Every step keeps the invariant.
LEMMA NextIInv == IInv /\ [Next]_vars => IInv'
  <1> SUFFICES ASSUME IInv, [Next]_vars PROVE IInv'
    OBVIOUS
  <1>1. CASE UNCHANGED vars
    <2>1. DbType' /\ Exact'
      BY <1>1, QuietDb DEF vars, db
    <2>2. UNCHANGED cl
      BY <1>1 DEF vars
    <2>3. CallsOK'
      BY <2>2 DEF IInv, CallsOK, CallOK
    <2>4. QED
      BY <2>1, <2>2, <2>3 DEF IInv, TypeOK, DbType
  <1>2. CASE Next
    <2>1. PICK c \in Clients : Start(c) \/ Devices(c) \/ PortCalls(c) \/ AllocLoop(c)
                               \/ Repairs(c) \/ GiveUp(c)
      BY <1>2 DEF Next
    <2>2. \E r : CallOK(r) /\ cl' = [cl EXCEPT ![c] = r]
      BY <2>1, StartStep, CallStep DEF IInv, Begin
    <2>3. CallsOK' /\ cl' \in [Clients -> Calls]
      BY <2>2, OneCall DEF IInv, TypeOK
    <2>4. DbType' /\ Exact'
      <3>1. CASE Start(c)
        BY <3>1, StartStep, QuietDb DEF IInv, Begin
      <3>2. CASE Writes(c)
        BY <3>2, SaveDevDb, DelDevDb, SavePortDb, DelPortDb, SyncDb, RebuildDb, AllocDb
           DEF Writes
      <3>3. QED
        BY <2>1, <3>1, <3>2, OtherSteps, QuietDb
    <2>5. QED
      BY <2>3, <2>4 DEF IInv, TypeOK, DbType
  <1>3. QED
    BY <1>1, <1>2

LEMMA Invariance == Spec => []IInv
  BY InitIInv, NextIInv, PTL DEF Spec

\* The records of the calls and the bitmaps always have the shape the code
\* relies on.
THEOREM TypeCorrect == Spec => []TypeOK
  BY Invariance, PTL DEF IInv

\* The ID bitmap marks exactly the IDs in use, as long as no transaction has
\* committed a bitmap that was computed from stale reads: the comparisons of
\* Save, Delete and SyncDeviceID are enough, whatever the clients interleave.
THEOREM DeviceIDs == Spec => []DeviceIDsExact
  <1>1. IInv => DeviceIDsExact
    BY DEF IInv, Exact, DevicesExact, DeviceIDsExact
  <1>2. QED
    BY Invariance, <1>1, PTL

\* The same for every IP book.
THEOREM Books == Spec => []BooksExact
  <1>1. IInv => BooksExact
    BY DEF IInv, Exact, PortsExact, BooksExact
  <1>2. QED
    BY Invariance, <1>1, PTL

----
(***************************************************************************)
(* The pools.  The controllers' reads-then-transaction protocol implements *)
(* the atomic pool of identifiers of IDPool, as long as no transaction     *)
(* commits a bitmap computed from stale reads.                             *)
(***************************************************************************)

----
(***************************************************************************)
(* Device IDs.                                                             *)
(***************************************************************************)

\* Who holds which device ID.
HeldIDs == [d \in Devs |-> Holding(dev[d])]

\* A device has no ID but the one under its key.
LEMMA HeldID ==
  ASSUME NEW d \in Devs
  PROVE  HeldIDs[d] = Holding(dev[d])
  BY DEF HeldIDs

\* The identifiers that are taken are the IDs of the devices.
LEMMA TakenIDs == UNION {HeldIDs[d] : d \in Devs} = DevIDs(Devs)
  BY DEF HeldIDs, Holding, DevIDs

\* The devices there are at the start hold one ID each, and not the same.
LEMMA PoolInit == Init => DevicePool!Init
  <1> SUFFICES ASSUME Init PROVE DevicePool!Init
    OBVIOUS
  <1>1. /\ \A d \in Devs : dev[d] \in 0..MaxID
        /\ \A d, e \in Devs : dev[d] = dev[e] => d = e \/ dev[d] = 0
    BY DEF Init
  <1>2. ASSUME NEW d \in Devs
        PROVE  Holding(dev[d]) \in {S \in SUBSET IDs : \A i, j \in S : i = j}
    BY <1>1, BoundsAssumption DEF Holding, IDs
  <1>3. HeldIDs \in [Devs -> {S \in SUBSET IDs : \A i, j \in S : i = j}]
    BY <1>2 DEF HeldIDs
  <1>4. ASSUME NEW d \in Devs, NEW e \in Devs, d # e
        PROVE  HeldIDs[d] \cap HeldIDs[e] = {}
    <2>1. HeldIDs[d] = Holding(dev[d]) /\ HeldIDs[e] = Holding(dev[e])
      BY HeldID
    <2>2. dev[d] = dev[e] => dev[d] = 0
      BY <1>1, <1>4
    <2>3. QED
      BY <2>1, <2>2 DEF Holding
  <1>5. DevicePool!Init <=> /\ HeldIDs \in [Devs -> {S \in SUBSET IDs : \A i, j \in S : i = j}]
                            /\ \A m, n \in Devs : m # n => HeldIDs[m] \cap HeldIDs[n] = {}
    BY DEF DevicePool!Init, HeldIDs
  <1>6. QED
    BY <1>3, <1>4, <1>5

\* A step that leaves the devices alone leaves the pool alone.
LEMMA PoolStutter == UNCHANGED dev => UNCHANGED HeldIDs
  BY DEF HeldIDs

\* The transaction of Save(device) takes one free ID, atomically.
LEMMA PoolAcquire ==
  ASSUME IInv, NothingLost, NEW c \in Clients, SaveDevTxn(c)
  PROVE  DevicePool!Next \/ UNCHANGED HeldIDs
  <1> DEFINE r == cl[c]
  <1>1. CASE ~MaySaveDev(r)
    BY <1>1, PoolStutter DEF SaveDevTxn
  <1>2. CASE MaySaveDev(r)
    <2>1. /\ r.d \in Devs /\ r.n \in IDs /\ r.n \notin Bits(ids) /\ dev[r.d] = 0
          /\ dev' = [dev EXCEPT ![r.d] = r.n]
      BY <1>2 DEF IInv, CallsOK, CallOK, SaveDevTxn, MaySaveDev
    <2>2. r.n \notin UNION {HeldIDs[d] : d \in Devs} /\ r.n # 0
      BY <2>1, TakenIDs DEF IInv, Exact, DevicesExact, IDs
    <2>3. HeldIDs[r.d] = {}
      BY <2>1, HeldID DEF Holding
    <2>4. dev'[r.d] = r.n /\ \A e \in Devs : e # r.d => dev'[e] = dev[e]
      BY <2>1 DEF IInv, TypeOK
    <2>5. HeldIDs' = [HeldIDs EXCEPT ![r.d] = {r.n}]
      BY <2>1, <2>2, <2>4 DEF HeldIDs, Holding
    <2>6. DevicePool!Acquire(r.d)
      BY <2>1, <2>2, <2>3, <2>5 DEF DevicePool!Acquire, DevicePool!Taken, HeldIDs
    <2>7. QED
      BY <2>1, <2>6 DEF DevicePool!Next
  <1>3. QED
    BY <1>1, <1>2

\* The transaction of Delete(device) gives one ID back.
LEMMA PoolRelease ==
  ASSUME IInv, NEW c \in Clients, DelDevTxn(c)
  PROVE  DevicePool!Next \/ UNCHANGED HeldIDs
  <1> DEFINE r == cl[c]
  <1>1. CASE ~MayDelDev(r)
    BY <1>1, PoolStutter DEF DelDevTxn, db
  <1>2. CASE MayDelDev(r)
    <2>1. r.d \in Devs /\ dev' = [dev EXCEPT ![r.d] = 0]
      BY <1>2 DEF IInv, CallsOK, CallOK, DelDevTxn
    <2>2. dev'[r.d] = 0 /\ \A e \in Devs : e # r.d => dev'[e] = dev[e]
      BY <2>1 DEF IInv, TypeOK
    <2>3. HeldIDs' = [d \in Devs |-> IF d \in {r.d} THEN {} ELSE HeldIDs[d]]
      BY <2>2 DEF HeldIDs, Holding
    <2>4. DevicePool!Release({r.d})
      BY <2>3 DEF DevicePool!Release, HeldIDs
    <2>5. QED
      BY <2>1, <2>4 DEF DevicePool!Next
  <1>3. QED
    BY <1>1, <1>2

\* The other transactions leave the devices alone.
LEMMA DevWriters ==
  ASSUME NEW c \in Clients, Writes(c)
  PROVE  SaveDevTxn(c) \/ DelDevTxn(c) \/ UNCHANGED dev
  BY DEF Writes, SavePortTxn, DelPortTxn, SyncTxn, RebuildTxn, AllocTxn

\* Every step is a step of the pool, or none.
LEMMA PoolNext ==
  IInv /\ NothingLost /\ [Next]_vars => DevicePool!Next \/ UNCHANGED HeldIDs
  <1> SUFFICES ASSUME IInv, NothingLost, [Next]_vars
               PROVE  DevicePool!Next \/ UNCHANGED HeldIDs
    OBVIOUS
  <1>1. CASE UNCHANGED vars
    BY <1>1, PoolStutter DEF vars, db
  <1>2. ASSUME NEW c \in Clients, Start(c) PROVE UNCHANGED HeldIDs
    BY <1>2, StartStep, PoolStutter DEF IInv, Begin, db
  <1>3. ASSUME NEW c \in Clients, Writes(c) PROVE DevicePool!Next \/ UNCHANGED HeldIDs
    BY <1>3, DevWriters, PoolAcquire, PoolRelease, PoolStutter
  <1>4. QED
    BY <1>1, <1>2, <1>3, OtherSteps, PoolStutter DEF Next, db

\* Save and Delete implement an atomic pool of device IDs: whatever the other
\* clients do between the reads and the transaction of a call, a device never
\* takes an ID that another device holds.
THEOREM DeviceIDPool == Spec /\ []NothingLost => ImplementsDevicePool
  <1>1. Init => DevicePool!Init
    BY PoolInit
  <1>2. IInv /\ NothingLost /\ [Next]_vars
          => [DevicePool!Next]_([d \in Devs |-> Holding(dev[d])])
    BY PoolNext DEF HeldIDs
  <1>3. QED
    BY <1>1, <1>2, Invariance, PTL DEF Spec, ImplementsDevicePool, DevicePool!Spec

----
(***************************************************************************)
(* Addresses.                                                              *)
(***************************************************************************)

\* Which port holds which address of its switch or router.
HeldAddresses == [x \in Devs \X Ports |-> {x[1]} \X Holding(port[x[1]][x[2]])]

\* A port holds its address and no other.
LEMMA HeldAddress ==
  ASSUME NEW d \in Devs, NEW p \in Ports
  PROVE  HeldAddresses[<<d, p>>] = {d} \X Holding(port[d][p])
  BY DEF HeldAddresses

\* No port has an address at the start.
LEMMA AddressInit == Init => AddressPool!Init
  <1> DEFINE Values == {S \in SUBSET (Devs \X IPs) : \A i, j \in S : i = j}
  <1> SUFFICES ASSUME Init PROVE AddressPool!Init
    OBVIOUS
  <1>1. ASSUME NEW x \in Devs \X Ports PROVE {x[1]} \X Holding(port[x[1]][x[2]]) = {}
    <2>1. port[x[1]][x[2]] = 0
      BY x[1] \in Devs /\ x[2] \in Ports DEF Init
    <2>2. QED
      BY <2>1 DEF Holding
  <1>2. \A x \in Devs \X Ports : HeldAddresses[x] = {}
    BY <1>1 DEF HeldAddresses
  <1>3. {} \in Values
    OBVIOUS
  <1>4. HeldAddresses \in [Devs \X Ports -> Values]
    BY <1>1, <1>3 DEF HeldAddresses
  <1>5. \A x, y \in Devs \X Ports : HeldAddresses[x] \cap HeldAddresses[y] = {}
    BY <1>2
  <1>6. QED
    BY <1>4, <1>5 DEF AddressPool!Init, HeldAddresses

\* A step that leaves the ports alone leaves the pool alone.
LEMMA AddressStutter == UNCHANGED port => UNCHANGED HeldAddresses
  BY DEF HeldAddresses

\* A port that takes an address that is not marked takes one nobody holds.
LEMMA AddressAcquire ==
  ASSUME TypeOK, PortsExact, NEW d \in Devs, NEW p \in Ports, NEW n \in IPs,
         n \notin Bits(book[d]), port[d][p] = 0, port' = [port EXCEPT ![d][p] = n]
  PROVE  AddressPool!Next
  <1>1. n \notin PortIPs(d) /\ n # 0
    BY DEF PortsExact, IPs
  <1>2. \A q \in Ports : port[d][q] # n
    BY <1>1 DEF PortIPs
  <1>3. ASSUME NEW x \in Devs \X Ports PROVE <<d, n>> \notin HeldAddresses[x]
    <2>1. x[1] \in Devs /\ x[2] \in Ports
      OBVIOUS
    <2>2. HeldAddresses[x] = {x[1]} \X Holding(port[x[1]][x[2]])
      BY DEF HeldAddresses
    <2>3. x[1] = d => n \notin Holding(port[x[1]][x[2]])
      BY <1>2, <2>1 DEF Holding
    <2>4. QED
      BY <2>2, <2>3
  <1>4. HeldAddresses[<<d, p>>] = {}
    BY HeldAddress DEF Holding
  <1>5. /\ port'[d][p] = n
        /\ \A e \in Devs, q \in Ports : <<e, q>> # <<d, p>> => port'[e][q] = port[e][q]
    BY DEF TypeOK
  <1>6. ASSUME NEW x \in Devs \X Ports
        PROVE  {x[1]} \X Holding(port'[x[1]][x[2]])
                 = IF x = <<d, p>> THEN {<<d, n>>} ELSE HeldAddresses[x]
    <2>1. x = <<x[1], x[2]>> /\ x[1] \in Devs /\ x[2] \in Ports
      OBVIOUS
    <2>2. CASE x = <<d, p>>
      <3>1. Holding(port'[x[1]][x[2]]) = {n}
        BY <1>1, <1>5, <2>2 DEF Holding
      <3>2. QED
        BY <2>2, <3>1
    <2>3. CASE x # <<d, p>>
      <3>1. port'[x[1]][x[2]] = port[x[1]][x[2]]
        BY <1>5, <2>1, <2>3
      <3>2. QED
        BY <2>3, <3>1 DEF HeldAddresses
    <2>4. QED
      BY <2>2, <2>3
  <1>7. HeldAddresses' = [HeldAddresses EXCEPT ![<<d, p>>] = {<<d, n>>}]
    BY <1>6 DEF HeldAddresses
  <1>8. <<d, n>> \in (Devs \X IPs) \ UNION {HeldAddresses[x] : x \in Devs \X Ports}
    BY <1>3
  <1>9. AddressPool!Acquire(<<d, p>>)
    BY <1>4, <1>7, <1>8 DEF AddressPool!Acquire, AddressPool!Taken, HeldAddresses
  <1>10. QED
    BY <1>9 DEF AddressPool!Next

\* Ports whose keys go give their addresses back.
LEMMA AddressRelease ==
  ASSUME NEW S \in SUBSET (Devs \X Ports),
         \A d \in Devs, p \in Ports :
           port'[d][p] = IF <<d, p>> \in S THEN 0 ELSE port[d][p]
  PROVE  AddressPool!Next
  <1>1. ASSUME NEW x \in Devs \X Ports
        PROVE  {x[1]} \X Holding(port'[x[1]][x[2]]) = IF x \in S THEN {} ELSE HeldAddresses[x]
    <2>1. x = <<x[1], x[2]>> /\ x[1] \in Devs /\ x[2] \in Ports
      OBVIOUS
    <2>2. port'[x[1]][x[2]] = IF x \in S THEN 0 ELSE port[x[1]][x[2]]
      BY <2>1
    <2>3. CASE x \in S
      BY <2>2, <2>3 DEF Holding
    <2>4. CASE x \notin S
      BY <2>2, <2>4 DEF HeldAddresses
    <2>5. QED
      BY <2>3, <2>4
  <1>2. HeldAddresses' = [x \in Devs \X Ports |-> IF x \in S THEN {} ELSE HeldAddresses[x]]
    BY <1>1 DEF HeldAddresses
  <1>3. AddressPool!Release(S)
    BY <1>2 DEF AddressPool!Release, HeldAddresses
  <1>4. QED
    BY <1>3 DEF AddressPool!Next

\* The transactions of Save(port), SaveSwitchPort and the two Deletes.
LEMMA AddressWriters ==
  ASSUME IInv, NothingLost, NothingLost', NEW c \in Clients, Writes(c)
  PROVE  AddressPool!Next \/ UNCHANGED HeldAddresses
  <1> DEFINE r == cl[c]
  <1>1. CASE SavePortTxn(c)
    <2>1. CASE ~MaySavePort(r)
      BY <1>1, <2>1, AddressStutter DEF SavePortTxn
    <2>2. CASE MaySavePort(r)
      <3>1. /\ r.d \in Devs /\ r.p \in Ports /\ r.n \in IPs /\ r.n \notin Bits(book[r.d])
            /\ port[r.d][r.p] = 0 /\ port' = [port EXCEPT ![r.d][r.p] = r.n]
        BY <1>1, <2>2 DEF IInv, CallsOK, CallOK, SavePortTxn, MaySavePort
      <3>2. QED
        BY <3>1, AddressAcquire DEF IInv, Exact
    <2>3. QED
      BY <2>1, <2>2
  <1>2. ASSUME NEW committed \in BOOLEAN, NEW answered \in BOOLEAN,
               AllocTxn(c, committed, answered)
        PROVE  AddressPool!Next \/ UNCHANGED HeldAddresses
    <2>1. CASE ~committed
      BY <1>2, <2>1, AddressStutter DEF AllocTxn
    <2>2. CASE committed
      <3>1. /\ r.d \in Devs /\ r.p \in Ports /\ r.n \in IPs /\ r.n \notin r.seen
            /\ book[r.d] = r.map /\ port[r.d][r.p] = 0
            /\ port' = [port EXCEPT ![r.d][r.p] = r.n]
        BY <1>2, <2>2 DEF IInv, CallsOK, CallOK, AllocTxn, AllocSteps, MaySavePort
      <3>2. Bits(r.map) = r.seen
        BY <1>2, <2>2 DEF AllocTxn, Lost, NothingLost
      <3>3. QED
        BY <3>1, <3>2, AddressAcquire DEF IInv, Exact
    <2>3. QED
      BY <2>1, <2>2
  <1>3. CASE DelPortTxn(c)
    <2>1. CASE ~MayDelPort(r)
      BY <1>3, <2>1, AddressStutter DEF DelPortTxn
    <2>2. CASE MayDelPort(r)
      <3>1. r.d \in Devs /\ r.p \in Ports /\ port' = [port EXCEPT ![r.d][r.p] = 0]
        BY <1>3, <2>2 DEF IInv, CallsOK, CallOK, DelPortTxn
      <3>2. \A d \in Devs, p \in Ports :
              port'[d][p] = IF <<d, p>> \in {<<r.d, r.p>>} THEN 0 ELSE port[d][p]
        BY <3>1 DEF IInv, TypeOK
      <3>3. {<<r.d, r.p>>} \in SUBSET (Devs \X Ports)
        BY <3>1
      <3>4. QED
        BY <3>2, <3>3, AddressRelease
    <2>3. QED
      BY <2>1, <2>2
  <1>4. CASE DelDevTxn(c)
    <2>1. CASE UNCHANGED port
      BY <2>1, AddressStutter
    <2>2. CASE ~UNCHANGED port
      <3>1. r.d \in Devs /\ port' = [port EXCEPT ![r.d] = [p \in Ports |-> 0]]
        BY <1>4, <2>2 DEF IInv, CallsOK, CallOK, DelDevTxn, db
      <3>2. \A d \in Devs, p \in Ports :
              port'[d][p] = IF <<d, p>> \in {r.d} \X Ports THEN 0 ELSE port[d][p]
        BY <3>1 DEF IInv, TypeOK
      <3>3. {r.d} \X Ports \in SUBSET (Devs \X Ports)
        BY <3>1
      <3>4. QED
        BY <3>2, <3>3, AddressRelease
    <2>3. QED
      BY <2>1, <2>2
  <1>5. CASE SaveDevTxn(c) \/ SyncTxn(c) \/ RebuildTxn(c)
    BY <1>5, AddressStutter DEF SaveDevTxn, SyncTxn, RebuildTxn
  <1>6. QED
    BY <1>1, <1>2, <1>3, <1>4, <1>5 DEF Writes

\* Every step is a step of the pool, or none.
LEMMA AddressNext ==
  IInv /\ NothingLost /\ NothingLost' /\ [Next]_vars
    => AddressPool!Next \/ UNCHANGED HeldAddresses
  <1> SUFFICES ASSUME IInv, NothingLost, NothingLost', [Next]_vars
               PROVE  AddressPool!Next \/ UNCHANGED HeldAddresses
    OBVIOUS
  <1>1. CASE UNCHANGED vars
    BY <1>1, AddressStutter DEF vars
  <1>2. ASSUME NEW c \in Clients, Start(c) PROVE UNCHANGED HeldAddresses
    BY <1>2, StartStep, AddressStutter DEF IInv, Begin, db
  <1>3. QED
    BY <1>1, <1>2, OtherSteps, AddressWriters, AddressStutter DEF Next, db

\* The same for addresses: static ports and allocated ones, created and
\* deleted by any number of clients, take addresses from one atomic pool.
THEOREM PortAddressPool == Spec /\ []NothingLost => ImplementsAddressPool
  <1>1. Init => AddressPool!Init
    BY AddressInit
  <1>2. IInv /\ NothingLost /\ NothingLost' /\ [Next]_vars
          => [AddressPool!Next]_([x \in Devs \X Ports |->
                                    {x[1]} \X Holding(port[x[1]][x[2]])])
    BY AddressNext DEF HeldAddresses
  <1>3. QED
    BY <1>1, <1>2, Invariance, PTL DEF Spec, ImplementsAddressPool, AddressPool!Spec
====

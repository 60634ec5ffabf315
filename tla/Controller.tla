---- MODULE Controller ----
(***************************************************************************)
(* The configuration writers: tpctl, the REST service, the CNI plugin and  *)
(* the docker plugin all use controllers/etcd3/controller.go, and nothing  *)
(* but etcd transactions keeps them apart.  A call reads several keys, one *)
(* request at a time, computes a new bitmap, and commits with one          *)
(* compare-and-write transaction.  Every read below is a step of its own.  *)
(*                                                                         *)
(* A bitmap key is <<>> when it is missing and <<S>> when it holds S.      *)
(***************************************************************************)
EXTENDS Integers

CONSTANTS Clients,    \* processes that write the configuration
          Switches, Routers,
          Ports,      \* names of logical ports
          None,       \* no device, no port
          MaxID,      \* device IDs are 1..MaxID (65535 in the code)
          FirstIP,    \* the first address allocSwitchPortIP hands out
          MaxIP       \* the last address of the subnet, never handed out

VARIABLES
  dev,      \* dev[d]: the ID stored under the device's key, 0 if it is missing
  ids,      \* the device ID bitmap
  port,     \* port[d][p]: the address stored under the port's key, 0 if missing
  book,     \* book[d]: the IP book of switch or router d
  cl,       \* cl[c]: where client c is in its call, and what it has read
  lostBy    \* transactions that committed a bitmap computed from stale reads

db == <<dev, ids, port, book>>
vars == <<dev, ids, port, book, cl, lostBy>>

Devs == Switches \cup Routers
IDs == 1..MaxID
IPs == 1..MaxIP

ASSUME BoundsAssumption ==
  /\ MaxID \in Nat /\ FirstIP \in Nat \ {0} /\ MaxIP \in Nat
  /\ Switches \cap Routers = {}

Maps(Values) == {<<>>} \cup {<<S>> : S \in SUBSET Values}

\* The bits of a bitmap: a missing key decodes to the empty bitmap.
Bits(m) == IF m = <<>> THEN {} ELSE m[1]

\* What Delete leaves of a bitmap: the key goes when its last bit goes.
Without(m, i) == LET S == Bits(m) \ {i} IN IF S = {} THEN <<>> ELSE <<S>>

\* What NextID and NextIDFrom may return; they return the least.
FreeIDsFromZero(m) == (0..MaxID) \ Bits(m)    \* a mutant: the loop starts at 0
FreeIDs(m) == IDs \ Bits(m)
FreeIPs(m) == (FirstIP..(MaxIP - 1)) \ Bits(m)
Lowest(S) == {i \in S : \A j \in S : i <= j}

DevIDs(D) == {dev[d] : d \in D} \ {0}
PortIPs(d) == {port[d][p] : p \in Ports} \ {0}

(***************************************************************************)
(* A call in progress: at is its next step, d and p its device and port, n *)
(* the identifier or address it read or chose, prev the address of the     *)
(* allocation round before, map the bitmap its transaction compares with,  *)
(* seen the identifiers or addresses it read, flag the recursive argument. *)
(***************************************************************************)
Idle == [at |-> "idle", d |-> None, p |-> None, n |-> 0, prev |-> 0,
         map |-> <<>>, seen |-> {}, flag |-> FALSE]

AllocSteps == {"allocFindPort", "allocFind", "allocRead", "allocReread", "allocTxn"}
Steps == AllocSteps \cup
  {"idle", "saveDevTxn", "savePortFind", "savePortRead", "savePortTxn",
   "delDevPorts", "delDevRead", "delDevTxn", "delPortFind", "delPortRead", "delPortTxn",
   "syncRouters", "syncSwitches", "syncTxn", "rebuildRead", "rebuildPorts", "rebuildTxn"}

Calls == [at : Steps, d : Devs \cup {None}, p : Ports \cup {None},
          n : IDs \cup IPs \cup {0}, prev : IPs \cup {0},
          map : Maps(IDs) \cup Maps(IPs), seen : (SUBSET IDs) \cup (SUBSET IPs),
          flag : BOOLEAN]

\* The first step of a call.
Begin(c, r) == /\ cl[c] = Idle
               /\ cl' = [cl EXCEPT ![c] = r]
               /\ UNCHANGED <<db, lostBy>>

\* A step that reads, and remembers what it read.
Read(c, r) == cl' = [cl EXCEPT ![c] = r] /\ UNCHANGED <<db, lostBy>>

\* The step that ends a call.
Return(c) == cl' = [cl EXCEPT ![c] = Idle]

Lost(tag, how) == lostBy' = IF tag THEN lostBy \cup {how} ELSE lostBy

\* An error return: a request fails, a key is missing or there already, or
\* the process is killed before its transaction.
GiveUp(c) == /\ cl[c] # Idle
             /\ Return(c)
             /\ UNCHANGED <<db, lostBy>>

(***************************************************************************)
(* The comparisons of the transactions.  (The KeyOnly forms are mutants:   *)
(* they leave out the bitmap.)                                             *)
(***************************************************************************)
MaySaveDevKeyOnly(r) == dev[r.d] = 0
MaySaveDev(r) == dev[r.d] = 0 /\ ids = r.map

MaySavePortKeyOnly(r) == port[r.d][r.p] = 0
MaySavePort(r) == port[r.d][r.p] = 0 /\ book[r.d] = r.map

MayDelDevKeyOnly(r) == dev[r.d] # 0 /\ (r.flag => book[r.d] # <<>>)
MayDelDev(r) == /\ dev[r.d] # 0 /\ (r.flag => book[r.d] # <<>>)
                /\ ids = r.map /\ ids # <<>>   \* a missing key equals no value

MayDelPortKeyOnly(r) == port[r.d][r.p] # 0
MayDelPort(r) == port[r.d][r.p] # 0 /\ book[r.d] = r.map /\ r.map # <<>>

(***************************************************************************)
(* Save(device): read the ID bitmap, take the lowest free ID, create the   *)
(* device's key if the bitmap is still the one read.                       *)
(***************************************************************************)
SaveDev(c, d) ==
  \E n \in Lowest(FreeIDs(ids)) :
    Begin(c, [Idle EXCEPT !.at = "saveDevTxn", !.d = d, !.n = n, !.map = ids])

SaveDevTxn(c) ==
  LET r == cl[c] IN
  /\ r.at = "saveDevTxn"
  /\ Return(c)
  /\ IF MaySaveDev(r)
       THEN /\ dev' = [dev EXCEPT ![r.d] = r.n]
            /\ ids' = <<Bits(r.map) \cup {r.n}>>
       ELSE UNCHANGED <<dev, ids>>
  /\ UNCHANGED <<port, book, lostBy>>

(***************************************************************************)
(* addSwitchPort and addRouterPort, an address i given: GetSwitch,         *)
(* GetSwitchPort, then Save(port), which reads the IP book and refuses an  *)
(* address that is in it.                                                  *)
(***************************************************************************)
SavePort(c, d, p, i) ==
  /\ dev[d] # 0
  /\ Begin(c, [Idle EXCEPT !.at = "savePortFind", !.d = d, !.p = p, !.n = i])

SavePortFind(c) ==
  LET r == cl[c] IN
  /\ r.at = "savePortFind"
  /\ port[r.d][r.p] = 0
  /\ Read(c, [r EXCEPT !.at = "savePortRead"])

SavePortRead(c) ==
  LET r == cl[c] IN
  /\ r.at = "savePortRead"
  /\ r.n \notin Bits(book[r.d])
  /\ Read(c, [r EXCEPT !.at = "savePortTxn", !.map = book[r.d]])

SavePortTxn(c) ==
  LET r == cl[c] IN
  /\ r.at = "savePortTxn"
  /\ Return(c)
  /\ IF MaySavePort(r)
       THEN /\ port' = [port EXCEPT ![r.d][r.p] = r.n]
            /\ book' = [book EXCEPT ![r.d] = <<Bits(r.map) \cup {r.n}>>]
       ELSE UNCHANGED <<port, book>>
  /\ UNCHANGED <<dev, ids, lostBy>>

(***************************************************************************)
(* SaveSwitchPort, the CNI plugin's loop: find the switch, read the book   *)
(* and choose the lowest free address, read the book again to choose the   *)
(* comparison, try the transaction; on any failure start over, unless the  *)
(* address comes out the same twice.                                       *)
(***************************************************************************)
Alloc(c, s, p) ==
  /\ dev[s] # 0
  /\ Begin(c, [Idle EXCEPT !.at = "allocFindPort", !.d = s, !.p = p])

AllocFindPort(c) ==
  LET r == cl[c] IN
  /\ r.at = "allocFindPort"
  /\ Read(c, IF port[r.d][r.p] = 0 THEN [r EXCEPT !.at = "allocFind"] ELSE Idle)

AllocFind(c) ==
  LET r == cl[c] IN
  /\ r.at = "allocFind"
  /\ Read(c, IF dev[r.d] # 0 THEN [r EXCEPT !.at = "allocRead"] ELSE Idle)

AllocRead(c) ==
  LET r == cl[c]
      free == FreeIPs(book[r.d])
  IN
  /\ r.at = "allocRead"
  /\ \/ free = {} /\ Read(c, Idle)
     \/ \E n \in Lowest(free) :
          Read(c, [r EXCEPT !.at = "allocReread", !.n = n, !.seen = Bits(book[r.d])])

\* (A mutant: the loop without its check.)
AllocRereadForever(c) ==
  LET r == cl[c] IN
  /\ r.at = "allocReread"
  /\ Read(c, [r EXCEPT !.at = "allocTxn", !.prev = r.n,
                       !.map = IF book[r.d] = <<>> THEN <<>> ELSE <<r.seen>>])

\* The comparison is chosen by the second read, the value by the first one.
AllocReread(c) ==
  LET r == cl[c] IN
  /\ r.at = "allocReread"
  /\ Read(c, IF r.prev = r.n THEN Idle
             ELSE [r EXCEPT !.at = "allocTxn", !.prev = r.n,
                            !.map = IF book[r.d] = <<>> THEN <<>> ELSE <<r.seen>>])

\* committed and answered may differ: the answer can be lost on its way back.
AllocTxn(c, committed, answered) ==
  LET r == cl[c] IN
  /\ r.at = "allocTxn"
  /\ committed => MaySavePort(r)
  /\ cl' = [cl EXCEPT ![c] = IF committed /\ answered THEN Idle ELSE
                             [r EXCEPT !.at = "allocFind", !.n = 0, !.map = <<>>, !.seen = {}]]
  /\ IF committed
       THEN /\ port' = [port EXCEPT ![r.d][r.p] = r.n]
            /\ book' = [book EXCEPT ![r.d] = <<r.seen \cup {r.n}>>]
            /\ Lost(Bits(r.map) # r.seen, "bookRead")
       ELSE UNCHANGED <<port, book, lostBy>>
  /\ UNCHANGED <<dev, ids>>

(***************************************************************************)
(* delSwitch and delRouter: read the device, look for ports, read the ID   *)
(* bitmap, delete.  The transaction compares the bitmap with the one read  *)
(* last, and asks of the device only that its key still exists.            *)
(***************************************************************************)
DelDev(c, d, recursive) ==
  /\ dev[d] # 0
  /\ Begin(c, [Idle EXCEPT !.at = "delDevPorts", !.d = d, !.n = dev[d], !.flag = recursive])

DelDevPorts(c) ==
  LET r == cl[c] IN
  /\ r.at = "delDevPorts"
  /\ PortIPs(r.d) # {} => r.flag
  /\ Read(c, [r EXCEPT !.at = "delDevRead", !.flag = PortIPs(r.d) # {}])

DelDevRead(c) ==
  LET r == cl[c] IN
  /\ r.at = "delDevRead"
  /\ Read(c, [r EXCEPT !.at = "delDevTxn", !.map = ids])

DelDevTxn(c) ==
  LET r == cl[c] IN
  /\ r.at = "delDevTxn"
  /\ Return(c)
  /\ IF MayDelDev(r)
       THEN /\ dev' = [dev EXCEPT ![r.d] = 0]
            /\ ids' = Without(r.map, r.n)
            /\ IF r.flag
                 THEN /\ port' = [port EXCEPT ![r.d] = [p \in Ports |-> 0]]
                      /\ book' = [book EXCEPT ![r.d] = <<>>]
                 ELSE UNCHANGED <<port, book>>
            /\ Lost(dev[r.d] # r.n, "staleDelete")
       ELSE UNCHANGED <<db, lostBy>>

(***************************************************************************)
(* delSwitchPort, delRouterPort and the CNI plugin's cmdDel.               *)
(***************************************************************************)
DelPort(c, d, p) ==
  /\ dev[d] # 0
  /\ Begin(c, [Idle EXCEPT !.at = "delPortFind", !.d = d, !.p = p])

DelPortFind(c) ==
  LET r == cl[c] IN
  /\ r.at = "delPortFind"
  /\ port[r.d][r.p] # 0
  /\ Read(c, [r EXCEPT !.at = "delPortRead", !.n = port[r.d][r.p]])

DelPortRead(c) ==
  LET r == cl[c] IN
  /\ r.at = "delPortRead"
  /\ Read(c, [r EXCEPT !.at = "delPortTxn", !.map = book[r.d]])

DelPortTxn(c) ==
  LET r == cl[c] IN
  /\ r.at = "delPortTxn"
  /\ Return(c)
  /\ IF MayDelPort(r)
       THEN /\ port' = [port EXCEPT ![r.d][r.p] = 0]
            /\ book' = [book EXCEPT ![r.d] = Without(r.map, r.n)]
            /\ Lost(port[r.d][r.p] # r.n, "stalePort")
       ELSE UNCHANGED <<port, book, lostBy>>
  /\ UNCHANGED <<dev, ids>>

(***************************************************************************)
(* SyncDeviceID: on every connection (not forced), and by tpctl's sync     *)
(* command (forced).                                                       *)
(***************************************************************************)
Sync(c, force) ==
  /\ ids = <<>> \/ force
  /\ Begin(c, [Idle EXCEPT !.at = "syncRouters", !.map = ids])

SyncRouters(c) ==
  LET r == cl[c] IN
  /\ r.at = "syncRouters"
  /\ Read(c, [r EXCEPT !.at = "syncSwitches", !.seen = DevIDs(Routers)])

SyncSwitches(c) ==
  LET r == cl[c] IN
  /\ r.at = "syncSwitches"
  /\ Read(c, [r EXCEPT !.at = "syncTxn", !.seen = r.seen \cup DevIDs(Switches)])

SyncTxn(c) ==
  LET r == cl[c] IN
  /\ r.at = "syncTxn"
  /\ Return(c)
  /\ IF ids = r.map
       THEN ids' = <<r.seen>> /\ Lost(r.seen # DevIDs(Devs), "sync")
       ELSE UNCHANGED <<ids, lostBy>>
  /\ UNCHANGED <<dev, port, book>>

(***************************************************************************)
(* RebuildIPBooks, one device of its loop per call: the passes share       *)
(* nothing but the list of devices read before them.                       *)
(***************************************************************************)
Rebuild(c, d) ==
  /\ dev[d] # 0
  /\ Begin(c, [Idle EXCEPT !.at = "rebuildRead", !.d = d])

RebuildRead(c) ==
  LET r == cl[c] IN
  /\ r.at = "rebuildRead"
  /\ Read(c, [r EXCEPT !.at = "rebuildPorts", !.map = book[r.d]])

RebuildPorts(c) ==
  LET r == cl[c] IN
  /\ r.at = "rebuildPorts"
  /\ \A p, q \in Ports : port[r.d][p] = port[r.d][q] => p = q \/ port[r.d][p] = 0
  /\ Read(c, IF r.map = <<PortIPs(r.d)>> THEN Idle
             ELSE [r EXCEPT !.at = "rebuildTxn", !.seen = PortIPs(r.d)])

RebuildTxn(c) ==
  LET r == cl[c] IN
  /\ r.at = "rebuildTxn"
  /\ Return(c)
  /\ IF book[r.d] = r.map
       THEN /\ book' = [book EXCEPT ![r.d] = <<r.seen>>]
            /\ Lost(r.seen # PortIPs(r.d), "rebuild")
       ELSE UNCHANGED <<book, lostBy>>
  /\ UNCHANGED <<dev, ids, port>>

----
\* Any devices, each with an ID of its own, and no ports yet.
Init ==
  /\ dev \in [Devs -> 0..MaxID]
  /\ \A d, e \in Devs : dev[d] = dev[e] => d = e \/ dev[d] = 0
  /\ ids = IF DevIDs(Devs) = {} THEN <<>> ELSE <<DevIDs(Devs)>>
  /\ port = [d \in Devs |-> [p \in Ports |-> 0]]
  /\ book = [d \in Devs |-> <<>>]
  /\ cl = [c \in Clients |-> Idle]
  /\ lostBy = {}

Start(c) == \/ \E d \in Devs : SaveDev(c, d) \/ Rebuild(c, d)
            \/ \E d \in Devs, recursive \in BOOLEAN : DelDev(c, d, recursive)
            \/ \E d \in Devs, p \in Ports, i \in IPs : SavePort(c, d, p, i)
            \/ \E d \in Devs, p \in Ports : DelPort(c, d, p)
            \/ \E s \in Switches, p \in Ports : Alloc(c, s, p)
            \/ \E force \in BOOLEAN : Sync(c, force)

Devices(c) == SaveDevTxn(c) \/ DelDevPorts(c) \/ DelDevRead(c) \/ DelDevTxn(c)
PortCalls(c) == SavePortFind(c) \/ SavePortRead(c) \/ SavePortTxn(c)
                \/ DelPortFind(c) \/ DelPortRead(c) \/ DelPortTxn(c)
AllocLoop(c) == \/ AllocFindPort(c) \/ AllocFind(c) \/ AllocRead(c) \/ AllocReread(c)
                \/ \E committed, answered \in BOOLEAN : AllocTxn(c, committed, answered)
Repairs(c) == SyncRouters(c) \/ SyncSwitches(c) \/ SyncTxn(c)
              \/ RebuildRead(c) \/ RebuildPorts(c) \/ RebuildTxn(c)

Next == \E c \in Clients :
          Start(c) \/ Devices(c) \/ PortCalls(c) \/ AllocLoop(c) \/ Repairs(c) \/ GiveUp(c)

Spec == Init /\ [][Next]_vars
FairSpec == Spec /\ \A c \in Clients : WF_vars(AllocLoop(c))

----
(***************************************************************************)
(* Properties.                                                             *)
(***************************************************************************)

\* The state has the shape the calls rely on.
TypeOK ==
  /\ dev \in [Devs -> 0..MaxID]
  /\ ids \in Maps(IDs)
  /\ port \in [Devs -> [Ports -> 0..MaxIP]]
  /\ book \in [Devs -> Maps(IPs)]
  /\ cl \in [Clients -> Calls]
  /\ lostBy \subseteq {"staleDelete", "stalePort", "sync", "rebuild", "bookRead"}

\* No transaction has committed a bitmap computed from stale reads.
NothingLost == lostBy = {}

\* Every ID in use is marked in the bitmap and every marked ID is in use: a
\* device ID is neither handed out twice nor leaked by a create, a delete or
\* a sync that lost its race (the comparisons of Save, Delete, SyncDeviceID).
DeviceIDsExact == NothingLost => Bits(ids) = DevIDs(Devs)

\* The same for the IP book of every switch and router.
BooksExact == NothingLost => \A d \in Devs : Bits(book[d]) = PortIPs(d)

\* The reads-then-transaction protocol implements an atomic pool of device
\* IDs: a device takes an ID no other device holds, whatever the other
\* clients do between the reads and the transaction of Save.
Holding(v) == IF v = 0 THEN {} ELSE {v}
DevicePool == INSTANCE IDPool WITH Names <- Devs, Ids <- IDs,
                                   held <- [d \in Devs |-> Holding(dev[d])]
ImplementsDevicePool == DevicePool!Spec

\* The same for the addresses of every switch and router, which static ports
\* (Save) and allocated ones (SaveSwitchPort) take from the same book.
AddressPool == INSTANCE IDPool WITH
                 Names <- Devs \X Ports, Ids <- Devs \X IPs,
                 held <- [x \in Devs \X Ports |-> {x[1]} \X Holding(port[x[1]][x[2]])]
ImplementsAddressPool == AddressPool!Spec

\* SaveSwitchPort's retry loop ends once the IP book of its switch stays as it
\* is, however often etcd fails or its answer is lost: the check against the
\* address of the round before stops it.  (That check looks back one round
\* only.  A client that takes the lowest address and frees it again in turn
\* keeps the loop of another one going.)
AllocReturns ==
  \A c \in Clients, s \in Switches :
    <>[][FALSE]_(book[s]) =>
      (cl[c].at \in AllocSteps /\ cl[c].d = s ~> cl[c].at \notin AllocSteps)

\* What SyncDeviceID's comment says: a sync that commits leaves the bitmap
\* equal to the IDs of the routers and switches in the database.
SyncMatchesDevices ==
  [][\A c \in Clients :
       SyncTxn(c) /\ ids' # ids => Bits(ids') = DevIDs(Devs)]_vars
====

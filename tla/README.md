# A TLA+ model of TupleNet

TupleNet is an overlay network for virtual machines and containers. There is no
central server. Writers put the wanted network (logical switches, routers, ports)
into etcd. On every hypervisor an agent replicates that database, derives
OpenFlow rules from it with a datalog program, and commits them to Open vSwitch.
This directory holds TLA+ models of the parts in which steps of several actors
meet, the TLC configurations that check them, and proofs of their invariants.

Paths below are relative to the repository's root.

## The system

### Inventory

| Component | State it keeps | Operations | Interacts with |
|---|---|---|---|
| **Link master** `src/tuplenet/lcp/link_master.py` | `last_ver`, `read_remote_func`, `watch_canceled`, `WATCH_STATUS`, the add and delete pools | entire read, incremental read, watch callback, disable and re-add of watches, reconnect | etcd (requests, watch stream); called by the main thread, called back by the etcd client's watcher thread |
| **Replica application** `src/tuplenet/lcp/tuplesync.py`, `tuplerun.py` | `accept_diff`, `prev_zoo_ver`, `had_clean_ovs_flows` | one poll: read, apply, upload, recompute | link master, zoo |
| **Entity zoo** `src/tuplenet/lcp/logicalview.py` | live entities, the sink, the uniqueness index, `zoo_ver`, every entity's state, `touched` and clause | add, move to sink, touch, sweep | all three agent threads |
| **Flow synchronisation** `tuplesync.update_ovs_side`, `commit_ovs.py` | rules derived and not yet committed; the rules of `br-int` | derive and sweep under the zoo's lock; replace-flows; batch and one-by-one commits | zoo, Open vSwitch |
| **On-demand touch, ARP** `state_update.py` | `arp_dict`, the binding file | unknown destination, ARP update, packet feedback | `pkt_controller` (socket), zoo, flow synchronisation |
| **OVSDB monitor** `ovsdbman.py` | the monitor's partial line | port added, changed, removed | `ovsdb-client` (pipe), zoo |
| **Tunnels, ECMP/BFD, patch ports** `tunnel.py`, `ecmp.py`, `patchport.py` | ports in Open vSwitch | create, remove, configure BFD | the tail of `update_ovs_side` |
| **Flow tables** `lflow.py`, `lsp_*.py`, `lrp_*.py`, `nat.py`, ... | none: datalog | the derivation | zoo's clauses |
| **Configuration controller** `src/control/controllers` | none of its own: everything is in etcd | `Save`, `Delete`, `SaveSwitchPort`, `SyncDeviceID`, `RebuildIPBooks` | etcd transactions |
| **Its callers** `tpctl`, `api`/`tpmpa`, `tpcni`, `tpcnm` | veth pairs and OVS ports (the plugins) | check by reading, then one of the above | any number of concurrent processes |
| **pkt_controller** `src/tuplenet/pkt_controller` | a rate-limit hash map | packet-in to message | Open vSwitch's switch thread, agent |
| **edge-operate** `src/tuplenet/tools/edge-operate.py` | none | a sequence of `tpctl` commands | controller |

Inspection tools (`pkt-trace`, `dump-tuplenet`, `generate-graphviz`,
`ovs-decode-note`, `rebuild-etcd`) have no state.

### Which behaviours are hard

* The watch callback runs in the etcd client's thread and shares six variables
  with the main thread; only some of their uses are under `watch_lock`.
* Changes are merged into pools between polls, so order within a poll is lost.
* A replica must survive stream errors, compaction, failed reads and
  reconnects without losing or resurrecting a key.
* Rules are derived *from differences*: an entity's state (new, old, deleted)
  decides whether a rule is added or removed **once**. A difference that is
  derived and lost, derived twice, or committed in the wrong order is never
  derived again.
* Three threads change the zoo, two of them derive and commit rules; the zoo's
  lock covers the derivation and not the commit.
* Writers coordinate by compare-and-write transactions over bitmaps that were
  read several requests earlier; some reads are not covered by the comparison.

### What makes each component correct

* Link master: the zoo, the read in hand and the pools together are always the
  store at the revision the watch would resume from (`ReplicaAgrees`); values
  never go back (`NoStaleOverwrite`); a quiet etcd is eventually replicated
  (`Converges`).
* Flow synchronisation: rules in the bridge, jobs under way and differences not
  yet derived add up to what the live entities call for (`FlowsOwed`), and the
  bridge gets there (`FlowsConverge`).
* Entity zoo: no two entities share a unique value (`UniqueInZoo`), no two
  routes of one rank a number (`IlkDistinct`), the tunnel to a pinned router's
  chassis is always counted in (`GatewayTouched`); what is refused is refused
  for cause (`RefusedForCause`), everything else arrives (`Converges`).
* Tables, tunnels and views together: a packet reaches its addressee or is
  lost, and it ends (`ImplementsNetwork`); it is handed to an edge for help at
  most once (`RedirectedAtMostOnce`); it never gets to a port that routers do
  not connect with its sender (`KeepsTenantsApart`); rules contradict each
  other only where a switch or a router is configured to clash with itself
  (`RulesAgree`) and never go round for ever (`VisitsEnd`); while
  nothing changes nothing is lost (`CalmDelivery`).
* edge-operate: adding and removing edges never sends traffic into a hole
  (`NoBlackHole`), a plan fits the tree (`NeverRefused`), two runs never build
  one road together (`RoadsOfOneRun`), a removal leaves nothing (`NothingLeft`).
* Controller: the device-ID bitmap and every IP book mark exactly what is in
  use (`DeviceIDsExact`, `BooksExact`); allocation is atomic to an observer
  (`ImplementsDevicePool`, `ImplementsAddressPool`); the allocation loop ends
  once the others leave the book alone (`AllocReturns`).

## The modules

```
IDPool  <--refines--  Controller  <- MCController         (3 configurations)
                      Controller  <- Controller_proofs
IDPool                <- IDPool_proofs
LinkMaster            <- MCLinkMaster                     (4 configurations)
LinkMaster            <- LinkMaster_proofs
FlowSync              <- MCFlowSync                       (2 configurations)
FlowSync              <- FlowSync_proofs
EntityZoo             <- MCEntityZoo
EntityZoo             <- EntityZoo_proofs
LogicalView  <-  Datapath  <- MCDatapath
Datapath              <- Datapath_proofs
LogicalNetwork  <--refines--  Datapath
EdgeOperate           <- MCEdgeOperate
EdgeOperate           <- EdgeOperate_proofs  <- EdgeViews_proofs
```

### LinkMaster

`hist` is etcd: the store after each revision; a key's value is the revision
that wrote it, which is all the properties need to tell values apart. `live`
says whether there is a stream of the entities, `pos` and `done` how far it has
been delivered; a revision that changes several keys is several events, as in
etcd.

| Model | Code |
|---|---|
| `mode` | `read_remote_func` |
| `lastVer`, `canceled` | `last_ver`, `watch_canceled` |
| `status`, `commStatus` | `WATCH_STATUS` of the entity watch and of the communicate watch |
| `addPool`, `delPool`, `poolsNone` | `entity_add_pool`, `entity_del_pool`, both `None` |
| `pc`, `rd` | where the main thread is inside `read_remote_kvdata`, and what it read |
| `zoo`, `acceptDiff` | etcd-fed entities, `accept_diff` |
| `WatchPut/WatchDelete/WatchCompacted/WatchRpcError` | the branches of `watch_callback`, one event each, atomic under `watch_lock` |
| `ReadEntire*`, `ReadIncremental` | the read of a poll, with its failures |
| `KeepWatch/Rewatch/RewatchFails/MarkWatch` | `_run_entity_watch`; `MarkWatch` is the assignment after the lock was released |
| the same with `Communicate` | `_run_communicate_watch`, which shares `watch_canceled` and the disable |
| `Apply` | the rest of `read_remote_kvdata` and `update_entity_from_remote` |
| `Reconnect` | `reconn_master`: `ReconnectDisables` is the loop of `_disable_all_watches`, without the lock, `ReconnectCancels` its last assignment and the new client |

Of the watch on the communicate prefix there is what it does to the entity
watch's state; its own events (which also move `last_ver`, see the hazards) are
not modelled, nor are events of a client object that a reconnect has replaced.

### FlowSync

One rule stands for the flow tables: a logical port joined with the chassis it
is on and the tunnel port to that chassis (`remote_lsp` over `remote_chassis`).
Its match is the port's value (its address), its action the tunnel port's. That
keeps what matters for all rules: the rule's state is the *sum* of the states
of what it joins, so additions, deletions and their mixtures are told apart
exactly as in `convert_tuple2flow`. Three threads: `main` (changes from etcd,
`need_recompute`, `update_ovs_side`), `ovsdb` (tunnel port appears, changes,
goes), `pkt` (touch the logical port, touch its chassis, `update_ovs_side`).
`Compute` is the region under the zoo's lock; everything from
`convert_tuple2flow` on happens without it. `AddEntity` and `Populate` are two
steps because `add_entity` populates after it has released the lock.

### EntityZoo

The zoo as one data structure, with every kind of entity that etcd feeds it.
What matters of an entity is a record: its name (`uuid`), its unique values in
the order in which `uniq_check_keys` lists them (`keys`), the routes of equal
rank it is numbered among (`group`), the chassis it is pinned on (`pin`) and
whether it is a remote chassis that needs a touch (`lazy`). A new version of an
entity is another value with the same name.

| Model | Code |
|---|---|
| `zoo`, `sink`, `idx`, `ilk` | `entity_set`, `entity_sink_set`, `entity_idxmap`, `ILKEntity._ilk_group` |
| `del`, `add` | the two pools `update_entity` works off, deletions first |
| `read_remote_kvdata`, `move_all_entity2sink` | an incremental and an entire read of `update_entity_from_remote` |
| `add_entity` | the whole method: `is_same`, the constructor with its number, the old entity to the sink, the index key by key, the gateway touches |
| `sweep_zoo` | the sweep after a derivation, which frees the numbers |
| `change_tree` | the controller, kept to the trees it lets come into being (`Legal`) |

`refused` records what the zoo did not take. A refusal is final: nothing tries
the entity again, and a key that went into the index before the conflict was
found stays there. So the properties speak of the time before the first
refusal, or say what may cause it. Two facts the model shows on the way: a
route of a full rank cannot be replaced, because the old one keeps its number
until the sweep; and after a compaction all routes are numbered anew beside the
old ones in the sink, so that a rank more than half full may lose some for good. That is what
`RefusedForCause` says of numbers: a refused route finds all of its rank's
numbers held, but those in the sink count, whose routes etcd may have deleted
long ago. Of unique values it says more: none that etcd has given up is in the way.

### LogicalView and Datapath

`LogicalView` is what each chassis knows: `db` is etcd (the chassis of every
port, the registered chassis), `view[c]` what the agent of `c` applied last,
`touched[c]` what counts there under ONDEMAND. Its operators are the joins of
`init_entity_clause` by their names (`lr_array`, `remote_lsp`, `local_lsp`,
`next_hop_ovsport`, ...). Machines move, links of the underlay break, a chassis
is deleted; agents publish the ports plugged into their bridge (`Publish`, from
`revise_lsp_chassis`) and catch up one by one (`Sync`).

`Datapath` is the path of a packet. Each table that `lflow.py` assembles is an
operator of the chassis and the packet, whose value is the set of rules that
match with their priorities and the packet as their actions leave it.
`Translate` is one visit of a packet to a chassis, from the port or tunnel it
came in by to its outputs. `Transmit` is the underlay, `Controller` the packets
sent up (`upload_arp`, `upload_unknow_dst`, `generate_arp`) and what the agent
or the controller answers, `Collect` the end of a packet. Two rules of equal
priority with different outcomes make a packet "ambiguous" (what is remembered
of it is the switch or router whose table it was in), 256 tables
of one chassis "looping" (a pass through a switch and a router takes about
thirty; `Tables1` to `Tables256` are nested, so that the path of a packet needs
no recursion).

`LogicalNetwork` is the promise: a message reaches one of its recipients or is
lost, nobody else gets it, nobody gets it twice, and it ends. `Datapath`
implements it with the packet's origin and fate as the mapping, twice.
`ImplementsNetwork` takes as recipients the addressee, what stands for it behind
NAT, or the world, and asks that every message ends. `KeepsTenantsApart` takes as
recipients every port that routers connect with the sender's switch
(`Connected`), and asks nothing of liveness; that one is proved.

The joins are given for settled clauses: how a *change* of an entity becomes a
change of rules is FlowSync's subject. The tunnel to a chassis comes and goes
with the chassis. Facts the model rests on:

* a port that was unplugged is never withdrawn from etcd; of two hosts with the
  same interface each overwrites the other's record;
* the comment at lsp_egress.py:72 says that a packet's ttl is decreased before
  it is sent on from a chassis that no longer has its destination, and no
  action does that. Two chassis with stale views hand the packet back and
  forth until one of them catches up; `ImplementsNetwork` needs the fairness of
  `SyncView` for this;
* an ARP request that an edge sends after NAT carries the NAT's MAC with the
  router port's address.

### EdgeOperate

`db` is the tree as `tpctl` sees it: switches, routers, their ports and static
routes, each with the run that created it. `op[c]` is the run of the tool on
host `c`, the list of commands still to be carried out. A run computes the
whole list from one snapshot (`init_ecmp_road`, `add_ecmp_road`,
`remove_ecmp_road`, with the queries of the tool's datalog program by their
names; the check that no port has the address of the outside gateway is left
out, so a run may start here that the tool refuses); then each command is a step against the tree as it is by then, refused
or accepted with `tpctl`'s checks. `Stop` is the operator's "no", or a kill at
any later moment. `view[c]` is what the agent on `c` makes of the tree when it
last caught up: which edges it spreads outgoing traffic over, and which roads
it serves itself.

The tool sleeps five seconds where it wants the agents to have caught up. The
model takes the sleep to do what it is for: it ends once every agent has caught
up with the tree as of its beginning. Facts about the tool that bound its
properties:

* the decision to wait and the names to delete come from the snapshot. Beside
  another run a removal can delete the last road without waiting, or another
  road that got the name meanwhile; `NoBlackHole` and `RoadsOfOneRun` therefore
  exclude a removal that overlaps another run (`overlap`), and the runs that
  only add may overlap;
* what a killed run leaves is found by no later run; after a killed `init`
  there are two routers and `init` refuses to start. The left-over port keeps
  its virtual address;
* a removal begins with the central router's port, which cuts the way *back*
  at once; only outgoing traffic is what the waits protect, and `NoBlackHole`
  is about that.

### IDPool and Controller

`IDPool` is the promise: names acquire identifiers nobody holds and release
them. `Controller` is the Go code: every etcd request of a call is one step, a
call in progress is a record with what it has read so far, and the transaction
at its end compares and writes in one step. A bitmap is `<<>>` if its key is
missing and `<<S>>` otherwise, because "missing" and "empty" are different in
the comparisons (`KeyMissing`, `Value =`), and a missing key never equals a
value. Clients stand for processes of `tpctl`, the REST service and the CNI
plugin, which all make the same calls in the same order. `GiveUp` is any error
return before the transaction, and the death of the process.
`AllocTxn(c, committed, answered)` has the three outcomes of a transaction that
may time out: committed and answered, committed and not answered, not committed.

`RebuildIPBooks` is one device of its loop per call: the passes share only the
list of devices, read before them.

## Loss windows

Some interleavings make the code lose a change; each is a fact about the code,
named at its line in the list of hazards. The models *have* these
interleavings. The step in which one strikes adds a tag to the bookkeeping
variable `lostBy`, the properties speak of behaviours without a tag, and the
runs do not explore past one (`CONSTRAINT NothingLost`). So what a passing run
says is: outside the windows listed here there is no further way to go wrong.

| Tag | Where | Window |
|---|---|---|
| `merge` | link_master.py:311 | an update and a delete of a live key within one poll |
| `compact` | link_master.py:240 | compaction handled while a read is in progress |
| `mark` | link_master.py:353 | watches disabled while `_add_watch` records one |
| `pool` | link_master.py:343 | events pooled after the drain, thrown away by a re-added watch |
| `split` | link_master.py:298 | a watch disabled between two events of one revision |
| `live` | link_master.py:273 | an entire read while the old watch is alive and behind |
| `rev0` | link_master.py:363 | an entire read of an empty tree, then a watch from "now" |
| `populate` | logicalview.py:694 | a sweep between insertion and populate |
| `reorder` | tuplesync.py:277 | jobs about the same match committed in the other order |
| `boot` | tuplesync.py:275 | a commit while replace-flows is under way |
| `ovs` | commit_ovs.py:388 | ovs-ofctl fails |
| `staleDelete`, `stalePort` | controller.go:751, 757 | deleted and created again between the first read and the transaction |
| `sync`, `rebuild` | controller.go:466, 386 | a bitmap that came back to the value read |
| `bookRead` | controller.go:563 | a book deleted between the two reads of `SaveSwitchPort` |

Every tag's condition is stated on what was read and what is there, never on
the property it would break.

## The runs

| Run | Instance | Distinct states | Shows |
|---|---|---|---|
| `link_master` | 2 keys, 3 revisions, 1 fault | 818,020 | `TypeOK`, `ReplicaAgrees`, `NoStaleOverwrite`, `Converges` |
| `flow_sync` | 2 ports, 2 addresses, 2 tunnel-port values, ONDEMAND, 4 changes, 2 touches | 427,222 | `TypeOK`, `FlowsOwed`, `FlowsConverge` |
| `controller_devices` | 2 clients, 1 switch, 1 router, 3 IDs | 148,012 | `TypeOK`, `DeviceIDsExact`, `ImplementsDevicePool` |
| `controller_ports` | 2 clients, 1 switch, 2 port names, 4 addresses (2 allocatable) | 713,319 | `BooksExact`, `ImplementsAddressPool`, `AllocReturns` |
| `entity_zoo` | 10 values: 3 ports (one with 2 addresses, two with one MAC), 3 routes for 2 numbers, a chassis with 2 ticks, a router pinned on it; 4 changes, 1 resync | 232,034 | `TypeOK`, `UniqueInZoo`, `IlkDistinct`, `GatewayTouched`, `RefusedForCause`, `Converges` |
| `datapath` | 4 chassis (2 on-demand, 2 edges), 7 switches, 3 routers, 6 machines, three of them another tenant's, NAT both ways; 8 kinds of traffic; 1 change | 141,145 | `TypeOK`, `RulesAgree`, `VisitsEnd`, `RedirectedAtMostOnce`, `CalmDelivery`, `ImplementsNetwork`, `KeepsTenantsApart` |
| `edge_operate` | 2 hosts, 2 virtual addresses, 3 inner addresses, 3 runs, 1 kill | 169,672 | `TypeOK`, `NoBlackHole`, `NeverRefused`, `RoadsOfOneRun`, `NothingLeft` |
| `link_master_merge` | 1 key, 4 revisions | | violates `MergeIsEmpty` |
| `link_master_compaction` | 1 key, 4 revisions | | violates `WholeDataAfterCompaction` |
| `link_master_mark` | 1 key, 4 revisions, 1 fault | | violates `WatchRecovers` |
| `flow_sync_populate` | 1 port, no ONDEMAND | | violates `NewEntitiesGenerateFlows` |
| `controller_sync` | 2 clients, 2 IDs | | violates `SyncMatchesDevices` |

### Why the bounds are enough

* LinkMaster: two keys are needed for a revision of two events; three revisions
  for create, update, delete of one key. The agent starts without a watch, so
  that one fault is already one while recovering; compactions are not counted.
  With two faults the run was done once too (2,234,413 states), and the proofs
  hold for any number. With one key, four revisions and one fault suffice for each of the
  claims that fail.
* FlowSync: two ports and two addresses allow swapping and reuse of an address;
  two tunnel-port values an update of the action; four changes build a rule
  (port, chassis, tunnel port) and change one of its parts; two touches let the
  packet thread work before and after a change.
* Controller: two clients, because a transaction races with one other at a
  time. The number of calls has no bound: devices, ports and bitmaps are finite.
* EntityZoo: two ports that can exchange addresses need three values; the
  shared MAC makes a refusal by the *second* key; three routes for two numbers
  (64 in the code) fill a rank, and one sink of a full rank empties it. Four
  changes create, replace and delete beside another; one resync at any point.
* Datapath: the network of `test_simple_redirect.sh`. Its packets take
  the switch, router, NAT, ECMP, redirection and ARP tables. 12-bit addresses with 8-bit port IDs keep networks,
  hosts and port IDs apart as 32 and 16 bits do. The
  switch Z of another tenant has a machine with the address and the MAC of `b`:
  whoever mixes up the two datapaths delivers to the wrong one. One change at a time, with all
  the orders in which four agents learn of it; the network comes to rest in
  between only by the end of a run. One packet travels at a time: packets share
  nothing but what they teach the agents, and a taught agent stays in the state
  for the next packet. An upcall must be worked off before the next packet is
  sent (`MaxPending` 0).
* EdgeOperate: three runs of the tool build a road, add a second and remove one
  of them, or race two additions; two hosts, since each host has one agent and
  one run. Four runs without a kill were checked once too (640,000 states) and
  show nothing new.

TLC stops in states in which all changes have been spent and everything is
done, so `CHECK_DEADLOCK` is off: the environment of the real system may fall
silent too. In Controller, whose clients can always begin a call, it is on.

### Fairness

* LinkMaster: weak fairness of the main thread (`run_main` polls every
  interval, whatever raised in the last poll) and of the delivery of events.
  None for faults, etcd's changes or compaction.
* FlowSync: weak fairness of each thread with what it has begun, and of main's
  polling. None for changes, touches or failures.
* EntityZoo: weak fairness of the main thread's reads, deletions and additions.
  None for sweeps, which another thread may do, or for changes.
* Datapath: a bridge ends its visit and a link its transmission (`Fairness`
  states this as "the packet is ever again not in that state", which is the
  weak fairness of the two steps, since each is enabled throughout its state
  and nothing else ends it); every agent catches up with etcd. None for moves,
  breaks, upcalls or the controller.
* EdgeOperate has none: its properties are invariants.
* Controller: weak fairness of a client inside the allocation loop only; it is
  a loop in a running process. The transaction may fail or lose its answer as
  often as it likes. `AllocReturns` speaks of behaviours in which the book is
  left alone from some time on. Without that the loop may go on for ever, and
  the model shows it: the check of `SaveSwitchPort` (controller.go:569) looks
  back one round only, and a client that takes the lowest address and frees it
  in turn makes two addresses alternate.

## Where the code and its comments disagree

* **Merge** (`MergeIsEmpty`). `tuplesync.py:210` relies on "add-->delete is a
  empty operation". For an entity created and deleted between two polls it is.
  For a live entity that is updated and deleted between two polls the delete is
  dropped too, and the agent keeps the entity until a restart.
* **Compaction** (`WholeDataAfterCompaction`). The handler switches to an
  entire read "in next period"; a poll that has already read switches back.
* **Mark** (`WatchRecovers`). The mark that makes `_add_watch` replace a dead
  watch can be overwritten by an `_add_watch` that is just finishing. The entity
  watch then counts as enabled without a stream, and no later poll adds it
  again. The communicate watch, marked by the same disable, is added again and
  unsets `watch_canceled`; the agent gets its commands, and no entity any more.
* **Populate** (`NewEntitiesGenerateFlows`). The whole derivation is under the
  lock so that no new entity is swept before it generated flows, yet
  `add_entity` publishes an entity before it has clauses. The sweep's `mark`
  raises on it and the entities swept before it have lost their flows.
* **Sync** (`SyncMatchesDevices`). A connection that finds no bitmap reads the
  devices and writes one if there is still none; a device created and deleted
  in between makes it write an ID nobody has.

## What is proved

Each theorem holds for every value of the constants, from the assumptions
of its module and nothing else. `BoundsAssumption`: the bounds are natural
numbers (in LinkMaster at least one revision), addresses start at 1 or above,
switches and routers are different devices. In EntityZoo also
`MaxIlkAssumption` (there is at least one number) and `ValuesAssumption` (an
entity's unique values are a finite sequence, a router is not the chassis it is
pinned on); nothing is assumed of the trees the controller lets come into
being. In FlowSync `NamesAssumption` (a logical port is not named like the
chassis or the interface) and `OptionAssumption` (ONDEMAND is on or off). In
EdgeOperate `HostsAssumption` (the inner network has a host, `--inner` is one of
them, and virtual addresses are not of that network) and `ChassisAssumption` (no
chassis is named like the mark of a router without one). LogicalView and
Datapath have the assumptions of the section after the table.

| Theorem | Statement |
|---|---|
| `LinkMaster_proofs!TypeCorrect` | `Spec => []TypeOK` |
| `LinkMaster_proofs!ReplicaAgreement` | `Spec => []ReplicaAgrees` |
| `LinkMaster_proofs!NeverStale` | `Spec => NoStaleOverwrite` |
| `FlowSync_proofs!TypeCorrect` | `Spec => []TypeOK` |
| `FlowSync_proofs!FlowsOwedAlways` | `Spec => []FlowsOwed` |
| `Controller_proofs!TypeCorrect` | `Spec => []TypeOK` |
| `Controller_proofs!DeviceIDs` | `Spec => []DeviceIDsExact` |
| `Controller_proofs!Books` | `Spec => []BooksExact` |
| `Controller_proofs!DeviceIDPool` | `Spec /\ []NothingLost => ImplementsDevicePool` |
| `Controller_proofs!PortAddressPool` | `Spec /\ []NothingLost => ImplementsAddressPool` |
| `EntityZoo_proofs!TypeCorrect` | `Spec => []TypeOK` |
| `EntityZoo_proofs!ZooUnique` | `Spec => []UniqueInZoo` |
| `EntityZoo_proofs!NumbersDistinct` | `Spec => []IlkDistinct` |
| `EntityZoo_proofs!RefusalsCaused` | `Spec => RefusedForCause` |
| `EntityZoo_proofs!GatewaysTouched` | `Spec => []GatewayTouched` |
| `EdgeOperate_proofs!TypeCorrect` | `Spec => []TypeOK` |
| `EdgeOperate_proofs!OneRunPerRoad` | `Spec => []RoadsOfOneRun` |
| `EdgeOperate_proofs!AloneAccepted` | `Spec => []NeverRefused` |
| `EdgeOperate_proofs!RoadsOnly` | `Spec => []NothingLeft` |
| `EdgeViews_proofs!NeverBlackHole` | `Spec => []NoBlackHole` |
| `Datapath_proofs!TypeCorrect` | `Spec => []TypeOK` |
| `Datapath_proofs!RedirectedOnce` | `Spec => []RedirectedAtMostOnce` |
| `Datapath_proofs!TenantsApart` | `Spec => KeepsTenantsApart` |
| `Datapath_proofs!RulesNeverContradict` | `Spec => []RulesAgree` |
| `IDPool_proofs!NeverTwice` | the abstract pool: `Spec => []Exclusive` |

### What is assumed of a network

The theorems of Datapath hold for every network, of any size and shape, that
fits these assumptions.

* `ChassisAssumption`: gateways, on-demand and redirecting hosts are chassis, a
  router is pinned to a gateway, machines start on hosts that are none.
* `BoundsAssumption`: `MaxChanges` is a number. `AddressAssumption`: addresses
  have `AddrWidth` bits.
* `NamesAssumption`: a port is not named like a chassis; ports and links are on
  switches and routers that exist, patch ports on chassis; packets come in
  through ports; `None`, which stands for a register that is 0, names nothing.
* `WeightAssumption`: of any chassis the hash of a connection favours one.

`RulesNeverContradict` also needs the ones below; `TypeCorrect`, `RedirectedOnce`
and `TenantsApart` do not.

* `PortsAssumption`: ports of one switch, router ports included, differ in
  address and MAC, and so do ports of one router in address. The zoo's keys see
  to this (`ls_view_ip`, `ls_view_mac`, `lr_view_ip`: `EntityZoo!UniqueInZoo`). A
  switch has one patch port: all of them have the address 255.255.255.255, so
  the zoo refuses a second.
* `RoutesAssumption`: routes, and router ports, that lead to one network have
  different numbers (`ilk_idx`: `EntityZoo!IlkDistinct`).
* `NatAssumption`: NAT rules of one kind, router and prefix length differ in
  their inner address (the key `lr_view_lnat`); the MAC of a NAT rule is computed
  from its outer address (`_gen_mac_by_ip`).

All of this the code sees to. What it does not see to is not assumed: an
operator who configures it gets two rules with one match and one priority, and
the one the bridge finds first decides. `RulesAgree` lists these configurations,
switch by switch and router by router (`Clash`), and says that there are no
others: a packet that meets rules which contradict each other is in a table of a
switch or a router that

* has two ports alike in the low 16 bits of their addresses, by which the tables
  know a port (`PortID`; a /15 network is enough);
* has a NAT rule whose outer address is that of a port on the switch it faces, or
  two router ports whose routers translate to one outer link address;
* has a router port without a prefix, whose rule ties with the one that drops;
* has two routes to one network that spell it differently (10.0.1.0/24 and
  10.0.1.7/24: `tpctl` stores the address as given, the match has it masked), or
  that lead apart over one chassis, which is all `lrp_ecmp_judge` knows of a road;
* translates one inner network to two outer addresses, or two inner addresses
  from one outer one.

The network of the run has such a switch, another tenant's, with two ports of one
ID; no packet of the run is sent there.

### The arguments

**LinkMaster.** `ReplicaAgrees` is not inductive: it says nothing of the flags
that decide what the next poll does. `IInv` adds

* `HistOK`, what a value of etcd is: a write's revision, which stays until the
  next write. With it, "the last delivered change of a key" and "the key's
  value at the resume revision" are the same thing;
* `MainOK`, what the main thread holds at each of its steps;
* `WatchOK`, that `WATCH_STATUS` is set only over a live stream, and that a live
  stream without it is one that `_add_watch` is about to record or a
  reconnection about to end. Without it a step could keep a dead watch;
* `VersionOK`, that `last_ver` covers the last entire read and follows the
  stream: where a re-added watch resumes;
* `PoolsOK`, that on a live stream a pooled change is the key's last one, so
  that merging the pools into the zoo gives the store and not an older one.

Types and history come first (`TypeStep`, `HistStep`); the rest of `IInv` has one
lemma per action (`...Step`). The steps in which a stream ends rest on one
lemma, `ResumeAgrees`: what is right for the stream's position is right for the
revision from which a new watch continues.

`NoStaleOverwrite` needs an order that none of this has. `OrderOK` says that
every value in the zoo, in the read in hand and in the pools was written at or
before `last_ver` and was the key's value when it was written (`Origin`), and
that for every key the zoo is no newer than the read in hand, and that no newer
than the pools, unless the pools are about to be thrown away. A poll moves
values down this order only.

**FlowSync.** `FlowsOwed` speaks of the next derivation, so it says nothing of
the entities that derivation will not look at. The invariant adds what is left
of the previous one: an entity that counts and is marked `State_NO` has been
there since, so its rules are there (`Kept`), did not go away and shared its
address with nobody (`Steady`); a rule that is there came from entities each of
which is there still or left a deletion in the sink (`Owed`); an entity that
counts and has no clause is new (`Clausal`). With unique addresses (`Distinct`)
these give `FlowsOwed`. The rules after all jobs are a function of the bridge
and of two jobs in order; that taking the first, appending one at the end, or
swapping jobs of different rules changes nothing of the result is proved once.

**Controller.** The argument is about one call's record and never about two:

* `CallOK` says what a call has in hand at each step (an address of the subnet,
  a bitmap of the right kind, an identifier that is not in the bitmap it
  read). It does not mention the database, so no step of another client can
  disturb it (`OneCall`), and no invariant over pairs of clients is needed.
* `Exact` says that, unless something was lost, no two devices share an ID, no
  two ports of a device an address, and the bitmaps mark just what is in use.
  Distinctness is needed to delete: taking a bit away is right only if nobody
  else has that identifier.
* A transaction joins the two. Its comparison says that the bitmap in the
  record is the bitmap in the database, so what `CallOK` says of the first
  holds of the second. Of the identifiers read *before* the bitmap the
  comparison says nothing; there the tags of `lostBy` do.

The lemmas `TakeID`, `DropID`, `TakeAddress`, `DropAddress` and `DropBook` are
the five ways a bitmap follows its devices or ports; `SaveDevDb` to `RebuildDb`
show that each transaction is one of them.

**EntityZoo.** `UniqueInZoo` is inductive beside the types: what leaves the zoo
takes exactly its own keys out of the index, because no other entity has one of
them (`UniqueLess`), and what enters puts in what was free (`UniqueMore`).
`IlkDistinct` is not: the next number is free in `_ilk_group`, which says
nothing of the entities that hold numbers, so `IlkInv` adds that every number
in use is recorded and that no entity of the sink shares one with the zoo.
`RefusedForCause` compares the zoo with etcd; `ZooOfSeen` says what, before the
first refusal, the zoo holds in the middle of a read: the tree last read,
except for the names still in the pools. `Held` says that, until then, a number
in use is held by a route of the zoo or of the sink: the number of a refused
entity is held by none and lost. `AddCases` splits `add_entity` into
its three outcomes (same, entered, refused) once for all the proofs.

**EdgeOperate.** The invariant counts what a run has still to add as if it were
in the tree (`All`), so that executing a command changes little of it.

* `Shaped`: every part, there or on its way, is of one run's road. `Tree`: names
  are unique, and a port or route has the switch and router *of its own run*
  beside it. This is what makes a road one run's (`RoadOfOne`): a second run
  that uses a name is refused at its first switch or router, and so never gets
  to the ports.
* `Additions` and `Removals` say what the remaining commands will do to `Tree`:
  that each part comes after what it needs, and that nothing loses the switch it
  is about before it goes itself. While a removal is under way nobody else is;
  the properties say nothing once a removal ran beside another run.
* `Solo`, for runs without company: an addition meets no name of its own, and a
  deletion finds its object until it takes it. That a free name exists at all
  is a pigeonhole argument: each run so far used at most one name of a kind, and
  there are more names than runs (`NameIsFree`).
* `Undisturbed`, for runs that were not killed either: what a run built is all
  of its road, or nothing, or taken by the rest of a removal. Between runs only
  whole roads are left, and the queries find those (`RoadFound`).

Types come first and alone (`TypesNext`): whatever runs beside whatever, the
address of a new port is the highest free one, and so one of the inner network
(`HighestFree`).

`NoBlackHole` (`EdgeViews_proofs`) is about what the agents saw at different
times, so its invariant `Views` relates the tree, every agent's view and the
commands each run has left. One of three cases always holds:

* `AllServe`: every edge that anybody takes, or would take if it looked now,
  serves in the tree and in the eyes of its own host;
* `OneAtMost`: nobody has more than one edge to choose from, so there is none it
  could wrongly prefer. It is where the first road is built and where the last
  one is taken away;
* `NoneTaken`: there is no road to take, and an edge that was left by a killed
  run keeps the next `init` from starting.

The rest of `Views` is there to show that no step leaves these cases:

* `RoadsWhole`: a road has both of its parts on the central router only while
  it is whole. The route is the last part to be added and the port the first to
  be deleted, so a road that is taken is always one that serves, whoever was
  killed in between.
* `Building`: what a run that adds has put there is still there, and its route
  comes last. For `init` the road is the first and its edge alone
  (`FirstEdge`). For `add` there is a sleep before the route, and an agent that
  has caught up since has seen the new edge serve (`AnotherRoad`): that is
  what the step needs that makes the road one to take.
* `Removing`: a removal takes parts of one run only. Before its first deletion
  the command behind that is a sleep, unless the road is the last
  (`Untouched`); after the sleep no agent takes the road any more (`Leaves`),
  so the deletions that follow may break it.

Commands that add and commands that delete have a lemma each (`ViewsAdvance`,
`ViewsRetreat`), as has each beginning of a run (`ViewsAdd`, `ViewsRemoval`), a
run's end (`ViewsEnd`) and an agent that catches up (`ViewsApply`). The last is
the only step that changes a view, at any time and one agent by one: it puts in
what the tree says now, which each case speaks of already.

**Datapath.** There is one lemma per table. A packet on its way is `Marked`: if
it was redirected, the mark is in its flags, or in the header of the tunnel
until the first table has unpacked that, and it is not before the table that
redirects; `reg5` says that the way out is known, and is set only between the
table that finds it and the one that uses it. Most rules keep this because they
touch neither (`Rewritten`, `Ahead`). Five need more. That no marked packet is
sent on to `REDIRECT_CHASSIS` is due to the *priority* of the rules that drop
it, in `lsp_output_dst_port` and `lrp_handle_unknow_dst_pkt`: the lemmas speak of
the rule that wins (`Best`). A packet in front of the redirecting table is
therefore not marked (`AskForHelp`), so it is redirected for the first time
(`Redirected`). What comes in through a tunnel takes its flags from the header
(`Converted`), and what goes out through one has them embedded (`Embedded`);
a local port is not named like a chassis (`LocalPorts`), so a packet that came
through a tunnel is not taken for a fresh one.

`TenantsApart` follows a packet through the same tables once more. A part of the
network is `Closed` if a router and a switch that are linked are both in it or
both not. `Inside(D, p)` says that everything that tells where packet `p` is or
goes is in part `D`: the datapath, the one it was told to go to next, the one in
the header of its tunnel, the port it came through and the one it leaves
through. The registers left over from an earlier table or chassis count too,
because a later table may read them. `Moves` says that no closed part is left;
most rules do not touch these fields (`Rewrites`), and those that do read them
from a link, a port or the tunnel. So a table (`SwitchMoves`, `RouterMoves`,
`OneTableMoves`), a visit (`VisitMoves`) and a transmission (`TransmitInside`)
move inside the sender's part, whatever the view of the chassis is:
`StaysInside`. Who gets the packet is then in every closed part that its sender
is in, and that is what connected means (`Reached`). The refinement has one step
per action: `Send` starts a message, `Translate` and `Transmit` either leave it
under way or end it, and what the agents learn is not seen (`TenantsRefined`).

`RulesNeverContradict` has one lemma per table again (`...Agree`). The rules that
match a packet are `Orderly` if those of one priority do the same (`Agree`) and
priorities are bounded (`Ranked`): then there is a first priority, and it decides
(`Decided`). In most tables priorities differ by construction, or the match names
a key of which there is one (`KnownPorts`, `PortsById`). Routes need the
arithmetic of `_cal_priority`: the prefix, the level and the number of a route
can be read off a priority as long as the number is below 64 (`PriorityTells`),
so two routes of one priority that match the same address lead to one network
and have one number (`RoutesAgree`). `VisitDecides` puts the tables together. A
packet whose fate is "ambiguous" has met a table that is not decisive, and if
nothing clashes on the switch or router it was on there is none (`NoClash`,
`GaveUp`, `AgreeStep`).

**Refinement.** Held identifiers are a function of the keys in etcd, so reads
and failures are stutters. `Save` and `SaveSwitchPort` map to `Acquire` (the
identifier is free by `Exact`), `Delete` to `Release` of one name, or of all the
ports of a device when it is recursive. `[]NothingLost` is a hypothesis because
a bitmap that lost a bit hands the identifier out again.

## What is only model-checked

Liveness (both `Converges`, `FlowsConverge`, `AllocReturns`, the end of every
message in `ImplementsNetwork`): fairness and `ENABLED` are outside the prover's
reach. The others are Datapath's:

* `CalmDelivery`.
* That a packet gets to its addressee, the rest of the safety part of
  `ImplementsNetwork`. Proved is that it stays in its tenant's part of the network.
* `VisitsEnd`. It is a matter of the network's size: a packet with a large ttl
  between routers of one chassis may pass more than 256 tables, so it holds for
  the instance and not for every network.

Induction over data is not available to the
provers, so nothing is proved about recursively computed values; the modules
that have theorems use none.

## Not modelled

* The **ovsdb monitor** (`ovsdbman.py`): framing, timeouts and restarts of one
  `ovsdb-client`. The models take the interfaces from the bridge.
* **Restart of an agent with its binding file** (`tuplesync.py:81`): a lost
  binding comes back with the next ARP packet.
* The **commands** that create tunnel and patch ports in Open vSwitch and
  configure BFD on them; **agent start-up** and supervision.
* The **commands** that arrive by the communicate watch of the link master, and
  with them `pkt-trace`, the tracing rules and `process_trace`: they carry no
  state of the network. That their events move the `last_ver` of the entity
  watch is listed as a hazard.
* **UNTUNNEL**, an option by which a host hands packets for addresses outside
  the virtual network to its own TCP/IP stack.
* The **16-bit arithmetic** of `NextIDFrom`; chassis and NAT of the
  configuration controller, each a plain create and delete of one key.
* The **CNI and docker plugins** beyond their calls of the controller, the REST
  and command-line front ends beyond the order of their requests, the
  `pkt_controller`'s rate limit, and the inspection tools.

## The plan

1. Proofs: that a packet which is delivered arrives at one of its recipients,
   and not just in its tenant's part (the safety part of `ImplementsNetwork`).
2. A composition of LinkMaster and EntityZoo: the zoo as a whole is the replica.
3. Routes that change while packets are on their way: EdgeOperate's steps as
   changes of LogicalView.

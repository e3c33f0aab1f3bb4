# TLA+ models of inu

inu is a peer-to-peer content distribution system: a Kademlia-like DHT of *nodes*
maps keys to the *peers* that have the content, and *peer daemons* keep content as
Merkle DAGs of blocks, announce the blocks on the DHT and download them from each
other. The modules of this directory model the parts of the program that keep
state or run concurrently; TLC checks them on small instances, and TLAPS proves
all their safety properties for every value of the constants. Paths below are
relative to `src/`.

## 1. Inventory

| Component | Code | State | Operations | What is hard | What makes it correct |
|---|---|---|---|---|---|
| routing table | `dht/routing_table.go`, `dht/key.go` | buckets: range, list, map; write lock | `UpdateContact`, `Split`, `FindClosestNodes` | recursion under the lock over a ping; list, map and ranges must agree after any series of splits and evictions | ranges partition the keys, list = map, at most K contacts, live contacts and neighbours are kept, the lock is released |
| locks of several tables | `dht/routing_table.go` 208-249, `dht/node.go` 247-307, 451-477 | write locks, goroutines of `parseSrc`, the tasks' contacts | `UpdateContact`, `FindClosestNodes`, the ping handler, `Bootstrap`, `refresh` | nodes ping each other with their tables locked; a ping causes an update causes a ping | no circle of waiting, no multiplication of pings |
| lookup, shortlist | `dht/node.go` 678-1066 | shortlist, marks, the peers found | `lookup`, `Insert`, `Remove`, `Pick...` | replies, failures and late answers of one round in any order | ends; returns only who answered, the K closest, and the peers that anybody returned; caches where peers are missing |
| node life cycle | `dht/node.go` 144-212, 267-331 | `started`, `inShutdown`, `shutdown`, four channels, server | `Start`, `Stop`, the tasks `refresh` and `republish` | concurrent `Stop` calls, a `Stop` during `Start`, tasks at work | no panic on a channel, every `Stop` returns, none before the node is down, no work afterwards |
| peer store | `dht/peer_store.go` | announcements per key | `Get`, `Put`, `GetAll` | expiry inside reads | valid announcements stay, expired ones go |
| replication | `dht/node.go` 344-648, 860-914, `dht/rpc.go` | the stores of all nodes, RPCs under way, `Store` loops, requests | PUT, GET, `FindPeers`, `Store`, `republish`, caching | RPCs lost, late or failed half way; restarts; stale caches; republishing in circles | nothing is invented or prolonged, upload protection, answers are valid and never empty |
| public routes, client | `dht/node.go` 220-528, `dht/client.go` | - | `FindPeers`, `PutKey` | a call that fails may have taken effect; the answer is sorted by a comparator that is no order, then cut | local peers first; see also replication and daemon |
| peer daemon | `daemon.go` | calls, goroutines, semaphore | `AddPath`, `AddBytes`, `Upload`, `Download`, serving of blocks | a goroutine per block, shared blocks, failures, crashes | announced implies stored; success means the whole DAG; no waiting in circles for the semaphore |
| block store, file system, Merkle nodes | `store/`, `fs/`, `merkle/`, `cid/` | blocks in a file | `Put`, `Get`, `AddPath`, `AddBytes`, `DAG`, `ReadBytes`, `ResolvePath` | no transactions: a crash leaves half a DAG; short, equal and empty chunks | children stored before parents, reading gives back what was added or fails |
| daemon life cycle, commands | `daemon.go` 68-159, `api.go`, `cmd/inu/peer.go` | two ports, `privateL`, connections | `Start`, `Stop`, `runApiFunc`, `daemonOffline`, the commands | commands start transient daemons and use each other's; `Stop` and a goroutine of `Start` share `privateL` | every command ends; success is not reported for half the work; no panic after a call |
| refresh, bootstrap | `dht/node.go` 247-307 | `bucket.lastUpdated` | `refresh`, `Bootstrap` | state read under the lock, used after it | a table that follows the network; the task ends |
| ASN trie | `dht/asn.go`, `cmd/inu/dht.go` | binary trie, read-write lock | `Insert`, `Match`, `UpdateASN` | nested prefixes, the boundary at 32 bits, the lock when `Match` panics | longest prefix match; every request gets the lock |
| certificates, evaluation | `cert/`, `cmd/evaluate/` | - | - | - | - |

How they interact: a daemon's `Upload` and `Download` call a node's public routes
through `dht.Client`; the handlers use the peer store and run lookups; a lookup
reads the routing table and sends RPCs to other nodes, whose middleware calls
`UpdateContact` in a goroutine of its own; `republish` and PUT run `Store` loops,
that is a lookup and then one Store RPC after the other. Every RPC and every
client call goes through an `http.Client` with a timeout (`cert/cert.go`), so it
ends, though possibly after it has taken effect at the other side.

## 2. Modules

| Module | Models | Proofs in |
|---|---|---|
| `RoutingTable` | the table of one node, one `UpdateContact` at a time under the write lock, the environment's contacts coming and going | `RoutingTableProofs` |
| `TableLocks` | the write locks of several tables, the pings under them, readers and tasks | `TableLocksProofs` |
| `Lookup` | one lookup of either kind with its rounds of concurrent calls | `LookupProofs` |
| `NodeLifecycle` | `Start`, any number of `Stop` calls, server and task goroutines | `NodeLifecycleProofs` |
| `PeerBoard` | abstract: what the DHT promises, a board of announcements that expire | - |
| `Replication` | all nodes' peer stores and what moves announcements between them | `ReplicationProofs` |
| `Swarm` | daemons with their block stores over the board of announcements | `SwarmProofs` |
| `AsnTrie` | the trie as a function from paths to numbers; reference: longest prefix match | `AsnRoutingProofs` |
| `AsnRouting` | one node's trie under its lock, the answers to GETs, the daemon's choice of a peer; extends `AsnTrie` | `AsnRoutingProofs` |
| `MerkleFS` | files and directories as DAGs, reading and resolving; reference: what lies on the disk | `PeerCommandsProofs` |
| `PeerCommands` | processes of `inu peer` over one store file and two ports; extends `MerkleFS` | `PeerCommandsProofs` |
| `MC*` | constants for TLC | - |

`PROJECT.json` names the lines of code behind every definition.

### RoutingTable

`buckets` is `rt.buckets`; each bucket has its range, its list `contacts` and its
map `elements`. `pending` is the argument of the `UpdateContact` that holds the
write lock. Each level of the recursive `updateContact` is a step: `Refresh`,
`Insert`, `PingFails`, `PingAnswered` end the call, `SplitBucket` leaves the lock
taken for the next level, `NoBucket` is the panic of `bucket()`. `Toggle` is the
environment: a contact stops answering pings, or answers again. `Split` takes
either list of a new bucket in any order, because the code fills them in the
iteration order of a map. A key has `KeyLen` digits of base `Base` (32 and 256),
and the first bucket ends at `TopKey`, as in the code, where the first `k` bytes of
the bound are set and not the first 32. `seen` is a history variable.

### Lookup

`list`, `contacted`, `hasPeers` are the shortlist. `Pick` starts a round, `Ask` is one turn
of the loop over its contacts, which marks the next one and starts its goroutine while the
earlier ones may already be answering, failing or gone (`asked` counts the turns). `Call(i)`
is what the goroutine of the i-th contact may do: `ReplyContacts`, `ReplyPeers`,
`Fail`; the round's end is one of `ReturnPeers`, `ReturnUnreachable`,
`CloserFound`, `ReturnContacts`, `AskTheRest`. The inner goroutine reports on an
unbuffered channel in a `select` with a default: when nobody is receiving yet, it
inserts its contact again before it ends (`CloseOrLate`, `InsertAgain`). What a
contact replies is any set of at most K of the contacts it knows, one per key:
routing tables change during a lookup, and `FindClosestNodes` returns one contact
per key because the table holds a key once. Distances are numbers; XOR distance
is injective, so `Dist` is.

### NodeLifecycle

`Start` is a sequence of five steps, each `Stop` call a program counter that walks
through the code: the three checks, `Send` and `Ack` and `CloseChannels` once per
task, `CloseServer`, and `Finish`, the deferred store of `shutdown`. Unbuffered
sends and receives are one step; a closed channel makes them panic. A task is at
its `select`, at work, acknowledging, or gone.

### Replication and PeerBoard

`data[n]` is the peer store of node n as a set of announcements (key, peer, time
of publication). A request `req[r]` walks through a PUT's or GET's `FindPeers`:
`OwnStore`, `AskNode` (the handler at another node, with the purge that its `Get`
does), `Cache` (the Store RPC at the end of the lookup), `Keep` (the node's own
cache), or `FindFails`; then `GetReturns` or `PutAccepted`. A Store loop is a job:
`StoreFinds` takes a pair and the nodes that its lookup returned, `StoreSends`
sends, `StoreFails` ends the loop at the first error. A failed Store RPC may still
arrive (`net`, `Arrives`). `Restart` empties a store and ends the node's requests
and jobs. Which nodes a lookup returns is left open, any other nodes, so the
result holds for every routing. What a lookup keeps of several answers is the
last one; the others are dropped, as `peers.Store` does.

`GetReturns` gives out whatever was found, cut to K (`AtMostK`), as the handler does, which
does not look whether anything is left. `answer[r]` is the set of the answers given so far to a
request, at most one, so that an empty answer is not the same as none.

`PeerBoard` is the abstract specification: announcements are made once, an answer
is a nonempty set of announcements of the key asked that were valid when the
question was asked. An empty answer, on which the client panics
(`dht/client.go:72`), is a step that the board does not have. `Replication` implements it under the mapping of a request to
its key and starting time. The node-side caches, republishing and lost messages
all map to stuttering steps.

### Swarm

The DHT is the board: `FindPeers` returns some announcements of the key or fails;
`PutKey` takes effect, fails, or fails after taking effect. `AddBlock` stores a
Merkle node whose children are stored, the order in which `AddBytes` and
`AddPath` put them. A Download is a set of goroutines, one per link followed, with
their stages wait (for the semaphore), find, get, put, announce, leave. Each call, `store.Put`
included, may fail and then ends the goroutine with its error; the
children are spawned in the `announce` step, while the semaphore is still held.
`Crash` ends the calls of a daemon and leaves its blocks, which are in a file.
A block is identified with its CID: the model takes for granted that a daemon
serves a stored block under the CID it was asked for.

### TableLocks

`RoutingTable` has one table and calls that follow one another; here several
nodes have theirs, and what matters is who waits for whom. `holder[n]` is the
update that has the write lock of node n, `waiting[n]` counts the goroutines that
`parseSrc` has started (counted per sender), `task[n]` is what `Bootstrap` or `refresh` has
still to enter. `Find` is an RPC that arrives (middleware, then handler), `RLock` its
`FindClosestNodes`. A level of the recursive `updateContact` is `Refresh`, which ends the
call, `Split`, which keeps the lock for the next level, or `Ping`. `HandlePing` is the other
node's side: a goroutine more, and an answer that needs no lock. `PingReturns`, `PingRefused`
and `PingTimeout` end the call. A table is a sequence of buckets, since each split halves the
bucket of the own key: `Depth[n][c]` is the number of halvings that leave c's key in
the bucket of n's own, and with it gives the bucket of c (`BucketOf`). The model bounds
neither the nodes nor the buckets.

### AsnTrie and AsnRouting

A trie is a function from paths to numbers; `Insert` adds the nodes on the way.
`Match` is the deepest visited node with a number, `Overruns` says that the loop
asks for a bit too many. The code panics in this case and returns nothing, so `MatchASN` looks
at `Overruns` first, and the value of `Match` means something only where it is false. `AsnRouting` has the node's life (`LoadLine` and `LoadFails`
of the mapping file, `Start`), `UpdateASN` as a writer that waits and keeps new
readers out (`UpdateLocked` when the last reader is gone), and requests that walk
through `RLock`, `MatchASN`, then `KeyPut` or `KeyGet`/`KeyNotFound`, and for a GET
`ChoosePeer`, the first steps of the daemon's `download`. `SortPeers` is what the
insertion sort behind `slices.SortStableFunc` makes of the handler's comparator for lists
of up to 20 entries, the default K; longer lists are sorted in blocks by the
library and then merged, which is not modelled.

### MerkleFS and PeerCommands

A node's CID is the node itself, so a block store is a set of nodes. What lies on
the disk is a constant: `Disk[t]` is a file with its bytes or a directory with its
entries, for every t of `Trees`. `AddBytes` and `AddPath` give the series of blocks in
the order of their `Put`s; the recursions of the code are recursive functions, on
the trees and on the nodes of a store, so that they can be proved about. `OnDisk` is
the reference: what a path leads to on the disk. Reading fails on a missing block and on an empty directory (a node without links and
without an inode).

Each process of `PeerCommands` is one command. `Probe` and `ProbeCloses` are
`daemonOffline`, which binds the port for a moment; `ListenPublic` and `ListenPrivate` are
`Start`; `Dial` needs the accept loop of the other side,
because of the TLS handshake. `SetPrivateL` and `AcceptLoop` are the goroutine of `Start`: the
field, then the loop. `Put`, `BlockFails`, `Answer`, `Reply`, `CallFails` are the call, served
by the process `conn[p]`. It needs the store as long as it has blocks to store or to read
(`NeedsStore`), and after that only the process: an answer can still arrive when `Stop` has
closed the store. `CloseStore`, `Shutdown`, `ClosePrivate` are `Stop`. A path is what
`strings.Split` makes of the text behind the CID: its parts may be empty. The end of a
process frees its ports and breaks its calls; `blocks`, the file, stays. The order
in which a download stores blocks is open but for parents before children.

## 3. Runs

| Run | Instance | Shows |
|---|---|---|
| `MCRoutingTable` | binary keys of 4 digits, K = 2, own key 1, seven contacts: a neighbour, three keys of one far bucket, one of them at two addresses, a key of the other half, a key above the table | `TypeOK`, `Partition`, `Indexed`, `Bounded`, `ForgottenOnlyFromFullFarBucket`, `BucketFound`, `LiveContactStays`, `LockReleased`, `DeadContactEvicted` |
| `MCRoutingTableKeySpace` | a key above the table | **violated**: `EveryKeyHasBucket` |
| `MCLookup` | five contacts in a chain of referrals with ways back, K = 3, Alpha = 2, two holders of peers, any failure | `ListOrdered`, `ResultAnswered`, `ClosestReturned`, `PeersReturned`, `CachedAtClosestGap`, `AskedOnce`, `UnreachableRemoved`, `Termination` |
| `MCLookupEnds` | one key at two addresses, the old one dead | **violated**: `Termination` |
| `MCNodeLifecycle` | three `Stop` calls | `NoChannelPanic`, `StopWaitsForShutdown`, `NoWorkAfterShutdown`, `StopReturns`, `PortReleased` |
| `MCReplication` | three nodes, one key, two announcements, expiry after 1 of 2 ticks | `Provenance`, `ValidKept`, `ImplementsBoard` |
| `MCReplicationPurge` | two nodes, one PUT without the upload key at a time, two announcements, immediate expiry, fairness | `OnlyUploadedKeys`, `Purged` |
| `MCSwarm` | two daemons, a DAG of three blocks with one shared, a semaphore of one | `AnnouncedStored`, `DownloadComplete`, `UploadComplete`, `CallReturns` |
| `MCTableLocks` | four nodes, two in each half, K = 1, tables of one bucket in which they know each other in pairs or in a ring; one find RPC, one run of `Bootstrap` or `refresh`, one crash or timeout | `NoAmplification`, `NobodyWaitsForever` |
| `MCAsnRouting` | addresses of 3 bits, K = 2, four lines of which two are loaded and one comes by `UpdateASN`; two requests from two hosts, two peers from elsewhere | `MatchesLongestPrefix`, `StaysLocal`, `RequestsAnswered` |
| `MCAsnRoutingHost` | the same with the prefix of a host | **violated**: `MatchEndsAtLeaf` |
| `MCPeerCommands` | three processes: `daemon` or `add`, `dl` or `add`, `cat`; a file of three chunks in a DAG of three levels, a directory with a small and an empty file; paths with empty names; one fault | `AddedReadable`, `CatWhole`, `StopAfterCall`, `CommandsEnd` |

Why the bounds are enough to be of interest:

- `MCRoutingTable`: one call can split the table twice, ping in the bucket that comes
  of it and evict; the two-address key competes for that bucket. Every branch of
  `bucket.UpdateContact` is taken, before and after splits.
- `MCLookup`: one address per key, which `UnreachableRemoved` and `AskedOnce` depend on;
  `MCLookupEnds` has two. The shortlist overflows, several rounds follow each other, both
  holders can be asked in the same or in different rounds, and contacts that
  failed are learned of again.
- `MCNodeLifecycle`: one call does the work, one waits, one comes late. `NoWorkAfterShutdown`
  adds little to `StopWaitsForShutdown`: it says that the tasks, too, are gone by then.
- `MCReplication`: an announcement can be cached at a third node, survive the
  restart of its origin, expire between being found and being returned, and
  arrive late; a second one can overlap with the first. `MaxTime`, `MaxPuts`,
  `MaxJobs` and `MaxLate` bound the clock, the announcements, the Store loops and the
  messages without a sender. The node symmetry is used in runs without temporal
  properties under fairness only (`ValidKept` and `ImplementsBoard` are safety).
- `MCReplicationPurge`: `MaxJobs` is large enough never to hold back `republish`. A PUT
  without the upload key, whose `FindPeers` fills caches as that of a GET does, can be
  checked against announcements that a late message or a restart has moved. Several
  keys are left to the theorem `UploadProtection`.
- `MCSwarm`: with `Sem = 1` any goroutine that waited for another one while holding
  the semaphore would stop the call.

- `MCTableLocks`: two locks held over pings of each other need one update by an RPC
  and one by a task. The first contact that does not fit in makes a node split its table, and
  those of the other half are pinged from then on. In the ring every ping causes the next
  one, without end, so the liveness property is checked under a permanent load. A renaming that
  keeps the halves and both kinds of tables takes any node to `n1`; the RPC goes to `n1`. `MaxTasks`
  bounds the tasks, `MaxFaults` crashes and timeouts together.
- `MCAsnRouting`: a default route, a network in it, the same one with another number
  and with 0, and a line that is no IPv4 prefix, in any order. None of them is as long as
  an address: `RequestsAnswered` is about handlers that do not panic, `MCAsnRoutingHost`
  about those that do. With the requester's own announcement and both peers from elsewhere an answer overflows K. `MaxLines` and
  `MaxUpdates` bound what is entered.
- `MCPeerCommands`: chunks of one byte and two children per node give a DAG of three
  levels with a shared leaf and a last node that is not full. One process can use the
  transient daemon of another one while a third takes its probe for a daemon. `cat CID/` runs
  on the file of three levels, so that what it prints is neither all nor nothing.
  `MaxFaults` bounds kills and failed calls of the store together; the daemon's own end
  by a signal is not bounded.

Deadlock is not checked: lookups, shutdowns, requests and commands end, the clock of `Replication`
stops, and a routing table whose process has panicked does nothing.

### Fairness

- `RoutingTable`: weak fairness of `updateContact`, the goroutine that holds the
  lock; its ping ends by the timeout of the HTTP client.
- `Lookup`: weak fairness of the lookup's steps taken together; the model does not say which
  reply comes first, or that any call succeeds.
- `NodeLifecycle`: weak fairness of `Start`, the server and the end of a task's work;
  strong fairness of a `Stop` call, whose send is enabled again and again: `select`
  chooses among ready cases at random. That work ends rests on `Termination` of
  lookups. Nothing forces a ticker to fire.
- `Replication` (`Purged` only): time passes, every node's ticker fires again and
  again, and a Store loop goes on.
- `Swarm`: goroutines go on and calls end (timeouts); strong fairness of acquiring
  the semaphore: senders waiting on a Go channel are served in turn.

- `TableLocks`: goroutines go on; strong fairness of a reader and of a task that wait
  for a lock, since Go's `RWMutex` lets waiting readers in after each writer and
  serves writers in turn. A ping ends by its answer, or because the node is gone;
  timeouts may happen but nothing relies on them.
- `AsnRouting`: handlers and a waiting `UpdateASN` go on.
- `PeerCommands`: goroutines go on; nobody has to start, signal or kill a process.

### Disagreements between the code and what it says

1. *Key space.* `newRoutingTable` sets the first `k` bytes of the upper bound
   (`dht/routing_table.go:159`), not the first 32. A key above it makes
   `bucket()` panic (line 177) with the lock held.
2. *Lookups that never end.* `shortlist.Remove` (`dht/node.go:989`) does not find a
   contact whose key is also in the list under another, earlier address, but
   unmarks the key (line 994): the dead address is asked in every round; with a
   `refresh` or `republish` in this state, `Stop` waits too.
3. *Prefixes of one host.* `Match` goes on behind the last bit
   (`dht/asn.go:69`) and panics. The read lock stays, and the next `UpdateASN` blocks every
   GET and PUT of the node.

Seen while modelling, and not the subject of a run:

- `bucket.Split` refills its lists from a map (`dht/routing_table.go:128`), so after a
  split the front of a list need not be the least recently seen contact that the comment at
  line 88 speaks of. `DeadContactEvicted` shows that dead contacts go all the same.
- `download` removes one entry of its own (`daemon.go:303`); after a second
  announcement there are two, and a daemon may ask itself for the block.
- With K = 1 and a ring of nodes each ping can cause the next one forever
  (`NoAmplification` bounds their number at any time).
- Links inside a file have the name "" (`fs/fs.go:144`), and `ResolvePath` (`fs/fs.go:219-252`)
  looks for the part behind the slash of `CID/`, which is empty: `inu peer cat CID/` succeeds
  and prints only what is under the first link of a file, its first chunk or chunks, though `cmd/inu/peer.go:70` says "Print a file
  represented by a CID on the standard output". `CatWhole` therefore promises the whole file for paths
  without empty names, and a beginning of the file before the first one otherwise (`Prints`).
- `cat` of a directory prints its files one
  after the other, and fails for an empty one. The directory inode is never made.
- A daemon that gets a signal before the goroutine of `Start` has run panics in
  `Stop`, on `privateL`.

## 4. Proofs

All theorems hold for every value of the constants that satisfies the named
assumptions of the modules.

- **`RoutingTableProofs`**: `TypeHolds`, `PartitionHolds`, `IndexedHolds`,
  `BoundedHolds`, `NeighboursKept`, `BucketFoundHolds` and `LiveContactsStay` from one
  inductive invariant that says of every bucket that it is well formed (range,
  type, list and map agree, at most K contacts), of the table that its ranges are
  consecutive, and of every key heard that it is known or was dropped from a full far
  bucket. None of the properties is inductive alone: that an eviction leaves the
  map right needs that the front of the list is in the map under its own key and
  only there; that a split loses nobody needs that every map entry is in the
  range of its bucket. Assumptions: `K > 0`, `TopKey` is a key, contacts have keys.
- **`LookupProofs`**: `ResultAnsweredHolds` from `MarkedInv`: a key marked as
  contacted has answered or belongs to an open call. At the end of a round no call is open,
  so a list whose keys are all marked has answered. It needs no assumption on
  addresses, so it also covers the case of the second disagreement. `PeersReturnedHolds`
  from `PeersInv`: `hasPeers` and `peers` are set together.
  `ListOrderedHolds`, `ClosestReturnedHolds`, `CachedAtClosestGapHolds`, `AskedOnceHolds` and
  `UnreachableRemovedHolds` are proved under `OneAddress`, that a key has one address in
  the network: otherwise `Remove` takes a mark from the wrong contact, which is the second
  disagreement. They rest on what `Insert` does to a list in order (a fold of
  insertions, each of them where the first larger distance is, then the cut at K): it
  stays in order, and keeps every contact that is among the K closest of all that it
  was given (`Keeps`). `IInv` adds to this that the contacts of a round differ, that those
  still to be asked have not answered, and that who has answered stays marked. `ClosestReturned` speaks of the end only; the invariant says
  of every state that a contact the list has lost is farther away than a full list
  (`Keeps`), as long as no call has failed: after a `Remove` a contact that the bound has
  pushed out would be needed again.
- **`NodeLifecycleProofs`**: `NoChannelPanicHolds`, `StopWaitsHolds`, `NoWorkHolds` from an
  invariant about the one call that won the compare-and-swap: there is at most
  one, the state of every task and its channels is a function of how far it has
  come, and nobody returns before `shutdown`.
- **`ReplicationProofs`**: `TypeHolds`, `ProvenanceHolds`, `UploadProtection`,
  `ValidAnnouncementsKept`, `BoardImplemented`. The invariant says that every place
  that holds announcements (stores, messages, jobs, requests) holds announcements of the
  board, that what a request has found is nonempty, about its key and was valid
  when it started. Upload protection follows since a PUT without the key was
  accepted on the strength of an announcement of the same key, and the first one
  of a key cannot be. `BoardImplemented` is a step simulation.
- **`SwarmProofs`**: `AnnouncedStoredHolds`, `DownloadCompleteHolds`,
  `UploadCompleteHolds`. The invariant follows the frontier of a download: a block that is
  done has its links done, or a goroutine for it, or the errgroup holds an error; when no
  goroutine is left, the blocks that are done are closed under links and contain the root.
  `Under` is defined by closed sets, so that no induction is needed there. For an upload
  it is: `DAG` lists a node and then the lists of its children, and the proof shows that
  this list exists, is closed under links and contains the root, from `AcyclicAssumption`: every set of
  CIDs has one without a link into the set, because a CID is a hash of the links.
- **`TableLocksProofs`**: `NoAmplificationHolds`. What is under way is a sum: goroutines,
  updates in a table, contacts that tasks have to enter. Sums are cardinalities of sets
  of units (`<<x, k>>` with `k <= f[x]`), and one lemma says what a unit more or less
  changes. A ping that starts a goroutine at another node moves a unit from one
  state of its update to the next, only `Find` and `EnterContacts` add units, and each adds one
  that they count. A split gives and takes no unit: it keeps the lock and the update. The
  nodes are finitely many, `HolderAssumption` tells an update from `NoHolder`; there is no bound
  on the nodes, on K, on where the keys are, or on the buckets of a table.
- **`AsnRoutingProofs`**: `MatchesHolds` and `StaysLocalHolds`. The invariant `Holds` says that
  the paths of the trie are closed under prefixes and contain all prefixes entered,
  and that a path has the number that was last given for it, or none. `Match` walks as long as there are
  nodes, and every entered prefix of the address is on this walk, so that the deepest
  number on it is that of the longest prefix. For `StaysLocal` the insertion sort is
  followed through the comparator, which is no order: what is proved of each insertion
  is that no host of another system gets in front of one of the same system (`Ranks`),
  which is what the cut at K and the daemon's choice need.
- **`PeerCommandsProofs`**: `StopAfterCallHolds` from `ControlInv`, which relates where a
  process is to the ports and to `privateL`: a process that accepts has set `privateL`, so who is
  connected to a daemon is connected to one where it is set, until the process has ended.
  `AddedReadableHolds` and `CatWholeHolds` from `DataInv`: the store has only nodes that adding
  something on the disk makes (`Blocks`), an `add` has stored, or still has to store,
  every node of its tree, and a `cat` that succeeded has given what lies on the disk.
  The rest is about the file system alone, for any disk, `ChunkSize` and `NumChildren >= 2`:
  `ChunksAre` (chunks are not empty but for the only chunk of an empty file, and a level
  has fewer nodes than the one below), `FileDAGExists` (the levels end in one root),
  `ReadAbove` and `FileReads` (each level reads as the file), `AllListed` (a tree's series of
  blocks is closed under links), `LargerStore` (what can be read in a store reads the same
  in a larger one), `PathLeads` (a path leads in the store to the root of what it leads to
  on the disk, or nowhere if blocks are missing), `PathWithin` and `InsideGives` (with an
  empty name it leads, if anywhere, to a node within the file before that name, and what
  such a node holds is a beginning of the file), together `CatIs`.
  Assumptions: names in a directory are unique and not empty (those in a path may be empty),
  no directory is below
  itself (`DiskAssumption`), and no node has its own hash in a link below it, nor is an error
  a node or a series of bytes (`HashAssumption`).

**Induction.** The theorems of the library that take a predicate as a parameter cannot be
used, so induction is done over sets: a set of numbers, trees or nodes that is not
empty has a least element (`InductionUpTo`, and the last conjuncts of the assumptions
on acyclic data), so the set of those for which a statement fails is empty. A recursive
function is a `CHOOSE`, and says something only if a function with these equations exists;
`SolutionExists` (`PeerCommandsProofs`) shows this by uniting the solutions for the parts of
the domain that contain everything below their elements, `LevelsExist`, `ChunksExist` and
`FlattensExists` by going up one element at a time. Two equal facts about sequences stand
in more than one module, since each module with proofs is about one component.

**Only model-checked.** All liveness (`LockReleased`, `DeadContactEvicted`, `Termination`,
`StopReturns`, `PortReleased`, `Purged`, `CallReturns`, `NobodyWaitsForever`,
`RequestsAnswered`, `CommandsEnd`) is beyond this prover. Every safety invariant and every
action property of a passing run is a theorem. `TypeHolds` of `ReplicationProofs` is a
theorem only; the type invariants of the other modules but `RoutingTable` are definitions
for readers, and parts of the inductive invariants. The inductive invariants hold
on the instances of section 3 as well, where TLC checked them.

## 5. Not modelled

- `FindClosestNodes` as a scan of the table: `Lookup` uses its result only.
- `bucket.lastUpdated` and the choice of the buckets to refresh: the contacts that
  come of it are `UpdateContact` calls, which `RoutingTable` allows at any time.
- The swarm key check, parsing of requests, and every encoding.
- `cert/`, configuration files and flags, `cmd/inu/key.go`: no state.
- `cmd/evaluate/`: programs that deploy and measure a swarm on test beds. They are a
  quarter of the source and no part of the system.
- The library's sort for more than 20 peers.

## 6. Plan

Done: routing table, lookup, life cycle, replication, swarm; then the locks of
several tables, the ASN trie and the routing by it, the file system, the
commands with the daemon's start and stop; then the proofs of every safety property.

1. Proofs: an abstract specification of a node's shutdown and of a lookup, which
   `NodeLifecycle` and `Lookup` implement; the types of the other modules as theorems.
2. *`ClosestNodes`*: `FindClosestNodes` over the table of `RoutingTable`, and the XOR
   metric: what `Lookup` assumes of `Dist` and of a reply.
3. *Refresh*: which buckets are chosen when, over `RoutingTable` with a clock.

----------------------------- MODULE TableLocks -----------------------------
(***************************************************************************)
(* The routing tables of several nodes, as far as they make the nodes wait *)
(* for each other: UpdateContact keeps the write lock of a table while it  *)
(* pings the oldest contact of a full bucket (src/dht/routing_table.go),   *)
(* and the node that is pinged updates its own table with the sender,      *)
(* which may make it ping in turn (src/dht/node.go, src/dht/rpc.go).       *)
(*                                                                         *)
(* A split always halves the bucket with the node's own key, so that the   *)
(* buckets of a table are a sequence: the j-th one has the keys that the   *)
(* j-th halving has put away from the own key, and the last one the others *)
(* and the own key.  A bucket is its list of contacts; the lookup of a key *)
(* in the map of the bucket and its range are the subject of RoutingTable. *)
(***************************************************************************)
EXTENDS Integers, FiniteSets, SequencesExt

CONSTANTS
    Nodes,
    Depth,          \* Depth[n][c]: the halvings that leave c's key with n's
    K,              \* config.K
    Tables,         \* tables that the nodes have built before: values of table
    Calls,          \* find-node and find-peers RPCs
    Routes,         \* <<src, dst>>: who may send one to whom
    NoNode, NoHolder,
    TaskNodes,      \* nodes that run Bootstrap and refresh
    MaxTasks,       \* bound on the runs of Bootstrap and refresh
    MaxFaults       \* bound on the crashes and timeouts

ASSUME SidesAssumption ==
    /\ TaskNodes \subseteq Nodes /\ NoNode \notin Nodes
    /\ Routes \subseteq {r \in Nodes \X Nodes : r[1] # r[2]}
ASSUME NodesAssumption == IsFiniteSet(Nodes)
ASSUME HolderAssumption ==
    NoHolder \notin [c : Nodes, by : {"rpc", "task"}, stage : {"locked", "ping", "answered"}]
ASSUME KAssumption == K \in Nat \ {0}
ASSUME DepthAssumption == Depth \in [Nodes -> [Nodes -> Nat]]

\* bucket(): the bucket of c's key in the table s of node n.
BucketOf(s, n, c) == IF Depth[n][c] + 1 < Len(s) THEN Depth[n][c] + 1 ELSE Len(s)

ASSUME TablesAssumption ==
    \A f \in Tables : \A n \in Nodes :
        /\ f[n] # <<>>
        /\ \A b \in DOMAIN f[n] :
            /\ Len(f[n][b]) <= K /\ IsInjective(f[n][b])
            /\ \A c \in Range(f[n][b]) : c \in Nodes \ {n} /\ BucketOf(f[n], n, c) = b

VARIABLES
    up,         \* is the process of the node running?
    table,      \* table[n]: the lists of the buckets of n
    waiting,    \* goroutines of parseSrc that wait to update with a contact
    holder,     \* the update that holds the write lock, and where it is
    task,       \* contacts that Bootstrap or refresh still has to enter
    call,       \* the find RPCs
    tasks, faults,   \* counters for the bounds
    entered     \* history: the contacts that lookups gave to tasks

vars == <<up, table, waiting, holder, task, call, tasks, faults, entered>>

Init ==
    /\ up = [n \in Nodes |-> TRUE]
    /\ table \in Tables
    /\ waiting = [n \in Nodes |-> [c \in Nodes |-> 0]]
    /\ holder = [n \in Nodes |-> NoHolder]
    /\ task = [n \in Nodes |-> <<>>]
    /\ call = [i \in Calls |-> [dst |-> NoNode, stage |-> "idle"]]
    /\ tasks = 0 /\ faults = 0 /\ entered = 0

-----------------------------------------------------------------------------
(* RPCs: the caller's side *)

\* parseSrc: the update of the table is left to a goroutine of its own.
Spawn(dst, src) == waiting' = [waiting EXCEPT ![dst][src] = @ + 1]

\* FindNode or FindPeers of src reaches the handler of dst, or fails.
Find(i, src, dst) ==
    /\ call[i].stage = "idle"
    /\ up[src]
    /\ IF up[dst]
       THEN /\ call' = [call EXCEPT ![i] = [dst |-> dst, stage |-> "rlock"]]
            /\ Spawn(dst, src)
       ELSE /\ call' = [call EXCEPT ![i] = [dst |-> dst, stage |-> "failed"]]
            /\ UNCHANGED waiting
    /\ UNCHANGED <<up, table, holder, task, tasks, faults, entered>>

\* FindClosestNodes: the read lock, the scan of the table, the answer.
RLock(i) ==
    /\ call[i].stage = "rlock"
    /\ holder[call[i].dst] = NoHolder
    /\ call' = [call EXCEPT ![i].stage = "answered"]
    /\ UNCHANGED <<up, table, waiting, holder, task, tasks, faults, entered>>

-----------------------------------------------------------------------------
(* UpdateContact *)

Hold(n, c, by, stage) == holder' = [holder EXCEPT ![n] = [c |-> c, by |-> by, stage |-> stage]]

\* A goroutine of parseSrc, or the task of the node, gets the write lock.
Lock(n, c) ==
    /\ holder[n] = NoHolder
    /\ waiting[n][c] > 0
    /\ waiting' = [waiting EXCEPT ![n][c] = @ - 1]
    /\ Hold(n, c, "rpc", "locked")
    /\ UNCHANGED <<up, table, task, call, tasks, faults, entered>>

LockTask(n) ==
    /\ holder[n] = NoHolder
    /\ task[n] # <<>>
    /\ Hold(n, Head(task[n]), "task", "locked")
    /\ UNCHANGED <<up, table, waiting, task, call, tasks, faults, entered>>

\* UpdateContact returns and its deferred Unlock runs; the task goes on with
\* its next contact.
Release(n) ==
    /\ holder' = [holder EXCEPT ![n] = NoHolder]
    /\ task' = IF holder[n].by = "task" THEN [task EXCEPT ![n] = Tail(@)] ELSE task

At(n, stage) == holder[n] # NoHolder /\ holder[n].stage = stage

MovedToTail(s, c) == Append(SelectSeq(s, LAMBDA x : x # c), c)

\* The bucket that the update of n is about, and the contact at its front.
Bucket(n) == BucketOf(table[n], n, holder[n].c)
Pinged(n) == Head(table[n][Bucket(n)])

Full(n) ==
    LET list == table[n][Bucket(n)]
    IN  holder[n].c \notin Range(list) /\ Len(list) >= K

\* A contact that is listed is refreshed, and one that fits in is inserted.
Refresh(n) ==
    /\ At(n, "locked") /\ ~Full(n)
    /\ table' = [table EXCEPT ![n][Bucket(n)] = MovedToTail(@, holder[n].c)]
    /\ Release(n)
    /\ UNCHANGED <<up, waiting, call, tasks, faults, entered>>

\* The bucket with the own key is full.  Its halves are filled from a map, in
\* any order, and updateContact calls itself: the lock is kept.
Split(n) ==
    LET last == Len(table[n])
        InBucket(b) == {c \in Range(table[n][last]) : BucketOf(Append(table[n], <<>>), n, c) = b}
    IN  /\ At(n, "locked") /\ Full(n) /\ Bucket(n) = last
        /\ \E x \in SetToSeqs(InBucket(last)), y \in SetToSeqs(InBucket(last + 1)) :
            table' = [table EXCEPT ![n] = Append([@ EXCEPT ![last] = x], y)]
        /\ UNCHANGED <<up, waiting, holder, task, call, tasks, faults, entered>>

\* Another bucket is full: its front is pinged.
Ping(n) ==
    /\ At(n, "locked") /\ Full(n) /\ Bucket(n) < Len(table[n])
    /\ holder' = [holder EXCEPT ![n].stage = "ping"]
    /\ UNCHANGED <<up, table, waiting, task, call, tasks, faults, entered>>

\* Mutants of HandlePing.  The update is made before the answer; or it is
\* started twice, by the middleware and by the handler.
HandlePingLocked(n) ==
    /\ At(n, "ping")
    /\ up[Pinged(n)]
    /\ holder[Pinged(n)] = NoHolder
    /\ holder' = [holder EXCEPT ![n].stage = "answered"]
    /\ Spawn(Pinged(n), n)
    /\ UNCHANGED <<up, table, task, call, tasks, faults, entered>>
HandlePingTwice(n) ==
    /\ At(n, "ping")
    /\ up[Pinged(n)]
    /\ holder' = [holder EXCEPT ![n].stage = "answered"]
    /\ waiting' = [waiting EXCEPT ![Pinged(n)][n] = @ + 2]
    /\ UNCHANGED <<up, table, task, call, tasks, faults, entered>>

\* The node that n pings: parseSrc, then handlePing, which takes no lock.
HandlePing(n) ==
    /\ At(n, "ping")
    /\ up[Pinged(n)]
    /\ holder' = [holder EXCEPT ![n].stage = "answered"]
    /\ Spawn(Pinged(n), n)
    /\ UNCHANGED <<up, table, task, call, tasks, faults, entered>>

\* The front contact has answered and goes to the tail.
PingReturns(n) ==
    /\ At(n, "answered")
    /\ table' = [table EXCEPT ![n][Bucket(n)] = MovedToTail(@, Head(@))]
    /\ Release(n)
    /\ UNCHANGED <<up, waiting, call, tasks, faults, entered>>

\* It has not, and the new contact takes its place.
Evict(n) ==
    /\ table' = [table EXCEPT ![n][Bucket(n)] = Append(Tail(@), holder[n].c)]
    /\ Release(n)
    /\ UNCHANGED <<up, waiting, call, tasks, entered>>

PingRefused(n) == At(n, "ping") /\ ~up[Pinged(n)] /\ Evict(n) /\ UNCHANGED faults

\* The timeout of the HTTP client, before or after the ping was handled.
PingTimeout(n) ==
    /\ At(n, "ping") \/ At(n, "answered")
    /\ faults < MaxFaults
    /\ faults' = faults + 1
    /\ Evict(n)

-----------------------------------------------------------------------------
(* Tasks and crashes *)

\* Bootstrap, or one tick of refresh: the contacts that a lookup has found are
\* entered one after the other.  A lookup returns at most K.
EnterContacts(n, S) ==
    /\ up[n] /\ n \in TaskNodes
    /\ tasks < MaxTasks
    /\ task[n] = <<>>
    /\ Cardinality(S) \in 1 .. K
    /\ \E s \in SetToSeqs(S) : task' = [task EXCEPT ![n] = s]
    /\ tasks' = tasks + 1
    /\ entered' = entered + Cardinality(S)
    /\ UNCHANGED <<up, table, waiting, holder, call, faults>>

Crash(n) ==
    /\ up[n]
    /\ faults < MaxFaults
    /\ up' = [up EXCEPT ![n] = FALSE]
    /\ table' = [table EXCEPT ![n] = << <<>> >>]
    /\ waiting' = [waiting EXCEPT ![n] = [c \in Nodes |-> 0]]
    /\ holder' = [holder EXCEPT ![n] = NoHolder]
    /\ task' = [task EXCEPT ![n] = <<>>]
    /\ call' = [i \in Calls |->
                   IF call[i].dst = n /\ call[i].stage = "rlock"
                   THEN [call[i] EXCEPT !.stage = "failed"] ELSE call[i]]
    /\ faults' = faults + 1
    /\ UNCHANGED <<tasks, entered>>

Restart(n) ==
    /\ ~up[n]
    /\ up' = [up EXCEPT ![n] = TRUE]
    /\ UNCHANGED <<table, waiting, holder, task, call, tasks, faults, entered>>

Step(n) ==
    Refresh(n) \/ Split(n) \/ Ping(n) \/ HandlePing(n) \/ PingReturns(n) \/ PingRefused(n)

Next ==
    \/ \E i \in Calls :
        \/ \E r \in Routes : Find(i, r[1], r[2])
        \/ RLock(i)
    \/ \E n \in Nodes :
        \/ \E c \in Nodes : Lock(n, c)
        \/ LockTask(n)
        \/ Step(n)
        \/ PingTimeout(n)
        \/ \E S \in SUBSET (Nodes \ {n}) : EnterContacts(n, S)
        \/ Crash(n)
        \/ Restart(n)

Spec == Init /\ [][Next]_vars

\* A goroutine that can go on does; the locks of Go starve neither readers nor
\* writers.  No timeout is needed: PingTimeout is not fair.
FairSpec ==
    /\ Spec
    /\ \A n \in Nodes :
        /\ WF_vars(Step(n))
        /\ WF_vars(\E c \in Nodes : Lock(n, c))
    /\ \A n \in TaskNodes : SF_vars(LockTask(n))
    /\ \A i \in Calls : SF_vars(RLock(i))

-----------------------------------------------------------------------------
(* Properties *)

\* However the nodes ping each other with their tables locked, no cycle of
\* nodes waits for its locks: every find RPC is answered, or its node faults,
\* and every Bootstrap and refresh gets through its contacts, without the help
\* of a timeout.
NobodyWaitsForever ==
    /\ \A i \in Calls : call[i].stage = "rlock" ~> call[i].stage \in {"answered", "failed"}
    /\ \A n \in TaskNodes : task[n] # <<>> ~> task[n] = <<>>

\* f counts things of several kinds; one member for each of them.
Units(f) == UNION {{<<x, k>> : k \in 1 .. f[x]} : x \in DOMAIN f}

\* What may still make a node ping another one: the goroutines that wait for
\* the write lock, the updates of goroutines whose ping nobody has handled yet,
\* and the contacts of tasks of which the same is true.
Goroutines == [p \in Nodes \X Nodes |-> waiting[p[1]][p[2]]]
Updating ==
    {n \in Nodes : (At(n, "locked") \/ At(n, "ping")) /\ holder[n].by = "rpc"}
Handled(n) == IF At(n, "answered") /\ holder[n].by = "task" THEN 1 ELSE 0
ToEnter == [n \in Nodes |-> Len(task[n]) - Handled(n)]
Started == {i \in Calls : call[i].stage # "idle"}

\* A ping makes its receiver update its table, and that update may ping again.
\* Such a chain never branches: at any time there are at most as many updates
\* under way in the whole network as find RPCs and tasks have started.
NoAmplification ==
    Cardinality(Units(Goroutines)) + Cardinality(Updating) + Cardinality(Units(ToEnter))
        <= Cardinality(Started) + entered
=============================================================================

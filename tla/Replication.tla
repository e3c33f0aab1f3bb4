---------------------------- MODULE Replication ----------------------------
(***************************************************************************)
(* How announcements of peers spread over the nodes of the DHT: the peer   *)
(* store of each node (src/dht/peer_store.go) and the handlers, RPCs and   *)
(* tasks that move announcements between stores (src/dht/node.go): a PUT   *)
(* with its upload check, a GET, the Store loop, republishing, caching.    *)
(*                                                                         *)
(* A store is the set of its announcements: a key without peers and a key  *)
(* that is not there are both "not found".  Which nodes a lookup finds is  *)
(* left open (Lookup is about that): any other node, or an error.          *)
(* A Store RPC is applied, or fails, or fails for the sender and is still  *)
(* applied later (net).  A node may lose its memory and start again.       *)
(***************************************************************************)
EXTENDS Naturals, FiniteSets

CONSTANTS
    Nodes,      \* the nodes of the DHT
    Keys,       \* the keys announced
    Peers,      \* the peers, [IP, Port, ASN] in the code
    Askers,     \* the GET requests that run at the same time
    Putters,    \* the PUT requests that run at the same time
    K,          \* config.K, the largest number of peers in an answer
    Expiry,     \* config.Expiry
    MaxTime,    \* bound: the clock stops here
    MaxPuts,    \* bound: announcements made
    MaxJobs,    \* bound: Store loops that run at the same time
    MaxLate     \* bound: Store RPCs under way without their sender

ASSUME BoundsAssumption ==
    /\ K \in Nat \ {0}
    /\ Expiry \in Nat
    /\ MaxTime \in Nat
ASSUME DistinctAssumption == "none" \notin Keys /\ Askers \cap Putters = {}

VARIABLES
    clock,      \* time.Now()
    data,       \* data[n]: the announcements in the peer store of n
    net,        \* Store RPCs whose sender gave up and that may still arrive
    jobs,       \* the Store loops that run
    req,        \* req[r]: the GET or PUT request r
    board,      \* history: every announcement made
    answer,     \* answer[r]: {} until the last GET of r is answered, then {its peers}
    uploaded    \* history: the keys of the PUTs with a valid upload key

vars == <<clock, data, net, jobs, req, board, answer, uploaded>>

Announcement == [key : Keys, peer : Peers, published : 0 .. MaxTime]

-----------------------------------------------------------------------------
(* The peer store *)

\* time.Now().After(p.Published.Add(expiry))
Expired(a) == clock > a.published + Expiry

Stored(n, k) == {a \in data[n] : a.key = k}
\* Mutant of Fresh: expired announcements are returned too.
FreshOrNot(n, k) == Stored(n, k)

Fresh(n, k) == {a \in Stored(n, k) : ~Expired(a)}

\* Mutant of Purge: one expired announcement takes the whole key with it.
PurgeKey(n, k) ==
    [data EXCEPT ![n] =
        IF \E a \in Stored(n, k) : Expired(a) THEN {a \in @ : a.key # k} ELSE @]

\* What get(k) leaves in the store; it returns Fresh(n, k), or an error if
\* that is empty.
Purge(n, k) == [data EXCEPT ![n] = {a \in @ : a.key = k => ~Expired(a)}]

\* Mutant of PurgeAll: republish purges nothing.
PurgeNothing(n) == data

\* What GetAll leaves in the store, and the pairs that it returns.
PurgeAll(n) == [data EXCEPT ![n] = {a \in @ : ~Expired(a)}]
GetAll(n) == {Fresh(n, k) : k \in Keys} \ {{}}

Put(n, S) == [data EXCEPT ![n] = @ \cup S]

-----------------------------------------------------------------------------
(* Requests *)

Idle == [stage |-> "idle"]

Requests == Askers \cup Putters

\* A request at node n for key k: a GET, or a PUT of peer p whose upload key
\* does not match, starts with FindPeers.
Find(n, k, p) ==
    [stage |-> "own", node |-> n, key |-> k, peer |-> p, since |-> clock, found |-> {}]

Get(r) ==
    /\ req[r] = Idle
    /\ \E n \in Nodes, k \in Keys : req' = [req EXCEPT ![r] = Find(n, k, "none")]
    /\ answer' = [answer EXCEPT ![r] = {}]
    /\ UNCHANGED <<clock, data, net, jobs, board, uploaded>>

\* handleKeyPut: the announcement is stored here, and in a goroutine of its
\* own at the nodes closest to the key.  Times are in nanoseconds: a peer never
\* announces a key twice at the same time.
Announce(n, k, p) ==
    LET a == [key |-> k, peer |-> p, published |-> clock] IN
    /\ a \notin board
    /\ Cardinality(board) < MaxPuts
    /\ Cardinality(jobs) < MaxJobs
    /\ board' = board \cup {a}
    /\ data' = Put(n, {a})
    /\ jobs' = jobs \cup {[kind |-> "put", node |-> n, queue |-> {{a}}, recs |-> {}, todo |-> {}]}

\* A PUT with the upload key, or to a node that needs none.
PutWithKey ==
    /\ \E n \in Nodes, k \in Keys, p \in Peers :
        /\ Announce(n, k, p)
        /\ uploaded' = uploaded \cup {k}
    /\ UNCHANGED <<clock, net, req, answer>>

\* validateUpload: without the key, the PUT must find peers for it first.
PutWithoutKey(r) ==
    /\ req[r] = Idle
    /\ \E n \in Nodes, k \in Keys, p \in Peers : req' = [req EXCEPT ![r] = Find(n, k, p)]
    /\ UNCHANGED <<clock, data, net, jobs, board, answer, uploaded>>

\* Mutant of OwnStore: a key that is in the store counts as found, even if all
\* of its announcements have expired.
OwnStoreKey(r) ==
    LET q == req[r] IN
    /\ q.stage = "own"
    /\ data' = Purge(q.node, q.key)
    /\ req' = [req EXCEPT ![r] =
                IF Stored(q.node, q.key) = {} THEN [q EXCEPT !.stage = "ask"]
                ELSE [q EXCEPT !.stage = "found", !.found = Fresh(q.node, q.key)]]
    /\ UNCHANGED <<clock, net, jobs, board, answer, uploaded>>

\* FindPeers looks into the node's own store, then asks on the network.
OwnStore(r) ==
    LET q == req[r] IN
    /\ q.stage = "own"
    /\ data' = Purge(q.node, q.key)
    /\ req' = [req EXCEPT ![r] =
                IF Fresh(q.node, q.key) = {} THEN [q EXCEPT !.stage = "ask"]
                ELSE [q EXCEPT !.stage = "found", !.found = Fresh(q.node, q.key)]]
    /\ UNCHANGED <<clock, net, jobs, board, answer, uploaded>>

\* handleFindPeers at another node m; a node without peers is only purged.  The
\* peers of the last node of the round to answer replace those of the others.
AskNode(r) ==
    LET q == req[r] IN
    /\ q.stage \in {"ask", "cache"}
    /\ \E m \in Nodes \ {q.node} :
        /\ data' = Purge(m, q.key)
        /\ req' = IF Fresh(m, q.key) = {} THEN req
                  ELSE [req EXCEPT ![r] = [q EXCEPT !.stage = "cache", !.found = Fresh(m, q.key)]]
    /\ UNCHANGED <<clock, net, jobs, board, answer, uploaded>>

\* The lookup found nobody, or nobody with peers: a 404 for a GET, and a 401
\* for a PUT.
FindFails(r) ==
    /\ req[r].stage = "ask"
    /\ req' = [req EXCEPT ![r] = Idle]
    /\ UNCHANGED <<clock, data, net, jobs, board, answer, uploaded>>

\* The outcomes of a Store RPC of the announcements S to one of the nodes D:
\* applied, lost, or given up by the sender and still under way.
StoreApplied(S, D) == (\E m \in D : data' = Put(m, S)) /\ UNCHANGED net
StoreLost == UNCHANGED <<data, net>>
StoreLate(S, D) ==
    /\ Cardinality(net) < MaxLate
    /\ \E m \in D : net' = net \cup {[dst |-> m, recs |-> S]}
    /\ UNCHANGED data

\* lookup sends the peers to one node without them, whose failure it ignores.
Cache(r) ==
    LET q == req[r] IN
    /\ q.stage = "cache"
    /\ \/ StoreApplied(q.found, Nodes \ {q.node})
       \/ StoreLost
       \/ StoreLate(q.found, Nodes \ {q.node})
    /\ req' = [req EXCEPT ![r] = [q EXCEPT !.stage = "keep"]]
    /\ UNCHANGED <<clock, jobs, board, answer, uploaded>>

\* Mutant of Keep: what is cached counts as published now.
KeepRenewed(r) ==
    LET q == req[r] IN
    /\ q.stage = "keep"
    /\ data' = Put(q.node, {[a EXCEPT !.published = clock] : a \in q.found})
    /\ req' = [req EXCEPT ![r] = [q EXCEPT !.stage = "found"]]
    /\ UNCHANGED <<clock, net, jobs, board, answer, uploaded>>

\* FindPeers caches the peers in the node's own store.
Keep(r) ==
    LET q == req[r] IN
    /\ q.stage = "keep"
    /\ data' = Put(q.node, q.found)
    /\ req' = [req EXCEPT ![r] = [q EXCEPT !.stage = "found"]]
    /\ UNCHANGED <<clock, net, jobs, board, answer, uploaded>>

\* The answers to a GET that found the announcements S: at most K of them.
AtMostK(S) ==
    {T \in SUBSET S : IF Cardinality(S) <= K THEN T = S ELSE Cardinality(T) = K}

GetReturns(r) ==
    /\ req[r].stage = "found"
    /\ \E T \in AtMostK(req[r].found) : answer' = [answer EXCEPT ![r] = {T}]
    /\ req' = [req EXCEPT ![r] = Idle]
    /\ UNCHANGED <<clock, data, net, jobs, board, uploaded>>

\* Mutant of PutAccepted: a PUT whose key was not found is accepted too.
PutAcceptedAnyway(r) ==
    /\ req[r].stage \in {"ask", "found"}
    /\ Announce(req[r].node, req[r].key, req[r].peer)
    /\ req' = [req EXCEPT ![r] = Idle]
    /\ UNCHANGED <<clock, net, answer, uploaded>>

PutAccepted(r) ==
    /\ req[r].stage = "found"
    /\ Announce(req[r].node, req[r].key, req[r].peer)
    /\ req' = [req EXCEPT ![r] = Idle]
    /\ UNCHANGED <<clock, net, answer, uploaded>>

-----------------------------------------------------------------------------
(* Store loops *)

\* The task republish wakes up; it is one goroutine per node.
Republish(n) ==
    /\ \A j \in jobs : ~(j.kind = "republish" /\ j.node = n)
    /\ data' = PurgeAll(n)
    /\ GetAll(n) = {} \/ Cardinality(jobs) < MaxJobs
    /\ jobs' = IF GetAll(n) = {} THEN jobs
               ELSE jobs \cup {[kind |-> "republish", node |-> n, queue |-> GetAll(n),
                                recs |-> {}, todo |-> {}]}
    /\ UNCHANGED <<clock, net, req, board, answer, uploaded>>

\* Job j goes on as i, or ends when nothing is left of it.
Becomes(j, i) ==
    jobs' = (jobs \ {j}) \cup (IF i.queue = {} /\ i.todo = {} THEN {} ELSE {i})

\* Store takes a pair and looks for the nodes to store it at.
StoreFinds(j) ==
    /\ j.todo = {}
    /\ \E S \in j.queue, D \in SUBSET (Nodes \ {j.node}) :
        Becomes(j, [j EXCEPT !.queue = @ \ {S}, !.recs = S, !.todo = D])
    /\ UNCHANGED <<clock, data, net, req, board, answer, uploaded>>

StoreSends(j) ==
    /\ \E m \in j.todo :
        /\ data' = Put(m, j.recs)
        /\ Becomes(j, [j EXCEPT !.todo = @ \ {m}])
    /\ UNCHANGED <<clock, net, req, board, answer, uploaded>>

\* The first error ends Store; republish goes on with its next pair.
StoreFails(j) ==
    /\ j.todo # {}
    /\ StoreLost \/ StoreLate(j.recs, j.todo)
    /\ Becomes(j, [j EXCEPT !.todo = {}])
    /\ UNCHANGED <<clock, req, board, answer, uploaded>>

-----------------------------------------------------------------------------
(* Environment *)

\* handleStore of an RPC whose sender gave up.
Arrives ==
    /\ \E x \in net : data' = Put(x.dst, x.recs) /\ net' = net \ {x}
    /\ UNCHANGED <<clock, jobs, req, board, answer, uploaded>>

\* The node's process ends and starts again with an empty store.
Restart(n) ==
    /\ data' = [data EXCEPT ![n] = {}]
    /\ jobs' = {j \in jobs : j.node # n}
    /\ req' = [r \in Requests |->
                IF req[r] # Idle /\ req[r].node = n THEN Idle ELSE req[r]]
    /\ UNCHANGED <<clock, net, board, answer, uploaded>>

Tick ==
    /\ clock < MaxTime
    /\ clock' = clock + 1
    /\ UNCHANGED <<data, net, jobs, req, board, answer, uploaded>>

-----------------------------------------------------------------------------

Init ==
    /\ clock = 0
    /\ data = [n \in Nodes |-> {}]
    /\ net = {}
    /\ jobs = {}
    /\ req = [r \in Requests |-> Idle]
    /\ board = {}
    /\ answer = [r \in Askers |-> {}]
    /\ uploaded = {}

FindStep(r) ==
    /\ req[r] # Idle
    /\ OwnStore(r) \/ AskNode(r) \/ FindFails(r) \/ Cache(r) \/ Keep(r)

GetStep(r) == Get(r) \/ (req[r] # Idle /\ GetReturns(r))
PutStep(r) == PutWithoutKey(r) \/ (req[r] # Idle /\ PutAccepted(r))
JobStep(n) ==
    \E j \in jobs : j.node = n /\ (StoreFinds(j) \/ StoreSends(j) \/ StoreFails(j))

Next ==
    \/ \E r \in Requests : FindStep(r)
    \/ \E r \in Askers : GetStep(r)
    \/ \E r \in Putters : PutStep(r)
    \/ PutWithKey
    \/ \E n \in Nodes : Republish(n) \/ JobStep(n) \/ Restart(n)
    \/ Arrives
    \/ Tick

Spec == Init /\ [][Next]_vars

\* Time passes, the ticker of republish fires again and again, and a Store loop
\* goes on: its RPCs end because the RPC client has a timeout.
Fairness ==
    /\ WF_vars(Tick)
    /\ \A n \in Nodes : WF_vars(JobStep(n)) /\ WF_vars(Republish(n))

FairSpec == Spec /\ Fairness

-----------------------------------------------------------------------------
(* Properties *)

\* Messages, Store loops and running requests that carry announcements of B.
Message(B) == [dst : Nodes, recs : SUBSET B]
Job(B) == [kind : {"put", "republish"}, node : Nodes, queue : SUBSET SUBSET B,
           recs : SUBSET B, todo : SUBSET Nodes]
Finding(B) == [stage : {"own", "ask", "cache", "keep", "found"}, node : Nodes, key : Keys,
               peer : Peers \cup {"none"}, since : 0 .. MaxTime, found : SUBSET B]

TypeOK ==
    /\ clock \in 0 .. MaxTime
    /\ data \in [Nodes -> SUBSET Announcement]
    /\ net \subseteq Message(Announcement)
    /\ jobs \subseteq Job(Announcement)
    /\ req \in [Requests -> {Idle} \cup Finding(Announcement)]
    /\ board \subseteq Announcement
    /\ answer \in [Askers -> SUBSET SUBSET Announcement]
    /\ uploaded \subseteq Keys

\* Nodes invent nothing and prolong nothing: whatever they hold, forward, cache
\* or are about to republish is an announcement that some peer made, with the
\* time at which it was made.
Provenance ==
    /\ data \in [Nodes -> SUBSET board]
    /\ net \subseteq Message(board)
    /\ jobs \subseteq Job(board)
    /\ req \in [Requests -> {Idle} \cup Finding(board)]
    /\ \A a \in board : a.published <= clock

\* Upload protection holds in the whole network: no announcement exists of a
\* key that nobody ever put with the upload key, although the check of one node
\* believes what other nodes, their caches and late messages tell it.
OnlyUploadedKeys == \A a \in board : a.key \in uploaded

\* A store forgets an announcement only when it has expired or when the node
\* restarts: no get, republish, cache or late Store drops a valid one.
ValidKept ==
    [][\A n \in Nodes : Restart(n) \/ \A a \in data[n] \ data'[n] : Expired(a)]_vars

\* Expired announcements disappear from every store and do not come back, even
\* though caching and late messages can still put them there.
Purged == <>[](clock = MaxTime /\ \A n \in Nodes : \A a \in data[n] : ~Expired(a))

\* The network of nodes implements the one board of announcements: a GET
\* finds nothing, or returns announcements of its key that were valid when it
\* asked, and never an empty list, on which Client.GetKey panics.
Board == INSTANCE PeerBoard WITH
    asked <- [r \in Askers |-> IF req[r] = Idle THEN [key |-> "none", since |-> 0]
                               ELSE [key |-> req[r].key, since |-> req[r].since]]
ImplementsBoard == Board!BoardSpec
=============================================================================

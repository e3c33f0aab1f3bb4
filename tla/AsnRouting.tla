----------------------------- MODULE AsnRouting -----------------------------
(***************************************************************************)
(* How a DHT node steers traffic by autonomous system: the prefixes loaded *)
(* by the command line (src/cmd/inu/dht.go) and by UpdateASN, the numbers  *)
(* that PUT and GET look up in the trie under its read-write lock, the     *)
(* order of the peers in the answer to a GET (src/dht/node.go), and the    *)
(* peer that the asking daemon downloads from (src/daemon.go).             *)
(*                                                                         *)
(* One node and one key.  What other nodes hold of the key, numbered by    *)
(* their own tries, is Remote; how announcements spread and expire, and    *)
(* the upload check of a PUT, is the subject of Replication.               *)
(***************************************************************************)
EXTENDS AsnTrie, SequencesExt

CONSTANTS
    K,              \* config.K, the most peers of an answer
    Hosts,          \* addresses that requests come from
    Lines,          \* [prefix, asn]: what the mapping file or UpdateASN gives
    NotIPv4,        \* the prefix of a line that is no IPv4 prefix
    NoLine,         \* no UpdateASN is waiting
    Requests,       \* requests to the node
    Remote,         \* peers of the key that other nodes know
    NoPeer,         \* a download that has no peer to ask
    MaxLines,       \* bound on the lines loaded
    MaxUpdates      \* bound on the calls of UpdateASN

ASSUME KAssumption == K \in Nat \ {0}
ASSUME HostsAssumption == Hosts \subseteq Addresses
ASSUME LinesAssumption == \A l \in Lines : l.prefix # NotIPv4 => l.prefix \in Seq(Bits)
ASSUME RemoteAssumption == IsFiniteSet(Remote)

VARIABLES
    phase,      \* the process: "loading" the file, "serving", "exited"
    trie,       \* n.asnTrie
    table,      \* history: the last number given for each prefix
    readers,    \* requests that hold asnMut for reading
    update,     \* the line of the UpdateASN that waits for asnMut
    peers,      \* the node's peer store: the peers of the key
    req,        \* the requests
    lines, updates   \* counters for the bounds

vars == <<phase, trie, table, readers, update, peers, req, lines, updates>>
asnVars == <<phase, trie, table, update, lines, updates>>

NewRequest == [op |-> "none", ip |-> NoPeer, stage |-> "idle", asn |-> NoASN,
               found |-> {}, answer |-> <<>>, from |-> NoPeer]

Init ==
    /\ phase = "loading"
    /\ trie = newTrie
    /\ table = [p \in {} |-> NoASN]
    /\ readers = {}
    /\ update = NoLine
    /\ peers = {}
    /\ req = [r \in Requests |-> NewRequest]
    /\ lines = 0 /\ updates = 0

-----------------------------------------------------------------------------
(* The mapping *)

Enter(l) ==
    /\ trie' = Insert(trie, l.prefix, l.asn)
    /\ table' = [p \in DOMAIN table \cup {l.prefix} |->
                    IF p = l.prefix THEN l.asn ELSE table[p]]

\* parseNode, one line of the file: nobody else knows the node yet, so the
\* lock is free.
LoadLine(l) ==
    /\ phase = "loading"
    /\ lines < MaxLines
    /\ l.prefix # NotIPv4
    /\ Enter(l)
    /\ lines' = lines + 1
    /\ UNCHANGED <<phase, readers, update, peers, req, updates>>

\* Insert refuses the prefix, and the command ends with its error.
LoadFails(l) ==
    /\ phase = "loading"
    /\ l.prefix = NotIPv4
    /\ phase' = "exited"
    /\ UNCHANGED <<trie, table, readers, update, peers, req, lines, updates>>

Start ==
    /\ phase = "loading"
    /\ phase' = "serving"
    /\ UNCHANGED <<trie, table, readers, update, peers, req, lines, updates>>

\* UpdateASN is called on the running node, and asks for the write lock.
UpdateASN(l) ==
    /\ phase = "serving"
    /\ updates < MaxUpdates
    /\ update = NoLine
    /\ update' = l
    /\ updates' = updates + 1
    /\ UNCHANGED <<phase, trie, table, readers, peers, req, lines>>

\* The write lock is granted when the last reader is gone; the call inserts,
\* or returns the error, and unlocks.
UpdateLocked ==
    /\ update # NoLine
    /\ readers = {}
    /\ IF update.prefix = NotIPv4 THEN UNCHANGED <<trie, table>> ELSE Enter(update)
    /\ update' = NoLine
    /\ UNCHANGED <<phase, readers, peers, req, lines, updates>>

-----------------------------------------------------------------------------
(* Requests *)

At(r, stage) == req[r].stage = stage

Arrive(r, op, ip) ==
    /\ phase = "serving"
    /\ At(r, "idle")
    /\ req' = [req EXCEPT ![r].op = op, ![r].ip = ip, ![r].stage = "rlock"]
    /\ UNCHANGED <<asnVars, readers, peers>>

\* A writer that waits keeps new readers out.
RLock(r) ==
    /\ At(r, "rlock")
    /\ update = NoLine
    /\ readers' = readers \cup {r}
    /\ req' = [req EXCEPT ![r].stage = "match"]
    /\ UNCHANGED <<asnVars, peers>>

\* Mutant of MatchASN: the lock is kept if the address is in no prefix.
MatchKeepsLock(r) ==
    /\ At(r, "match")
    /\ req' = [req EXCEPT ![r].asn = Match(trie, req[r].ip), ![r].stage = "act"]
    /\ readers' = IF Match(trie, req[r].ip) = NoASN THEN readers ELSE readers \ {r}
    /\ UNCHANGED <<asnVars, peers>>

\* asn, _ := n.asnTrie.Match(ip); n.asnMut.RUnlock().  If bitAt panics, the
\* HTTP server recovers from it and closes the connection; RUnlock is not
\* deferred, so the lock stays.
MatchASN(r) ==
    /\ At(r, "match")
    /\ IF Overruns(trie, req[r].ip)
       THEN /\ req' = [req EXCEPT ![r].stage = "aborted"]
            /\ UNCHANGED readers
       ELSE /\ req' = [req EXCEPT ![r].asn = Match(trie, req[r].ip), ![r].stage = "act"]
            /\ readers' = readers \ {r}
    /\ UNCHANGED <<asnVars, peers>>

\* handleKeyPut stores the peer with the number of its address.  The time of
\* publication makes the peers of two PUTs different: r stands for it.
KeyPut(r) ==
    /\ At(r, "act")
    /\ req[r].op = "put"
    /\ peers' = peers \cup {[ip |-> req[r].ip, asn |-> req[r].asn, published |-> r]}
    /\ req' = [req EXCEPT ![r].stage = "done"]
    /\ UNCHANGED <<asnVars, readers>>

\* handleStore: another node sends a peer.
StoreRPC(p) ==
    /\ phase = "serving"
    /\ peers' = peers \cup {p}
    /\ UNCHANGED <<asnVars, readers, req>>

\* slices.SortStableFunc with the handler's comparator, which says "less" of
\* every peer a of the requester's system, whatever b is.  The insertion sort
\* that the library uses takes such a peer past all before it, to the front.
SortPeers(asn, ps) ==
    LET sorted[i \in 0 .. Len(ps)] ==
            IF i = 0 THEN <<>>
            ELSE IF ps[i].asn = asn THEN <<ps[i]>> \o sorted[i - 1]
                                    ELSE Append(sorted[i - 1], ps[i])
    IN  sorted[Len(ps)]

Cut(ps) == SubSeq(ps, 1, IF Len(ps) > K THEN K ELSE Len(ps))

\* Mutant of Answer: it is cut to K before it is sorted.
AnswerCutFirst(asn, ps) == SortPeers(asn, Cut(ps))

Answer(asn, ps) == Cut(SortPeers(asn, ps))

\* handleKeyGet: FindPeers returns the node's own peers, if there are any, or
\* what the network has, and keeps it.  They come in the order of a loop over a
\* map.
KeyGet(r) ==
    /\ At(r, "act")
    /\ req[r].op = "get"
    /\ \E F \in IF peers # {} THEN {peers} ELSE SUBSET Remote \ {{}} :
        /\ peers' = F
        /\ \E ps \in SetToSeqs(F) :
            req' = [req EXCEPT ![r].stage = "answered", ![r].found = F,
                               ![r].answer = Answer(req[r].asn, ps)]
    /\ UNCHANGED <<asnVars, readers>>

\* Nobody has peers for the key: 404.
KeyNotFound(r) ==
    /\ At(r, "act")
    /\ req[r].op = "get"
    /\ peers = {}
    /\ req' = [req EXCEPT ![r].stage = "notFound"]
    /\ UNCHANGED <<asnVars, readers, peers>>

-----------------------------------------------------------------------------
(* The daemon that asked *)

\* index: the first entry with the daemon's own address, 0 if there is none.
index(ps, ip) ==
    LET own == {i \in DOMAIN ps : ps[i].ip = ip}
    IN  IF own = {} THEN 0 ELSE Min(own)

\* Steps 1 and 2 of download: the first peer left when one entry of the
\* daemon's own is taken out.
ChoosePeer(r) ==
    /\ At(r, "answered")
    /\ LET i == index(req[r].answer, req[r].ip)
           ps == IF i = 0 THEN req[r].answer ELSE RemoveAt(req[r].answer, i)
       IN  req' = [req EXCEPT ![r].stage = "done", ![r].answer = <<>>,
                              ![r].from = IF ps = <<>> THEN NoPeer ELSE Head(ps)]
    /\ UNCHANGED <<asnVars, readers, peers>>

Handle(r) ==
    \/ RLock(r)
    \/ MatchASN(r)
    \/ KeyPut(r)
    \/ KeyGet(r)
    \/ KeyNotFound(r)
    \/ ChoosePeer(r)

Next ==
    \/ \E l \in Lines : LoadLine(l) \/ LoadFails(l) \/ UpdateASN(l)
    \/ Start
    \/ UpdateLocked
    \/ \E r \in Requests :
        \/ \E op \in {"get", "put"}, ip \in Hosts : Arrive(r, op, ip)
        \/ Handle(r)
    \/ \E p \in Remote : StoreRPC(p)

Spec == Init /\ [][Next]_vars

\* Handlers and callers of UpdateASN are scheduled.
FairSpec ==
    /\ Spec
    /\ WF_vars(UpdateLocked)
    /\ \A r \in Requests : WF_vars(Handle(r))

-----------------------------------------------------------------------------
(* Properties *)

\* Whatever prefixes were entered, in whatever order, overlapping or given
\* twice or with the number 0, the trie finds for every address the number of
\* the longest prefix that has one.
MatchesLongestPrefix ==
    \A a \in Addresses : Match(trie, a) = LongestPrefixMatch(table, a)

\* The purpose of the system: a download leaves the requester's autonomous
\* system only if no other host of it was known for the key.  The cut to K
\* peers, the requester's own announcements in front and the removal of one of
\* them must not hide a local host.
StaysLocal ==
    \A r \in Requests :
        At(r, "done") /\ req[r].op = "get" /\ req[r].from # NoPeer
            /\ req[r].from.asn # req[r].asn
        => \A p \in req[r].found : p.asn = req[r].asn => p.ip = req[r].ip

\* Every request gets an answer: the lock of the trie is released by each
\* reader and each UpdateASN, so no handler waits for it forever.
RequestsAnswered ==
    \A r \in Requests : At(r, "rlock") ~> req[r].stage \in {"answered", "done", "notFound"}

\* Match continues "until we reach a leaf": it never goes on behind the last
\* bit of the address.
MatchEndsAtLeaf == \A r \in Requests : ~At(r, "aborted")
=============================================================================

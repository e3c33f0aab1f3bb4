------------------------- MODULE ReplicationProofs -------------------------
(***************************************************************************)
(* Proofs about Replication: the provenance of announcements, upload       *)
(* protection, the life of valid announcements in a store, and that the    *)
(* network of nodes implements PeerBoard.                                  *)
(***************************************************************************)
EXTENDS Replication, FiniteSetTheorems, TLAPS

\* What a running request has found: announcements of its key that were valid
\* when it began, some of them once it is past the lookup.  A PUT has a peer.
Sound(r) ==
    req[r] # Idle =>
        /\ r \in Putters => req[r].peer \in Peers
        /\ req[r].since <= clock
        /\ req[r].stage \in {"cache", "keep", "found"} => req[r].found # {}
        /\ \A a \in req[r].found : a.key = req[r].key /\ req[r].since <= a.published + Expiry

Requesting == \A r \in Requests : Sound(r)

\* The inductive invariant.
IInv == TypeOK /\ Provenance /\ OnlyUploadedKeys /\ Requesting

-----------------------------------------------------------------------------

\* Store loops and messages of some announcements are ones of more of them.
LEMMA Grows ==
    ASSUME NEW B, NEW C, B \subseteq C
    PROVE  /\ Message(B) \subseteq Message(C)
           /\ Job(B) \subseteq Job(C)
           /\ Finding(B) \subseteq Finding(C)
  BY DEF Message, Job, Finding

\* A purge and a get of the store keep to what is in it.
LEMMA PurgeType ==
    ASSUME NEW B, data \in [Nodes -> SUBSET B], NEW n \in Nodes, NEW k
    PROVE  /\ Purge(n, k) \in [Nodes -> SUBSET B]
           /\ PurgeAll(n) \in [Nodes -> SUBSET B]
           /\ Fresh(n, k) \subseteq B
           /\ GetAll(n) \subseteq SUBSET B
  BY DEF Purge, PurgeAll, Fresh, Stored, GetAll

\* A put adds its announcements and nothing else.
LEMMA PutType ==
    ASSUME NEW B, data \in [Nodes -> SUBSET B], NEW n \in Nodes, NEW S \in SUBSET B
    PROVE  Put(n, S) \in [Nodes -> SUBSET B]
  BY DEF Put

\* A job that goes on as a job leaves only jobs.
LEMMA BecomesType ==
    ASSUME NEW B, jobs \subseteq Job(B), NEW j, NEW i \in Job(B), Becomes(j, i)
    PROVE  jobs' \subseteq Job(B)
  BY DEF Becomes

-----------------------------------------------------------------------------

\* An announcement at node n extends the board, the store and the jobs.
LEMMA AnnounceStep ==
    ASSUME IInv, NEW n \in Nodes, NEW k \in Keys, NEW p \in Peers, Announce(n, k, p),
           UNCHANGED clock
    PROVE  /\ board \subseteq board' /\ board' \subseteq Announcement
           /\ data' \in [Nodes -> SUBSET board']
           /\ jobs' \subseteq Job(board')
           /\ \A a \in board' : a.published <= clock'
           /\ \A a \in board' : a \in board \/ a.key = k
  <1> DEFINE a == [key |-> k, peer |-> p, published |-> clock]
             i == [kind |-> "put", node |-> n, queue |-> {{a}}, recs |-> {}, todo |-> {}]
  <1>1. a \in Announcement /\ a.published = clock /\ a.key = k
    BY DEF IInv, TypeOK, Announcement
  <1>2. board' = board \cup {a} /\ data' = Put(n, {a}) /\ jobs' = jobs \cup {i}
    BY DEF Announce
  <1>3. data \in [Nodes -> SUBSET board'] /\ {a} \in SUBSET board'
    BY <1>2 DEF IInv, Provenance
  <1>4. data' \in [Nodes -> SUBSET board']
    <2> HIDE DEF a
    <2> QED  BY <1>2, <1>3, PutType
  <1>5. i \in Job(board')
    <2> HIDE DEF a
    <2> QED  BY <1>2 DEF Job
  <1>6. Job(board) \subseteq Job(board')
    <2> HIDE DEF a
    <2> QED  BY <1>2, Grows
  <1>7. jobs' \subseteq Job(board')
    <2> HIDE DEF a, i
    <2> QED  BY <1>2, <1>5, <1>6 DEF IInv, Provenance
  <1>8. clock \in Nat
    BY BoundsAssumption DEF IInv, TypeOK
  <1> HIDE DEF a, i
  <1>9. board \subseteq board' /\ board' \subseteq Announcement
    BY <1>1, <1>2 DEF IInv, TypeOK
  <1>10. \A b \in board' : b.published <= clock'
    BY <1>1, <1>2, <1>8 DEF IInv, Provenance
  <1>11. \A b \in board' : b \in board \/ b.key = k
    BY <1>1, <1>2
  <1> QED  BY <1>4, <1>7, <1>9, <1>10, <1>11

\* Every step of the invariant's parts from the parts that a step changes.
LEMMA FromProvenance ==
    ASSUME IInv,
           clock' \in 0 .. MaxTime, clock <= clock',
           board \subseteq board', board' \subseteq Announcement,
           \A a \in board' : a.published <= clock',
           \A a \in board' : a.key \in uploaded',
           uploaded' \subseteq Keys,
           data' \in [Nodes -> SUBSET board'],
           net' \subseteq Message(board'),
           jobs' \subseteq Job(board'),
           req' \in [Requests -> {Idle} \cup Finding(board')],
           answer' \in [Askers -> SUBSET SUBSET Announcement],
           Requesting'
    PROVE  IInv'
  <1>1. /\ Message(board') \subseteq Message(Announcement)
        /\ Job(board') \subseteq Job(Announcement)
        /\ Finding(board') \subseteq Finding(Announcement)
    BY Grows
  <1>2. (Announcement = Announcement')
    BY DEF Announcement
  <1>3. TypeOK'
    <2>1. data' \in [Nodes -> SUBSET Announcement]
      OBVIOUS
    <2>2. req' \in [Requests -> {Idle} \cup Finding(Announcement)]
      BY <1>1
    <2> QED  BY <1>1, <1>2, <2>1, <2>2 DEF TypeOK
  <1>4. Provenance' /\ OnlyUploadedKeys'
    BY DEF Provenance, OnlyUploadedKeys
  <1> QED  BY <1>3, <1>4 DEF IInv

\* Request r becomes q, a sound one or an idle one.
LEMMA RequestStep ==
    ASSUME IInv, UNCHANGED clock, NEW r \in Requests, NEW q \in {Idle} \cup Finding(board),
           req' = [req EXCEPT ![r] = q],
           q # Idle =>
             /\ r \in Putters => q.peer \in Peers
             /\ q.since <= clock
             /\ q.stage \in {"cache", "keep", "found"} => q.found # {}
             /\ \A a \in q.found : a.key = q.key /\ q.since <= a.published + Expiry
    PROVE  /\ req' \in [Requests -> {Idle} \cup Finding(board)]
           /\ Requesting'
  <1>1. req \in [Requests -> {Idle} \cup Finding(board)]
    BY DEF IInv, Provenance
  <1>2. req' \in [Requests -> {Idle} \cup Finding(board)]
    BY <1>1
  <1>3. ASSUME NEW s \in Requests  PROVE Sound(s)'
    <2>1. CASE s = r
      <3>1. req'[s] = q
        BY <1>1, <2>1
      <3> QED  BY <3>1, <2>1 DEF Sound
    <2>2. CASE s # r
      <3>1. req'[s] = req[s]
        BY <1>1, <2>2
      <3>2. Sound(s)
        BY DEF IInv, Requesting
      <3> QED  BY <3>1, <3>2 DEF Sound
    <2> QED  BY <2>1, <2>2
  <1> QED  BY <1>2, <1>3 DEF Requesting

\* No request changes.
LEMMA RequestsStay ==
    ASSUME IInv, UNCHANGED <<clock, req>>
    PROVE  /\ req' \in [Requests -> {Idle} \cup Finding(board)]
           /\ Requesting'
  <1>1. Requesting
    BY DEF IInv
  <1>2. Requesting'
    BY <1>1 DEF Requesting, Sound
  <1> QED  BY <1>2 DEF IInv, Provenance

\* A step that makes no announcement.
LEMMA NoAnnouncement ==
    ASSUME IInv, UNCHANGED <<clock, board, uploaded>>,
           data' \in [Nodes -> SUBSET board],
           net' \subseteq Message(board),
           jobs' \subseteq Job(board),
           req' \in [Requests -> {Idle} \cup Finding(board)],
           answer' \in [Askers -> SUBSET SUBSET Announcement],
           Requesting'
    PROVE  IInv'
  <1>1. clock' \in 0 .. MaxTime /\ clock <= clock'
    BY BoundsAssumption DEF IInv, TypeOK
  <1>2. board \subseteq board' /\ board' \subseteq Announcement /\ uploaded' \subseteq Keys
    BY DEF IInv, TypeOK
  <1>3. \A a \in board' : a.published <= clock' /\ a.key \in uploaded'
    BY DEF IInv, Provenance, OnlyUploadedKeys
  <1> QED  BY <1>1, <1>2, <1>3, FromProvenance

\* What a store returns for a key, at a time after the request began.
LEMMA FreshIsSound ==
    ASSUME IInv, NEW n \in Nodes, NEW k, NEW t \in 0 .. MaxTime, t <= clock
    PROVE  \A a \in Fresh(n, k) : a.key = k /\ t <= a.published + Expiry
  <1> SUFFICES ASSUME NEW a \in Fresh(n, k)
               PROVE  a.key = k /\ t <= a.published + Expiry
    OBVIOUS
  <1>1. a \in data[n] /\ a.key = k /\ ~(clock > a.published + Expiry)
    BY DEF Fresh, Stored, Expired
  <1>2. a.published \in Nat /\ clock \in Nat /\ Expiry \in Nat
    BY <1>1, BoundsAssumption DEF IInv, TypeOK, Announcement
  <1> QED  BY <1>1, <1>2

-----------------------------------------------------------------------------
(* The steps of a request. *)

LEMMA FindStepInv ==
    ASSUME IInv, NEW r \in Requests, FindStep(r)
    PROVE  IInv'
  <1> DEFINE q == req[r]
  <1>1. q \in Finding(board) /\ q # Idle /\ Sound(r)
    BY DEF FindStep, IInv, Provenance, Requesting
  <1>2. /\ data \in [Nodes -> SUBSET board] /\ net \subseteq Message(board)
        /\ jobs \subseteq Job(board) /\ answer \in [Askers -> SUBSET SUBSET Announcement]
    BY DEF IInv, Provenance, TypeOK
  <1>3. /\ q.node \in Nodes /\ q.key \in Keys /\ q.since \in 0 .. MaxTime
        /\ q.since <= clock /\ q.found \subseteq board
    BY <1>1 DEF Finding, Sound
  <1>4. CASE OwnStore(r)
    <2>1. /\ Fresh(q.node, q.key) \subseteq board
          /\ Purge(q.node, q.key) \in [Nodes -> SUBSET board]
      BY <1>2, <1>3 DEF Purge, Fresh, Stored
    <2>2. \A a \in Fresh(q.node, q.key) : a.key = q.key /\ q.since <= a.published + Expiry
      BY <1>3, FreshIsSound
    <2>3. CASE Fresh(q.node, q.key) = {}
      <3> DEFINE p == [q EXCEPT !.stage = "ask"]
      <3>1. p \in Finding(board) /\ p # Idle
        BY <1>1 DEF Finding, Idle
      <3>2. /\ p.peer = q.peer /\ p.since = q.since /\ p.stage = "ask" /\ p.found = q.found
            /\ p.key = q.key
        BY <1>1 DEF Finding
      <3>3. req' = [req EXCEPT ![r] = p] /\ UNCHANGED clock
        BY <1>4, <2>3 DEF OwnStore
      <3> HIDE DEF p
      <3>4. req' \in [Requests -> {Idle} \cup Finding(board)] /\ Requesting'
        BY <3>1, <3>2, <3>3, <1>1, RequestStep DEF Sound
      <3> QED  BY <3>4, <1>2, <1>4, <2>1, NoAnnouncement DEF OwnStore
    <2>4. CASE Fresh(q.node, q.key) # {}
      <3> DEFINE p == [q EXCEPT !.stage = "found", !.found = Fresh(q.node, q.key)]
      <3>1. p \in Finding(board) /\ p # Idle
        BY <1>1, <2>1 DEF Finding, Idle
      <3>2. /\ p.peer = q.peer /\ p.since = q.since /\ p.found = Fresh(q.node, q.key)
            /\ p.key = q.key
        BY <1>1 DEF Finding
      <3>3. req' = [req EXCEPT ![r] = p] /\ UNCHANGED clock
        BY <1>4, <2>4 DEF OwnStore
      <3> HIDE DEF p
      <3>4. req' \in [Requests -> {Idle} \cup Finding(board)] /\ Requesting'
        BY <3>1, <3>2, <3>3, <1>1, <2>2, <2>4, RequestStep DEF Sound
      <3> QED  BY <3>4, <1>2, <1>4, <2>1, NoAnnouncement DEF OwnStore
    <2> QED  BY <2>3, <2>4
  <1>5. CASE AskNode(r)
    <2>0. PICK m \in Nodes \ {q.node} :
            /\ data' = Purge(m, q.key)
            /\ req' = IF Fresh(m, q.key) = {} THEN req
                      ELSE [req EXCEPT ![r] = [q EXCEPT !.stage = "cache", !.found = Fresh(m, q.key)]]
      BY <1>5 DEF AskNode
    <2>1. /\ Fresh(m, q.key) \subseteq board
          /\ Purge(m, q.key) \in [Nodes -> SUBSET board]
      <3>1. data \in [Nodes -> SUBSET board] /\ m \in Nodes
        BY <1>2
      <3> QED  BY <3>1 DEF Purge, Fresh, Stored
    <2>2. \A a \in Fresh(m, q.key) : a.key = q.key /\ q.since <= a.published + Expiry
      BY <1>3, FreshIsSound
    <2>3. CASE Fresh(m, q.key) = {}
      <3>1. req' \in [Requests -> {Idle} \cup Finding(board)] /\ Requesting'
        BY <2>0, <2>3, <1>5, RequestsStay DEF AskNode
      <3> QED  BY <3>1, <1>2, <1>5, <2>0, <2>1, NoAnnouncement DEF AskNode
    <2>4. CASE Fresh(m, q.key) # {}
      <3> DEFINE p == [q EXCEPT !.stage = "cache", !.found = Fresh(m, q.key)]
      <3>1. p \in Finding(board) /\ p # Idle
        BY <1>1, <2>1 DEF Finding, Idle
      <3>2. /\ p.peer = q.peer /\ p.since = q.since /\ p.found = Fresh(m, q.key)
            /\ p.key = q.key
        BY <1>1 DEF Finding
      <3>3. req' = [req EXCEPT ![r] = p] /\ UNCHANGED clock
        BY <1>5, <2>0, <2>4 DEF AskNode
      <3> HIDE DEF p
      <3>4. req' \in [Requests -> {Idle} \cup Finding(board)] /\ Requesting'
        BY <3>1, <3>2, <3>3, <1>1, <2>2, <2>4, RequestStep DEF Sound
      <3> QED  BY <3>4, <1>2, <1>5, <2>0, <2>1, NoAnnouncement DEF AskNode
    <2> QED  BY <2>3, <2>4
  <1>6. CASE FindFails(r)
    <2>1. req' \in [Requests -> {Idle} \cup Finding(board)] /\ Requesting'
      BY <1>6, RequestStep DEF FindFails
    <2> QED  BY <2>1, <1>2, <1>6, NoAnnouncement DEF FindFails
  <1>7. ASSUME NEW st \in {"keep", "found"}, UNCHANGED clock, q.stage \in {"cache", "keep"},
               req' = [req EXCEPT ![r] = [q EXCEPT !.stage = st]]
        PROVE  req' \in [Requests -> {Idle} \cup Finding(board)] /\ Requesting'
    <2> DEFINE p == [q EXCEPT !.stage = st]
    <2>1. p \in Finding(board) /\ p # Idle
      BY <1>1 DEF Finding, Idle
    <2>2. /\ p.peer = q.peer /\ p.since = q.since /\ p.found = q.found
          /\ p.key = q.key
      BY <1>1 DEF Finding
    <2>3. req' = [req EXCEPT ![r] = p]
      BY <1>7
    <2> HIDE DEF p
    <2> QED  BY <2>1, <2>2, <2>3, <1>1, <1>7, RequestStep, ZenonT(30) DEF Sound
  <1>8. CASE Cache(r)
    <2>1. req' \in [Requests -> {Idle} \cup Finding(board)] /\ Requesting'
      BY <1>7, <1>8 DEF Cache
    <2>2. data' \in [Nodes -> SUBSET board] /\ net' \subseteq Message(board)
      <3>1. CASE StoreApplied(q.found, Nodes \ {q.node})
        <4>1. data \in [Nodes -> SUBSET board] /\ q.found \in SUBSET board
          BY <1>2, <1>3
        <4>2. data' \in [Nodes -> SUBSET board]
          BY <4>1, <3>1, PutType DEF StoreApplied
        <4> QED  BY <4>2, <3>1, <1>2 DEF StoreApplied
      <3>2. CASE StoreLost
        BY <3>2, <1>2 DEF StoreLost
      <3>3. CASE StoreLate(q.found, Nodes \ {q.node})
        <4>1. PICK m \in Nodes : net' = net \cup {[dst |-> m, recs |-> q.found]}
          BY <3>3 DEF StoreLate
        <4>2. [dst |-> m, recs |-> q.found] \in Message(board)
          BY <1>3 DEF Message
        <4> QED  BY <4>1, <4>2, <3>3, <1>2 DEF StoreLate
      <3> QED  BY <1>8, <3>1, <3>2, <3>3 DEF Cache
    <2> QED  BY <2>1, <2>2, <1>2, <1>8, NoAnnouncement DEF Cache
  <1>9. CASE Keep(r)
    <2>1. req' \in [Requests -> {Idle} \cup Finding(board)] /\ Requesting'
      BY <1>7, <1>9 DEF Keep
    <2>2. Put(q.node, q.found) \in [Nodes -> SUBSET board]
      BY <1>2, <1>3, PutType
    <2> QED  BY <2>1, <2>2, <1>2, <1>9, NoAnnouncement DEF Keep
  <1> QED  BY <1>4, <1>5, <1>6, <1>8, <1>9 DEF FindStep

\* A GET begins, or returns its answer.
LEMMA GetStepInv ==
    ASSUME IInv, NEW r \in Askers, GetStep(r)
    PROVE  IInv'
  <1>1. r \in Requests /\ r \notin Putters
    BY DistinctAssumption DEF Requests
  <1>2. /\ data \in [Nodes -> SUBSET board] /\ net \subseteq Message(board)
        /\ jobs \subseteq Job(board) /\ answer \in [Askers -> SUBSET SUBSET Announcement]
        /\ clock \in 0 .. MaxTime /\ board \subseteq Announcement
    BY DEF IInv, Provenance, TypeOK
  <1>3. CASE Get(r)
    <2>1. PICK n \in Nodes, k \in Keys : req' = [req EXCEPT ![r] = Find(n, k, "none")]
      BY <1>3 DEF Get
    <2> DEFINE p == Find(n, k, "none")
    <2>2. p \in Finding(board) /\ p.since <= clock /\ p.stage = "own" /\ p.found = {}
      BY <1>2, BoundsAssumption DEF Find, Finding
    <2> HIDE DEF p
    <2>3. req' \in [Requests -> {Idle} \cup Finding(board)] /\ Requesting'
      BY <1>1, <1>3, <2>1, <2>2, RequestStep DEF Get, p
    <2>4. answer' \in [Askers -> SUBSET SUBSET Announcement]
      BY <1>2, <1>3 DEF Get
    <2> QED  BY <1>2, <1>3, <2>3, <2>4, NoAnnouncement DEF Get
  <1>4. CASE req[r] # Idle /\ GetReturns(r)
    <2>1. req' \in [Requests -> {Idle} \cup Finding(board)] /\ Requesting'
      BY <1>1, <1>4, RequestStep DEF GetReturns
    <2>2. req[r].found \subseteq Announcement
      BY <1>1, <1>2, <1>4 DEF IInv, Provenance, Finding
    <2>3. answer' \in [Askers -> SUBSET SUBSET Announcement]
      BY <1>2, <1>4, <2>2 DEF GetReturns, AtMostK
    <2> QED  BY <1>2, <1>4, <2>1, <2>3, NoAnnouncement DEF GetReturns
  <1> QED  BY <1>3, <1>4 DEF GetStep

\* A PUT without the upload key begins, or is accepted because it found peers.
LEMMA PutStepInv ==
    ASSUME IInv, NEW r \in Putters, PutStep(r)
    PROVE  IInv'
  <1>1. r \in Requests
    BY DEF Requests
  <1>2. /\ data \in [Nodes -> SUBSET board] /\ net \subseteq Message(board)
        /\ jobs \subseteq Job(board) /\ answer \in [Askers -> SUBSET SUBSET Announcement]
        /\ clock \in 0 .. MaxTime
    BY DEF IInv, Provenance, TypeOK
  <1>3. CASE PutWithoutKey(r)
    <2>1. PICK n \in Nodes, k \in Keys, x \in Peers : req' = [req EXCEPT ![r] = Find(n, k, x)]
      BY <1>3 DEF PutWithoutKey
    <2> DEFINE p == Find(n, k, x)
    <2>2. /\ p \in Finding(board) /\ p.since <= clock /\ p.stage = "own" /\ p.found = {}
          /\ p.peer \in Peers
      BY <1>2, BoundsAssumption DEF Find, Finding
    <2> HIDE DEF p
    <2>3. req' \in [Requests -> {Idle} \cup Finding(board)] /\ Requesting'
      BY <1>1, <1>3, <2>1, <2>2, RequestStep DEF PutWithoutKey, p
    <2> QED  BY <1>2, <1>3, <2>3, NoAnnouncement DEF PutWithoutKey
  <1>4. CASE req[r] # Idle /\ PutAccepted(r)
    <2> DEFINE q == req[r]
    <2>1. q \in Finding(board) /\ Sound(r)
      BY <1>1, <1>4 DEF IInv, Provenance, Requesting
    <2>2. q.node \in Nodes /\ q.key \in Keys /\ q.peer \in Peers /\ q.found \subseteq board
      BY <1>4, <2>1 DEF Finding, Sound
    <2>3. q.key \in uploaded
      <3>1. PICK a \in q.found : a.key = q.key
        BY <1>4, <2>1 DEF Sound, PutAccepted
      <3> QED  BY <3>1, <2>2 DEF IInv, OnlyUploadedKeys
    <2>4. Announce(q.node, q.key, q.peer) /\ UNCHANGED <<clock, net, answer, uploaded>>
      BY <1>4 DEF PutAccepted
    <2>5. /\ board \subseteq board' /\ board' \subseteq Announcement
          /\ data' \in [Nodes -> SUBSET board']
          /\ jobs' \subseteq Job(board')
          /\ \A a \in board' : a.published <= clock'
          /\ \A a \in board' : a \in board \/ a.key = q.key
      <3> HIDE DEF q
      <3> QED  BY <2>2, <2>4, AnnounceStep
    <2>6. Message(board) \subseteq Message(board') /\ Finding(board) \subseteq Finding(board')
      BY <2>5, Grows
    <2>7. req' \in [Requests -> {Idle} \cup Finding(board)] /\ Requesting'
      BY <1>1, <1>4, RequestStep DEF PutAccepted
    <2>8. req' \in [Requests -> {Idle} \cup Finding(board')] /\ net' \subseteq Message(board')
      BY <2>6, <2>7, <2>4, <1>2
    <2>9. \A a \in board' : a.key \in uploaded'
      BY <2>3, <2>4, <2>5 DEF IInv, OnlyUploadedKeys
    <2>10. clock' \in 0 .. MaxTime /\ clock <= clock' /\ uploaded' \subseteq Keys
      BY <1>2, <2>4, BoundsAssumption DEF IInv, TypeOK
    <2>11. answer' \in [Askers -> SUBSET SUBSET Announcement]
      BY <1>2, <2>4
    <2> QED  BY <2>5, <2>7, <2>8, <2>9, <2>10, <2>11, FromProvenance
  <1> QED  BY <1>3, <1>4 DEF PutStep

\* A PUT with the upload key adds its key to the uploaded ones.
LEMMA PutWithKeyInv ==
    ASSUME IInv, PutWithKey
    PROVE  IInv'
  <1>1. PICK n \in Nodes, k \in Keys, p \in Peers :
            Announce(n, k, p) /\ uploaded' = uploaded \cup {k}
    BY DEF PutWithKey
  <1>2. UNCHANGED <<clock, net, req, answer>>
    BY DEF PutWithKey
  <1>3. /\ board \subseteq board' /\ board' \subseteq Announcement
        /\ data' \in [Nodes -> SUBSET board']
        /\ jobs' \subseteq Job(board')
        /\ \A a \in board' : a.published <= clock'
        /\ \A a \in board' : a \in board \/ a.key = k
    BY <1>1, <1>2, AnnounceStep
  <1>4. Message(board) \subseteq Message(board') /\ Finding(board) \subseteq Finding(board')
    BY <1>3, Grows
  <1>5. req' \in [Requests -> {Idle} \cup Finding(board)] /\ Requesting'
    BY <1>2, RequestsStay
  <1>6. req' \in [Requests -> {Idle} \cup Finding(board')] /\ net' \subseteq Message(board')
    BY <1>2, <1>4, <1>5 DEF IInv, Provenance
  <1>7. \A a \in board' : a.key \in uploaded'
    BY <1>1, <1>3 DEF IInv, OnlyUploadedKeys
  <1>8. clock' \in 0 .. MaxTime /\ clock <= clock' /\ uploaded' \subseteq Keys
    BY <1>1, <1>2, BoundsAssumption DEF IInv, TypeOK
  <1>9. answer' \in [Askers -> SUBSET SUBSET Announcement]
    BY <1>2 DEF IInv, TypeOK
  <1> QED  BY <1>3, <1>5, <1>6, <1>7, <1>8, <1>9, FromProvenance

-----------------------------------------------------------------------------
(* The steps of a node. *)

\* republish wakes up.
LEMMA RepublishInv ==
    ASSUME IInv, NEW n \in Nodes, Republish(n)
    PROVE  IInv'
  <1> DEFINE i == [kind |-> "republish", node |-> n, queue |-> GetAll(n),
                   recs |-> {}, todo |-> {}]
  <1>1. data \in [Nodes -> SUBSET board] /\ jobs \subseteq Job(board) /\ net \subseteq Message(board)
    BY DEF IInv, Provenance
  <1>2. PurgeAll(n) \in [Nodes -> SUBSET board] /\ GetAll(n) \subseteq SUBSET board
    BY <1>1, PurgeType
  <1>3. i \in Job(board)
    BY <1>2 DEF Job
  <1>4. jobs' = jobs \/ jobs' = jobs \cup {i}
    BY DEF Republish
  <1>5. jobs' \subseteq Job(board)
    <2> HIDE DEF i
    <2> QED  BY <1>1, <1>3, <1>4
  <1>6. req' \in [Requests -> {Idle} \cup Finding(board)] /\ Requesting'
    BY RequestsStay DEF Republish
  <1>7. answer' \in [Askers -> SUBSET SUBSET Announcement]
    BY DEF Republish, IInv, TypeOK
  <1> QED  BY <1>1, <1>2, <1>5, <1>6, <1>7, NoAnnouncement DEF Republish

\* A Store loop goes on.
LEMMA JobStepInv ==
    ASSUME IInv, NEW n \in Nodes, JobStep(n)
    PROVE  IInv'
  <1>1. PICK j \in jobs : StoreFinds(j) \/ StoreSends(j) \/ StoreFails(j)
    BY DEF JobStep
  <1>2. /\ data \in [Nodes -> SUBSET board] /\ net \subseteq Message(board)
        /\ jobs \subseteq Job(board) /\ answer \in [Askers -> SUBSET SUBSET Announcement]
    BY DEF IInv, Provenance, TypeOK
  <1>3. j \in Job(board)
    BY <1>2
  <1>4. j.recs \subseteq board /\ j.todo \subseteq Nodes /\ j.queue \subseteq SUBSET board
    BY <1>3 DEF Job
  <1>5. UNCHANGED <<clock, req, board, answer, uploaded>>
    BY <1>1 DEF StoreFinds, StoreSends, StoreFails
  <1>6. req' \in [Requests -> {Idle} \cup Finding(board)] /\ Requesting'
    BY <1>5, RequestsStay
  <1>7. CASE StoreFinds(j)
    <2>1. PICK S \in j.queue, D \in SUBSET (Nodes \ {j.node}) :
            Becomes(j, [j EXCEPT !.queue = @ \ {S}, !.recs = S, !.todo = D])
      BY <1>7 DEF StoreFinds
    <2> DEFINE i == [j EXCEPT !.queue = @ \ {S}, !.recs = S, !.todo = D]
    <2>2. i \in Job(board)
      BY <1>3, <1>4 DEF Job
    <2> HIDE DEF i
    <2>3. jobs' \subseteq Job(board)
      BY <1>2, <2>1, <2>2, BecomesType DEF i
    <2> QED  BY <1>2, <1>5, <1>6, <1>7, <2>3, NoAnnouncement DEF StoreFinds
  <1>8. CASE StoreSends(j)
    <2>1. PICK m \in j.todo : data' = Put(m, j.recs) /\ Becomes(j, [j EXCEPT !.todo = @ \ {m}])
      BY <1>8 DEF StoreSends
    <2> DEFINE i == [j EXCEPT !.todo = @ \ {m}]
    <2>2. i \in Job(board)
      BY <1>3, <1>4 DEF Job
    <2> HIDE DEF i
    <2>3. jobs' \subseteq Job(board)
      BY <1>2, <2>1, <2>2, BecomesType DEF i
    <2>4. data' \in [Nodes -> SUBSET board]
      BY <1>2, <1>4, <2>1, PutType
    <2> QED  BY <1>2, <1>5, <1>6, <1>8, <2>3, <2>4, NoAnnouncement DEF StoreSends
  <1>9. CASE StoreFails(j)
    <2> DEFINE i == [j EXCEPT !.todo = {}]
    <2>1. i \in Job(board)
      BY <1>3 DEF Job
    <2>2. Becomes(j, i)
      BY <1>9 DEF StoreFails
    <2> HIDE DEF i
    <2>3. jobs' \subseteq Job(board)
      BY <1>2, <2>1, <2>2, BecomesType
    <2>4. data' \in [Nodes -> SUBSET board] /\ net' \subseteq Message(board)
      <3>1. CASE StoreLost
        BY <3>1, <1>2 DEF StoreLost
      <3>2. CASE StoreLate(j.recs, j.todo)
        <4>1. PICK m \in j.todo : net' = net \cup {[dst |-> m, recs |-> j.recs]}
          BY <3>2 DEF StoreLate
        <4>2. [dst |-> m, recs |-> j.recs] \in Message(board)
          BY <1>4 DEF Message
        <4> QED  BY <4>1, <4>2, <3>2, <1>2 DEF StoreLate
      <3> QED  BY <1>9, <3>1, <3>2 DEF StoreFails
    <2> QED  BY <1>2, <1>5, <1>6, <2>3, <2>4, NoAnnouncement
  <1> QED  BY <1>1, <1>7, <1>8, <1>9

\* A late message arrives, a node restarts, or time passes.
LEMMA EnvironmentInv ==
    ASSUME IInv, Arrives \/ (\E n \in Nodes : Restart(n)) \/ Tick
    PROVE  IInv'
  <1>1. /\ data \in [Nodes -> SUBSET board] /\ net \subseteq Message(board)
        /\ jobs \subseteq Job(board) /\ answer \in [Askers -> SUBSET SUBSET Announcement]
        /\ req \in [Requests -> {Idle} \cup Finding(board)]
        /\ clock \in 0 .. MaxTime /\ board \subseteq Announcement
    BY DEF IInv, Provenance, TypeOK
  <1>2. CASE Arrives
    <2>1. PICK x \in net : data' = Put(x.dst, x.recs) /\ net' = net \ {x}
      BY <1>2 DEF Arrives
    <2>2. x.dst \in Nodes /\ x.recs \subseteq board
      BY <1>1 DEF Message
    <2>3. data' \in [Nodes -> SUBSET board]
      BY <1>1, <2>1, <2>2 DEF Put
    <2>4. req' \in [Requests -> {Idle} \cup Finding(board)] /\ Requesting'
      BY <1>2, RequestsStay DEF Arrives
    <2> QED  BY <1>1, <1>2, <2>1, <2>3, <2>4, NoAnnouncement DEF Arrives
  <1>3. ASSUME NEW n \in Nodes, Restart(n)  PROVE IInv'
    <2>1. req' = [r \in Requests |-> IF req[r] # Idle /\ req[r].node = n THEN Idle ELSE req[r]]
      BY <1>3 DEF Restart
    <2>2. req' \in [Requests -> {Idle} \cup Finding(board)]
      BY <1>1, <2>1
    <2>3. ASSUME NEW r \in Requests  PROVE Sound(r)'
      <3>1. req'[r] = Idle \/ req'[r] = req[r]
        BY <2>1
      <3>2. Sound(r) /\ clock' = clock
        BY <1>3 DEF IInv, Requesting, Restart
      <3> QED  BY <3>1, <3>2 DEF Sound
    <2>4. Requesting'
      BY <2>3 DEF Requesting
    <2>5. data' \in [Nodes -> SUBSET board] /\ jobs' \subseteq Job(board)
      BY <1>1, <1>3 DEF Restart
    <2> QED  BY <1>1, <1>3, <2>2, <2>4, <2>5, NoAnnouncement DEF Restart
  <1>4. CASE Tick
    <2>1. clock' \in 0 .. MaxTime /\ clock <= clock' /\ clock' = clock + 1
      BY <1>1, <1>4, BoundsAssumption DEF Tick
    <2>2. UNCHANGED <<data, net, jobs, req, board, answer, uploaded>>
      BY <1>4 DEF Tick
    <2>3. ASSUME NEW r \in Requests  PROVE Sound(r)'
      <3>1. req[r] # Idle => req[r].since \in Nat
        BY <1>1, BoundsAssumption DEF Finding
      <3>2. Sound(r) /\ clock \in Nat /\ req' = req
        BY <1>1, <2>2, BoundsAssumption DEF IInv, Requesting
      <3> QED  BY <2>1, <3>1, <3>2 DEF Sound
    <2>4. Requesting'
      BY <2>3 DEF Requesting
    <2>5. \A a \in board' : a.published <= clock' /\ a.key \in uploaded'
      <3> SUFFICES ASSUME NEW a \in board
                   PROVE  a.published <= clock' /\ a.key \in uploaded'
        BY <2>2
      <3>1. a.published \in Nat /\ a.published <= clock /\ a.key \in uploaded
        BY <1>1, BoundsAssumption DEF IInv, Provenance, OnlyUploadedKeys, Announcement
      <3> QED  BY <1>1, <2>1, <2>2, <3>1, BoundsAssumption
    <2>6. board \subseteq board' /\ board' \subseteq Announcement /\ uploaded' \subseteq Keys
      BY <1>1, <2>2 DEF IInv, TypeOK
    <2> QED  BY <1>1, <2>1, <2>2, <2>4, <2>5, <2>6, FromProvenance
  <1> QED  BY <1>2, <1>3, <1>4

-----------------------------------------------------------------------------
(* Safety *)

LEMMA InitInv == Init => IInv
  <1> SUFFICES ASSUME Init PROVE IInv
    OBVIOUS
  <1>1. TypeOK
    BY BoundsAssumption DEF Init, TypeOK
  <1>2. Provenance /\ OnlyUploadedKeys
    BY DEF Init, Provenance, OnlyUploadedKeys
  <1>3. Requesting
    BY DEF Init, Requesting, Sound
  <1> QED  BY <1>1, <1>2, <1>3 DEF IInv

LEMMA NextInv == IInv /\ [Next]_vars => IInv'
  <1> SUFFICES ASSUME IInv, [Next]_vars PROVE IInv'
    OBVIOUS
  <1>1. CASE UNCHANGED vars
    <2>1. req' \in [Requests -> {Idle} \cup Finding(board)] /\ Requesting'
      BY <1>1, RequestsStay DEF vars
    <2>2. /\ data' \in [Nodes -> SUBSET board] /\ net' \subseteq Message(board)
          /\ jobs' \subseteq Job(board) /\ answer' \in [Askers -> SUBSET SUBSET Announcement]
      BY <1>1 DEF vars, IInv, Provenance, TypeOK
    <2> QED  BY <1>1, <2>1, <2>2, NoAnnouncement DEF vars
  <1>2. CASE Next
    <2>1. CASE \E r \in Requests : FindStep(r)
      BY <2>1, FindStepInv
    <2>2. CASE \E r \in Askers : GetStep(r)
      BY <2>2, GetStepInv
    <2>3. CASE \E r \in Putters : PutStep(r)
      BY <2>3, PutStepInv
    <2>4. CASE PutWithKey
      BY <2>4, PutWithKeyInv
    <2>5. CASE \E n \in Nodes : Republish(n)
      BY <2>5, RepublishInv
    <2>6. CASE \E n \in Nodes : JobStep(n)
      BY <2>6, JobStepInv
    <2>7. CASE Arrives \/ (\E n \in Nodes : Restart(n)) \/ Tick
      BY <2>7, EnvironmentInv
    <2> QED  BY <1>2, <2>1, <2>2, <2>3, <2>4, <2>5, <2>6, <2>7 DEF Next
  <1> QED  BY <1>1, <1>2

\* The invariant holds in every state that the network of nodes can reach.
THEOREM Invariance == Spec => []IInv
  BY InitInv, NextInv, PTL DEF Spec

\* Every store, message, Store loop and request has its type.
THEOREM TypeHolds == Spec => []TypeOK
  <1>1. IInv => TypeOK
    BY DEF IInv
  <1> QED  BY <1>1, Invariance, PTL

\* Whatever is stored, sent, cached or republished was announced by a peer.
THEOREM ProvenanceHolds == Spec => []Provenance
  <1>1. IInv => Provenance
    BY DEF IInv
  <1> QED  BY <1>1, Invariance, PTL

\* No key is announced that nobody put with the upload key, for any number of
\* nodes and any order of their steps.
THEOREM UploadProtection == Spec => []OnlyUploadedKeys
  <1>1. IInv => OnlyUploadedKeys
    BY DEF IInv
  <1> QED  BY <1>1, Invariance, PTL

\* A store drops an announcement only when it has expired, or with the node.
THEOREM ValidAnnouncementsKept == Spec => ValidKept
  <1> DEFINE Kept(n) == \A a \in data[n] \ data'[n] : Expired(a)
             Grow == \A n \in Nodes : data[n] \subseteq data'[n]
             A == \A n \in Nodes : Restart(n) \/ Kept(n)
  <1>1. ASSUME IInv, [Next]_vars  PROVE A
    <2>0. data \in [Nodes -> SUBSET board]
      BY <1>1 DEF IInv, Provenance
    <2>1. Grow => A
      OBVIOUS
    <2>2. ASSUME NEW m \in Nodes, NEW S, data' = Put(m, S)  PROVE Grow
      BY <2>0, <2>2 DEF Put
    <2>3. ASSUME NEW m \in Nodes, NEW k, data' = Purge(m, k)  PROVE \A n \in Nodes : Kept(n)
      BY <2>0, <2>3 DEF Purge
    <2>4. CASE data' = data
      BY <2>4
    <2>5. ASSUME NEW r \in Requests, FindStep(r)  PROVE A
      <3>1. req[r] \in Finding(board)
        BY <1>1, <2>5 DEF FindStep, IInv, Provenance
      <3>2. req[r].node \in Nodes
        BY <3>1 DEF Finding
      <3>3. CASE OwnStore(r)
        BY <3>2, <3>3, <2>3 DEF OwnStore
      <3>4. CASE AskNode(r)
        BY <3>4, <2>3 DEF AskNode
      <3>5. CASE FindFails(r)
        BY <3>5, <2>4 DEF FindFails
      <3>6. CASE Cache(r)
        <4>1. CASE StoreApplied(req[r].found, Nodes \ {req[r].node})
          BY <4>1, <2>1, <2>2 DEF StoreApplied
        <4>2. CASE UNCHANGED data
          BY <4>2, <2>4
        <4> QED  BY <3>6, <4>1, <4>2 DEF Cache, StoreLost, StoreLate
      <3>7. CASE Keep(r)
        BY <3>2, <3>7, <2>1, <2>2 DEF Keep
      <3> QED  BY <2>5, <3>3, <3>4, <3>5, <3>6, <3>7 DEF FindStep
    <2>6. ASSUME NEW n \in Nodes, NEW k, NEW p, Announce(n, k, p)  PROVE A
      BY <2>6, <2>1, <2>2 DEF Announce
    <2>7. ASSUME NEW r \in Askers, GetStep(r)  PROVE A
      BY <2>7, <2>4 DEF GetStep, Get, GetReturns
    <2>8. ASSUME NEW r \in Putters, PutStep(r)  PROVE A
      <3>1. CASE PutWithoutKey(r)
        BY <3>1, <2>4 DEF PutWithoutKey
      <3>2. CASE req[r] # Idle /\ PutAccepted(r)
        <4>1. req[r] \in Finding(board)
          BY <1>1, <3>2 DEF IInv, Provenance, Requests
        <4>2. req[r].node \in Nodes
          BY <4>1 DEF Finding
        <4> QED  BY <3>2, <4>2, <2>6 DEF PutAccepted
      <3> QED  BY <2>8, <3>1, <3>2 DEF PutStep
    <2>9. CASE PutWithKey
      BY <2>9, <2>6 DEF PutWithKey
    <2>10. ASSUME NEW n \in Nodes, Republish(n)  PROVE A
      <3>1. data' = PurgeAll(n)
        BY <2>10 DEF Republish
      <3> QED  BY <3>1, <2>0 DEF PurgeAll
    <2>11. ASSUME NEW n \in Nodes, JobStep(n)  PROVE A
      <3>1. PICK j \in jobs : StoreFinds(j) \/ StoreSends(j) \/ StoreFails(j)
        BY <2>11 DEF JobStep
      <3>2. j.todo \subseteq Nodes
        BY <1>1 DEF IInv, Provenance, Job
      <3>3. CASE StoreSends(j)
        BY <3>2, <3>3, <2>1, <2>2 DEF StoreSends
      <3>4. CASE StoreFinds(j) \/ StoreFails(j)
        BY <3>4, <2>4 DEF StoreFinds, StoreFails, StoreLost, StoreLate
      <3> QED  BY <3>1, <3>3, <3>4
    <2>12. CASE Arrives
      <3>1. PICK x \in net : data' = Put(x.dst, x.recs)
        BY <2>12 DEF Arrives
      <3>2. x.dst \in Nodes
        BY <1>1 DEF IInv, Provenance, Message
      <3> QED  BY <3>1, <3>2, <2>1, <2>2
    <2>13. ASSUME NEW n \in Nodes, Restart(n)  PROVE A
      <3>1. \A m \in Nodes \ {n} : data'[m] = data[m]
        BY <2>0, <2>13 DEF Restart
      <3> QED  BY <3>1, <2>13
    <2>14. CASE Tick \/ UNCHANGED vars
      BY <2>14, <2>4 DEF Tick, vars
    <2> HIDE DEF A
    <2> QED  BY <1>1, <2>5, <2>7, <2>8, <2>9, <2>10, <2>11, <2>12, <2>13, <2>14 DEF Next
  <1>2. ASSUME IInv, [Next]_vars
        PROVE  [\A n \in Nodes : Restart(n) \/ \A a \in data[n] \ data'[n] : Expired(a)]_vars
    BY <1>1, <1>2
  <1> QED  BY <1>2, Invariance, PTL DEF Spec, ValidKept

-----------------------------------------------------------------------------
(* The network of nodes implements the board. *)

Asked(r) == IF req[r] = Idle THEN [key |-> "none", since |-> 0]
            ELSE [key |-> req[r].key, since |-> req[r].since]

\* The requests that the board sees change only with req.
LEMMA BoardStutters ==
    ASSUME UNCHANGED <<clock, board, answer>>, \A r \in Askers : Asked(r)' = Asked(r)
    PROVE  UNCHANGED Board!boardVars
  BY DEF Board!boardVars, Asked

\* A request that goes on is the same request to the board.
LEMMA FindStutters ==
    ASSUME IInv, NEW r \in Requests, FindStep(r)
    PROVE  Board!BoardNext \/ UNCHANGED Board!boardVars
  <1> DEFINE q == req[r]
  <1>1. q \in Finding(board) /\ q # Idle /\ req \in [Requests -> {Idle} \cup Finding(board)]
    BY DEF FindStep, IInv, Provenance
  <1>2. UNCHANGED <<clock, board, answer>>
    BY DEF FindStep, OwnStore, AskNode, FindFails, Cache, Keep
  <1>3. CASE FindFails(r)
    <2>1. req' = [req EXCEPT ![r] = Idle]
      BY <1>3 DEF FindFails
    <2> DEFINE R == {r} \cap Askers
    <2>2. Board!NotFound(R)
      BY <1>1, <1>2, <2>1 DEF Board!NotFound, Board!NotAsking, Requests
    <2> QED  BY <2>2 DEF Board!BoardNext
  <1>4. CASE ~FindFails(r)
    <2>1. \A s \in Requests : s # r => req'[s] = req[s]
      BY <1>1, <1>4 DEF FindStep, OwnStore, AskNode, Cache, Keep
    <2>2. /\ req'[r] # Idle /\ req'[r].key = q.key /\ req'[r].since = q.since
      <3>1. ASSUME NEW st \in {"ask", "found", "cache", "keep"}, NEW F,
                   \/ req' = [req EXCEPT ![r] = [q EXCEPT !.stage = st]]
                   \/ req' = [req EXCEPT ![r] = [q EXCEPT !.stage = st, !.found = F]]
            PROVE  req'[r] # Idle /\ req'[r].key = q.key /\ req'[r].since = q.since
        <4>1. CASE req' = [req EXCEPT ![r] = [q EXCEPT !.stage = st]]
          BY <1>1, <4>1 DEF Finding, Idle
        <4>2. CASE req' = [req EXCEPT ![r] = [q EXCEPT !.stage = st, !.found = F]]
          BY <1>1, <4>2 DEF Finding, Idle
        <4> QED  BY <3>1, <4>1, <4>2
      <3>2. CASE OwnStore(r)
        BY <3>1, <3>2 DEF OwnStore
      <3>3. CASE AskNode(r)
        BY <1>1, <3>1, <3>3 DEF AskNode
      <3>4. CASE Cache(r)
        BY <3>1, <3>4 DEF Cache
      <3>5. CASE Keep(r)
        BY <3>1, <3>5 DEF Keep
      <3> QED  BY <1>4, <3>2, <3>3, <3>4, <3>5 DEF FindStep
    <2>3. \A s \in Askers : Asked(s)' = Asked(s)
      BY <1>1, <2>1, <2>2 DEF Asked, Requests
    <2> QED  BY <1>2, <2>3, BoardStutters
  <1> QED  BY <1>3, <1>4

\* A GET begins, and returns announcements that were valid when it began.
LEMMA GetIsAskOrAnswer ==
    ASSUME IInv, NEW r \in Askers, GetStep(r)
    PROVE  Board!BoardNext
  <1>1. r \in Requests /\ req \in [Requests -> {Idle} \cup Finding(board)]
    BY DEF IInv, Provenance, Requests
  <1>2. CASE Get(r)
    <2>1. PICK n \in Nodes, k \in Keys : req' = [req EXCEPT ![r] = Find(n, k, "none")]
      BY <1>2 DEF Get
    <2>2. /\ req'[r] # Idle /\ req'[r].key = k /\ req'[r].since = clock
          /\ \A s \in Requests : s # r => req'[s] = req[s]
      BY <1>1, <2>1 DEF Find, Idle
    <2> DEFINE asked == [s \in Askers |-> Asked(s)]
    <2>3. asked' = [asked EXCEPT ![r] = [key |-> k, since |-> clock]]
      <3>1. Asked(r)' = [key |-> k, since |-> clock]
        BY <2>2 DEF Asked
      <3>2. \A s \in Askers : s # r => Asked(s)' = Asked(s)
        BY <2>2 DEF Asked, Requests
      <3> QED  BY <3>1, <3>2
    <2>4. asked[r] = Board!NotAsking
      BY <1>2 DEF Get, Asked, Board!NotAsking
    <2>5. answer' = [answer EXCEPT ![r] = {}] /\ UNCHANGED <<clock, board>>
      BY <1>2 DEF Get
    <2>6. Board!Ask(r)
      BY <2>3, <2>4, <2>5 DEF Board!Ask, Board!NotAsking, Asked
    <2> QED  BY <2>6 DEF Board!BoardNext
  <1>3. CASE req[r] # Idle /\ GetReturns(r)
    <2> DEFINE q == req[r]
    <2>1. q \in Finding(board) /\ Sound(r)
      BY <1>1, <1>3 DEF IInv, Requesting
    <2>2. q.found \subseteq board /\ q.key \in Keys /\ q.key # "none"
      BY <2>1, DistinctAssumption DEF Finding
    <2>3. PICK T \in SUBSET q.found : T # {} /\ answer' = [answer EXCEPT ![r] = {T}]
      <3>1. PICK T \in AtMostK(q.found) : answer' = [answer EXCEPT ![r] = {T}]
        BY <1>3 DEF GetReturns
      <3>2. q.found # {}
        BY <2>1, <1>3 DEF Sound, GetReturns
      <3>3. T # {}
        BY <3>2, FS_EmptySet, BoundsAssumption DEF AtMostK
      <3> QED  BY <3>1, <3>3 DEF AtMostK
    <2>4. \A a \in T : a.key = q.key /\ q.since <= a.published + Expiry
      BY <2>1, <2>3, <1>3 DEF Sound
    <2>5. req' = [req EXCEPT ![r] = Idle] /\ UNCHANGED <<clock, board>>
      BY <1>3 DEF GetReturns
    <2>6. Board!Answer(r)
      BY <1>1, <1>3, <2>2, <2>3, <2>4, <2>5
      DEF Board!Answer, Board!NotAsking, Board!ValidAt, Requests
    <2> QED  BY <2>6 DEF Board!BoardNext
  <1> QED  BY <1>2, <1>3 DEF GetStep

\* Every step of the network is a step of the board, or none.
LEMMA StepRefines ==
    ASSUME IInv, [Next]_vars
    PROVE  [Board!BoardNext]_(Board!boardVars)
  <1>1. CASE \E r \in Requests : FindStep(r)
    BY <1>1, FindStutters
  <1>2. CASE \E r \in Askers : GetStep(r)
    BY <1>2, GetIsAskOrAnswer
  <1>3. ASSUME NEW n, NEW k \in Keys, NEW p \in Peers, Announce(n, k, p),
               UNCHANGED <<clock, answer>>, \A r \in Askers : req'[r] = req[r]
        PROVE  Board!BoardNext
    <2>1. [key |-> k, peer |-> p, published |-> clock] \in Board!Announcement
      BY DEF IInv, TypeOK, Board!Announcement
    <2>2. Board!Announce
      BY <1>3, <2>1 DEF Board!Announce, Announce
    <2> QED  BY <2>2 DEF Board!BoardNext
  <1>4. CASE PutWithKey
    BY <1>3, <1>4 DEF PutWithKey
  <1>5. ASSUME NEW r \in Putters, PutStep(r)
        PROVE  Board!BoardNext \/ UNCHANGED Board!boardVars
    <2>1. r \in Requests /\ req \in [Requests -> {Idle} \cup Finding(board)] /\ r \notin Askers
      BY DistinctAssumption DEF IInv, Provenance, Requests
    <2>2. \A s \in Askers : req'[s] = req[s]
      BY <1>5, <2>1 DEF PutStep, PutWithoutKey, PutAccepted, Requests
    <2>3. CASE PutWithoutKey(r)
      <3>1. \A s \in Askers : Asked(s)' = Asked(s)
        BY <2>2 DEF Asked
      <3> QED  BY <2>3, <3>1, BoardStutters DEF PutWithoutKey
    <2>4. CASE req[r] # Idle /\ PutAccepted(r)
      <3>1. req[r] \in Finding(board) /\ Sound(r)
        BY <2>1, <2>4 DEF IInv, Requesting
      <3>2. req[r].key \in Keys /\ req[r].peer \in Peers
        BY <2>4, <3>1 DEF Finding, Sound
      <3> QED  BY <1>3, <2>2, <2>4, <3>2 DEF PutAccepted
    <2> QED  BY <1>5, <2>3, <2>4 DEF PutStep
  <1>6. ASSUME UNCHANGED <<clock, req, board, answer>>  PROVE UNCHANGED Board!boardVars
    BY <1>6, BoardStutters DEF Asked
  <1>7. CASE \E n \in Nodes : Republish(n)
    BY <1>6, <1>7 DEF Republish
  <1>8. CASE \E n \in Nodes : JobStep(n)
    BY <1>6, <1>8 DEF JobStep, StoreFinds, StoreSends, StoreFails
  <1>9. CASE Arrives
    BY <1>6, <1>9 DEF Arrives
  <1>10. ASSUME NEW n \in Nodes, Restart(n)  PROVE Board!BoardNext
    <2>1. PICK R \in SUBSET Askers : R = {r \in Askers : req[r] # Idle /\ req[r].node = n}
      OBVIOUS
    <2>2. Board!NotFound(R)
      BY <1>10, <2>1 DEF Restart, Board!NotFound, Board!NotAsking, Requests
    <2> QED  BY <2>2 DEF Board!BoardNext
  <1>11. CASE Tick
    <2>1. Board!BoardTick
      BY <1>11 DEF Tick, Board!BoardTick
    <2> QED  BY <2>1 DEF Board!BoardNext
  <1>12. CASE UNCHANGED vars
    BY <1>6, <1>12 DEF vars
  <1> QED
    BY <1>1, <1>2, <1>4, <1>5, <1>7, <1>8, <1>9, <1>10, <1>11, <1>12 DEF Next

\* The nodes together implement the board: whatever is lost, late, cached or
\* forgotten, a GET finds nothing or returns announcements of its key that some peer
\* made and that were valid when it asked.
THEOREM BoardImplemented == Spec => ImplementsBoard
  <1>1. Init => Board!BoardInit
    BY DEF Init, Board!BoardInit, Board!NotAsking, Requests
  <1>2. IInv /\ [Next]_vars => [Board!BoardNext]_(Board!boardVars)
    BY StepRefines
  <1> QED  BY <1>1, <1>2, Invariance, PTL DEF Spec, ImplementsBoard, Board!BoardSpec
=============================================================================

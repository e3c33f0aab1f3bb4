------------------------------- MODULE Swarm -------------------------------
(***************************************************************************)
(* The peer daemons (src/daemon.go) over their block stores and the DHT:   *)
(* adding content, uploading a Merkle DAG, and downloading one block by    *)
(* block, in a goroutine per block that the goroutine of its parent        *)
(* spawns, all of them in one errgroup and under one semaphore per daemon. *)
(*                                                                         *)
(* The DHT is the board of announcements that PeerBoard promises: asking   *)
(* it fails or returns some announcements of the key, in any order; an     *)
(* announcement may reach it although the call failed.  A block is         *)
(* identified with its CID: daemons serve what is in their store, and a    *)
(* stored block is valid.  Blocks survive a crash (the store is a file).   *)
(***************************************************************************)
EXTENDS Naturals, Sequences, FiniteSets, SequencesExt

CONSTANTS
    Daemons,
    IP,         \* IP[d]: config.PublicIP of d, the IP the DHT sees
    CIDs,       \* the blocks
    Links,      \* Links[c]: the blocks that the Merkle node c links to
    Calls,      \* Upload and Download calls that run at the same time
    Owner,      \* Owner[c]: the daemon that runs call c
    Sem,        \* the capacity of Daemon.sem, 5000 in the code
    Times       \* the times at which a daemon may announce a block

ASSUME SwarmAssumption ==
    /\ Links \in [CIDs -> Seq(CIDs)]
    /\ Owner \in [Calls -> Daemons]
    /\ Sem \in Nat \ {0}
    /\ CIDs # {} /\ Times # {}

\* Links do not run in circles: a CID is the hash of the node, links included.
ASSUME AcyclicAssumption ==
    \A S \in SUBSET CIDs : S # {} => \E c \in S : Range(Links[c]) \cap S = {}

VARIABLES
    store,      \* store[d]: the blocks in the store of d
    board,      \* the announcements on the DHT
    call,       \* call[c]: "idle", "upload", "download"; or how it returned
    root,       \* root[c]: the block the call is about
    todo,       \* todo[c]: the blocks that an Upload has yet to announce
    tasks,      \* tasks[c]: the goroutines of a Download
    err,        \* err[c]: the errgroup holds an error
    fetched     \* history: the blocks that the running Download has finished

vars == <<store, board, call, root, todo, tasks, err, fetched>>

Announcement == [cid : CIDs, peer : Daemons, time : Times]

-----------------------------------------------------------------------------
(* Adding content *)

\* fs.AddBytes and fs.AddPath put a node into the store after all its children.
AddBlock(d) ==
    /\ \E c \in CIDs :
        /\ Range(Links[c]) \subseteq store[d]
        /\ store' = [store EXCEPT ![d] = @ \cup {c}]
    /\ UNCHANGED <<board, call, root, todo, tasks, err, fetched>>

\* fs.DAG: the CIDs of a DAG from the root down, a shared block several times.
DAG[c \in CIDs] ==
    <<c>> \o FlattenSeq([i \in DOMAIN Links[c] |-> DAG[Links[c][i]]])

-----------------------------------------------------------------------------
(* Upload *)

Return(c, outcome) == call' = [call EXCEPT ![c] = outcome]

Started(c) == call[c] \in {"upload", "download"}

\* ResolvePath and DAG read the whole DAG before anything is announced.
Upload(c) ==
    /\ ~Started(c)
    /\ \E r \in CIDs :
        /\ DAG[r] \in Seq(store[Owner[c]])
        /\ root' = [root EXCEPT ![c] = r]
        /\ todo' = [todo EXCEPT ![c] = DAG[r]]
    /\ call' = [call EXCEPT ![c] = "upload"]
    /\ UNCHANGED <<store, board, tasks, err, fetched>>

\* PutKey: daemon d announces block c.
PutKey(d, c) ==
    \E t \in Times : board' = board \cup {[cid |-> c, peer |-> d, time |-> t]}

\* Mutant of UploadPuts: it goes on after a PutKey that failed.
UploadGoesOn(c) ==
    /\ call[c] = "upload"
    /\ todo[c] # <<>>
    /\ PutKey(Owner[c], Head(todo[c])) \/ UNCHANGED board
    /\ todo' = [todo EXCEPT ![c] = Tail(@)]
    /\ UNCHANGED <<store, call, root, tasks, err, fetched>>

UploadPuts(c) ==
    /\ call[c] = "upload"
    /\ todo[c] # <<>>
    /\ \/ PutKey(Owner[c], Head(todo[c])) /\ todo' = [todo EXCEPT ![c] = Tail(@)] /\ UNCHANGED call
       \/ /\ PutKey(Owner[c], Head(todo[c])) \/ UNCHANGED board
          /\ todo' = [todo EXCEPT ![c] = <<>>]
          /\ Return(c, "failed")
    /\ UNCHANGED <<store, root, tasks, err, fetched>>

UploadReturns(c) ==
    /\ call[c] = "upload"
    /\ todo[c] = <<>>
    /\ Return(c, "uploaded")
    /\ UNCHANGED <<store, board, root, todo, tasks, err, fetched>>

-----------------------------------------------------------------------------
(* Download *)

\* The goroutine for block c, which path tells from the others of its call.
Goroutine(path, c) == [path |-> path, cid |-> c, stage |-> "wait", from |-> {}]

Download(c) ==
    /\ ~Started(c)
    /\ \E r \in CIDs :
        /\ root' = [root EXCEPT ![c] = r]
        /\ tasks' = [tasks EXCEPT ![c] = {Goroutine(<<>>, r)}]
    /\ call' = [call EXCEPT ![c] = "download"]
    /\ UNCHANGED <<store, board, todo, err, fetched>>

\* The goroutines of daemon d that hold its semaphore.
Holders(d) ==
    {x \in UNION {{<<c, t>> : t \in tasks[c]} : c \in Calls} :
        Owner[x[1]] = d /\ x[2].stage # "wait"}

\* Goroutine t of call c goes on at another stage.
Goto(c, t, stage) == tasks' = [tasks EXCEPT ![c] = (@ \ {t}) \cup {[t EXCEPT !.stage = stage]}]

\* Goroutine t returns and releases the semaphore.
Ends(c, t) == tasks' = [tasks EXCEPT ![c] = @ \ {t}]

\* Mutant of Fails: the error is not returned.
FailsSilently(c, t) == Ends(c, t) /\ UNCHANGED err

Fails(c, t) == Ends(c, t) /\ err' = [err EXCEPT ![c] = TRUE]

Acquire(c, t) ==
    /\ t.stage = "wait"
    /\ Cardinality(Holders(Owner[c])) < Sem
    /\ Goto(c, t, "find")
    /\ UNCHANGED <<store, board, call, root, todo, err, fetched>>

\* Of the announcements S, the first one with the daemon's own IP is taken out
\* and the first of the others is the peer to ask: with S in any order, any
\* announcement, one of the daemon's own only if there are two of them.
Candidates(d, S) ==
    LET own == {a \in S : IP[a.peer] = IP[d]}
    IN  IF Cardinality(own) <= 1 THEN S \ own ELSE S

FindPeers(c, t) ==
    /\ t.stage = "find"
    /\ \E S \in SUBSET {a \in board : a.cid = t.cid} :
        \/ \E a \in Candidates(Owner[c], S) :
            /\ tasks' = [tasks EXCEPT ![c] =
                            (@ \ {t}) \cup {[t EXCEPT !.stage = "get", !.from = {a.peer}]}]
            /\ UNCHANGED err
        \/ Candidates(Owner[c], S) = {} /\ Fails(c, t)
    /\ UNCHANGED <<store, board, call, root, todo, fetched>>

\* The block comes from the peer's store; a peer without it, or one that does
\* not answer, is an error.
GetBlock(c, t) ==
    /\ t.stage = "get"
    /\ \/ (\A p \in t.from : t.cid \in store[p]) /\ Goto(c, t, "put") /\ UNCHANGED err
       \/ Fails(c, t)
    /\ UNCHANGED <<store, board, call, root, todo, fetched>>

\* Mutant of PutBlock: the block is announced before it is stored.
PutBlockNot(c, t) ==
    /\ t.stage = "put"
    /\ Goto(c, t, "announce")
    /\ UNCHANGED <<store, board, call, root, todo, err, fetched>>

\* A Put that fails has stored nothing: it is one SQL statement.
PutBlock(c, t) ==
    /\ t.stage = "put"
    /\ \/ /\ store' = [store EXCEPT ![Owner[c]] = @ \cup {t.cid}]
          /\ Goto(c, t, "announce")
          /\ UNCHANGED err
       \/ Fails(c, t) /\ UNCHANGED store
    /\ UNCHANGED <<board, call, root, todo, fetched>>

\* Once the block is announced, one goroutine is spawned per link.
AnnounceBlock(c, t) ==
    LET links == Links[t.cid] IN
    /\ t.stage = "announce"
    /\ \/ /\ PutKey(Owner[c], t.cid)
          /\ tasks' = [tasks EXCEPT ![c] =
                        (@ \ {t}) \cup {[t EXCEPT !.stage = "leave"]}
                            \cup {Goroutine(Append(t.path, i), links[i]) : i \in DOMAIN links}]
          /\ fetched' = [fetched EXCEPT ![c] = @ \cup {t.cid}]
          /\ UNCHANGED err
       \/ (PutKey(Owner[c], t.cid) \/ UNCHANGED board) /\ Fails(c, t) /\ UNCHANGED fetched
    /\ UNCHANGED <<store, call, root, todo>>

\* Mutant of Leave: the semaphore is kept until the children have ended.
LeaveLast(c, t) ==
    /\ t.stage = "leave"
    /\ \A u \in tasks[c] : ~IsStrictPrefix(t.path, u.path)
    /\ Ends(c, t)
    /\ UNCHANGED <<store, board, call, root, todo, err, fetched>>

Leave(c, t) ==
    /\ t.stage = "leave"
    /\ Ends(c, t)
    /\ UNCHANGED <<store, board, call, root, todo, err, fetched>>

Running(c, t) ==
    \/ FindPeers(c, t)
    \/ GetBlock(c, t)
    \/ PutBlock(c, t)
    \/ AnnounceBlock(c, t)
    \/ Leave(c, t)

\* eg.Wait() returns when the last goroutine has ended.
DownloadReturns(c) ==
    /\ call[c] = "download"
    /\ tasks[c] = {}
    /\ Return(c, IF err[c] THEN "failed" ELSE "downloaded")
    /\ fetched' = [fetched EXCEPT ![c] = {}]
    /\ err' = [err EXCEPT ![c] = FALSE]
    /\ UNCHANGED <<store, board, root, todo, tasks>>

-----------------------------------------------------------------------------

\* The process of daemon d ends: its calls are lost, its blocks are not.
Crash(d) ==
    /\ call' = [c \in Calls |-> IF Owner[c] = d /\ Started(c) THEN "failed" ELSE call[c]]
    /\ tasks' = [c \in Calls |-> IF Owner[c] = d THEN {} ELSE tasks[c]]
    /\ todo' = [c \in Calls |-> IF Owner[c] = d THEN <<>> ELSE todo[c]]
    /\ fetched' = [c \in Calls |-> IF Owner[c] = d THEN {} ELSE fetched[c]]
    /\ err' = [c \in Calls |-> IF Owner[c] = d THEN FALSE ELSE err[c]]
    /\ UNCHANGED <<store, board, root>>

Init ==
    /\ store = [d \in Daemons |-> {}]
    /\ board = {}
    /\ call = [c \in Calls |-> "idle"]
    /\ root = [c \in Calls |-> CHOOSE r \in CIDs : TRUE]
    /\ todo = [c \in Calls |-> <<>>]
    /\ tasks = [c \in Calls |-> {}]
    /\ err = [c \in Calls |-> FALSE]
    /\ fetched = [c \in Calls |-> {}]

Acquires(c) == \E t \in tasks[c] : Acquire(c, t)
Runs(c) == (\E t \in tasks[c] : Running(c, t)) \/ DownloadReturns(c)
UploadRuns(c) == UploadPuts(c) \/ UploadReturns(c)

Next ==
    \/ \E d \in Daemons : AddBlock(d) \/ Crash(d)
    \/ \E c \in Calls : Upload(c) \/ UploadRuns(c) \/ Download(c) \/ Acquires(c) \/ Runs(c)

Spec == Init /\ [][Next]_vars

\* Calls to the DHT and to peers end, since the HTTP client has a timeout, and
\* goroutines that wait for the semaphore get it in turn.
FairSpec ==
    /\ Spec
    /\ \A c \in Calls : WF_vars(Runs(c)) /\ WF_vars(UploadRuns(c)) /\ SF_vars(Acquires(c))

-----------------------------------------------------------------------------
(* Properties *)

Task == [path : Seq(Nat), cid : CIDs, stage : {"wait", "find", "get", "put", "announce", "leave"},
         from : SUBSET Daemons]

TypeOK ==
    /\ store \in [Daemons -> SUBSET CIDs]
    /\ board \subseteq Announcement
    /\ call \in [Calls -> {"idle", "upload", "download", "uploaded", "downloaded", "failed"}]
    /\ root \in [Calls -> CIDs]
    /\ todo \in [Calls -> Seq(CIDs)]
    /\ tasks \in [Calls -> SUBSET Task]
    /\ err \in [Calls -> BOOLEAN]
    /\ fetched \in [Calls -> SUBSET CIDs]

\* "Important we do this before we announce we own the block": whoever is
\* announced as having a block has it, through failed and lost calls too.
AnnouncedStored == \A a \in board : a.cid \in store[a.peer]

Closed(S) == \A c \in S : Range(Links[c]) \subseteq S

\* The blocks of the DAG under r: those in every set with r that is closed
\* under links.
Under(r) == {c \in CIDs : \A S \in SUBSET CIDs : r \in S /\ Closed(S) => c \in S}

\* A Download that reports no error has left the whole DAG in the store,
\* whichever goroutines ended first and however blocks are shared.
DownloadComplete ==
    \A c \in Calls : call[c] = "downloaded" => Under(root[c]) \subseteq store[Owner[c]]

\* An Upload that reports no error has announced the whole DAG.
UploadComplete ==
    \A c \in Calls : call[c] = "uploaded" =>
        \A b \in Under(root[c]) : \E a \in board : a.cid = b /\ a.peer = Owner[c]

\* Every call returns, however few goroutines the semaphore admits: no
\* goroutine waits for the semaphore while its ancestors hold it.
CallReturns == \A c \in Calls : Started(c) ~> ~Started(c)
=============================================================================

---------------------------- MODULE SwarmProofs ----------------------------
(***************************************************************************)
(* Proofs about Swarm: who is announced as having a block has it, a        *)
(* Download without an error leaves a complete DAG, and an Upload without  *)
(* an error has announced one, for every DAG, every number of daemons and  *)
(* calls and every capacity of the semaphore.                              *)
(***************************************************************************)
EXTENDS Swarm, SequenceTheorems, WellFoundedInduction, TLAPS

\* What call c is about to announce, has announced or has finished is stored.
Having(c) ==
    /\ \A t \in tasks[c] : t.stage \in {"announce", "leave"} => t.cid \in store[Owner[c]]
    /\ Range(todo[c]) \subseteq store[Owner[c]]
    /\ fetched[c] \subseteq store[Owner[c]]

\* Block b is finished in call c, or a goroutine is on its way to finish it.
Covered(b, c) == b \in fetched[c] \/ \E t \in tasks[c] : t.cid = b /\ t.stage # "leave"

\* Without an error so far, the root and the links of every finished block are
\* covered: no block is lost between a goroutine and those it spawns.
Tree(c) ==
    /\ call[c] # "download" => tasks[c] = {} /\ fetched[c] = {}
    /\ call[c] = "download" /\ ~err[c] =>
        /\ Covered(root[c], c)
        /\ \A b \in fetched[c] : \A l \in Range(Links[b]) : Covered(l, c)

\* The inductive invariant.
IInv ==
    /\ TypeOK
    /\ AnnouncedStored
    /\ DownloadComplete
    /\ \A c \in Calls : Having(c) /\ Tree(c)

-----------------------------------------------------------------------------

\* Stores only grow, and blocks are announced that are stored.
LEMMA StoresKept ==
    ASSUME IInv, store' \in [Daemons -> SUBSET CIDs],
           \A d \in Daemons : store[d] \subseteq store'[d],
           \A a \in board' : a \in board \/ a.cid \in store[a.peer],
           board' \subseteq Announcement
    PROVE  AnnouncedStored'
  BY DEF IInv, AnnouncedStored, Announcement

\* PutKey adds one announcement.
LEMMA PutKeyStep ==
    ASSUME IInv, NEW d \in Daemons, NEW b \in store[d], PutKey(d, b)
    PROVE  /\ \A a \in board' : a \in board \/ a.cid \in store[a.peer]
           /\ board' \subseteq Announcement
  BY DEF PutKey, IInv, TypeOK, Announcement

\* A call that neither starts nor returns stays complete while stores grow.
LEMMA CompleteKept ==
    ASSUME IInv, NEW c \in Calls,
           \A d \in Daemons : store[d] \subseteq store'[d],
           call'[c] = "downloaded" => call[c] = "downloaded" /\ root'[c] = root[c]
    PROVE  call'[c] = "downloaded" => Under(root'[c]) \subseteq store'[Owner[c]]
  <1>1. Owner[c] \in Daemons
    BY SwarmAssumption
  <1> QED  BY <1>1 DEF IInv, DownloadComplete

\* A call that does not move is as it was.
LEMMA CallStays ==
    ASSUME IInv, NEW c \in Calls,
           \A d \in Daemons : store[d] \subseteq store'[d],
           call'[c] = call[c], root'[c] = root[c], todo'[c] = todo[c],
           tasks'[c] = tasks[c], err'[c] = err[c], fetched'[c] = fetched[c]
    PROVE  Having(c)' /\ Tree(c)'
  <1>1. Owner[c] \in Daemons
    BY SwarmAssumption
  <1>2. Having(c) /\ Tree(c)
    BY DEF IInv
  <1>3. Having(c)'
    BY <1>1, <1>2 DEF Having
  <1>4. Tree(c)'
    BY <1>2 DEF Tree, Covered
  <1> QED  BY <1>3, <1>4

\* The invariant's parts after a step, put together.
LEMMA Together ==
    ASSUME IInv, TypeOK',
           \A d \in Daemons : store[d] \subseteq store'[d],
           \A a \in board' : a \in board \/ a.cid \in store[a.peer],
           \A c \in Calls : Having(c)' /\ Tree(c)',
           \A c \in Calls : call'[c] = "downloaded" => Under(root'[c]) \subseteq store'[Owner[c]]
    PROVE  IInv'
  <1>1. AnnouncedStored'
    BY StoresKept DEF TypeOK, Announcement
  <1>2. DownloadComplete'
    BY DEF DownloadComplete, Under, Closed
  <1> QED  BY <1>1, <1>2 DEF IInv

\* A goroutine of a download is one of the tasks of a running call.
LEMMA TaskFacts ==
    ASSUME IInv, NEW c \in Calls, NEW t \in tasks[c]
    PROVE  /\ t \in Task /\ t.cid \in CIDs /\ t.path \in Seq(Nat) /\ Owner[c] \in Daemons
           /\ call[c] = "download"
  <1>1. t \in Task /\ Tree(c)
    BY DEF IInv, TypeOK
  <1> QED  BY <1>1, SwarmAssumption DEF Task, Tree

-----------------------------------------------------------------------------
(* Steps of a goroutine *)

\* A goroutine goes on with the same block.
LEMMA TaskMoves ==
    ASSUME IInv, NEW c \in Calls, NEW t \in tasks[c], NEW u \in Task,
           u.cid = t.cid, t.stage # "leave", u.stage # "leave",
           u.stage = "announce" => t.cid \in store'[Owner[c]],
           tasks' = [tasks EXCEPT ![c] = (@ \ {t}) \cup {u}],
           store' \in [Daemons -> SUBSET CIDs],
           \A d \in Daemons : store[d] \subseteq store'[d],
           UNCHANGED <<board, call, root, todo, err, fetched>>
    PROVE  IInv'
  <1>0. Owner[c] \in Daemons /\ tasks \in [Calls -> SUBSET Task]
    BY SwarmAssumption DEF IInv, TypeOK
  <1>1. tasks' \in [Calls -> SUBSET Task] /\ tasks'[c] = (tasks[c] \ {t}) \cup {u}
    BY <1>0
  <1>2. TypeOK'
    BY <1>1 DEF IInv, TypeOK, Task, Announcement
  <1>3. Having(c)'
    <2>1. Having(c)
      BY DEF IInv
    <2> QED  BY <1>0, <1>1, <2>1 DEF Having
  <1>4. Tree(c)'
    <2>1. Tree(c) /\ tasks[c] # {}
      BY DEF IInv
    <2>2. ASSUME NEW b, Covered(b, c)  PROVE Covered(b, c)'
      BY <1>1, <2>2 DEF Covered
    <2> QED  BY <2>1, <2>2 DEF Tree
  <1>5. ASSUME NEW e \in Calls, e # c  PROVE Having(e)' /\ Tree(e)'
    <2>1. tasks'[e] = tasks[e]
      BY <1>0, <1>5
    <2> QED  BY <2>1, CallStays
  <1>6. \A e \in Calls : call'[e] = "downloaded" => Under(root'[e]) \subseteq store'[Owner[e]]
    BY CompleteKept
  <1> QED  BY <1>2, <1>3, <1>4, <1>5, <1>6, Together

\* A goroutine ends: with an error, or after its children were spawned.
LEMMA TaskEnds ==
    ASSUME IInv, NEW c \in Calls, NEW t \in tasks[c], Ends(c, t),
           \/ err' = [err EXCEPT ![c] = TRUE]
           \/ t.stage = "leave" /\ UNCHANGED err,
           \A a \in board' : a \in board \/ a.cid \in store[a.peer],
           board' \subseteq Announcement,
           UNCHANGED <<store, call, root, todo, fetched>>
    PROVE  IInv'
  <1>0. tasks \in [Calls -> SUBSET Task] /\ err \in [Calls -> BOOLEAN]
    BY DEF IInv, TypeOK
  <1>1. tasks' \in [Calls -> SUBSET Task] /\ tasks'[c] = tasks[c] \ {t}
    BY <1>0 DEF Ends
  <1>2. err' \in [Calls -> BOOLEAN] /\ (err'[c] = TRUE \/ (t.stage = "leave" /\ err' = err))
    BY <1>0
  <1>3. TypeOK'
    BY <1>1, <1>2 DEF IInv, TypeOK, Task, Announcement
  <1>4. Having(c)'
    <2>1. Having(c)
      BY DEF IInv
    <2> QED  BY <1>1, <2>1 DEF Having
  <1>5. Tree(c)'
    <2>1. Tree(c) /\ tasks[c] # {}
      BY DEF IInv
    <2>2. CASE err'[c] = TRUE
      BY <2>1, <2>2 DEF Tree
    <2>3. CASE t.stage = "leave" /\ err' = err
      <3>1. ASSUME NEW b, Covered(b, c)  PROVE Covered(b, c)'
        BY <1>1, <2>3, <3>1 DEF Covered
      <3> QED  BY <2>1, <2>3, <3>1 DEF Tree
    <2> QED  BY <1>2, <2>2, <2>3
  <1>6. ASSUME NEW e \in Calls, e # c  PROVE Having(e)' /\ Tree(e)'
    <2>1. tasks'[e] = tasks[e] /\ err'[e] = err[e]
      BY <1>0, <1>6 DEF Ends
    <2> QED  BY <2>1, CallStays
  <1>7. \A e \in Calls : call'[e] = "downloaded" => Under(root'[e]) \subseteq store'[Owner[e]]
    BY CompleteKept
  <1> QED  BY <1>3, <1>4, <1>5, <1>6, <1>7, Together

\* A block is finished and its links are handed to goroutines of their own.
LEMMA TaskSpawns ==
    ASSUME IInv, NEW c \in Calls, NEW t \in tasks[c], t.stage = "announce",
           PutKey(Owner[c], t.cid),
           tasks' = [tasks EXCEPT ![c] =
                        (@ \ {t}) \cup {[t EXCEPT !.stage = "leave"]}
                            \cup {Goroutine(Append(t.path, i), Links[t.cid][i]) :
                                    i \in DOMAIN Links[t.cid]}],
           fetched' = [fetched EXCEPT ![c] = @ \cup {t.cid}],
           UNCHANGED <<store, call, root, todo, err>>
    PROVE  IInv'
  <1> DEFINE links == Links[t.cid]
             u == [t EXCEPT !.stage = "leave"]
             kids == {Goroutine(Append(t.path, i), links[i]) : i \in DOMAIN links}
  <1>0. /\ tasks \in [Calls -> SUBSET Task] /\ fetched \in [Calls -> SUBSET CIDs]
        /\ Having(c) /\ Tree(c)
    BY DEF IInv, TypeOK
  <1>1. /\ t \in Task /\ t.cid \in CIDs /\ t.path \in Seq(Nat) /\ Owner[c] \in Daemons
        /\ call[c] = "download"
    BY TaskFacts
  <1>2. u \in Task /\ u.cid = t.cid /\ u.stage = "leave"
    BY <1>1 DEF Task
  <1>3. links \in Seq(CIDs)
    BY <1>1, SwarmAssumption
  <1>4. \A i \in DOMAIN links : /\ Goroutine(Append(t.path, i), links[i]) \in Task
                                /\ Goroutine(Append(t.path, i), links[i]).cid = links[i]
                                /\ Goroutine(Append(t.path, i), links[i]).stage = "wait"
    <2> SUFFICES ASSUME NEW i \in DOMAIN links
                 PROVE  /\ Goroutine(Append(t.path, i), links[i]) \in Task
                        /\ Goroutine(Append(t.path, i), links[i]).cid = links[i]
                        /\ Goroutine(Append(t.path, i), links[i]).stage = "wait"
      OBVIOUS
    <2>1. links[i] \in CIDs /\ i \in Nat
      BY <1>3
    <2>2. Append(t.path, i) \in Seq(Nat)
      BY <1>1, <2>1
    <2> HIDE DEF links
    <2> QED  BY <2>1, <2>2 DEF Goroutine, Task
  <1> HIDE DEF u
  <1>5. tasks'[c] = (tasks[c] \ {t}) \cup {u} \cup kids /\ tasks' \in [Calls -> SUBSET Task]
    <2>1. kids \subseteq Task
      BY <1>4
    <2>2. tasks' = [tasks EXCEPT ![c] = (@ \ {t}) \cup {u} \cup kids]
      BY DEF u
    <2> HIDE DEF kids
    <2> QED  BY <1>0, <1>2, <2>1, <2>2
  <1>6. fetched'[c] = fetched[c] \cup {t.cid} /\ fetched' \in [Calls -> SUBSET CIDs]
    BY <1>0, <1>1
  <1>7. t.cid \in store[Owner[c]]
    BY <1>0 DEF Having
  <1>8. (\A a \in board' : a \in board \/ a.cid \in store[a.peer]) /\ board' \subseteq Announcement
    BY <1>1, <1>7, PutKeyStep
  <1>9. TypeOK'
    BY <1>5, <1>6, <1>8 DEF IInv, TypeOK, Task, Announcement
  <1>10. Having(c)'
    <2>1. \A k \in kids : k.stage = "wait"
      BY <1>4
    <2> HIDE DEF kids
    <2> QED  BY <1>0, <1>2, <1>5, <1>6, <1>7, <2>1 DEF Having
  <1>11. Tree(c)'
    <2>1. ASSUME NEW b, Covered(b, c)  PROVE Covered(b, c)'
      <3> HIDE DEF kids
      <3> QED  BY <1>5, <1>6, <2>1 DEF Covered
    <2>2. ASSUME NEW l \in Range(links)  PROVE Covered(l, c)'
      <3>1. PICK i \in DOMAIN links : links[i] = l
        BY DEF Range
      <3>2. Goroutine(Append(t.path, i), links[i]) \in kids
        OBVIOUS
      <3>3. Goroutine(Append(t.path, i), links[i]) \in tasks'[c]
        BY <1>5, <3>2
      <3> QED  BY <1>4, <3>1, <3>3 DEF Covered
    <2>3. ASSUME ~err[c]
          PROVE  /\ Covered(root[c], c)'
                 /\ \A b \in fetched'[c] : \A l \in Range(Links[b]) : Covered(l, c)'
      <3>1. Covered(root[c], c) /\ \A b \in fetched[c] : \A l \in Range(Links[b]) : Covered(l, c)
        BY <1>0, <1>1, <2>3 DEF Tree
      <3>2. Covered(root[c], c)'
        BY <3>1, <2>1 DEF Covered
      <3>3. \A b \in fetched[c] : \A l \in Range(Links[b]) : Covered(l, c)'
        BY <3>1, <2>1
      <3>4. \A l \in Range(Links[t.cid]) : Covered(l, c)'
        BY <2>2
      <3> QED  BY <1>6, <3>2, <3>3, <3>4
    <2> QED  BY <1>1, <2>3 DEF Tree
  <1>12. ASSUME NEW e \in Calls, e # c  PROVE Having(e)' /\ Tree(e)'
    <2>1. tasks'[e] = tasks[e] /\ fetched'[e] = fetched[e]
      BY <1>0, <1>12
    <2>2. \A d \in Daemons : store[d] \subseteq store'[d]
      OBVIOUS
    <2> QED  BY <2>1, <2>2, CallStays
  <1>13. \A e \in Calls : call'[e] = "downloaded" => Under(root'[e]) \subseteq store'[Owner[e]]
    BY CompleteKept
  <1> HIDE DEF kids, links
  <1> QED  BY <1>8, <1>9, <1>10, <1>11, <1>12, <1>13, Together

\* Every step of a goroutine.
LEMMA TaskStepInv ==
    ASSUME IInv, NEW c \in Calls, NEW t \in tasks[c], Acquire(c, t) \/ Running(c, t)
    PROVE  IInv'
  <1>0. /\ t \in Task /\ t.cid \in CIDs /\ Owner[c] \in Daemons /\ Having(c)
        /\ store \in [Daemons -> SUBSET CIDs] /\ board \subseteq Announcement
    BY TaskFacts DEF IInv, TypeOK
  <1>1. ASSUME NEW st \in {"find", "put", "announce"}
        PROVE  /\ [t EXCEPT !.stage = st] \in Task
               /\ [t EXCEPT !.stage = st].cid = t.cid
               /\ [t EXCEPT !.stage = st].stage = st
    BY <1>0 DEF Task
  <1>2. CASE Acquire(c, t)
    <2> DEFINE u == [t EXCEPT !.stage = "find"]
    <2>1. u \in Task /\ u.cid = t.cid /\ u.stage = "find"
      BY <1>1
    <2>2. tasks' = [tasks EXCEPT ![c] = (@ \ {t}) \cup {u}] /\ t.stage = "wait"
      BY <1>2 DEF Acquire, Goto
    <2>3. UNCHANGED <<store, board, call, root, todo, err, fetched>>
      BY <1>2 DEF Acquire
    <2> HIDE DEF u
    <2> QED  BY <1>0, <2>1, <2>2, <2>3, TaskMoves
  <1>3. ASSUME Fails(c, t), UNCHANGED <<store, board, call, root, todo, fetched>>
        PROVE  IInv'
    BY <1>0, <1>3, TaskEnds DEF Fails
  <1>4. CASE FindPeers(c, t)
    <2>1. PICK S \in SUBSET {a \in board : a.cid = t.cid} :
            \/ \E a \in Candidates(Owner[c], S) :
                /\ tasks' = [tasks EXCEPT ![c] =
                                (@ \ {t}) \cup {[t EXCEPT !.stage = "get", !.from = {a.peer}]}]
                /\ UNCHANGED err
            \/ Candidates(Owner[c], S) = {} /\ Fails(c, t)
      BY <1>4 DEF FindPeers
    <2>2. UNCHANGED <<store, board, call, root, todo, fetched>> /\ t.stage = "find"
      BY <1>4 DEF FindPeers
    <2>3. CASE Fails(c, t)
      BY <1>3, <2>2, <2>3
    <2>4. ASSUME NEW a \in Candidates(Owner[c], S), UNCHANGED err,
                 tasks' = [tasks EXCEPT ![c] =
                            (@ \ {t}) \cup {[t EXCEPT !.stage = "get", !.from = {a.peer}]}]
          PROVE  IInv'
      <3> DEFINE u == [t EXCEPT !.stage = "get", !.from = {a.peer}]
      <3>1. a.peer \in Daemons
        BY <1>0 DEF Candidates, Announcement
      <3>2. u \in Task /\ u.cid = t.cid /\ u.stage = "get"
        BY <1>0, <3>1 DEF Task
      <3>3. tasks' = [tasks EXCEPT ![c] = (@ \ {t}) \cup {u}]
        BY <2>4
      <3> HIDE DEF u
      <3> QED  BY <1>0, <2>2, <2>4, <3>2, <3>3, TaskMoves
    <2> QED  BY <2>1, <2>3, <2>4
  <1>5. CASE GetBlock(c, t)
    <2>1. UNCHANGED <<store, board, call, root, todo, fetched>> /\ t.stage = "get"
      BY <1>5 DEF GetBlock
    <2>2. CASE Fails(c, t)
      BY <1>3, <2>1, <2>2
    <2>3. CASE Goto(c, t, "put") /\ UNCHANGED err
      <3> DEFINE u == [t EXCEPT !.stage = "put"]
      <3>1. u \in Task /\ u.cid = t.cid /\ u.stage = "put"
        BY <1>1
      <3>2. tasks' = [tasks EXCEPT ![c] = (@ \ {t}) \cup {u}]
        BY <2>3 DEF Goto
      <3> HIDE DEF u
      <3> QED  BY <1>0, <2>1, <2>3, <3>1, <3>2, TaskMoves
    <2> QED  BY <1>5, <2>2, <2>3 DEF GetBlock
  <1>6. CASE PutBlock(c, t)
    <2>1. UNCHANGED <<board, call, root, todo, fetched>> /\ t.stage = "put"
      BY <1>6 DEF PutBlock
    <2>2. CASE Fails(c, t) /\ UNCHANGED store
      BY <1>3, <2>1, <2>2
    <2>3. CASE /\ store' = [store EXCEPT ![Owner[c]] = @ \cup {t.cid}]
               /\ Goto(c, t, "announce") /\ UNCHANGED err
      <3> DEFINE u == [t EXCEPT !.stage = "announce"]
      <3>1. u \in Task /\ u.cid = t.cid /\ u.stage = "announce"
        BY <1>1
      <3>2. tasks' = [tasks EXCEPT ![c] = (@ \ {t}) \cup {u}]
        BY <2>3 DEF Goto
      <3>3. /\ store' \in [Daemons -> SUBSET CIDs] /\ t.cid \in store'[Owner[c]]
            /\ \A d \in Daemons : store[d] \subseteq store'[d]
        BY <1>0, <2>3
      <3> HIDE DEF u
      <3> QED  BY <1>0, <2>1, <2>3, <3>1, <3>2, <3>3, TaskMoves
    <2> QED  BY <1>6, <2>2, <2>3 DEF PutBlock
  <1>7. CASE AnnounceBlock(c, t)
    <2>1. UNCHANGED <<store, call, root, todo>> /\ t.stage = "announce"
      BY <1>7 DEF AnnounceBlock
    <2>2. t.cid \in store[Owner[c]]
      BY <1>0, <2>1 DEF Having
    <2>3. CASE /\ PutKey(Owner[c], t.cid) \/ UNCHANGED board
               /\ Fails(c, t) /\ UNCHANGED fetched
      <3>1. /\ \A a \in board' : a \in board \/ a.cid \in store[a.peer]
            /\ board' \subseteq Announcement
        BY <1>0, <2>2, <2>3, PutKeyStep
      <3> QED  BY <2>1, <2>3, <3>1, TaskEnds DEF Fails
    <2>4. CASE /\ PutKey(Owner[c], t.cid)
               /\ tasks' = [tasks EXCEPT ![c] =
                            (@ \ {t}) \cup {[t EXCEPT !.stage = "leave"]}
                                \cup {Goroutine(Append(t.path, i), Links[t.cid][i]) :
                                        i \in DOMAIN Links[t.cid]}]
               /\ fetched' = [fetched EXCEPT ![c] = @ \cup {t.cid}]
               /\ UNCHANGED err
      BY <2>1, <2>4, TaskSpawns
    <2> QED  BY <1>7, <2>3, <2>4 DEF AnnounceBlock
  <1>8. CASE Leave(c, t)
    BY <1>0, <1>8, TaskEnds DEF Leave
  <1> QED  BY <1>2, <1>4, <1>5, <1>6, <1>7, <1>8 DEF Running

-----------------------------------------------------------------------------
(* Steps of a call and of a daemon *)

\* Only call c moves, and it is in order after the step.
LEMMA CallMoves ==
    ASSUME IInv, NEW c \in Calls, TypeOK', Having(c)', Tree(c)', UNCHANGED store,
           \A a \in board' : a \in board \/ a.cid \in store[a.peer],
           \A e \in Calls \ {c} :
                /\ call'[e] = call[e] /\ root'[e] = root[e] /\ todo'[e] = todo[e]
                /\ tasks'[e] = tasks[e] /\ err'[e] = err[e] /\ fetched'[e] = fetched[e],
           call'[c] = "downloaded" => Under(root'[c]) \subseteq store'[Owner[c]]
    PROVE  IInv'
  <1>1. \A d \in Daemons : store[d] \subseteq store'[d]
    OBVIOUS
  <1>2. ASSUME NEW e \in Calls, e # c
        PROVE  /\ Having(e)' /\ Tree(e)'
               /\ call'[e] = "downloaded" => Under(root'[e]) \subseteq store'[Owner[e]]
    BY <1>1, <1>2, CallStays, CompleteKept
  <1> QED  BY <1>1, <1>2, Together

LEMMA CallStepInv ==
    ASSUME IInv, NEW c \in Calls,
           Upload(c) \/ UploadRuns(c) \/ Download(c) \/ DownloadReturns(c)
    PROVE  IInv'
  <1>0. /\ TypeOK /\ Having(c) /\ Tree(c) /\ Owner[c] \in Daemons
        /\ store \in [Daemons -> SUBSET CIDs] /\ board \subseteq Announcement
        /\ call \in [Calls -> {"idle", "upload", "download", "uploaded", "downloaded", "failed"}]
        /\ root \in [Calls -> CIDs] /\ todo \in [Calls -> Seq(CIDs)]
        /\ tasks \in [Calls -> SUBSET Task] /\ err \in [Calls -> BOOLEAN]
        /\ fetched \in [Calls -> SUBSET CIDs]
    BY SwarmAssumption DEF IInv, TypeOK
  <1>1. CASE Upload(c)
    <2>1. PICK r \in CIDs : /\ DAG[r] \in Seq(store[Owner[c]])
                            /\ root' = [root EXCEPT ![c] = r]
                            /\ todo' = [todo EXCEPT ![c] = DAG[r]]
      BY <1>1 DEF Upload
    <2>2. /\ UNCHANGED <<store, board, tasks, err, fetched>> /\ ~Started(c)
          /\ call' = [call EXCEPT ![c] = "upload"]
      BY <1>1 DEF Upload
    <2>3. DAG[r] \in Seq(CIDs) /\ Range(DAG[r]) \subseteq store[Owner[c]]
      BY <1>0, <2>1 DEF Range
    <2>4. TypeOK'
      BY <1>0, <2>1, <2>2, <2>3 DEF TypeOK, Task, Announcement
    <2>5. Having(c)'
      BY <1>0, <2>1, <2>2, <2>3 DEF Having
    <2>6. Tree(c)'
      BY <1>0, <2>2 DEF Tree, Started
    <2> QED  BY <1>0, <2>1, <2>2, <2>4, <2>5, <2>6, CallMoves
  <1>2. CASE UploadPuts(c)
    <2>1. /\ UNCHANGED <<store, root, tasks, err, fetched>> /\ call[c] = "upload" /\ todo[c] # <<>>
          /\ PutKey(Owner[c], Head(todo[c])) \/ UNCHANGED board
      BY <1>2 DEF UploadPuts
    <2>2. \/ todo' = [todo EXCEPT ![c] = Tail(@)] /\ UNCHANGED call
          \/ todo' = [todo EXCEPT ![c] = <<>>] /\ call' = [call EXCEPT ![c] = "failed"]
      BY <1>2 DEF UploadPuts, Return
    <2>3. todo[c] \in Seq(CIDs) /\ Range(todo[c]) \subseteq store[Owner[c]]
      BY <1>0 DEF Having
    <2>4. /\ Head(todo[c]) \in store[Owner[c]]
          /\ Tail(todo[c]) \in Seq(CIDs) /\ Range(Tail(todo[c])) \subseteq Range(todo[c])
      BY <2>1, <2>3 DEF Range
    <2>5. (\A a \in board' : a \in board \/ a.cid \in store[a.peer]) /\ board' \subseteq Announcement
      BY <1>0, <2>1, <2>4, PutKeyStep
    <2>6. TypeOK'
      <3>1. todo' \in [Calls -> Seq(CIDs)]
        <4>1. <<>> \in Seq(CIDs)
          OBVIOUS
        <4> QED  BY <1>0, <2>2, <2>4, <4>1
      <3>2. call' \in [Calls -> {"idle", "upload", "download", "uploaded", "downloaded", "failed"}]
        BY <1>0, <2>2
      <3> QED  BY <1>0, <2>1, <2>5, <3>1, <3>2 DEF TypeOK, Task, Announcement
    <2>7. Having(c)'
      <3>1. Range(todo'[c]) \subseteq Range(todo[c])
        <4>1. todo'[c] = Tail(todo[c]) \/ todo'[c] = <<>>
          BY <1>0, <2>2
        <4>2. Range(<<>>) = {}
          BY DEF Range
        <4> QED  BY <2>4, <4>1, <4>2
      <3> QED  BY <1>0, <2>1, <3>1 DEF Having
    <2>8. Tree(c)'
      BY <1>0, <2>1, <2>2 DEF Tree
    <2> QED  BY <1>0, <2>1, <2>2, <2>5, <2>6, <2>7, <2>8, CallMoves
  <1>3. CASE UploadReturns(c)
    <2>1. /\ UNCHANGED <<store, board, root, todo, tasks, err, fetched>> /\ call[c] = "upload"
          /\ call' = [call EXCEPT ![c] = "uploaded"]
      BY <1>3 DEF UploadReturns, Return
    <2>2. TypeOK'
      BY <1>0, <2>1 DEF TypeOK, Task, Announcement
    <2>3. Having(c)' /\ Tree(c)'
      BY <1>0, <2>1 DEF Having, Tree
    <2> QED  BY <1>0, <2>1, <2>2, <2>3, CallMoves
  <1>4. CASE Download(c)
    <2>1. PICK r \in CIDs : /\ root' = [root EXCEPT ![c] = r]
                            /\ tasks' = [tasks EXCEPT ![c] = {Goroutine(<<>>, r)}]
      BY <1>4 DEF Download
    <2>2. /\ UNCHANGED <<store, board, todo, err, fetched>> /\ ~Started(c)
          /\ call' = [call EXCEPT ![c] = "download"]
      BY <1>4 DEF Download
    <2> DEFINE g == Goroutine(<<>>, r)
    <2>3. g \in Task /\ g.cid = r /\ g.stage = "wait"
      BY DEF Goroutine, Task
    <2> HIDE DEF g
    <2>4. tasks' = [tasks EXCEPT ![c] = {g}]
      BY <2>1 DEF g
    <2>5. TypeOK'
      <3>0. root' \in [Calls -> CIDs]
        BY <1>0, <2>1
      <3>1. tasks' \in [Calls -> SUBSET Task]
        BY <1>0, <2>3, <2>4
      <3>2. call' \in [Calls -> {"idle", "upload", "download", "uploaded", "downloaded", "failed"}]
        BY <1>0, <2>2
      <3> QED  BY <1>0, <2>2, <3>0, <3>1, <3>2 DEF TypeOK, Task, Announcement
    <2>6. Having(c)'
      BY <1>0, <2>2, <2>3, <2>4 DEF Having
    <2>7. Tree(c)'
      <3>1. fetched'[c] = {} /\ root'[c] = r /\ tasks'[c] = {g}
        BY <1>0, <2>1, <2>2, <2>4 DEF Tree, Started
      <3> QED  BY <1>0, <2>2, <2>3, <3>1 DEF Tree, Covered
    <2> QED  BY <1>0, <2>1, <2>2, <2>4, <2>5, <2>6, <2>7, CallMoves
  <1>5. CASE DownloadReturns(c)
    <2>1. /\ UNCHANGED <<store, board, root, todo, tasks>> /\ call[c] = "download" /\ tasks[c] = {}
          /\ call' = [call EXCEPT ![c] = IF err[c] THEN "failed" ELSE "downloaded"]
          /\ fetched' = [fetched EXCEPT ![c] = {}] /\ err' = [err EXCEPT ![c] = FALSE]
      BY <1>5 DEF DownloadReturns, Return
    <2>2. TypeOK'
      BY <1>0, <2>1 DEF TypeOK, Task, Announcement
    <2>3. Having(c)' /\ Tree(c)'
      BY <1>0, <2>1 DEF Having, Tree
    <2>4. ASSUME call'[c] = "downloaded"  PROVE Under(root'[c]) \subseteq store'[Owner[c]]
      <3>1. ~err[c]
        BY <1>0, <2>1, <2>4
      <3>2. root[c] \in fetched[c] /\ \A b \in fetched[c] : \A l \in Range(Links[b]) : l \in fetched[c]
        BY <1>0, <2>1, <3>1 DEF Tree, Covered
      <3>3. Closed(fetched[c])
        BY <3>2 DEF Closed
      <3>4. Under(root[c]) \subseteq fetched[c]
        BY <1>0, <3>2, <3>3 DEF Under
      <3> QED  BY <1>0, <2>1, <3>4 DEF Having
    <2> QED  BY <1>0, <2>1, <2>2, <2>3, <2>4, CallMoves
  <1> QED  BY <1>1, <1>2, <1>3, <1>4, <1>5 DEF UploadRuns

\* A block is added, or a daemon crashes.
LEMMA DaemonStepInv ==
    ASSUME IInv, NEW d \in Daemons, AddBlock(d) \/ Crash(d)
    PROVE  IInv'
  <1>1. CASE AddBlock(d)
    <2>1. UNCHANGED <<board, call, root, todo, tasks, err, fetched>>
      BY <1>1 DEF AddBlock
    <2>2. store' \in [Daemons -> SUBSET CIDs] /\ \A e \in Daemons : store[e] \subseteq store'[e]
      BY <1>1 DEF AddBlock, IInv, TypeOK
    <2>3. TypeOK'
      BY <2>1, <2>2 DEF IInv, TypeOK, Task, Announcement
    <2>4. \A c \in Calls : Having(c)' /\ Tree(c)'
      BY <2>1, <2>2, CallStays
    <2>5. \A c \in Calls : call'[c] = "downloaded" => Under(root'[c]) \subseteq store'[Owner[c]]
      BY <2>1, <2>2, CompleteKept
    <2> QED  BY <2>1, <2>2, <2>3, <2>4, <2>5, Together
  <1>2. CASE Crash(d)
    <2>1. /\ call' = [c \in Calls |-> IF Owner[c] = d /\ Started(c) THEN "failed" ELSE call[c]]
          /\ tasks' = [c \in Calls |-> IF Owner[c] = d THEN {} ELSE tasks[c]]
          /\ todo' = [c \in Calls |-> IF Owner[c] = d THEN <<>> ELSE todo[c]]
          /\ fetched' = [c \in Calls |-> IF Owner[c] = d THEN {} ELSE fetched[c]]
          /\ err' = [c \in Calls |-> IF Owner[c] = d THEN FALSE ELSE err[c]]
          /\ UNCHANGED <<store, board, root>>
      BY <1>2 DEF Crash
    <2>2. TypeOK'
      <3>1. TypeOK /\ <<>> \in Seq(CIDs)
        BY DEF IInv
      <3>2. todo' \in [Calls -> Seq(CIDs)]
        BY <2>1, <3>1 DEF TypeOK
      <3>3. /\ tasks' \in [Calls -> SUBSET Task] /\ fetched' \in [Calls -> SUBSET CIDs]
            /\ err' \in [Calls -> BOOLEAN]
            /\ call' \in [Calls -> {"idle", "upload", "download", "uploaded", "downloaded", "failed"}]
        BY <2>1, <3>1 DEF TypeOK
      <3> QED  BY <2>1, <3>1, <3>2, <3>3 DEF TypeOK, Task, Announcement
    <2>3. ASSUME NEW c \in Calls
          PROVE  /\ Having(c)' /\ Tree(c)'
                 /\ call'[c] = "downloaded" => Under(root'[c]) \subseteq store'[Owner[c]]
      <3>1. call'[c] = "downloaded" => call[c] = "downloaded"
        BY <2>1
      <3>2. call'[c] = "downloaded" => Under(root'[c]) \subseteq store'[Owner[c]]
        BY <2>1, <3>1, CompleteKept
      <3>3. CASE Owner[c] = d
        <4>1. call'[c] # "download"
          BY <2>1, <3>3 DEF Started
        <4> QED  BY <2>1, <3>2, <3>3, <4>1 DEF Having, Tree, Range
      <3>4. CASE Owner[c] # d
        BY <2>1, <3>2, <3>4, CallStays
      <3> QED  BY <3>3, <3>4
    <2> QED  BY <2>1, <2>2, <2>3, Together
  <1> QED  BY <1>1, <1>2

-----------------------------------------------------------------------------

LEMMA InitInv == Init => IInv
  <1> SUFFICES ASSUME Init PROVE IInv
    OBVIOUS
  <1>1. (CHOOSE r \in CIDs : TRUE) \in CIDs
    BY SwarmAssumption
  <1>2. TypeOK
    BY <1>1 DEF Init, TypeOK
  <1>3. AnnouncedStored /\ DownloadComplete
    BY DEF Init, AnnouncedStored, DownloadComplete
  <1>4. \A c \in Calls : Having(c) /\ Tree(c)
    BY DEF Init, Having, Tree, Range
  <1> QED  BY <1>2, <1>3, <1>4 DEF IInv

LEMMA NextInv == IInv /\ [Next]_vars => IInv'
  <1> SUFFICES ASSUME IInv, [Next]_vars PROVE IInv'
    OBVIOUS
  <1>1. CASE UNCHANGED vars
    <2>1. TypeOK' /\ AnnouncedStored' /\ DownloadComplete'
      BY <1>1 DEF IInv, vars, TypeOK, Task, Announcement, AnnouncedStored, DownloadComplete,
                  Under, Closed
    <2>2. \A c \in Calls : Having(c)' /\ Tree(c)'
      BY <1>1, CallStays DEF vars
    <2> QED  BY <2>1, <2>2 DEF IInv
  <1>2. CASE \E d \in Daemons : AddBlock(d) \/ Crash(d)
    BY <1>2, DaemonStepInv
  <1>3. CASE \E c \in Calls : Upload(c) \/ UploadRuns(c) \/ Download(c) \/ DownloadReturns(c)
    BY <1>3, CallStepInv
  <1>4. CASE \E c \in Calls : \E t \in tasks[c] : Acquire(c, t) \/ Running(c, t)
    BY <1>4, TaskStepInv
  <1> QED  BY <1>1, <1>2, <1>3, <1>4 DEF Next, Acquires, Runs

\* The invariant holds in every state that the daemons can reach.
THEOREM Invariance == Spec => []IInv
  BY InitInv, NextInv, PTL DEF Spec

\* Whoever is announced as having a block has it in the store.
THEOREM AnnouncedStoredHolds == Spec => []AnnouncedStored
  <1>1. IInv => AnnouncedStored
    BY DEF IInv
  <1> QED  BY <1>1, Invariance, PTL

\* A Download without an error has left every block of the DAG in the store.
THEOREM DownloadCompleteHolds == Spec => []DownloadComplete
  <1>1. IInv => DownloadComplete
    BY DEF IInv
  <1> QED  BY <1>1, Invariance, PTL

-----------------------------------------------------------------------------
(* The sequence of blocks that an Upload announces *)

\* Induction up to n, by the least number that is not in S.
LEMMA InductionUpTo ==
    ASSUME NEW n \in Nat, NEW S, 0 \in S,
           \A i \in 1 .. n : i - 1 \in S => i \in S
    PROVE  0 .. n \subseteq S
  <1> SUFFICES ASSUME (0 .. n) \ S # {} PROVE FALSE
    OBVIOUS
  <1> DEFINE T == (0 .. n) \ S
             R == {ss \in Nat \X Nat : ss[1] < ss[2]}
  <1>1. IsWellFoundedOn(R, Nat)
    BY NatLessThanWellFounded DEF OpToRel
  <1>2. PICK m \in T : \A i \in T : <<i, m>> \notin R
    <2>1. T \subseteq Nat
      OBVIOUS
    <2> HIDE DEF R, T
    <2> QED  BY <1>1, <2>1, WFMin DEF T
  <1>3. m \in 0 .. n /\ m \notin S
    OBVIOUS
  <1>4. m \in 1 .. n /\ m - 1 \in 0 .. n
    BY <1>3
  <1>5. m - 1 \in S
    <2>1. <<m - 1, m>> \in R
      BY <1>4
    <2> HIDE DEF R
    <2> QED  BY <1>2, <1>4, <2>1
  <1> QED  BY <1>3, <1>4, <1>5

\* The first k of the recursion of FlattenSeq.
Flattens(ss, k, f) == f = [i \in 1 .. k |-> IF i = 1 THEN ss[i] ELSE f[i - 1] \o ss[i]]

LEMMA FlattensExists ==
    ASSUME NEW ss, NEW n \in Nat
    PROVE  \E f : Flattens(ss, n, f)
  <1> DEFINE T == {k \in 0 .. n : \E f : Flattens(ss, k, f)}
  <1>1. 0 \in T
    <2> DEFINE g == [i \in 1 .. 0 |-> 0]
    <2>1. Flattens(ss, 0, g)
      BY DEF Flattens
    <2> QED  BY <2>1
  <1>2. ASSUME NEW k \in 1 .. n, k - 1 \in T  PROVE k \in T
    <2>1. PICK f : Flattens(ss, k - 1, f)
      BY <1>2
    <2> DEFINE last == IF k = 1 THEN ss[k] ELSE f[k - 1] \o ss[k]
               g == [i \in 1 .. k |-> IF i = k THEN last ELSE f[i]]
    <2>2. \A i \in 1 .. k - 1 : f[i] = IF i = 1 THEN ss[i] ELSE f[i - 1] \o ss[i]
      BY <2>1 DEF Flattens
    <2>3. ASSUME NEW i \in 1 .. k
          PROVE  g[i] = IF i = 1 THEN ss[i] ELSE g[i - 1] \o ss[i]
      <3>1. CASE i = 1
        BY <2>2, <3>1
      <3>2. CASE i # 1
        <4>1. i - 1 \in 1 .. k /\ i - 1 # k
          BY <3>2
        <4>2. g[i - 1] = f[i - 1]
          BY <4>1
        <4>3. CASE i = k
          BY <3>2, <4>2, <4>3
        <4>4. CASE i # k
          <5>1. i \in 1 .. k - 1
            BY <4>4
          <5> QED  BY <2>2, <3>2, <4>2, <4>4, <5>1
        <4> QED  BY <4>3, <4>4
      <3> QED  BY <3>1, <3>2
    <2>4. Flattens(ss, k, g)
      <3>1. g = [i \in 1 .. k |-> g[i]]
        OBVIOUS
      <3> HIDE DEF g
      <3> QED  BY <2>3, <3>1 DEF Flattens
    <2> QED  BY <2>4
  <1>3. 0 .. n \subseteq T
    <2> HIDE DEF T
    <2> QED  BY <1>1, <1>2, InductionUpTo
  <1> QED  BY <1>3

LEMMA RangeConcatenated ==
    ASSUME NEW S, NEW s \in Seq(S), NEW t \in Seq(S)
    PROVE  s \o t \in Seq(S) /\ Range(s \o t) = Range(s) \cup Range(t)
  <1>1. /\ s \o t \in Seq(S) /\ Len(s \o t) = Len(s) + Len(t)
        /\ Len(s) \in Nat /\ Len(t) \in Nat
        /\ DOMAIN s = 1 .. Len(s) /\ DOMAIN t = 1 .. Len(t) /\ DOMAIN (s \o t) = 1 .. Len(s) + Len(t)
    OBVIOUS
  <1>2. \A i \in 1 .. Len(s) + Len(t) :
            (s \o t)[i] = IF i <= Len(s) THEN s[i] ELSE t[i - Len(s)]
    OBVIOUS
  <1>3. ASSUME NEW x \in Range(s)  PROVE x \in Range(s \o t)
    <2>1. PICK i \in 1 .. Len(s) : x = s[i]
      BY <1>1 DEF Range
    <2>2. i \in 1 .. Len(s) + Len(t) /\ i <= Len(s)
      BY <1>1
    <2>3. (s \o t)[i] = s[i]
      BY <1>2, <2>2
    <2> QED  BY <1>1, <2>1, <2>2, <2>3 DEF Range
  <1>4. ASSUME NEW x \in Range(t)  PROVE x \in Range(s \o t)
    <2>1. PICK i \in 1 .. Len(t) : x = t[i]
      BY <1>1 DEF Range
    <2>2. i + Len(s) \in 1 .. Len(s) + Len(t) /\ ~(i + Len(s) <= Len(s)) /\ (i + Len(s)) - Len(s) = i
      BY <1>1
    <2>3. (s \o t)[i + Len(s)] = t[i]
      BY <1>2, <2>2
    <2> QED  BY <1>1, <2>1, <2>2, <2>3 DEF Range
  <1>5. ASSUME NEW x \in Range(s \o t)  PROVE x \in Range(s) \cup Range(t)
    <2>1. PICK i \in 1 .. Len(s) + Len(t) : x = (s \o t)[i]
      BY <1>1 DEF Range
    <2>2. CASE i <= Len(s)
      <3>1. i \in 1 .. Len(s) /\ x = s[i]
        BY <1>1, <1>2, <2>1, <2>2
      <3> QED  BY <1>1, <3>1 DEF Range
    <2>3. CASE ~(i <= Len(s))
      <3>1. i - Len(s) \in 1 .. Len(t) /\ x = t[i - Len(s)]
        BY <1>1, <1>2, <2>1, <2>3
      <3> QED  BY <1>1, <3>1 DEF Range
    <2> QED  BY <1>1, <2>2, <2>3
  <1> QED  BY <1>1, <1>3, <1>4, <1>5

\* Flattening sequences over S gives a sequence over S with all their elements.
LEMMA Flattened ==
    ASSUME NEW S, NEW ss \in Seq(Seq(S))
    PROVE  /\ FlattenSeq(ss) \in Seq(S)
           /\ \A i \in DOMAIN ss : Range(ss[i]) \subseteq Range(FlattenSeq(ss))
           /\ \A x \in Range(FlattenSeq(ss)) : \E i \in DOMAIN ss : x \in Range(ss[i])
  <1>1. Len(ss) \in Nat /\ DOMAIN ss = 1 .. Len(ss) /\ \A i \in DOMAIN ss : ss[i] \in Seq(S)
    OBVIOUS
  <1>2. CASE Len(ss) = 0
    <2>1. ss = <<>> /\ FlattenSeq(ss) = ss
      BY <1>2 DEF FlattenSeq
    <2>2. FlattenSeq(ss) = <<>> /\ DOMAIN ss = {} /\ <<>> \in Seq(S)
      BY <1>1, <1>2, <2>1
    <2>3. Range(<<>>) = {}
      BY DEF Range
    <2> QED  BY <2>2, <2>3
  <1>3. CASE Len(ss) # 0
    <2> DEFINE n == Len(ss)
               flatten[i \in 1 .. Len(ss)] == IF i = 1 THEN ss[i] ELSE flatten[i - 1] \o ss[i]
    <2>1. FlattenSeq(ss) = flatten[n]
      BY <1>3 DEF FlattenSeq
    <2>2. PICK f : f = [i \in 1 .. n |-> IF i = 1 THEN ss[i] ELSE f[i - 1] \o ss[i]]
      BY <1>1, FlattensExists DEF Flattens
    <2>3. flatten = [i \in 1 .. n |-> IF i = 1 THEN ss[i] ELSE flatten[i - 1] \o ss[i]]
      BY <2>2
    <2> HIDE DEF flatten
    <2>4. \A i \in 1 .. n : flatten[i] = IF i = 1 THEN ss[i] ELSE flatten[i - 1] \o ss[i]
      BY <2>3
    <2> DEFINE Good(k) == /\ flatten[k] \in Seq(S)
                          /\ \A i \in 1 .. k : Range(ss[i]) \subseteq Range(flatten[k])
                          /\ \A x \in Range(flatten[k]) : \E i \in 1 .. k : x \in Range(ss[i])
               T == {k \in 0 .. n : k = 0 \/ Good(k)}
    <2>5. ASSUME NEW k \in 1 .. n, k - 1 \in T  PROVE k \in T
      <3> SUFFICES Good(k)
        <4>1. k \in 0 .. n
          BY <1>1
        <4> HIDE DEF Good, n
        <4> QED  BY <4>1
      <3>1. ss[k] \in Seq(S)
        BY <1>1
      <3>2. CASE k = 1
        <4>1. flatten[k] = ss[k] /\ k \in 1 .. k /\ \A i \in 1 .. k : i = k
          BY <2>4, <3>2
        <4> QED  BY <3>1, <4>1
      <3>3. CASE k # 1
        <4>1. Good(k - 1) /\ k - 1 \in 1 .. n
          <5> HIDE DEF Good
          <5> QED  BY <1>1, <2>5, <3>3
        <4>2. flatten[k] = flatten[k - 1] \o ss[k]
          BY <2>4, <3>3
        <4>3. /\ flatten[k] \in Seq(S)
              /\ Range(flatten[k]) = Range(flatten[k - 1]) \cup Range(ss[k])
          <5> HIDE DEF flatten
          <5> QED  BY <3>1, <4>1, <4>2, RangeConcatenated
        <4>4. \A i : i \in 1 .. k <=> i = k \/ i \in 1 .. k - 1
          BY <1>1
        <4> QED  BY <4>1, <4>3, <4>4
      <3> QED  BY <3>2, <3>3
    <2>6. 0 \in T
      BY <1>1
    <2>7. n \in T
      <3> HIDE DEF T, n
      <3>1. 0 .. n \subseteq T
        BY <1>1, <2>5, <2>6, InductionUpTo DEF n
      <3> QED  BY <1>1, <3>1 DEF n
    <2> QED  BY <1>1, <1>3, <2>1, <2>7
  <1> QED  BY <1>2, <1>3
\* The sequence of block c, from those of its links in f.
Below(c, f) == <<c>> \o FlattenSeq([i \in DOMAIN Links[c] |-> f[Links[c][i]]])

\* f has the sequences of the blocks D, which are closed under links.
Sequences(D, f) ==
    D \in SUBSET CIDs /\ Closed(D) /\ f = [c \in D |-> Below(c, f)]

LEMMA LinksAre ==
    ASSUME NEW c \in CIDs
    PROVE  /\ Links[c] \in Seq(CIDs) /\ Range(Links[c]) \subseteq CIDs
           /\ \A i \in DOMAIN Links[c] : Links[c][i] \in Range(Links[c])
           /\ \A l \in Range(Links[c]) : \E i \in DOMAIN Links[c] : l = Links[c][i]
  <1>1. Links[c] \in Seq(CIDs)
    BY SwarmAssumption
  <1> QED  BY <1>1 DEF Range

\* Functions that agree on the links of c give it the same sequence.
LEMMA SameBelow ==
    ASSUME NEW c \in CIDs, NEW f, NEW g, \A l \in Range(Links[c]) : f[l] = g[l]
    PROVE  Below(c, f) = Below(c, g)
  <1>1. \A i \in DOMAIN Links[c] : f[Links[c][i]] = g[Links[c][i]]
    BY LinksAre
  <1>2. [i \in DOMAIN Links[c] |-> f[Links[c][i]]] = [i \in DOMAIN Links[c] |-> g[Links[c][i]]]
    BY <1>1
  <1> QED  BY <1>2 DEF Below

\* Two such functions agree wherever both are defined.
LEMMA SequencesUnique ==
    ASSUME NEW D, NEW f, NEW E, NEW g, Sequences(D, f), Sequences(E, g)
    PROVE  \A c \in D \cap E : f[c] = g[c]
  <1> DEFINE S == {c \in D \cap E : f[c] # g[c]}
  <1> SUFFICES ASSUME S # {} PROVE FALSE
    OBVIOUS
  <1>1. PICK c \in S : Range(Links[c]) \cap S = {}
    BY AcyclicAssumption DEF Sequences
  <1>2. /\ c \in D /\ c \in E /\ c \in CIDs /\ f[c] # g[c]
        /\ f[c] = Below(c, f) /\ g[c] = Below(c, g)
    BY DEF Sequences
  <1>3. Range(Links[c]) \subseteq D \cap E
    BY <1>2 DEF Sequences, Closed
  <1>4. \A l \in Range(Links[c]) : f[l] = g[l]
    BY <1>1, <1>3
  <1> QED  BY <1>2, <1>4, SameBelow

\* There is such a function for all blocks: a block that none covers would have
\* a link that none covers, and so on without end.
LEMMA SequencesExist == \E f : Sequences(CIDs, f)
  <1> DEFINE Has(c, v) == \E D, f : Sequences(D, f) /\ c \in D /\ v = f[c]
             V == {c \in CIDs : \E v : Has(c, v)}
             h == [c \in V |-> CHOOSE v : Has(c, v)]
  <1>1. ASSUME NEW D, NEW f, Sequences(D, f)
        PROVE  D \subseteq V /\ \A c \in D : h[c] = f[c]
    <2>1. D \subseteq V
      BY <1>1 DEF Sequences
    <2>2. ASSUME NEW c \in D  PROVE h[c] = f[c]
      <3>1. Has(c, f[c])
        BY <1>1
      <3>2. PICK v : v = h[c] /\ Has(c, v)
        BY <2>1, <3>1
      <3>3. PICK E, g : Sequences(E, g) /\ c \in E /\ v = g[c]
        BY <3>2
      <3>4. f[c] = g[c]
        BY <1>1, <3>3, SequencesUnique
      <3> QED  BY <3>2, <3>3, <3>4
    <2> QED  BY <2>1, <2>2
  <1>2. ASSUME NEW c \in V
        PROVE  Range(Links[c]) \subseteq V /\ h[c] = Below(c, h)
    <2>1. PICK D, f : Sequences(D, f) /\ c \in D
      OBVIOUS
    <2>2. Range(Links[c]) \subseteq D /\ f[c] = Below(c, f) /\ c \in CIDs
      BY <2>1 DEF Sequences, Closed
    <2> HIDE DEF h, V, Has
    <2>3. D \subseteq V /\ \A b \in D : h[b] = f[b]
      BY <1>1, <2>1
    <2>4. Below(c, h) = Below(c, f)
      BY <2>2, <2>3, SameBelow
    <2> QED  BY <2>1, <2>2, <2>3, <2>4
  <1>3. Sequences(V, h)
    <2>1. V \in SUBSET CIDs /\ Closed(V)
      BY <1>2 DEF Closed
    <2>2. h = [c \in V |-> h[c]]
      OBVIOUS
    <2> HIDE DEF h, V
    <2> QED  BY <1>2, <2>1, <2>2 DEF Sequences
  <1>4. V = CIDs
    <2> SUFFICES ASSUME CIDs \ V # {} PROVE FALSE
      OBVIOUS
    <2>1. PICK c \in CIDs \ V : Range(Links[c]) \cap (CIDs \ V) = {}
      <3> HIDE DEF V
      <3> QED  BY AcyclicAssumption
    <2>2. Range(Links[c]) \subseteq V /\ c \notin V /\ c \in CIDs
      BY <2>1, LinksAre
    <2> DEFINE W == V \cup {c}
               g == [b \in W |-> IF b = c THEN Below(c, h) ELSE h[b]]
    <2>3. \A b \in V : g[b] = h[b]
      BY <2>2
    <2>4. g[c] = Below(c, h)
      OBVIOUS
    <2>5. ASSUME NEW b \in W
          PROVE  Range(Links[b]) \subseteq V /\ b \in CIDs /\ g[b] = Below(b, g)
      <3>1. Range(Links[b]) \subseteq V /\ b \in CIDs
        BY <1>2, <2>2
      <3>2. g[b] = Below(b, h)
        BY <1>2, <2>3, <2>4
      <3>3. \A l \in Range(Links[b]) : g[l] = h[l]
        BY <2>3, <3>1
      <3>4. Below(b, g) = Below(b, h)
        <4> HIDE DEF g, h, V
        <4> QED  BY <3>1, <3>3, SameBelow
      <3> QED  BY <3>1, <3>2, <3>4
    <2>6. Sequences(W, g)
      <3>1. g = [b \in W |-> g[b]] /\ W \in SUBSET CIDs
        BY <2>2
      <3> HIDE DEF g
      <3>2. Closed(W)
        BY <2>5 DEF Closed
      <3> QED  BY <2>5, <3>1, <3>2 DEF Sequences
    <2>7. c \in V
      <3> HIDE DEF g, h, V
      <3>1. W \subseteq V
        BY <1>1, <2>6
      <3> QED  BY <3>1
    <2> QED  BY <2>2, <2>7
  <1> QED  BY <1>3, <1>4

LEMMA DAGIs == \A c \in CIDs : DAG[c] = Below(c, DAG)
  <1>1. PICK f : f = [c \in CIDs |-> <<c>> \o FlattenSeq([i \in DOMAIN Links[c] |-> f[Links[c][i]]])]
    BY SequencesExist DEF Sequences, Below
  <1>2. DAG = [c \in CIDs |-> <<c>> \o FlattenSeq([i \in DOMAIN Links[c] |-> DAG[Links[c][i]]])]
    BY <1>1 DEF DAG
  <1> QED  BY <1>2 DEF Below

\* The sequence of a block has the block and the sequences of its links.
LEMMA DAGOf ==
    ASSUME NEW c \in CIDs, \A l \in Range(Links[c]) : DAG[l] \in Seq(CIDs)
    PROVE  /\ DAG[c] \in Seq(CIDs) /\ c \in Range(DAG[c])
           /\ \A l \in Range(Links[c]) : Range(DAG[l]) \subseteq Range(DAG[c])
           /\ \A b \in Range(DAG[c]) \ {c} : \E l \in Range(Links[c]) : b \in Range(DAG[l])
  <1> DEFINE ss == [i \in DOMAIN Links[c] |-> DAG[Links[c][i]]]
  <1>1. Links[c] \in Seq(CIDs) /\ DOMAIN Links[c] = 1 .. Len(Links[c]) /\ Len(Links[c]) \in Nat
    BY LinksAre
  <1>2. ss \in Seq(Seq(CIDs)) /\ DOMAIN ss = DOMAIN Links[c]
    BY <1>1, LinksAre
  <1>3. DAG[c] = <<c>> \o FlattenSeq(ss)
    BY DAGIs DEF Below
  <1>4. \A i \in DOMAIN ss : ss[i] = DAG[Links[c][i]]
    OBVIOUS
  <1> HIDE DEF ss
  <1>5. /\ FlattenSeq(ss) \in Seq(CIDs)
        /\ \A i \in DOMAIN ss : Range(ss[i]) \subseteq Range(FlattenSeq(ss))
        /\ \A b \in Range(FlattenSeq(ss)) : \E i \in DOMAIN ss : b \in Range(ss[i])
    BY <1>2, Flattened
  <1>6. <<c>> \in Seq(CIDs) /\ Range(<<c>>) = {c}
    BY DEF Range
  <1>7. DAG[c] \in Seq(CIDs) /\ Range(DAG[c]) = Range(<<c>>) \cup Range(FlattenSeq(ss))
    <2> DEFINE one == <<c>>
               all == FlattenSeq(ss)
    <2>1. one \in Seq(CIDs) /\ all \in Seq(CIDs) /\ DAG[c] = one \o all
      BY <1>3, <1>5, <1>6
    <2> HIDE DEF one, all
    <2>2. DAG[c] \in Seq(CIDs) /\ Range(DAG[c]) = Range(one) \cup Range(all)
      BY <2>1, RangeConcatenated
    <2> QED  BY <2>2 DEF one, all
  <1>8. ASSUME NEW l \in Range(Links[c])  PROVE Range(DAG[l]) \subseteq Range(DAG[c])
    <2>1. PICK i \in DOMAIN Links[c] : l = Links[c][i]
      BY LinksAre
    <2> QED  BY <1>2, <1>4, <1>5, <1>7, <2>1
  <1>9. ASSUME NEW b \in Range(DAG[c]) \ {c}
        PROVE  \E l \in Range(Links[c]) : b \in Range(DAG[l])
    <2>1. PICK i \in DOMAIN Links[c] : b \in Range(ss[i])
      BY <1>2, <1>5, <1>6, <1>7
    <2> QED  BY <1>4, <1>2, <2>1, LinksAre
  <1> QED  BY <1>6, <1>7, <1>8, <1>9

\* DAG lists every block under its root: what an Upload goes through is all of
\* the DAG.
LEMMA DAGComplete ==
    ASSUME NEW r \in CIDs
    PROVE  DAG[r] \in Seq(CIDs) /\ Under(r) \subseteq Range(DAG[r])
  <1> DEFINE Good(c) == /\ DAG[c] \in Seq(CIDs) /\ c \in Range(DAG[c])
                        /\ Range(DAG[c]) \subseteq CIDs /\ Closed(Range(DAG[c]))
             S == {c \in CIDs : ~Good(c)}
  <1>1. S = {}
    <2> SUFFICES ASSUME S # {} PROVE FALSE
      OBVIOUS
    <2>1. PICK c \in S : Range(Links[c]) \cap S = {}
      BY AcyclicAssumption
    <2>2. \A l \in Range(Links[c]) : Good(l)
      BY <2>1, LinksAre
    <2>3. /\ DAG[c] \in Seq(CIDs) /\ c \in Range(DAG[c])
          /\ \A l \in Range(Links[c]) : Range(DAG[l]) \subseteq Range(DAG[c])
          /\ \A b \in Range(DAG[c]) \ {c} : \E l \in Range(Links[c]) : b \in Range(DAG[l])
      BY <2>2, DAGOf
    <2>4. Range(DAG[c]) \subseteq CIDs
      BY <2>3 DEF Range
    <2>5. ASSUME NEW b \in Range(DAG[c])  PROVE Range(Links[b]) \subseteq Range(DAG[c])
      <3>1. CASE b = c
        BY <2>2, <2>3, <3>1
      <3>2. CASE b # c
        <4>1. PICK l \in Range(Links[c]) : b \in Range(DAG[l])
          BY <2>3, <3>2
        <4>2. Closed(Range(DAG[l])) /\ Range(DAG[l]) \subseteq Range(DAG[c])
          BY <2>2, <2>3
        <4> QED  BY <4>1, <4>2 DEF Closed
      <3> QED  BY <3>1, <3>2
    <2>6. Closed(Range(DAG[c]))
      BY <2>5 DEF Closed
    <2> QED  BY <2>3, <2>4, <2>6
  <1> QED  BY <1>1 DEF Under
-----------------------------------------------------------------------------
(* Uploads *)

Announced(c, b) == \E a \in board : a.cid = b /\ a.peer = Owner[c]

\* A running Upload has announced each block of its DAG or has yet to come to
\* it; one that has returned without an error has announced them all.
Uploading(c) ==
    /\ call[c] = "upload" =>
        \A b \in Range(DAG[root[c]]) : b \in Range(todo[c]) \/ Announced(c, b)
    /\ call[c] = "uploaded" => \A b \in Range(DAG[root[c]]) : Announced(c, b)

UploadInv == \A c \in Calls : Uploading(c)

\* The announcements are never taken back.
LEMMA BoardGrows == Next => board \subseteq board'
  <1> SUFFICES ASSUME Next PROVE board \subseteq board'
    OBVIOUS
  <1>1. ASSUME NEW d \in Daemons, AddBlock(d) \/ Crash(d)  PROVE board \subseteq board'
    BY <1>1 DEF AddBlock, Crash
  <1>2. ASSUME NEW c \in Calls, Upload(c) \/ UploadRuns(c) \/ Download(c) \/ DownloadReturns(c)
        PROVE  board \subseteq board'
    BY <1>2 DEF Upload, UploadRuns, UploadPuts, UploadReturns, Download, DownloadReturns, PutKey
  <1>3. ASSUME NEW c \in Calls, NEW t \in tasks[c], Acquire(c, t) \/ Running(c, t)
        PROVE  board \subseteq board'
    BY <1>3 DEF Acquire, Running, FindPeers, GetBlock, PutBlock, AnnounceBlock, Leave, PutKey
  <1> QED  BY <1>1, <1>2, <1>3 DEF Next, Acquires, Runs

\* A call that is not in UploadPuts or UploadReturns and does not begin.
LEMMA UploadStays ==
    ASSUME NEW c \in Calls, Uploading(c), board \subseteq board',
           call'[c] \in {"upload", "uploaded"} => call'[c] = call[c] /\ root'[c] = root[c],
           call'[c] = "upload" => todo'[c] = todo[c]
    PROVE  Uploading(c)'
  BY DEF Uploading, Announced

\* The steps of the call itself.
LEMMA UploadStep ==
    ASSUME TypeOK, NEW c \in Calls, Uploading(c), Upload(c) \/ UploadRuns(c)
    PROVE  Uploading(c)'
  <1>0. /\ call \in [Calls -> {"idle", "upload", "download", "uploaded", "downloaded", "failed"}]
        /\ root \in [Calls -> CIDs] /\ todo \in [Calls -> Seq(CIDs)]
    BY DEF TypeOK
  <1>1. CASE Upload(c)
    BY <1>0, <1>1 DEF Upload, Uploading
  <1>2. CASE UploadPuts(c)
    <2>1. board \subseteq board' /\ root' = root /\ call[c] = "upload" /\ todo[c] # <<>>
      BY <1>2 DEF UploadPuts, PutKey
    <2>2. CASE /\ PutKey(Owner[c], Head(todo[c])) /\ todo' = [todo EXCEPT ![c] = Tail(@)]
               /\ UNCHANGED call
      <3>1. todo'[c] = Tail(todo[c]) /\ call'[c] = "upload"
        BY <1>0, <2>1, <2>2
      <3>2. \A b \in Range(todo[c]) : b = Head(todo[c]) \/ b \in Range(Tail(todo[c]))
        <4>1. todo[c] \in Seq(CIDs)
          BY <1>0
        <4> SUFFICES ASSUME NEW i \in DOMAIN todo[c]
                     PROVE  todo[c][i] = Head(todo[c]) \/ todo[c][i] \in Range(Tail(todo[c]))
          BY DEF Range
        <4>2. CASE i = 1
          BY <2>1, <4>1, <4>2
        <4>3. CASE i # 1
          <5>1. i - 1 \in DOMAIN Tail(todo[c]) /\ Tail(todo[c])[i - 1] = todo[c][i]
            BY <2>1, <4>1, <4>3
          <5> QED  BY <5>1 DEF Range
        <4> QED  BY <4>2, <4>3
      <3>3. \E a \in board' : a.cid = Head(todo[c]) /\ a.peer = Owner[c]
        <4> DEFINE b == Head(todo[c])
        <4>1. PICK t \in Times : board' = board \cup {[cid |-> b, peer |-> Owner[c], time |-> t]}
          BY <2>2 DEF PutKey
        <4> HIDE DEF b
        <4>2. [cid |-> b, peer |-> Owner[c], time |-> t] \in board'
          BY <4>1
        <4> QED  BY <4>2 DEF b
      <3>4. \A b : Announced(c, b) => \E a \in board' : a.cid = b /\ a.peer = Owner[c]
        BY <2>1 DEF Announced
      <3>5. \A b \in Range(DAG[root[c]]) : b \in Range(todo[c]) \/ Announced(c, b)
        BY <2>1 DEF Uploading
      <3>6. \A b \in Range(DAG[root[c]]) :
                b \in Range(todo'[c]) \/ \E a \in board' : a.cid = b /\ a.peer = Owner[c]
        BY <3>1, <3>2, <3>3, <3>4, <3>5
      <3> QED  BY <2>1, <3>1, <3>6 DEF Uploading, Announced
    <2>3. CASE call' = [call EXCEPT ![c] = "failed"]
      BY <1>0, <2>3 DEF Uploading
    <2> QED  BY <1>2, <2>2, <2>3 DEF UploadPuts, Return
  <1>3. CASE UploadReturns(c)
    <2>1. /\ todo[c] = <<>> /\ call[c] = "upload" /\ call'[c] = "uploaded"
          /\ UNCHANGED <<board, root, todo>>
      BY <1>0, <1>3 DEF UploadReturns, Return
    <2>2. Range(<<>>) = {}
      BY DEF Range
    <2> QED  BY <2>1, <2>2 DEF Uploading, Announced
  <1> QED  BY <1>1, <1>2, <1>3 DEF UploadRuns

LEMMA UploadNext == IInv /\ UploadInv /\ [Next]_vars => UploadInv'
  <1> SUFFICES ASSUME IInv, UploadInv, [Next]_vars, NEW e \in Calls
               PROVE  Uploading(e)'
    BY DEF UploadInv
  <1>0. TypeOK /\ Uploading(e)
    BY DEF IInv, UploadInv
  <1>1. CASE UNCHANGED vars
    BY <1>0, <1>1, UploadStays DEF vars
  <1>2. ASSUME NEW d \in Daemons, Next, AddBlock(d) \/ Crash(d)  PROVE Uploading(e)'
    <2>1. CASE AddBlock(d)
      BY <1>0, <1>2, <2>1, BoardGrows, UploadStays DEF AddBlock
    <2>2. CASE Crash(d)
      <3>1. /\ call'[e] \in {"upload", "uploaded"} => call'[e] = call[e] /\ root'[e] = root[e]
            /\ call'[e] = "upload" => todo'[e] = todo[e]
        <4>1. CASE Owner[e] = d /\ Started(e)
          BY <2>2, <4>1 DEF Crash
        <4>2. CASE Owner[e] = d /\ ~Started(e)
          <5>1. call'[e] = call[e] /\ root' = root
            BY <2>2, <4>2 DEF Crash
          <5> QED  BY <4>2, <5>1 DEF Started
        <4>3. CASE Owner[e] # d
          BY <2>2, <4>3 DEF Crash
        <4> QED  BY <4>1, <4>2, <4>3
      <3> QED  BY <1>0, <1>2, <3>1, BoardGrows, UploadStays
    <2> QED  BY <1>2, <2>1, <2>2
  <1>3. ASSUME NEW c \in Calls, Next,
               Upload(c) \/ UploadRuns(c) \/ Download(c) \/ DownloadReturns(c)
        PROVE  Uploading(e)'
    <2>0. /\ call \in [Calls -> {"idle", "upload", "download", "uploaded", "downloaded", "failed"}]
          /\ root \in [Calls -> CIDs] /\ todo \in [Calls -> Seq(CIDs)]
      BY <1>0 DEF TypeOK
    <2>1. CASE c = e
      <3>1. CASE Download(c) \/ DownloadReturns(c)
        <4>1. call'[e] \notin {"upload", "uploaded"}
          BY <2>0, <2>1, <3>1 DEF Download, DownloadReturns, Return
        <4> QED  BY <4>1 DEF Uploading
      <3> QED  BY <1>0, <1>3, <2>1, <3>1, UploadStep
    <2>2. CASE c # e
      <3>1. call'[e] = call[e] /\ root'[e] = root[e] /\ todo'[e] = todo[e]
        BY <1>3, <2>0, <2>2 DEF Upload, UploadRuns, UploadPuts, UploadReturns, Download,
                                DownloadReturns, Return
      <3> QED  BY <1>0, <1>3, <3>1, BoardGrows, UploadStays
    <2> QED  BY <2>1, <2>2
  <1>4. ASSUME NEW c \in Calls, Next, \E t \in tasks[c] : Acquire(c, t) \/ Running(c, t)
        PROVE  Uploading(e)'
    <2>1. UNCHANGED <<call, root, todo>>
      BY <1>4 DEF Acquire, Running, FindPeers, GetBlock, PutBlock, AnnounceBlock, Leave
    <2> QED  BY <1>0, <1>4, <2>1, BoardGrows, UploadStays
  <1> QED  BY <1>1, <1>2, <1>3, <1>4 DEF Next, Acquires, Runs

\* An Upload without an error has announced every block of the DAG: DAG lists
\* them all, and none is passed over.
THEOREM UploadCompleteHolds == Spec => []UploadComplete
  <1>1. Init => UploadInv
    BY DEF Init, UploadInv, Uploading
  <1>2. IInv /\ UploadInv => UploadComplete
    <2> SUFFICES ASSUME IInv, UploadInv, NEW c \in Calls, call[c] = "uploaded",
                        NEW b \in Under(root[c])
                 PROVE  Announced(c, b)
      BY DEF UploadComplete, Announced
    <2>1. root[c] \in CIDs
      BY DEF IInv, TypeOK
    <2> QED  BY <2>1, DAGComplete DEF UploadInv, Uploading
  <1> QED  BY <1>1, <1>2, UploadNext, Invariance, PTL DEF Spec
=============================================================================

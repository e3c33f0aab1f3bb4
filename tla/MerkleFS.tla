------------------------------ MODULE MerkleFS ------------------------------
(***************************************************************************)
(* Files and directories as Merkle DAGs: src/fs, src/merkle, src/store.    *)
(*                                                                         *)
(* A node is its links and its data, the encoding of an inode.  The CID of *)
(* a node is modelled by the node itself: equal nodes have equal CIDs, and *)
(* different ones, but for a collision of the hash, different CIDs.  The   *)
(* block store is the set of the nodes whose blocks it has.                *)
(*                                                                         *)
(* What lies on the disk is one of Trees: Disk[t] is                       *)
(* [kind |-> "file", bytes] or [kind |-> "dir", entries], the entries      *)
(* being [name, tree] in the order of their names.                         *)
(***************************************************************************)
EXTENDS Integers, SequencesExt, FiniteSetsExt

CONSTANTS
    ChunkSize, NumChildren,
    Byte, Name,     \* the values of a byte, the names of files
    Trees, Disk,    \* files and directories
    NoInode,        \* the data of a node that has none
    ReadError       \* what a read returns that fails

SubTrees(t) ==
    IF Disk[t].kind = "file" THEN {} ELSE {e.tree : e \in Range(Disk[t].entries)}

ASSUME SizeAssumption == ChunkSize \in Nat \ {0} /\ NumChildren \in Nat \ {0, 1}

\* A name is in a directory once, and no directory is below itself.
ASSUME DiskAssumption ==
    /\ "" \notin Name
    /\ \A t \in Trees :
        \/ Disk[t].kind = "file" /\ Disk[t].bytes \in Seq(Byte)
        \/ /\ Disk[t].kind = "dir" /\ Disk[t].entries \in Seq([name : Name, tree : Trees])
           /\ \A i, j \in DOMAIN Disk[t].entries :
                Disk[t].entries[i].name = Disk[t].entries[j].name => i = j
    /\ \A S \in SUBSET Trees : S # {} => \E t \in S : SubTrees(t) \cap S = {}

-----------------------------------------------------------------------------
(* Adding *)

\* Mutant of chunks: a last chunk that is not full is forgotten.
chunksFull(xs, size) ==
    IF Len(xs) < size THEN <<xs>>
    ELSE [i \in 1 .. Len(xs) \div size |-> SubSeq(xs, size * (i - 1) + 1, size * i)]

\* from[k]: the chunks of xs from position k on.
chunks(xs, size) ==
    LET from[k \in 1 .. Len(xs) + 1] ==
            IF k + size <= Len(xs)
            THEN <<SubSeq(xs, k, k + size - 1)>> \o from[k + size]
            ELSE <<SubSeq(xs, k, Len(xs))>>
    IN  from[1]

Link(name, n) == [name |-> name, cid |-> n]
Inner(links) == [links |-> links, data |-> NoInode]
Leaf(bytes) == [links |-> <<>>, data |-> [kind |-> "raw", bytes |-> bytes]]

buildDAGLevel(children) ==
    [i \in DOMAIN children |->
        Inner([j \in DOMAIN children[i] |-> Link("", children[i][j])])]

(* The nodes that an operation puts into the store, in that order; the last *)
(* one is the root that it returns.                                         *)

\* One level after the other, until a level has a single node.
AddBytes(bytes) ==
    LET cs == chunks(bytes, ChunkSize)
        level[k \in 1 .. Len(cs)] ==
            IF k = 1 THEN [i \in DOMAIN cs |-> Leaf(cs[i])]
                     ELSE buildDAGLevel(chunks(level[k - 1], NumChildren))
        top == Min({k \in 1 .. Len(cs) : Len(level[k]) = 1})
    IN  FlattenSeq([k \in 1 .. top |-> level[k]])

AddPath ==
    LET add[t \in Trees] ==
            IF Disk[t].kind = "file" THEN AddBytes(Disk[t].bytes)
            ELSE LET entries == Disk[t].entries
                     puts == [i \in DOMAIN entries |-> add[entries[i].tree]]
                     links == [i \in DOMAIN entries |-> Link(entries[i].name, Last(puts[i]))]
                 IN  Append(FlattenSeq(puts), Inner(links))
    IN  [t \in Trees |-> add[t]]

Root == [t \in Trees |-> Last(AddPath[t])]

\* All that "add" may put into a store.
Blocks == UNION {Range(AddPath[t]) : t \in Trees}

Children(n) == [i \in DOMAIN n.links |-> n.links[i].cid]

\* A node has the hashes of its children, so no node is below itself.
ASSUME HashAssumption ==
    /\ \A S \in SUBSET Blocks : S # {} => \E n \in S : Range(Children(n)) \cap S = {}
    /\ ReadError \notin Blocks /\ ReadError \notin Seq(Byte)
    /\ NoInode \notin [kind : {"raw"}, bytes : Seq(Byte)]

-----------------------------------------------------------------------------
(* Reading, from the blocks that a store has *)

\* Mutant of ReadBytes: a block that is not in the store is passed over.
ReadBytesLoose(store, n) ==
    LET read[m \in store] ==
            IF m.links = <<>> THEN IF m.data = NoInode THEN ReadError ELSE m.data.bytes
            ELSE FlattenSeq([i \in DOMAIN m.links |->
                     IF m.links[i].cid \in store THEN read[m.links[i].cid] ELSE <<>>])
    IN  read[n]

ReadBytes(store, n) ==
    LET read[m \in store] ==
            IF m.links = <<>> THEN IF m.data = NoInode THEN ReadError ELSE m.data.bytes
            ELSE LET parts == [i \in DOMAIN m.links |->
                        IF m.links[i].cid \in store THEN read[m.links[i].cid] ELSE ReadError]
                 IN  IF ReadError \in Range(parts) THEN ReadError ELSE FlattenSeq(parts)
    IN  read[n]

Get(store, n) == IF n \in store THEN n ELSE ReadError

\* The child that the first of the links with this name leads to.
Named(store, n, name) ==
    LET named == {i \in DOMAIN n.links : n.links[i].name = name}
    IN  IF named = {} THEN ReadError ELSE Get(store, n.links[Min(named)].cid)

\* at[i]: the node behind the first i parts of the path.
ResolvePath(store, n, parts) ==
    LET at[i \in 0 .. Len(parts)] ==
            IF i = 0 THEN Get(store, n)
            ELSE IF at[i - 1] = ReadError THEN ReadError
            ELSE Named(store, at[i - 1], parts[i])
    IN  at[Len(parts)]

\* Daemon.Cat
Cat(store, n, parts) ==
    LET m == ResolvePath(store, n, parts)
    IN  IF m = ReadError THEN ReadError ELSE ReadBytes(store, m)

-----------------------------------------------------------------------------
(* The reference: what lies on the disk under a path *)

InDir(t, name) ==
    {u \in SubTrees(t) : \E e \in Range(Disk[t].entries) : e.name = name /\ e.tree = u}

OnDisk(t, parts) ==
    LET at[i \in 0 .. Len(parts)] ==
            IF i = 0 THEN {t} ELSE UNION {InDir(u, parts[i]) : u \in at[i - 1]}
    IN  at[Len(parts)]

FilesAt(t, parts) == {u \in OnDisk(t, parts) : Disk[u].kind = "file"}
=============================================================================

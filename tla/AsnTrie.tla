------------------------------ MODULE AsnTrie ------------------------------
(***************************************************************************)
(* The binary trie from IPv4 prefixes to autonomous systems                *)
(* (src/dht/asn.go), over addresses of Width bits.                         *)
(*                                                                         *)
(* A trie is the function from the paths of its nodes to their field asn:  *)
(* the node at path p has the child b where p \o <<b>> is a path, and the  *)
(* root is at <<>>.  Overruns marks the Match that bitAt ends with a       *)
(* panic: buf[4], one byte behind the address.                             *)
(***************************************************************************)
EXTENDS Integers, Sequences

CONSTANT Width      \* bits of an address: 32 in the code

ASSUME WidthAssumption == Width \in Nat \ {0}

Bits == {0, 1}
Addresses == [1 .. Width -> Bits]

Take(s, n) == SubSeq(s, 1, n)
Paths(p) == {Take(p, i) : i \in 0 .. Len(p)}

NoASN == 0          \* the asn of a node where no prefix ends

newTrie == [p \in {<<>>} |-> NoASN]

\* Mutant of Insert: the number is set at the parent of the last node.
InsertShort(t, p, asn) ==
    [q \in DOMAIN t \cup Paths(p) |->
        IF q = Take(p, Len(p) - 1) THEN asn ELSE IF q \in DOMAIN t THEN t[q] ELSE NoASN]

\* The nodes on the way to p that do not exist are created, the last one gets
\* the number.
Insert(t, p, asn) ==
    [q \in DOMAIN t \cup Paths(p) |->
        IF q = p THEN asn ELSE IF q \in DOMAIN t THEN t[q] ELSE NoASN]

\* The depths of the nodes that Match visits on its way down to a.
Visited(t, a) == {i \in 0 .. Width : \A j \in 0 .. i : Take(a, j) \in DOMAIN t}

\* Match is at a node below the last bit of the address and asks for one more.
Overruns(t, a) == Width \in Visited(t, a)

\* Of a set of depths, the largest; -1 if there is none.
Deepest(S) == CHOOSE i \in S \cup {-1} : \A j \in S : j <= i

\* Match(a): the number of the last node visited that has one.  The flag found
\* is dropped by both callers, who go on with 0.
Match(t, a) ==
    LET i == Deepest({j \in Visited(t, a) : t[Take(a, j)] # NoASN})
    IN  IF i = -1 THEN NoASN ELSE t[Take(a, i)]

-----------------------------------------------------------------------------
(* The reference: a table of prefixes.  A prefix with the number 0 counts as *)
(* not listed, as in the tables where 0 stands for "not routed".             *)

Listed(table, a) ==
    {i \in 0 .. Width : Take(a, i) \in DOMAIN table /\ table[Take(a, i)] # NoASN}

LongestPrefixMatch(table, a) ==
    LET i == Deepest(Listed(table, a))
    IN  IF i = -1 THEN NoASN ELSE table[Take(a, i)]
=============================================================================

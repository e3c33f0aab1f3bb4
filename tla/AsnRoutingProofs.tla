-------------------------- MODULE AsnRoutingProofs --------------------------
(***************************************************************************)
(* Proofs about AsnTrie and AsnRouting: the trie finds the longest prefix, *)
(* whatever lines were entered in whatever order, and the order of the     *)
(* answer keeps downloads in the requester's autonomous system, for every  *)
(* width of addresses, mapping, length of answers and set of peers.        *)
(***************************************************************************)
EXTENDS AsnRouting, FiniteSetTheorems, SequenceTheorems, TLAPS

-----------------------------------------------------------------------------
(* Induction over the natural numbers, as a fact about sets of them *)

\* A set of naturals that is not empty has a least element.
LEMMA LeastNatural ==
    ASSUME NEW T \in SUBSET Nat, T # {}
    PROVE  \E m \in T : \A n \in T : m <= n
<1> DEFINE R == {ss \in Nat \X Nat : ss[1] < ss[2]}
<1>1. IsWellFoundedOn(R, Nat)
  BY NatLessThanWellFounded DEF OpToRel
<1> HIDE DEF R
<1>2. PICK x \in T : \A y \in T : <<y, x>> \notin R
  BY <1>1, WFMin
<1>3. \A y \in T : ~(y < x)
  BY <1>2 DEF R
<1>4. x \in Nat /\ \A y \in T : y \in Nat
  OBVIOUS
<1> QED BY <1>3, <1>4

\* What holds of 0, and of a number up to n with its predecessor, holds up to n.
LEMMA InductionUpTo ==
    ASSUME NEW n \in Nat, NEW S, 0 \in S,
           \A i \in 1 .. n : i - 1 \in S => i \in S
    PROVE  0 .. n \subseteq S
<1> SUFFICES ASSUME (0 .. n) \ S # {} PROVE FALSE
  OBVIOUS
<1> DEFINE T == (0 .. n) \ S
<1>1. PICK m \in T : \A i \in T : m <= i
  <2>1. T \in SUBSET Nat
    OBVIOUS
  <2> HIDE DEF T
  <2> QED BY <2>1, LeastNatural DEF T
<1>2. m \in 1 .. n /\ m - 1 \in 0 .. n
  BY <1>1
<1> QED BY <1>1, <1>2

\* Iterating a step function n times, from a base on.
Iterable(n, S, base, step) ==
    n \in Nat /\ base \in S /\ step \in [(1 .. n) \X S -> S]
Iteration(n, S, base, step, f) ==
    f \in [0 .. n -> S] /\ f[0] = base /\ \A i \in 1 .. n : f[i] = step[<<i, f[i - 1]>>]

\* Recursive functions over 0 .. n exist.
LEMMA Iterates ==
    ASSUME NEW n, NEW S, NEW base, NEW step, Iterable(n, S, base, step)
    PROVE  \E f : Iteration(n, S, base, step, f)
<1> n \in Nat /\ base \in S /\ step \in [(1 .. n) \X S -> S]
  BY DEF Iterable
<1> DEFINE T == {k \in 0 .. n : \E f : Iteration(k, S, base, step, f)}
<1>1. 0 \in T
  <2>1. Iteration(0, S, base, step, [j \in 0 .. 0 |-> base])
    BY DEF Iteration
  <2> QED BY <2>1
<1>2. ASSUME NEW i \in 1 .. n, i - 1 \in T
      PROVE  i \in T
  <2>1. PICK f : Iteration(i - 1, S, base, step, f)
    BY <1>2
  <2>2. /\ f \in [0 .. i - 1 -> S] /\ f[0] = base
        /\ \A j \in 1 .. i - 1 : f[j] = step[<<j, f[j - 1]>>]
    BY <2>1 DEF Iteration
  <2> DEFINE g == [j \in 0 .. i |-> IF j = i THEN step[<<i, f[i - 1]>>] ELSE f[j]]
  <2>3. step[<<i, f[i - 1]>>] \in S
    BY <2>2
  <2>4. g \in [0 .. i -> S] /\ g[0] = base
    BY <2>2, <2>3
  <2>5. ASSUME NEW j \in 1 .. i
        PROVE  g[j] = step[<<j, g[j - 1]>>]
    <3>1. j \in 0 .. i /\ j - 1 \in 0 .. i /\ j - 1 # i
      OBVIOUS
    <3>2. g[j - 1] = f[j - 1]
      BY <3>1
    <3>3. CASE j = i
      BY <3>1, <3>2, <3>3
    <3>4. CASE j # i
      BY <2>2, <3>1, <3>2, <3>4
    <3> QED BY <3>3, <3>4
  <2>6. Iteration(i, S, base, step, g)
    <3> HIDE DEF g
    <3> QED BY <2>4, <2>5 DEF Iteration
  <2> QED BY <2>6
<1>3. n \in T
  <2> HIDE DEF T
  <2>1. 0 .. n \subseteq T
    BY <1>1, <1>2, InductionUpTo
  <2> QED BY <2>1
<1> QED BY <1>3

-----------------------------------------------------------------------------
(* The trie *)

\* The paths of a trie are those of nodes: their beginnings are paths too.
PrefixClosed(t) == \A p \in DOMAIN t : Paths(p) \subseteq DOMAIN t

\* A trie holds a table: the nodes with a number are those where a prefix ends.
Holds(t, tab) ==
    /\ DOMAIN t \subseteq Seq(Bits)
    /\ PrefixClosed(t)
    /\ DOMAIN tab \subseteq DOMAIN t
    /\ \A p \in DOMAIN tab : t[p] = tab[p]
    /\ \A p \in DOMAIN t \ DOMAIN tab : t[p] = NoASN

\* Beginnings of a beginning.
LEMMA TakeTake ==
    ASSUME NEW S, NEW s \in Seq(S), NEW m \in 0 .. Len(s), NEW k \in 0 .. m
    PROVE  /\ Take(s, m) \in Seq(S) /\ Len(Take(s, m)) = m
           /\ Take(Take(s, m), k) = Take(s, k)
<1>1. Take(s, m) \in Seq(S) /\ Len(Take(s, m)) = m
  BY DEF Take
<1>2. Take(Take(s, m), k) = Take(s, k)
  BY DEF Take
<1> QED BY <1>1, <1>2

LEMMA AddressTake ==
    ASSUME NEW a \in Addresses, NEW j \in 0 .. Width, NEW i \in 0 .. j
    PROVE  /\ Take(a, j) \in Seq(Bits) /\ Len(Take(a, j)) = j
           /\ Take(Take(a, j), i) = Take(a, i)
<1>1. a \in Seq(Bits) /\ Len(a) = Width
  BY WidthAssumption DEF Addresses
<1> QED BY <1>1, TakeTake

\* The largest of a set of depths is one of them.
LEMMA DeepestOf ==
    ASSUME NEW S \in SUBSET (0 .. Width)
    PROVE  /\ S # {} => Deepest(S) \in S /\ \A j \in S : j <= Deepest(S)
           /\ S = {} => Deepest(S) = -1
<1>1. CASE S = {}
  BY <1>1 DEF Deepest
<1>2. CASE S # {}
  <2> DEFINE T == {Width - j : j \in S}
  <2> Width \in Nat /\ \A j \in S : j \in 0 .. Width
    BY WidthAssumption
  <2>1. T \in SUBSET Nat /\ T # {}
    <3>1. \A j \in S : Width - j \in Nat
      OBVIOUS
    <3> QED BY <1>2, <3>1
  <2>2. PICK m \in T : \A n \in T : m <= n
    <3> HIDE DEF T
    <3> QED BY <2>1, LeastNatural
  <2>3. PICK d \in S : m = Width - d
    BY <2>2
  <2>4. \A j \in S : j <= d
    <3>1. \A j \in S : Width - d <= Width - j
      BY <2>2, <2>3
    <3> QED BY <3>1
  <2>5. Deepest(S) \in S \cup {-1} /\ \A j \in S : j <= Deepest(S)
    BY <2>4 DEF Deepest
  <2> QED BY <1>2, <2>5
<1> QED BY <1>1, <1>2

\* The nodes with a number that Match visits are the prefixes of the table.
LEMMA MatchHolds ==
    ASSUME NEW t, NEW tab, Holds(t, tab), NEW a \in Addresses
    PROVE  Match(t, a) = LongestPrefixMatch(tab, a)
<1> DEFINE V == {j \in Visited(t, a) : t[Take(a, j)] # NoASN}
           L == Listed(tab, a)
<1>1. V \subseteq L
  BY DEF Visited, Listed, Holds
<1>2. L \subseteq V
  <2> SUFFICES ASSUME NEW j \in L PROVE j \in V
    OBVIOUS
  <2>1. j \in 0 .. Width /\ Take(a, j) \in DOMAIN tab /\ tab[Take(a, j)] # NoASN
    BY DEF Listed
  <2>2. Take(a, j) \in DOMAIN t /\ t[Take(a, j)] # NoASN
    BY <2>1 DEF Holds
  <2>3. ASSUME NEW i \in 0 .. j
        PROVE  Take(a, i) \in DOMAIN t
    BY <2>1, <2>2, AddressTake DEF Holds, PrefixClosed, Paths
  <2> QED BY <2>1, <2>2, <2>3 DEF Visited
<1>3. V = L /\ L \in SUBSET (0 .. Width)
  BY <1>1, <1>2 DEF Listed
<1>4. Deepest(L) # -1 => t[Take(a, Deepest(L))] = tab[Take(a, Deepest(L))]
  BY <1>3, DeepestOf DEF Listed, Holds
<1> QED BY <1>3, <1>4 DEF Match, LongestPrefixMatch

\* A line more: the trie and the table stay together.
LEMMA InsertHolds ==
    ASSUME NEW t, NEW tab, Holds(t, tab), NEW p \in Seq(Bits), NEW asn,
           NEW tab2, tab2 = [q \in DOMAIN tab \cup {p} |-> IF q = p THEN asn ELSE tab[q]]
    PROVE  Holds(Insert(t, p, asn), tab2)
<1>1. DOMAIN Insert(t, p, asn) = DOMAIN t \cup Paths(p)
  BY DEF Insert
<1>2. p \in Paths(p)
  BY SubSeqFull DEF Paths, Take
<1>3. \A q \in Paths(p) : q \in Seq(Bits) /\ Paths(q) \subseteq Paths(p)
  BY TakeTake DEF Paths
<1>4. PrefixClosed(Insert(t, p, asn))
  BY <1>1, <1>3 DEF Holds, PrefixClosed
<1> QED BY <1>1, <1>2, <1>3, <1>4 DEF Holds, Insert

-----------------------------------------------------------------------------
(* The state *)

Numbers == {NoASN} \cup {l.asn : l \in Lines}
Peer == Remote \cup [ip : Hosts, asn : Numbers, published : Requests]
Stages == {"idle", "rlock", "match", "act", "answered", "notFound", "done", "aborted"}
Request == [op : {"none", "get", "put"}, ip : Hosts \cup {NoPeer}, stage : Stages,
            asn : Numbers, found : SUBSET Peer, answer : Seq(Peer),
            from : Peer \cup {NoPeer}]

TypeOK ==
    /\ phase \in {"loading", "serving", "exited"}
    /\ trie \in [DOMAIN trie -> Numbers]
    /\ readers \subseteq Requests
    /\ update \in Lines \cup {NoLine}
    /\ peers \subseteq Peer /\ IsFiniteSet(peers)
    /\ req \in [Requests -> Request]
    /\ \A r \in Requests : ~At(r, "idle") => req[r].ip \in Hosts

\* The peers of system asn are the first ones of ps.
LocalFirst(asn, ps) ==
    \A i, j \in DOMAIN ps : i < j /\ ps[j].asn = asn => ps[i].asn = asn

\* ps is an order of the peers that a handler had found, with the local peers
\* in front, and the answer is its beginning.
Ranks(r, ps) ==
    /\ Range(ps) = req[r].found
    /\ LocalFirst(req[r].asn, ps)
    /\ req[r].answer = Cut(ps)

\* The inductive invariant: the trie holds the lines that were entered, every
\* answer under way is the beginning of an order with the local peers in
\* front, and what StaysLocal says of the downloads that have chosen.
IInv ==
    /\ TypeOK
    /\ Holds(trie, table)
    /\ \A r \in Requests : At(r, "answered") => \E ps \in Seq(Peer) : Ranks(r, ps)
    /\ StaysLocal

LEMMA MatchType ==
    ASSUME NEW t, t \in [DOMAIN t -> Numbers], NEW a
    PROVE  Match(t, a) \in Numbers
<1> DEFINE S == {j \in Visited(t, a) : t[Take(a, j)] # NoASN}
<1>1. S \in SUBSET (0 .. Width) /\ \A j \in S : Take(a, j) \in DOMAIN t
  <2>1. \A j \in Visited(t, a) : j \in 0 .. Width /\ Take(a, j) \in DOMAIN t
    BY WidthAssumption DEF Visited
  <2> QED BY <2>1
<1>2. Deepest(S) # -1 => Take(a, Deepest(S)) \in DOMAIN t
  <2> HIDE DEF S
  <2> QED BY <1>1, DeepestOf
<1>3. NoASN \in Numbers
  BY DEF Numbers
<1> QED BY <1>2, <1>3 DEF Match

LEMMA InsertType ==
    ASSUME NEW t, t \in [DOMAIN t -> Numbers], NEW p, NEW asn \in Numbers
    PROVE  Insert(t, p, asn) \in [DOMAIN Insert(t, p, asn) -> Numbers]
BY DEF Insert, Numbers

\* A step that does not touch the requests, but perhaps the mapping.
LEMMA EnterStep ==
    ASSUME IInv, NEW l \in Lines, l.prefix # NotIPv4, Enter(l)
    PROVE  /\ trie' \in [DOMAIN trie' -> Numbers]
           /\ Holds(trie', table')
<1>1. l.prefix \in Seq(Bits) /\ l.asn \in Numbers
  BY LinesAssumption DEF Numbers
<1>2. trie' = Insert(trie, l.prefix, l.asn)
  BY DEF Enter
<1>3. trie' \in [DOMAIN trie' -> Numbers]
  BY <1>1, <1>2, InsertType DEF IInv, TypeOK
<1>4. Holds(trie', table')
  BY <1>1, <1>2, InsertHolds DEF IInv, Enter
<1> QED BY <1>3, <1>4

LEMMA MappingStep ==
    ASSUME IInv,
           \/ \E l \in Lines : LoadLine(l) \/ LoadFails(l) \/ UpdateASN(l)
           \/ Start
           \/ UpdateLocked
    PROVE  IInv'
<1>1. /\ UNCHANGED <<readers, peers, req>>
      /\ phase' \in {"loading", "serving", "exited"}
      /\ update' \in Lines \cup {NoLine}
  BY DEF LoadLine, LoadFails, UpdateASN, Start, UpdateLocked, IInv, TypeOK
<1>2. trie' \in [DOMAIN trie' -> Numbers] /\ Holds(trie', table')
  <2>1. CASE UNCHANGED <<trie, table>>
    BY <2>1 DEF IInv, TypeOK
  <2>2. CASE \E l \in Lines : l.prefix # NotIPv4 /\ Enter(l)
    BY <2>2, EnterStep
  <2> QED
    BY <2>1, <2>2 DEF LoadLine, LoadFails, UpdateASN, Start, UpdateLocked, IInv, TypeOK
<1> QED BY <1>1, <1>2 DEF IInv, TypeOK, StaysLocal, At, Ranks

-----------------------------------------------------------------------------
(* The order of an answer *)

\* One more peer in front of, or behind, a sorted list.
LEMMA SortStep ==
    ASSUME NEW asn, NEW ps \in Seq(Peer), NEW p \in Peer, LocalFirst(asn, ps),
           NEW qs, qs = IF p.asn = asn THEN <<p>> \o ps ELSE Append(ps, p)
    PROVE  qs \in Seq(Peer) /\ Range(qs) = Range(ps) \cup {p} /\ LocalFirst(asn, qs)
<1>1. CASE p.asn = asn
  <2>1. /\ qs \in Seq(Peer) /\ Len(qs) = Len(ps) + 1 /\ qs[1] = p
        /\ \A i \in 2 .. Len(qs) : qs[i] = ps[i - 1]
    BY <1>1
  <2>2. LocalFirst(asn, qs)
    BY <1>1, <2>1 DEF LocalFirst
  <2>3. \A i \in DOMAIN ps : i + 1 \in DOMAIN qs /\ qs[i + 1] = ps[i]
    BY <2>1
  <2>4. Range(qs) \subseteq Range(ps) \cup {p}
    <3>1. \A i \in DOMAIN qs : i = 1 \/ (i \in 2 .. Len(qs) /\ i - 1 \in DOMAIN ps)
      BY <2>1
    <3> QED BY <2>1, <3>1 DEF Range
  <2>5. Range(ps) \cup {p} \subseteq Range(qs)
    <3>1. 1 \in DOMAIN qs
      BY <2>1
    <3>2. \A x \in Range(ps) : \E i \in DOMAIN ps : x = ps[i]
      BY DEF Range
    <3>3. \A i \in DOMAIN qs : qs[i] \in Range(qs)
      BY DEF Range
    <3>4. p \in Range(qs)
      BY <2>1, <3>1, <3>3
    <3>5. ASSUME NEW x \in Range(ps)
          PROVE  x \in Range(qs)
      <4>1. PICK i \in DOMAIN ps : x = ps[i]
        BY <3>2
      <4>2. i + 1 \in DOMAIN qs /\ qs[i + 1] = x
        BY <2>3, <4>1
      <4> QED BY <3>3, <4>2
    <3> QED BY <3>4, <3>5
  <2> QED BY <2>1, <2>2, <2>4, <2>5
<1>2. CASE p.asn # asn
  <2>1. /\ qs \in Seq(Peer) /\ Len(qs) = Len(ps) + 1 /\ qs[Len(ps) + 1] = p
        /\ \A i \in 1 .. Len(ps) : qs[i] = ps[i]
    BY <1>2
  <2>2. LocalFirst(asn, qs)
    BY <1>2, <2>1 DEF LocalFirst
  <2>3. Range(qs) \subseteq Range(ps) \cup {p}
    <3>1. \A i \in DOMAIN qs : i = Len(ps) + 1 \/ i \in 1 .. Len(ps)
      BY <2>1
    <3> QED BY <2>1, <3>1 DEF Range
  <2>4. Range(ps) \cup {p} \subseteq Range(qs)
    <3>1. /\ Len(ps) + 1 \in DOMAIN qs
          /\ \A i \in DOMAIN ps : i \in DOMAIN qs /\ qs[i] = ps[i]
      BY <2>1
    <3> QED BY <2>1, <3>1 DEF Range
  <2> QED BY <2>1, <2>2, <2>3, <2>4
<1> QED BY <1>1, <1>2

\* SortPeers keeps the peers and takes those of the system asn to the front,
\* although its comparator is not an order.
LEMMA SortPeersLocalFirst ==
    ASSUME NEW asn, NEW ps \in Seq(Peer)
    PROVE  /\ SortPeers(asn, ps) \in Seq(Peer)
           /\ Range(SortPeers(asn, ps)) = Range(ps)
           /\ LocalFirst(asn, SortPeers(asn, ps))
<1> DEFINE n == Len(ps)
           Insertion(p, qs) == IF p.asn = asn THEN <<p>> \o qs ELSE Append(qs, p)
           sorted[i \in 0 .. n] == IF i = 0 THEN <<>> ELSE Insertion(ps[i], sorted[i - 1])
           step == [x \in (1 .. n) \X Seq(Peer) |-> Insertion(ps[x[1]], x[2])]
<1>1. n \in Nat /\ \A i \in 1 .. n : ps[i] \in Peer
  OBVIOUS
<1>2. step \in [(1 .. n) \X Seq(Peer) -> Seq(Peer)]
  BY <1>1
<1>3. \A i \in 1 .. n, qs \in Seq(Peer) : step[<<i, qs>>] = Insertion(ps[i], qs)
  OBVIOUS
<1>4. PICK f \in [0 .. n -> Seq(Peer)] :
          f[0] = <<>> /\ \A i \in 1 .. n : f[i] = step[<<i, f[i - 1]>>]
  <2>1. Iterable(n, Seq(Peer), <<>>, step)
    BY <1>1, <1>2 DEF Iterable
  <2>2. \E f : Iteration(n, Seq(Peer), <<>>, step, f)
    BY <2>1, Iterates
  <2> QED BY <2>2 DEF Iteration
<1>5. f = [i \in 0 .. n |-> IF i = 0 THEN <<>> ELSE Insertion(ps[i], f[i - 1])]
  <2>1. \A i \in 0 .. n : i # 0 => i \in 1 .. n /\ i - 1 \in 0 .. n /\ f[i - 1] \in Seq(Peer)
    BY <1>1
  <2>2. \A i \in 0 .. n : f[i] = IF i = 0 THEN <<>> ELSE Insertion(ps[i], f[i - 1])
    <3> HIDE DEF step, n, Insertion
    <3> QED BY <1>3, <1>4, <2>1
  <2> HIDE DEF step, n, Insertion
  <2> QED BY <2>2
<1>6. sorted = [i \in 0 .. n |-> IF i = 0 THEN <<>> ELSE Insertion(ps[i], sorted[i - 1])]
  <2> HIDE DEF step, n, Insertion
  <2> QED BY <1>5
<1>7. SortPeers(asn, ps) = sorted[n]
  BY DEF SortPeers
<1>12. sorted[0] = <<>> /\ \A i \in 1 .. n : sorted[i] = Insertion(ps[i], sorted[i - 1])
  <2>1. 0 \in 0 .. n /\ \A i \in 1 .. n : i \in 0 .. n /\ i # 0
    BY <1>1
  <2> HIDE DEF sorted, step, n, Insertion
  <2> QED BY <1>6, <2>1
<1> HIDE DEF sorted, step, n
<1> DEFINE Up(i) == {ps[j] : j \in 1 .. i}
           T == {i \in 0 .. n : /\ sorted[i] \in Seq(Peer) /\ Range(sorted[i]) = Up(i)
                                /\ LocalFirst(asn, sorted[i])}
<1>8. 0 \in T
  <2>1. <<>> \in Seq(Peer) /\ Range(<<>>) = {} /\ LocalFirst(asn, <<>>) /\ Up(0) = {}
    BY DEF Range, LocalFirst
  <2>2. 0 \in 0 .. n
    BY <1>1
  <2> HIDE DEF Up
  <2> QED BY <1>12, <2>1, <2>2
<1>9. ASSUME NEW i \in 1 .. n, i - 1 \in T
      PROVE  i \in T
  <2>1. sorted[i] = Insertion(ps[i], sorted[i - 1]) /\ ps[i] \in Peer
    BY <1>1, <1>12
  <2>2. Up(i) = Up(i - 1) \cup {ps[i]}
    <3>1. 1 .. i = (1 .. i - 1) \cup {i}
      OBVIOUS
    <3> QED BY <3>1
  <2>3. /\ sorted[i - 1] \in Seq(Peer) /\ Range(sorted[i - 1]) = Up(i - 1)
        /\ LocalFirst(asn, sorted[i - 1])
    BY <1>9
  <2>4. /\ sorted[i] \in Seq(Peer) /\ Range(sorted[i]) = Range(sorted[i - 1]) \cup {ps[i]}
        /\ LocalFirst(asn, sorted[i])
    <3> HIDE DEF Up, T
    <3> QED BY <2>1, <2>3, SortStep
  <2>5. i \in 0 .. n
    BY <1>1
  <2> HIDE DEF Up
  <2> QED BY <2>2, <2>3, <2>4, <2>5
<1>10. n \in T
  <2> HIDE DEF T
  <2>1. 0 .. n \subseteq T
    BY <1>1, <1>8, <1>9, InductionUpTo
  <2> QED BY <1>1, <2>1
<1>11. Up(n) = Range(ps)
  BY DEF Range, n
<1> QED BY <1>7, <1>10, <1>11

-----------------------------------------------------------------------------
(* Requests *)

\* An answer is the beginning of an order of the peers found with the local
\* ones in front.
LEMMA AnswerRanks ==
    ASSUME NEW F \in SUBSET Peer, IsFiniteSet(F), NEW ps \in SetToSeqs(F), NEW asn
    PROVE  \E qs \in Seq(Peer) : /\ Range(qs) = F /\ LocalFirst(asn, qs)
                                 /\ Answer(asn, ps) = Cut(qs)
<1> DEFINE n == Cardinality(F)
<1>1. /\ n \in Nat /\ ps \in [1 .. n -> F]
      /\ \A i, j \in 1 .. n : i # j => ps[i] # ps[j]
  BY FS_CardinalityType DEF SetToSeqs
<1>2. ps \in Injection(1 .. n, F)
  BY <1>1 DEF Injection, IsInjective
<1>3. Cardinality(1 .. n) = n
  BY <1>1, FS_Interval
<1>4. ps \in Surjection(1 .. n, F)
  <2> HIDE DEF n
  <2>1. Cardinality(1 .. n) = Cardinality(F)
    BY <1>3 DEF n
  <2> QED BY <1>2, <2>1, FS_Injection
<1>5. Range(ps) = F
  BY <1>1, <1>4 DEF Surjection, Range
<1>6. ps \in Seq(Peer)
  BY <1>1
<1> QED BY <1>5, <1>6, SortPeersLocalFirst DEF Answer

LEMMA CutType ==
    ASSUME NEW ps \in Seq(Peer)
    PROVE  /\ Cut(ps) \in Seq(Peer) /\ Len(Cut(ps)) <= Len(ps)
           /\ \A i \in 1 .. Len(Cut(ps)) : Cut(ps)[i] = ps[i]
BY KAssumption DEF Cut

\* index is the place of an own entry, if there is one.
LEMMA IndexOwn ==
    ASSUME NEW ps \in Seq(Peer), NEW ip
    PROVE  \/ index(ps, ip) = 0
           \/ index(ps, ip) \in DOMAIN ps /\ ps[index(ps, ip)].ip = ip
<1> DEFINE own == {i \in DOMAIN ps : ps[i].ip = ip}
<1>1. own \in SUBSET Nat
  OBVIOUS
<1>2. own # {} => Min(own) \in own
  <2> HIDE DEF own
  <2>1. own # {} => \E m \in own : \A i \in own : m <= i
    BY <1>1, LeastNatural
  <2> QED BY <2>1 DEF Min
<1> QED BY <1>2 DEF index

\* What is left of an answer when the requester's own entry is taken out: if
\* its first peer is foreign, then no local host but the requester was found.
LEMMA ChosenLocal ==
    ASSUME NEW qs \in Seq(Peer), NEW asn, NEW ip, LocalFirst(asn, qs),
           NEW ans, ans = Cut(qs),
           NEW ps, ps = IF index(ans, ip) = 0 THEN ans ELSE RemoveAt(ans, index(ans, ip)),
           ps # <<>>, Head(ps).asn # asn,
           NEW p \in Range(qs), p.asn = asn
    PROVE  p.ip = ip
<1> DEFINE k == index(ans, ip)
<1>1. /\ ans \in Seq(Peer) /\ Len(ans) <= Len(qs)
      /\ \A i \in 1 .. Len(ans) : ans[i] = qs[i]
  BY CutType
<1>2. PICK j \in DOMAIN qs : p = qs[j]
  BY DEF Range
<1>3. k = 0 \/ (k \in DOMAIN ans /\ ans[k].ip = ip)
  BY <1>1, IndexOwn
<1> HIDE DEF k
<1>4. ASSUME k # 1
      PROVE  Len(ans) > 0 /\ Head(ps) = qs[1]
  <2>1. CASE k = 0
    BY <1>1, <2>1 DEF k
  <2>2. CASE k # 0
    <3>1. k \in 2 .. Len(ans)
      BY <1>1, <1>3, <1>4, <2>2
    <3>2. ps = SubSeq(ans, 1, k - 1) \o SubSeq(ans, k + 1, Len(ans))
      BY <2>2 DEF k, RemoveAt
    <3> QED BY <1>1, <3>1, <3>2
  <2> QED BY <2>1, <2>2
<1>5. ASSUME k = 1
      PROVE  Len(ans) > 1 /\ Head(ps) = qs[2] /\ qs[1].ip = ip
  <2>1. ps = SubSeq(ans, 1, 0) \o SubSeq(ans, 2, Len(ans)) /\ 1 \in DOMAIN ans /\ ans[1].ip = ip
    BY <1>1, <1>3, <1>5 DEF k, RemoveAt
  <2> QED BY <1>1, <2>1
<1>6. CASE k # 1
  BY <1>1, <1>2, <1>4, <1>6 DEF LocalFirst
<1>7. CASE k = 1
  BY <1>1, <1>2, <1>5, <1>7 DEF LocalFirst
<1> QED BY <1>6, <1>7

\* A step of one request that takes its record to q.
LEMMA RequestChange ==
    ASSUME IInv, NEW r \in Requests, NEW q \in Request,
           req' = [req EXCEPT ![r] = q], UNCHANGED asnVars,
           readers' \subseteq Requests, peers' \subseteq Peer, IsFiniteSet(peers'),
           q.ip \in Hosts,
           q.stage = "answered" =>
               \E ps \in Seq(Peer) : /\ Range(ps) = q.found /\ LocalFirst(q.asn, ps)
                                     /\ q.answer = Cut(ps),
           q.stage = "done" /\ q.op = "get" /\ q.from # NoPeer /\ q.from.asn # q.asn =>
               \A p \in q.found : p.asn = q.asn => p.ip = q.ip
    PROVE  IInv'
<1>1. req \in [Requests -> Request]
  BY DEF IInv, TypeOK
<1>2. req' \in [Requests -> Request] /\ \A s \in Requests : req'[s] = IF s = r THEN q ELSE req[s]
  BY <1>1
<1>3. TypeOK'
  BY <1>2 DEF IInv, TypeOK, asnVars, At
<1>4. Holds(trie, table)'
  BY DEF IInv, asnVars
<1>5. ASSUME NEW s \in Requests, At(s, "answered")'
      PROVE  \E ps \in Seq(Peer) : Ranks(s, ps)'
  <2>1. CASE s = r
    BY <1>2, <1>5, <2>1 DEF At, Ranks
  <2>2. CASE s # r
    BY <1>2, <1>5, <2>2 DEF IInv, At, Ranks
  <2> QED BY <2>1, <2>2
<1>6. StaysLocal'
  BY <1>2 DEF IInv, StaysLocal, At
<1> QED BY <1>3, <1>4, <1>5, <1>6 DEF IInv

LEMMA RequestStep ==
    ASSUME IInv, NEW r \in Requests,
           (\E op \in {"get", "put"}, ip \in Hosts : Arrive(r, op, ip)) \/ Handle(r)
    PROVE  IInv'
<1> USE DEF Request, Stages
<1>1. /\ req[r] \in Request /\ req \in [Requests -> Request]
      /\ ~At(r, "idle") => req[r].ip \in Hosts
      /\ readers \subseteq Requests
      /\ peers \subseteq Peer /\ IsFiniteSet(peers)
  BY DEF IInv, TypeOK
<1>2. ASSUME NEW op \in {"get", "put"}, NEW ip \in Hosts, Arrive(r, op, ip)
      PROVE  IInv'
  <2> DEFINE q == [req[r] EXCEPT !.op = op, !.ip = ip, !.stage = "rlock"]
  <2>1. q \in Request /\ req' = [req EXCEPT ![r] = q] /\ q.stage = "rlock" /\ q.ip = ip
    BY <1>1, <1>2 DEF Arrive
  <2>2. /\ UNCHANGED asnVars /\ readers' \subseteq Requests /\ peers' \subseteq Peer
        /\ IsFiniteSet(peers') /\ q.ip \in Hosts
    BY <1>1, <1>2, <2>1 DEF Arrive
  <2> HIDE DEF q
  <2> QED BY <2>1, <2>2, RequestChange
<1>3. CASE RLock(r)
  <2> DEFINE q == [req[r] EXCEPT !.stage = "match"]
  <2>1. /\ q \in Request /\ req' = [req EXCEPT ![r] = q]
        /\ q.stage = "match" /\ q.ip \in Hosts
    BY <1>1, <1>3 DEF RLock, At
  <2> QED BY <1>1, <1>3, <2>1, RequestChange DEF RLock
<1>4. CASE MatchASN(r)
  <2> DEFINE m == Match(trie, req[r].ip)
             q == IF Overruns(trie, req[r].ip)
                  THEN [req[r] EXCEPT !.stage = "aborted"]
                  ELSE [req[r] EXCEPT !.asn = m, !.stage = "act"]
  <2>1. m \in Numbers
    BY MatchType DEF IInv, TypeOK
  <2> HIDE DEF m
  <2>2. /\ q \in Request /\ req' = [req EXCEPT ![r] = q] /\ q.ip \in Hosts
        /\ q.stage \in {"aborted", "act"} /\ readers' \subseteq Requests
    BY <1>1, <1>4, <2>1 DEF MatchASN, At, m
  <2> QED BY <1>1, <1>4, <2>2, RequestChange DEF MatchASN
<1>5. CASE KeyPut(r)
  <2> DEFINE p == [ip |-> req[r].ip, asn |-> req[r].asn, published |-> r]
             q == [req[r] EXCEPT !.stage = "done"]
  <2>1. /\ q \in Request /\ req' = [req EXCEPT ![r] = q] /\ q.ip \in Hosts
        /\ q.op = "put" /\ p \in Peer
    BY <1>1, <1>5 DEF KeyPut, At, Peer
  <2>2. peers' \subseteq Peer /\ IsFiniteSet(peers')
    BY <1>1, <1>5, <2>1, FS_AddElement DEF KeyPut
  <2> QED BY <1>1, <1>5, <2>1, <2>2, RequestChange DEF KeyPut
<1>6. CASE KeyGet(r)
  <2>1. PICK F \in IF peers # {} THEN {peers} ELSE SUBSET Remote \ {{}} :
            /\ peers' = F
            /\ \E ps \in SetToSeqs(F) :
                req' = [req EXCEPT ![r].stage = "answered", ![r].found = F,
                                   ![r].answer = Answer(req[r].asn, ps)]
    BY <1>6 DEF KeyGet
  <2>2. F \in SUBSET Peer /\ IsFiniteSet(F)
    BY <1>1, RemoteAssumption, FS_Subset DEF Peer
  <2>3. PICK ps \in SetToSeqs(F) :
            req' = [req EXCEPT ![r].stage = "answered", ![r].found = F,
                               ![r].answer = Answer(req[r].asn, ps)]
    BY <2>1
  <2> DEFINE answer == Answer(req[r].asn, ps)
             q == [req[r] EXCEPT !.stage = "answered", !.found = F, !.answer = answer]
  <2>4. PICK qs \in Seq(Peer) : /\ Range(qs) = F /\ LocalFirst(req[r].asn, qs)
                               /\ answer = Cut(qs)
    BY <2>2, AnswerRanks
  <2> HIDE DEF answer
  <2>5. answer \in Seq(Peer)
    BY <2>4, CutType
  <2>6. /\ q \in Request /\ req' = [req EXCEPT ![r] = q] /\ q.ip \in Hosts
        /\ q.stage = "answered" /\ q.found = F /\ q.asn = req[r].asn /\ q.answer = answer
    BY <1>1, <1>6, <2>2, <2>3, <2>5 DEF KeyGet, At, answer
  <2>7. /\ UNCHANGED asnVars /\ readers' \subseteq Requests /\ peers' \subseteq Peer
        /\ IsFiniteSet(peers')
    BY <1>1, <1>6, <2>1, <2>2 DEF KeyGet
  <2> HIDE DEF q
  <2>8. \E s \in Seq(Peer) : /\ Range(s) = q.found /\ LocalFirst(q.asn, s)
                              /\ q.answer = Cut(s)
    BY <2>4, <2>6
  <2> QED BY <2>6, <2>7, <2>8, RequestChange
<1>7. CASE KeyNotFound(r)
  <2> DEFINE q == [req[r] EXCEPT !.stage = "notFound"]
  <2>1. /\ q \in Request /\ req' = [req EXCEPT ![r] = q] /\ q.ip \in Hosts
        /\ q.stage = "notFound"
    BY <1>1, <1>7 DEF KeyNotFound, At
  <2> QED BY <1>1, <1>7, <2>1, RequestChange DEF KeyNotFound
<1>8. CASE ChoosePeer(r)
  <2> DEFINE i == index(req[r].answer, req[r].ip)
             ps == IF i = 0 THEN req[r].answer ELSE RemoveAt(req[r].answer, i)
             from == IF ps = <<>> THEN NoPeer ELSE Head(ps)
             q == [req[r] EXCEPT !.stage = "done", !.answer = <<>>, !.from = from]
  <2>1. PICK qs \in Seq(Peer) : Ranks(r, qs)
    BY <1>8 DEF ChoosePeer, IInv
  <2>2. ps \in Seq(Peer)
    <3>1. req[r].answer \in Seq(Peer)
      BY <1>1
    <3>2. i = 0 \/ i \in DOMAIN req[r].answer
      BY <3>1, IndexOwn
    <3> HIDE DEF i
    <3> QED BY <3>1, <3>2 DEF RemoveAt
  <2>3. from \in Peer \cup {NoPeer}
    BY <2>2
  <2>4. req' = [req EXCEPT ![r] = q]
    BY <1>1, <1>8 DEF ChoosePeer
  <2>5. from # NoPeer /\ from.asn # req[r].asn =>
            \A p \in req[r].found : p.asn = req[r].asn => p.ip = req[r].ip
    <3> SUFFICES ASSUME from # NoPeer, from.asn # req[r].asn,
                        NEW p \in req[r].found, p.asn = req[r].asn
                 PROVE  p.ip = req[r].ip
      OBVIOUS
    <3>1. ps # <<>> /\ Head(ps).asn # req[r].asn
      OBVIOUS
    <3> HIDE DEF ps, from
    <3>2. p \in Range(qs) /\ LocalFirst(req[r].asn, qs) /\ req[r].answer = Cut(qs)
      BY <2>1 DEF Ranks
    <3> QED BY <3>1, <3>2, ChosenLocal DEF ps
  <2> HIDE DEF ps, from
  <2>6. /\ q \in Request /\ q.ip = req[r].ip /\ q.ip \in Hosts /\ q.stage = "done"
        /\ q.asn = req[r].asn /\ q.found = req[r].found /\ q.from = from
    <3>1. ~At(r, "idle") /\ <<>> \in Seq(Peer)
      BY <1>8 DEF ChoosePeer, At
    <3> QED BY <1>1, <2>3, <3>1
  <2>7. /\ UNCHANGED asnVars /\ readers' \subseteq Requests /\ peers' \subseteq Peer
        /\ IsFiniteSet(peers')
    BY <1>1, <1>8 DEF ChoosePeer
  <2> HIDE DEF q
  <2> QED BY <2>4, <2>5, <2>6, <2>7, RequestChange
<1> QED BY <1>2, <1>3, <1>4, <1>5, <1>6, <1>7, <1>8 DEF Handle

LEMMA StoreStep == ASSUME IInv, NEW p \in Remote, StoreRPC(p) PROVE IInv'
<1>1. peers' \subseteq Peer /\ IsFiniteSet(peers')
  BY FS_AddElement DEF StoreRPC, IInv, TypeOK, Peer
<1> QED BY <1>1 DEF StoreRPC, asnVars, IInv, TypeOK, StaysLocal, At, Ranks

LEMMA Initially == Init => IInv
<1> SUFFICES ASSUME Init PROVE IInv
  OBVIOUS
<1>1. TypeOK
  <2>1. trie \in [DOMAIN trie -> Numbers]
    BY DEF Init, newTrie, Numbers
  <2>2. req \in [Requests -> Request]
    BY DEF Init, NewRequest, Request, Stages, Numbers
  <2> QED BY <2>1, <2>2, FS_EmptySet DEF Init, TypeOK, At, NewRequest
<1>2. Holds(trie, table)
  BY DEF Init, newTrie, Holds, PrefixClosed, Paths, Take
<1>3. \A r \in Requests : ~At(r, "answered") /\ ~At(r, "done")
  BY DEF Init, NewRequest, At
<1> QED BY <1>1, <1>2, <1>3 DEF IInv, StaysLocal

LEMMA Invariance == IInv /\ [Next]_vars => IInv'
<1> SUFFICES ASSUME IInv, [Next]_vars PROVE IInv'
  OBVIOUS
<1>1. CASE \/ \E l \in Lines : LoadLine(l) \/ LoadFails(l) \/ UpdateASN(l)
           \/ Start \/ UpdateLocked
  BY <1>1, MappingStep
<1>2. CASE \E r \in Requests :
               (\E op \in {"get", "put"}, ip \in Hosts : Arrive(r, op, ip)) \/ Handle(r)
  BY <1>2, RequestStep
<1>3. CASE \E p \in Remote : StoreRPC(p)
  BY <1>3, StoreStep
<1>4. CASE UNCHANGED vars
  BY <1>4 DEF vars, IInv, TypeOK, StaysLocal, At, Ranks
<1> QED BY <1>1, <1>2, <1>3, <1>4 DEF Next

-----------------------------------------------------------------------------

\* The trie finds the longest prefix with a number for every address, whatever
\* was loaded and updated, and in whatever order.
THEOREM MatchesHolds == Spec => []MatchesLongestPrefix
<1>1. IInv => MatchesLongestPrefix
  BY MatchHolds DEF IInv, MatchesLongestPrefix
<1> QED BY <1>1, Initially, Invariance, PTL DEF Spec

\* A download leaves the autonomous system only if no other host of it was found.
THEOREM StaysLocalHolds == Spec => []StaysLocal
<1>1. IInv => StaysLocal
  BY DEF IInv
<1> QED BY <1>1, Initially, Invariance, PTL DEF Spec
=============================================================================

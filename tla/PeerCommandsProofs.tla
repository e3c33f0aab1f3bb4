------------------------- MODULE PeerCommandsProofs -------------------------
(***************************************************************************)
(* Proofs about MerkleFS and PeerCommands, for every disk, chunk size and  *)
(* number of children, for any number of processes and any commands, and   *)
(* however they are interleaved, stopped and killed.                       *)
(***************************************************************************)
EXTENDS PeerCommands, SequenceTheorems, WellFoundedInduction, TLAPS

-----------------------------------------------------------------------------
(* Sequences *)

\* Induction up to n, by the least number that is not in S.
LEMMA InductionUpTo ==
    ASSUME NEW n \in Nat, NEW S, 0 \in S,
           \A i \in 1 .. n : i - 1 \in S => i \in S
    PROVE  0 .. n \subseteq S
  <1> SUFFICES ASSUME (0 .. n) \ S # {} PROVE FALSE
    OBVIOUS
  <1> DEFINE T == (0 .. n) \ S
             R == {ss \in Nat \X Nat : ss[1] < ss[2]}
  <1>1. IsWellFoundedOn(R, Nat)
    BY NatLessThanWellFounded DEF OpToRel
  <1>2. PICK m \in T : \A i \in T : <<i, m>> \notin R
    <2>1. T \subseteq Nat
      OBVIOUS
    <2> HIDE DEF R, T
    <2> QED  BY <1>1, <2>1, WFMin DEF T
  <1>3. m \in 0 .. n /\ m \notin S
    OBVIOUS
  <1>4. m \in 1 .. n /\ m - 1 \in 0 .. n
    BY <1>3
  <1>5. m - 1 \in S
    <2>1. <<m - 1, m>> \in R
      BY <1>4
    <2> HIDE DEF R
    <2> QED  BY <1>2, <1>4, <2>1
  <1> QED  BY <1>3, <1>4, <1>5

\* The first k of the recursion of FlattenSeq.
Flattens(ss, k, f) == f = [i \in 1 .. k |-> IF i = 1 THEN ss[i] ELSE f[i - 1] \o ss[i]]

LEMMA FlattensExists ==
    ASSUME NEW ss, NEW n \in Nat
    PROVE  \E f : Flattens(ss, n, f)
  <1> DEFINE T == {k \in 0 .. n : \E f : Flattens(ss, k, f)}
  <1>1. 0 \in T
    <2> DEFINE g == [i \in 1 .. 0 |-> 0]
    <2>1. Flattens(ss, 0, g)
      BY DEF Flattens
    <2> QED  BY <2>1
  <1>2. ASSUME NEW k \in 1 .. n, k - 1 \in T  PROVE k \in T
    <2>1. PICK f : Flattens(ss, k - 1, f)
      BY <1>2
    <2> DEFINE last == IF k = 1 THEN ss[k] ELSE f[k - 1] \o ss[k]
               g == [i \in 1 .. k |-> IF i = k THEN last ELSE f[i]]
    <2>2. \A i \in 1 .. k - 1 : f[i] = IF i = 1 THEN ss[i] ELSE f[i - 1] \o ss[i]
      BY <2>1 DEF Flattens
    <2>3. ASSUME NEW i \in 1 .. k
          PROVE  g[i] = IF i = 1 THEN ss[i] ELSE g[i - 1] \o ss[i]
      <3>1. CASE i = 1
        BY <2>2, <3>1
      <3>2. CASE i # 1
        <4>1. i - 1 \in 1 .. k /\ i - 1 # k
          BY <3>2
        <4>2. g[i - 1] = f[i - 1]
          BY <4>1
        <4>3. CASE i = k
          BY <3>2, <4>2, <4>3
        <4>4. CASE i # k
          <5>1. i \in 1 .. k - 1
            BY <4>4
          <5> QED  BY <2>2, <3>2, <4>2, <4>4, <5>1
        <4> QED  BY <4>3, <4>4
      <3> QED  BY <3>1, <3>2
    <2>4. Flattens(ss, k, g)
      <3>1. g = [i \in 1 .. k |-> g[i]]
        OBVIOUS
      <3> HIDE DEF g
      <3> QED  BY <2>3, <3>1 DEF Flattens
    <2> QED  BY <2>4
  <1>3. 0 .. n \subseteq T
    <2> HIDE DEF T
    <2> QED  BY <1>1, <1>2, InductionUpTo
  <1> QED  BY <1>3

\* FlattenSeq has the value of its recursion, with any solution of it.
LEMMA FlattenIs ==
    ASSUME NEW S, NEW ss \in Seq(Seq(S))
    PROVE  \E f :
            /\ \A i \in 1 .. Len(ss) :
                    f[i] \in Seq(S) /\ f[i] = IF i = 1 THEN ss[i] ELSE f[i - 1] \o ss[i]
            /\ FlattenSeq(ss) = IF Len(ss) = 0 THEN <<>> ELSE f[Len(ss)]
  <1> DEFINE n == Len(ss)
             flatten[i \in 1 .. Len(ss)] == IF i = 1 THEN ss[i] ELSE flatten[i - 1] \o ss[i]
  <1>1. n \in Nat /\ \A i \in 1 .. n : ss[i] \in Seq(S)
    OBVIOUS
  <1>2. PICK f : f = [i \in 1 .. n |-> IF i = 1 THEN ss[i] ELSE f[i - 1] \o ss[i]]
    BY <1>1, FlattensExists DEF Flattens
  <1>3. flatten = [i \in 1 .. n |-> IF i = 1 THEN ss[i] ELSE flatten[i - 1] \o ss[i]]
    BY <1>2
  <1>4. FlattenSeq(ss) = IF Len(ss) = 0 THEN <<>> ELSE flatten[n]
    <2>1. Len(ss) = 0 => ss = <<>>
      OBVIOUS
    <2> QED  BY <2>1 DEF FlattenSeq
  <1> HIDE DEF flatten
  <1>5. \A i \in 1 .. n : flatten[i] = IF i = 1 THEN ss[i] ELSE flatten[i - 1] \o ss[i]
    BY <1>3
  <1> DEFINE T == {k \in 0 .. n : k = 0 \/ flatten[k] \in Seq(S)}
  <1>6. 0 \in T
    BY <1>1
  <1>7. ASSUME NEW k \in 1 .. n, k - 1 \in T  PROVE k \in T
    <2>1. flatten[k] \in Seq(S)
      <3>1. CASE k = 1
        BY <1>1, <1>5, <3>1
      <3>2. CASE k # 1
        <4>1. flatten[k] = flatten[k - 1] \o ss[k] /\ ss[k] \in Seq(S)
          BY <1>1, <1>5, <3>2
        <4>2. k - 1 # 0
          BY <1>1, <3>2
        <4>3. flatten[k - 1] \in Seq(S)
          BY <1>7, <4>2
        <4> QED  BY <4>1, <4>3
      <3> QED  BY <3>1, <3>2
    <2> QED  BY <1>1, <2>1
  <1>8. 0 .. n \subseteq T
    <2> HIDE DEF T, n
    <2> QED  BY <1>1, <1>6, <1>7, InductionUpTo
  <1>9. ASSUME NEW i \in 1 .. n  PROVE flatten[i] \in Seq(S)
    <2>1. i \in 0 .. n /\ i # 0
      BY <1>1
    <2> HIDE DEF n
    <2> QED  BY <1>8, <2>1
  <1> QED  BY <1>4, <1>5, <1>9

LEMMA FlattenEmpty == FlattenSeq(<<>>) = <<>>
  <1>1. <<>> \in Seq(Seq({})) /\ Len(<<>>) = 0
    OBVIOUS
  <1> QED  BY <1>1, FlattenIs

LEMMA FlattenType ==
    ASSUME NEW S, NEW ss \in Seq(Seq(S))
    PROVE  FlattenSeq(ss) \in Seq(S)
  <1>1. <<>> \in Seq(S) /\ Len(ss) \in Nat
    OBVIOUS
  <1> QED  BY <1>1, FlattenIs

LEMMA FlattenAppend ==
    ASSUME NEW S, NEW ss \in Seq(Seq(S)), NEW a \in Seq(S)
    PROVE  FlattenSeq(Append(ss, a)) = FlattenSeq(ss) \o a
  <1> DEFINE n == Len(ss)
             tt == Append(ss, a)
  <1>1. /\ n \in Nat /\ tt \in Seq(Seq(S)) /\ Len(tt) = n + 1
        /\ \A i \in 1 .. n : tt[i] = ss[i]
        /\ tt[n + 1] = a
    BY AppendProperties
  <1>2. PICK f : /\ \A i \in 1 .. n : f[i] = IF i = 1 THEN ss[i] ELSE f[i - 1] \o ss[i]
                 /\ FlattenSeq(ss) = IF n = 0 THEN <<>> ELSE f[n]
    BY FlattenIs
  <1> HIDE DEF tt
  <1>3. PICK g : /\ \A i \in 1 .. Len(tt) : g[i] = IF i = 1 THEN tt[i] ELSE g[i - 1] \o tt[i]
                 /\ FlattenSeq(tt) = IF Len(tt) = 0 THEN <<>> ELSE g[Len(tt)]
    BY <1>1, FlattenIs
  <1> HIDE DEF n
  <1> DEFINE T == {k \in 0 .. n : k = 0 \/ f[k] = g[k]}
  <1>4. 0 \in T
    BY <1>1
  <1>5. ASSUME NEW k \in 1 .. n, k - 1 \in T  PROVE k \in T
    <2>1. /\ f[k] = IF k = 1 THEN ss[k] ELSE f[k - 1] \o ss[k]
          /\ g[k] = IF k = 1 THEN ss[k] ELSE g[k - 1] \o ss[k]
      BY <1>1, <1>2, <1>3
    <2>2. f[k] = g[k]
      BY <1>5, <2>1
    <2> QED  BY <1>1, <2>2
  <1>6. 0 .. n \subseteq T
    <2> HIDE DEF T
    <2> QED  BY <1>1, <1>4, <1>5, InductionUpTo
  <1>7. FlattenSeq(tt) = g[n + 1]
    BY <1>1, <1>3
  <1>8. CASE n = 0
    <2>1. g[n + 1] = a /\ FlattenSeq(ss) = <<>>
      BY <1>1, <1>2, <1>3, <1>8
    <2>2. <<>> \o a = a
      OBVIOUS
    <2> QED  BY <1>7, <2>1, <2>2 DEF tt
  <1>9. CASE n # 0
    <2>1. f[n] = g[n]
      BY <1>1, <1>6, <1>9
    <2>2. g[n + 1] = g[n] \o a
      <3>1. n + 1 \in 1 .. Len(tt) /\ n + 1 # 1 /\ (n + 1) - 1 = n
        BY <1>1, <1>9
      <3>2. g[n + 1] = g[(n + 1) - 1] \o tt[n + 1]
        BY <1>3, <3>1
      <3> QED  BY <1>1, <3>1, <3>2
    <2> QED  BY <1>2, <1>7, <1>9, <2>1, <2>2 DEF tt
  <1> QED  BY <1>8, <1>9

LEMMA FlattenConcat ==
    ASSUME NEW S, NEW ss \in Seq(Seq(S)), NEW tt \in Seq(Seq(S))
    PROVE  FlattenSeq(ss \o tt) = FlattenSeq(ss) \o FlattenSeq(tt)
  <1> DEFINE n == Len(tt)
             Good(k) == FlattenSeq(ss \o SubSeq(tt, 1, k)) = FlattenSeq(ss) \o FlattenSeq(SubSeq(tt, 1, k))
             T == {k \in 0 .. n : Good(k)}
  <1>1. n \in Nat /\ FlattenSeq(ss) \in Seq(S)
    BY FlattenType
  <1>2. 0 \in T
    <2>1. SubSeq(tt, 1, 0) = <<>>
      BY SubSeqEmpty
    <2>2. ss \o <<>> = ss /\ FlattenSeq(ss) \o <<>> = FlattenSeq(ss)
      BY <1>1, ConcatEmptySeq
    <2>3. Good(0)
      BY <2>1, <2>2, FlattenEmpty
    <2> QED  BY <1>1, <2>3
  <1>3. ASSUME NEW k \in 1 .. n, k - 1 \in T  PROVE k \in T
    <2> DEFINE u == SubSeq(tt, 1, k - 1)
    <2>1. u \in Seq(Seq(S)) /\ tt[k] \in Seq(S) /\ SubSeq(tt, 1, k) = Append(u, tt[k])
      <3>1. k \in 1 .. Len(tt) /\ 1 \in 1 .. k /\ k - 1 \in 0 .. Len(tt)
        BY <1>1
      <3>2. u \in Seq(Seq(S)) /\ tt[k] \in Seq(S)
        BY <3>1, SubSeqProperties
      <3>3. SubSeq(tt, 1, k) = u \o <<tt[k]>>
        BY <3>1, SubSeqRecursiveSecond
      <3> HIDE DEF u
      <3> QED  BY <3>2, <3>3, AppendIsConcat
    <2> HIDE DEF u
    <2>2. ss \o Append(u, tt[k]) = Append(ss \o u, tt[k]) /\ ss \o u \in Seq(Seq(S))
      <3>1. Append(u, tt[k]) = u \o <<tt[k]>> /\ Append(ss \o u, tt[k]) = (ss \o u) \o <<tt[k]>>
        BY <2>1, AppendIsConcat, ConcatProperties
      <3> DEFINE one == <<tt[k]>>
      <3>2. one \in Seq(Seq(S))
        BY <2>1
      <3>3. (ss \o u) \o one = ss \o (u \o one)
        <4> HIDE DEF one
        <4> QED  BY <2>1, <3>2, SMTT(30)
      <3> QED  BY <2>1, <3>1, <3>3, ConcatProperties
    <2>3. FlattenSeq(Append(ss \o u, tt[k])) = FlattenSeq(ss \o u) \o tt[k]
      BY <2>1, <2>2, FlattenAppend
    <2>4. FlattenSeq(ss \o u) = FlattenSeq(ss) \o FlattenSeq(u) /\ FlattenSeq(u) \in Seq(S)
      BY <1>3, <2>1, FlattenType DEF u
    <2>5. (FlattenSeq(ss) \o FlattenSeq(u)) \o tt[k] = FlattenSeq(ss) \o (FlattenSeq(u) \o tt[k])
      <3> DEFINE x == FlattenSeq(ss)
                 y == FlattenSeq(u)
                 z == tt[k]
      <3>1. x \in Seq(S) /\ y \in Seq(S) /\ z \in Seq(S)
        BY <1>1, <2>1, <2>4
      <3> HIDE DEF x, y, z
      <3>2. (x \o y) \o z = x \o (y \o z)
        BY <3>1, SMTT(30)
      <3> QED  BY <3>2 DEF x, y, z
    <2>6. FlattenSeq(Append(u, tt[k])) = FlattenSeq(u) \o tt[k]
      BY <2>1, FlattenAppend
    <2>7. Good(k)
      BY <2>1, <2>2, <2>3, <2>4, <2>5, <2>6
    <2> HIDE DEF Good
    <2> QED  BY <1>1, <2>7
  <1>4. n \in T
    <2>1. 0 .. n \subseteq T
      <3> HIDE DEF T, n
      <3> QED  BY <1>1, <1>2, <1>3, InductionUpTo
    <2> HIDE DEF T
    <2> QED  BY <1>1, <2>1
  <1>5. SubSeq(tt, 1, n) = tt
    BY SubSeqFull
  <1> QED  BY <1>4, <1>5

LEMMA FlattenOne ==
    ASSUME NEW S, NEW a \in Seq(S)
    PROVE  FlattenSeq(<<a>>) = a
  <1>1. <<>> \in Seq(Seq(S)) /\ <<a>> = Append(<<>>, a) /\ <<>> \o a = a
    OBVIOUS
  <1> QED  BY <1>1, FlattenAppend, FlattenEmpty

LEMMA FlattenCons ==
    ASSUME NEW S, NEW a \in Seq(S), NEW ss \in Seq(Seq(S))
    PROVE  FlattenSeq(<<a>> \o ss) = a \o FlattenSeq(ss)
  <1> DEFINE one == <<a>>
  <1>1. one \in Seq(Seq(S)) /\ FlattenSeq(one) = a
    BY FlattenOne
  <1> HIDE DEF one
  <1>2. FlattenSeq(one \o ss) = FlattenSeq(one) \o FlattenSeq(ss)
    BY <1>1, FlattenConcat
  <1> QED  BY <1>1, <1>2 DEF one
-----------------------------------------------------------------------------
(* Chunks *)

\* The recursion of chunks, from position k on.
ChunksFrom(xs, size, k, f) ==
    f = [j \in k .. Len(xs) + 1 |->
            IF j + size <= Len(xs)
            THEN <<SubSeq(xs, j, j + size - 1)>> \o f[j + size]
            ELSE <<SubSeq(xs, j, Len(xs))>>]

LEMMA ChunksExist ==
    ASSUME NEW S, NEW xs \in Seq(S), NEW size \in Nat \ {0}
    PROVE  \E f : ChunksFrom(xs, size, 1, f)
  <1> DEFINE n == Len(xs)
             T == {d \in 0 .. n : \E f : ChunksFrom(xs, size, n + 1 - d, f)}
             Piece(j, rest) == IF j + size <= n THEN <<SubSeq(xs, j, j + size - 1)>> \o rest
                                               ELSE <<SubSeq(xs, j, n)>>
  <1>0. n \in Nat
    OBVIOUS
  <1>1. 0 \in T
    <2> DEFINE g == [j \in n + 1 .. n + 1 |-> Piece(j, <<>>)]
    <2>1. \A j \in n + 1 .. n + 1 : ~(j + size <= n)
      BY <1>0
    <2>2. g = [j \in n + 1 .. n + 1 |->
                IF j + size <= n THEN <<SubSeq(xs, j, j + size - 1)>> \o g[j + size]
                ELSE <<SubSeq(xs, j, n)>>]
      BY <2>1
    <2>3. ChunksFrom(xs, size, n + 1 - 0, g)
      BY <1>0, <2>2 DEF ChunksFrom
    <2> HIDE DEF g
    <2> QED  BY <1>0, <2>3
  <1>2. ASSUME NEW d \in 1 .. n, d - 1 \in T  PROVE d \in T
    <2> DEFINE k == n + 1 - d
    <2>1. PICK f : ChunksFrom(xs, size, k + 1, f)
      <3>1. n + 1 - (d - 1) = k + 1
        BY <1>0
      <3> QED  BY <1>2, <3>1
    <2>2. f = [j \in k + 1 .. n + 1 |-> Piece(j, f[j + size])]
      BY <2>1 DEF ChunksFrom
    <2>3. k \in 1 .. n
      BY <1>0
    <2> DEFINE g == [j \in k .. n + 1 |-> IF j = k THEN Piece(k, f[k + size]) ELSE f[j]]
    <2>4. ASSUME NEW j \in k .. n + 1  PROVE g[j] = Piece(j, g[j + size])
      <3> HIDE DEF k, n
      <3>1. k \in Int /\ n \in Nat /\ j \in Int
        BY <1>0, <2>3
      <3>2. j + size <= n => j + size \in k + 1 .. n + 1 /\ j + size # k /\ j + size \in k .. n + 1
        BY <3>1
      <3>3. j + size <= n => g[j + size] = f[j + size]
        BY <3>2
      <3>4. CASE j = k
        BY <3>3, <3>4
      <3>5. CASE j # k
        <4>1. j \in k + 1 .. n + 1
          BY <3>1, <3>5
        <4>2. f[j] = Piece(j, f[j + size])
          BY <2>2, <4>1
        <4> QED  BY <3>3, <3>5, <4>2
      <3> QED  BY <3>4, <3>5
    <2>5. ChunksFrom(xs, size, k, g)
      <3>1. g = [j \in k .. n + 1 |-> g[j]]
        OBVIOUS
      <3> HIDE DEF g, k
      <3> QED  BY <2>4, <3>1 DEF ChunksFrom
    <2> HIDE DEF g
    <2> QED  BY <1>0, <2>5
  <1>3. n \in T
    <2>1. 0 .. n \subseteq T
      <3> HIDE DEF T, n
      <3> QED  BY <1>0, <1>1, <1>2, InductionUpTo
    <2> HIDE DEF T, n
    <2> QED  BY <1>0, <2>1
  <1>4. n + 1 - n = 1
    BY <1>0
  <1> QED  BY <1>3, <1>4

\* The chunks from position k on, with those from the next chunk on.
FirstOf(xs, size, k, cs, rest) ==
    cs = IF k + size <= Len(xs) THEN <<SubSeq(xs, k, k + size - 1)>> \o rest
                                ELSE <<SubSeq(xs, k, Len(xs))>>

\* A property of the chunks from position k on.
ChunksGood(S, xs, size, k, cs) ==
    /\ cs \in Seq(Seq(S)) /\ Len(cs) >= 1
    /\ FlattenSeq(cs) = SubSeq(xs, k, Len(xs))
    /\ k <= Len(xs) => /\ \A i \in DOMAIN cs : cs[i] # <<>>
                       /\ Len(cs) <= Len(xs) - k + 1
                       /\ size >= 2 => 2 * Len(cs) <= Len(xs) - k + 2

LEMMA ChunksStep ==
    ASSUME NEW S, NEW xs \in Seq(S), NEW size \in Nat \ {0}, NEW k \in 1 .. Len(xs) + 1,
           NEW f, NEW rest, FirstOf(xs, size, k, f, rest),
           k + size <= Len(xs) => ChunksGood(S, xs, size, k + size, rest)
    PROVE  ChunksGood(S, xs, size, k, f)
  <1>0. Len(xs) \in Nat
    OBVIOUS
  <1>1. CASE k + size <= Len(xs)
    <2> DEFINE c == SubSeq(xs, k, k + size - 1)
               one == <<c>>
    <2>1. k + size - 1 \in Int /\ k <= k + size - 1 /\ \A i \in k .. k + size - 1 : xs[i] \in S
      BY <1>0, <1>1
    <2>2. c \in Seq(S) /\ Len(c) = size /\ c # <<>>
      <3>1. c \in Seq(S) /\ Len(c) = (k + size - 1) - k + 1
        BY <2>1, SubSeqProperties
      <3> HIDE DEF c
      <3>2. Len(c) = size
        BY <3>1
      <3> QED  BY <3>1, <3>2
    <2>3. FlattenSeq(one \o rest) = c \o FlattenSeq(rest)
      <3> HIDE DEF c
      <3> QED  BY <1>1, <2>2, FlattenCons DEF ChunksGood
    <2>4. c \o SubSeq(xs, k + size, Len(xs)) = SubSeq(xs, k, Len(xs))
      <3>1. k + size - 1 \in k - 1 .. Len(xs) /\ Len(xs) \in k + size - 1 .. Len(xs)
        BY <1>0, <1>1
      <3>2. SubSeq(xs, k, k + size - 1) \o SubSeq(xs, (k + size - 1) + 1, Len(xs)) = SubSeq(xs, k, Len(xs))
        BY <3>1, ConcatAdjacentSubSeq
      <3>3. (k + size - 1) + 1 = k + size
        BY <1>0
      <3> QED  BY <3>2, <3>3
    <2>5. /\ one \in Seq(Seq(S)) /\ Len(one) = 1 /\ one[1] = c
          /\ rest \in Seq(Seq(S)) /\ Len(rest) \in Nat /\ Len(rest) >= 1
      BY <1>1, <2>2 DEF ChunksGood
    <2> HIDE DEF one, c
    <2>6. /\ one \o rest \in Seq(Seq(S)) /\ Len(one \o rest) = 1 + Len(rest)
          /\ \A i \in 1 .. 1 + Len(rest) : (one \o rest)[i] = IF i <= 1 THEN one[i] ELSE rest[i - 1]
      <3> DEFINE SS == Seq(S)
      <3>1. one \in Seq(SS) /\ rest \in Seq(SS)
        BY <2>5
      <3> HIDE DEF SS
      <3>2. /\ one \o rest \in Seq(SS) /\ Len(one \o rest) = Len(one) + Len(rest)
            /\ \A i \in 1 .. Len(one) + Len(rest) :
                    (one \o rest)[i] = IF i <= Len(one) THEN one[i] ELSE rest[i - Len(one)]
        BY <3>1, ConcatProperties
      <3> QED  BY <2>5, <3>2 DEF SS
    <2>7. ASSUME NEW i \in DOMAIN (one \o rest)  PROVE (one \o rest)[i] # <<>>
      <3>1. i \in 1 .. 1 + Len(rest)
        BY <2>5, <2>6
      <3>2. CASE i = 1
        BY <2>2, <2>5, <2>6, <3>1, <3>2
      <3>3. CASE i # 1
        <4>1. i - 1 \in DOMAIN rest /\ ~(i <= 1)
          BY <2>5, <3>1, <3>3
        <4> QED  BY <1>1, <2>6, <3>1, <4>1 DEF ChunksGood
      <3> QED  BY <3>2, <3>3
    <2>8. f = one \o rest
      BY <1>1 DEF one, c, FirstOf
    <2>9. /\ Len(rest) <= Len(xs) - (k + size) + 1
          /\ size >= 2 => 2 * Len(rest) <= Len(xs) - (k + size) + 2
      BY <1>1 DEF ChunksGood
    <2>10. /\ 1 + Len(rest) >= 1 /\ 1 + Len(rest) <= Len(xs) - k + 1
           /\ size >= 2 => 2 * (1 + Len(rest)) <= Len(xs) - k + 2
      BY <1>0, <2>5, <2>9
    <2>11. FlattenSeq(one \o rest) = SubSeq(xs, k, Len(xs))
      BY <1>1, <2>3, <2>4 DEF ChunksGood
    <2> QED  BY <2>6, <2>7, <2>8, <2>10, <2>11 DEF ChunksGood
  <1>2. CASE ~(k + size <= Len(xs))
    <2> DEFINE c == SubSeq(xs, k, Len(xs))
    <2>1. \A i \in k .. Len(xs) : xs[i] \in S
      BY <1>0
    <2>2. c \in Seq(S) /\ (k <= Len(xs) => Len(c) = Len(xs) - k + 1)
      BY <1>0, <2>1, SubSeqProperties
    <2>3. k <= Len(xs) => c # <<>>
      <3> HIDE DEF c
      <3> QED  BY <1>0, <2>2
    <2>4. FlattenSeq(<<c>>) = c
      <3> HIDE DEF c
      <3> QED  BY <2>2, FlattenOne
    <2> HIDE DEF c
    <2>5. <<c>> \in Seq(Seq(S)) /\ Len(<<c>>) = 1 /\ DOMAIN <<c>> = {1} /\ <<c>>[1] = c
      BY <2>2
    <2>6. f = <<c>>
      BY <1>2 DEF c, FirstOf
    <2>7. \A i \in DOMAIN f : f[i] = c
      BY <2>5, <2>6
    <2>8. k <= Len(xs) => /\ 1 <= Len(xs) - k + 1
                          /\ 2 * 1 <= Len(xs) - k + 2
      BY <1>0
    <2>9. FlattenSeq(f) = SubSeq(xs, k, Len(xs))
      BY <2>4, <2>6 DEF c
    <2>10. f \in Seq(Seq(S)) /\ Len(f) = 1
      BY <2>5, <2>6
    <2>11. k <= Len(xs) => \A i \in DOMAIN f : f[i] # <<>>
      BY <2>3, <2>7
    <2>12. /\ Len(f) >= 1
           /\ k <= Len(xs) => /\ Len(f) <= Len(xs) - k + 1
                              /\ size >= 2 => 2 * Len(f) <= Len(xs) - k + 2
      BY <2>8, <2>10
    <2> QED  BY <2>9, <2>10, <2>11, <2>12 DEF ChunksGood
  <1> QED  BY <1>1, <1>2

\* A function applied to the elements of a sequence, and, for one that gives
\* sequences, all of these one after the other.  (MapsTo hides the set of
\* functions from the provers, which expand it wherever they see it.)
MapsTo(S, V) == [S -> V]
Map(R, s) == [i \in DOMAIN s |-> R[s[i]]]
All(S, R) == [s \in Seq(S) |-> FlattenSeq(Map(R, s))]

LEMMA MapType ==
    ASSUME NEW S, NEW V, NEW R \in MapsTo(S, V), NEW s \in Seq(S)
    PROVE  /\ Map(R, s) \in Seq(V) /\ Len(Map(R, s)) = Len(s)
           /\ \A i \in 1 .. Len(s) : Map(R, s)[i] = R[s[i]]
  BY DEF Map, MapsTo

LEMMA MapConcat ==
    ASSUME NEW S, NEW V, NEW R \in MapsTo(S, V), NEW s \in Seq(S), NEW t \in Seq(S)
    PROVE  Map(R, s \o t) = Map(R, s) \o Map(R, t)
  <1> DEFINE l == Map(R, s \o t)
             r == Map(R, s) \o Map(R, t)
  <1>0. Len(s) \in Nat /\ Len(t) \in Nat
    OBVIOUS
  <1>1. /\ s \o t \in Seq(S) /\ Len(s \o t) = Len(s) + Len(t)
        /\ \A i \in 1 .. Len(s) + Len(t) :
                (s \o t)[i] = IF i <= Len(s) THEN s[i] ELSE t[i - Len(s)]
    BY ConcatProperties
  <1>2. /\ l \in Seq(V) /\ Len(l) = Len(s) + Len(t)
        /\ \A i \in 1 .. Len(s) + Len(t) : l[i] = R[(s \o t)[i]]
    <2> DEFINE u == s \o t
    <2>1. u \in Seq(S) /\ Len(u) = Len(s) + Len(t)
      BY <1>1
    <2> HIDE DEF u
    <2>2. /\ Map(R, u) \in Seq(V) /\ Len(Map(R, u)) = Len(u)
          /\ \A i \in 1 .. Len(u) : Map(R, u)[i] = R[u[i]]
      BY <2>1, MapType
    <2> QED  BY <2>1, <2>2 DEF u
  <1>3. /\ Map(R, s) \in Seq(V) /\ Len(Map(R, s)) = Len(s)
        /\ \A i \in 1 .. Len(s) : Map(R, s)[i] = R[s[i]]
    BY MapType
  <1>4. /\ Map(R, t) \in Seq(V) /\ Len(Map(R, t)) = Len(t)
        /\ \A i \in 1 .. Len(t) : Map(R, t)[i] = R[t[i]]
    BY MapType
  <1>5. /\ r \in Seq(V) /\ Len(r) = Len(s) + Len(t)
        /\ \A i \in 1 .. Len(s) + Len(t) :
                r[i] = IF i <= Len(s) THEN Map(R, s)[i] ELSE Map(R, t)[i - Len(s)]
    <2> DEFINE a == Map(R, s)
               b == Map(R, t)
    <2>1. a \in Seq(V) /\ b \in Seq(V) /\ Len(a) = Len(s) /\ Len(b) = Len(t)
      BY <1>3, <1>4
    <2> HIDE DEF a, b
    <2>2. /\ a \o b \in Seq(V) /\ Len(a \o b) = Len(a) + Len(b)
          /\ \A i \in 1 .. Len(a) + Len(b) :
                (a \o b)[i] = IF i <= Len(a) THEN a[i] ELSE b[i - Len(a)]
      BY <2>1, ConcatProperties
    <2> QED  BY <2>1, <2>2 DEF a, b
  <1>6. ASSUME NEW i \in 1 .. Len(s) + Len(t)  PROVE l[i] = r[i]
    <2>1. CASE i <= Len(s)
      <3>1. i \in 1 .. Len(s)
        BY <1>0, <2>1
      <3> HIDE DEF l, r
      <3> QED  BY <1>1, <1>2, <1>3, <1>5, <2>1, <3>1
    <2>2. CASE ~(i <= Len(s))
      <3>1. i - Len(s) \in 1 .. Len(t)
        BY <1>0, <2>2
      <3> HIDE DEF l, r
      <3> QED  BY <1>1, <1>2, <1>4, <1>5, <2>2, <3>1
    <2> QED  BY <2>1, <2>2
  <1> HIDE DEF l, r
  <1>7. l = r
    BY <1>2, <1>5, <1>6, SeqEqual
  <1> QED  BY <1>7 DEF l, r

LEMMA AllType ==
    ASSUME NEW S, NEW B, NEW R \in MapsTo(S, Seq(B))
    PROVE  /\ All(S, R) \in MapsTo(Seq(S), Seq(B))
           /\ \A u \in Seq(S) : Map(R, u) \in Seq(Seq(B))
  <1>1. \A u \in Seq(S) : Map(R, u) \in Seq(Seq(B))
    <2> DEFINE V == Seq(B)
    <2>1. R \in MapsTo(S, V)
      OBVIOUS
    <2> HIDE DEF V
    <2> QED  BY <2>1, MapType DEF V
  <1>2. \A u \in Seq(S) : FlattenSeq(Map(R, u)) \in Seq(B)
    BY <1>1, FlattenType
  <1>3. All(S, R) \in MapsTo(Seq(S), Seq(B))
    BY <1>2 DEF All, MapsTo
  <1> QED  BY <1>1, <1>3

LEMMA AllConcat ==
    ASSUME NEW S, NEW B, NEW R \in MapsTo(S, Seq(B))
    PROVE  \A s, t \in Seq(S) : All(S, R)[s \o t] = All(S, R)[s] \o All(S, R)[t]
  <1> SUFFICES ASSUME NEW s \in Seq(S), NEW t \in Seq(S)
               PROVE  All(S, R)[s \o t] = All(S, R)[s] \o All(S, R)[t]
    OBVIOUS
  <1>1. Map(R, s) \in Seq(Seq(B)) /\ Map(R, t) \in Seq(Seq(B))
    BY AllType
  <1>4. s \o t \in Seq(S)
    BY ConcatProperties
  <1>5. Map(R, s \o t) = Map(R, s) \o Map(R, t)
    <2> DEFINE V == Seq(B)
    <2>1. R \in MapsTo(S, V)
      OBVIOUS
    <2> HIDE DEF V
    <2> QED  BY <2>1, MapConcat
  <1>6. FlattenSeq(Map(R, s) \o Map(R, t)) = FlattenSeq(Map(R, s)) \o FlattenSeq(Map(R, t))
    BY <1>1, FlattenConcat
  <1> QED  BY <1>4, <1>5, <1>6 DEF All

\* A sequence of chunks gives what the rest of xs gives.
ChunksGive(A, xs, k, cs) == FlattenSeq(Map(A, cs)) = A[SubSeq(xs, k, Len(xs))]

\* What the chunks give one after the other is what the sequence gives.
LEMMA ChunksMapStep ==
    ASSUME NEW S, NEW B, NEW R \in MapsTo(S, Seq(B)),
           NEW xs \in Seq(S), NEW size \in Nat \ {0}, NEW k \in 1 .. Len(xs) + 1
    PROVE  \A f, rest :
            /\ FirstOf(xs, size, k, f, rest)
            /\ k + size <= Len(xs) => /\ rest \in Seq(Seq(S))
                                      /\ ChunksGive(All(S, R), xs, k + size, rest)
            => ChunksGive(All(S, R), xs, k, f)
  <1>00. \A s, t \in Seq(S) : All(S, R)[s \o t] = All(S, R)[s] \o All(S, R)[t]
    BY AllConcat, Zenon
  <1> SUFFICES ASSUME NEW f, NEW rest, FirstOf(xs, size, k, f, rest),
                      k + size <= Len(xs) => /\ rest \in Seq(Seq(S))
                                             /\ ChunksGive(All(S, R), xs, k + size, rest)
               PROVE  ChunksGive(All(S, R), xs, k, f)
    OBVIOUS
  <1> DEFINE A == All(S, R)
             SS == Seq(S)
             V == Seq(B)
  <1>0. Len(xs) \in Nat /\ A \in MapsTo(SS, V)
    <2>1. A \in MapsTo(SS, V)
      BY AllType
    <2> QED  BY <2>1
  <1>1. ASSUME NEW c \in SS  PROVE FlattenSeq(Map(A, <<c>>)) = A[c]
    <2>1. Map(A, <<c>>) = <<A[c]>>
      BY DEF Map
    <2>2. A[c] \in Seq(B)
      <3> HIDE DEF A
      <3> QED  BY <1>0 DEF MapsTo
    <2> QED  BY <2>1, <2>2, FlattenOne
  <1>2. CASE k + size <= Len(xs)
    <2> DEFINE c == SubSeq(xs, k, k + size - 1)
               d == SubSeq(xs, k + size, Len(xs))
               one == <<c>>
    <2>1. /\ \A i \in k .. k + size - 1 : xs[i] \in S
          /\ \A i \in k + size .. Len(xs) : xs[i] \in S
          /\ k \in Int /\ k + size - 1 \in Int /\ k + size \in Int /\ Len(xs) \in Int
      BY <1>0, <1>2
    <2>2. c \in SS /\ d \in SS
      BY <2>1, SubSeqProperties
    <2>3. c \o d = SubSeq(xs, k, Len(xs))
      <3>1. k + size - 1 \in k - 1 .. Len(xs) /\ Len(xs) \in k + size - 1 .. Len(xs)
        BY <1>0, <1>2
      <3>2. SubSeq(xs, k, k + size - 1) \o SubSeq(xs, (k + size - 1) + 1, Len(xs)) = SubSeq(xs, k, Len(xs))
        BY <3>1, ConcatAdjacentSubSeq
      <3>3. (k + size - 1) + 1 = k + size
        BY <1>0
      <3> QED  BY <3>2, <3>3
    <2>4. A[c \o d] = A[c] \o A[d]
      <3> HIDE DEF c, d
      <3> QED  BY <2>2, <1>00
    <2>5. f = one \o rest
      BY <1>2 DEF FirstOf
    <2>6. FlattenSeq(Map(A, one)) = A[c]
      <3> HIDE DEF A, c
      <3> QED  BY <1>1, <2>2
    <2>7. FlattenSeq(Map(A, rest)) = A[d]
      BY <1>2 DEF ChunksGive
    <2>8. one \in Seq(SS) /\ rest \in Seq(SS)
      <3> HIDE DEF c
      <3> QED  BY <1>2, <2>2
    <2> HIDE DEF one, c, d, A
    <2>9. Map(A, one \o rest) = Map(A, one) \o Map(A, rest)
      <3> HIDE DEF SS, V
      <3> QED  BY <1>0, <2>8, MapConcat
    <2>10. Map(A, one) \in Seq(V) /\ Map(A, rest) \in Seq(V)
      <3> HIDE DEF SS, V
      <3> QED  BY <1>0, <2>8, MapType
    <2>11. FlattenSeq(Map(A, one) \o Map(A, rest)) = FlattenSeq(Map(A, one)) \o FlattenSeq(Map(A, rest))
      <3> DEFINE u == Map(A, one)
                 v == Map(A, rest)
      <3>1. u \in Seq(Seq(B)) /\ v \in Seq(Seq(B))
        BY <2>10
      <3> HIDE DEF u, v
      <3>2. FlattenSeq(u \o v) = FlattenSeq(u) \o FlattenSeq(v)
        BY <3>1, FlattenConcat
      <3> QED  BY <3>2 DEF u, v
    <2>12. FlattenSeq(Map(A, f)) = A[c \o d]
      BY <2>4, <2>5, <2>6, <2>7, <2>9, <2>11
    <2> QED  BY <2>3, <2>12 DEF A, ChunksGive
  <1>3. CASE ~(k + size <= Len(xs))
    <2>1. \A i \in k .. Len(xs) : xs[i] \in S
      BY <1>0
    <2>2. SubSeq(xs, k, Len(xs)) \in SS
      BY <1>0, <2>1, SubSeqProperties
    <2>3. f = <<SubSeq(xs, k, Len(xs))>>
      BY <1>3 DEF FirstOf
    <2> QED  BY <1>1, <2>2, <2>3 DEF ChunksGive
  <1> QED  BY <1>2, <1>3

\* The chunks of a sequence: none is empty, they are fewer than the elements,
\* and one after the other they are the sequence.
LEMMA ChunksAre ==
    ASSUME NEW S, NEW xs \in Seq(S), NEW size \in Nat \ {0}
    PROVE  /\ ChunksGood(S, xs, size, 1, chunks(xs, size))
           /\ \A B : \A R \in MapsTo(S, Seq(B)) :
                FlattenSeq(Map(All(S, R), chunks(xs, size))) = All(S, R)[xs]
  <1> DEFINE n == Len(xs)
             from[k \in 1 .. Len(xs) + 1] ==
                IF k + size <= Len(xs)
                THEN <<SubSeq(xs, k, k + size - 1)>> \o from[k + size]
                ELSE <<SubSeq(xs, k, Len(xs))>>
  <1>0. n \in Nat /\ SubSeq(xs, 1, n) = xs
    BY SubSeqFull
  <1>1. chunks(xs, size) = from[1]
    BY DEF chunks
  <1>2. PICK g : g = [k \in 1 .. Len(xs) + 1 |->
                        IF k + size <= Len(xs)
                        THEN <<SubSeq(xs, k, k + size - 1)>> \o g[k + size]
                        ELSE <<SubSeq(xs, k, Len(xs))>>]
    BY ChunksExist DEF ChunksFrom
  <1>3. from = [k \in 1 .. Len(xs) + 1 |->
                    IF k + size <= Len(xs)
                    THEN <<SubSeq(xs, k, k + size - 1)>> \o from[k + size]
                    ELSE <<SubSeq(xs, k, Len(xs))>>]
    BY <1>2
  <1> HIDE DEF from
  <1>4. \A k \in 1 .. n + 1 : from[k] = IF k + size <= Len(xs)
                                         THEN <<SubSeq(xs, k, k + size - 1)>> \o from[k + size]
                                         ELSE <<SubSeq(xs, k, Len(xs))>>
    BY <1>3
  <1>11. \A k \in 1 .. n + 1 : FirstOf(xs, size, k, from[k], from[k + size])
    BY <1>4 DEF FirstOf
  <1>12. \A B : \A R \in MapsTo(S, Seq(B)) : \A k \in 1 .. n + 1 : \A f, rest :
            /\ FirstOf(xs, size, k, f, rest)
            /\ k + size <= n => rest \in Seq(Seq(S)) /\ ChunksGive(All(S, R), xs, k + size, rest)
            => ChunksGive(All(S, R), xs, k, f)
    BY ChunksMapStep
  <1> DEFINE Good(k) ==
                /\ ChunksGood(S, xs, size, k, from[k])
                /\ \A B : \A R \in MapsTo(S, Seq(B)) : ChunksGive(All(S, R), xs, k, from[k])
             T == {d \in 0 .. n : \A e \in 0 .. d : Good(n + 1 - e)}
  <1>5. ASSUME NEW k \in 1 .. n + 1, k + size <= n => Good(k + size)  PROVE Good(k)
    <2>1. ChunksGood(S, xs, size, k, from[k])
      BY <1>5, <1>11, ChunksStep
    <2>2. k + size <= n => from[k + size] \in Seq(Seq(S))
      BY <1>5 DEF ChunksGood
    <2>3. ASSUME NEW B, NEW R \in MapsTo(S, Seq(B))
          PROVE  ChunksGive(All(S, R), xs, k, from[k])
      BY <1>5, <1>11, <1>12, <2>2
    <2> QED  BY <2>1, <2>3
  <1> HIDE DEF Good
  <1>6. 0 \in T
    <2>1. n + 1 \in 1 .. n + 1 /\ ~((n + 1) + size <= n) /\ n + 1 - 0 = n + 1
      BY <1>0
    <2>2. Good(n + 1)
      BY <1>5, <2>1
    <2> QED  BY <1>0, <2>1, <2>2
  <1>7. ASSUME NEW d \in 1 .. n, d - 1 \in T  PROVE d \in T
    <2> DEFINE k == n + 1 - d
    <2>1. k \in 1 .. n + 1 /\ k + size = n + 1 - (d - size)
      BY <1>0
    <2>2. ASSUME k + size <= n  PROVE Good(k + size)
      <3>1. d - size \in 0 .. d - 1
        BY <1>0, <2>2
      <3>2. Good(n + 1 - (d - size))
        BY <1>7, <3>1
      <3> QED  BY <2>1, <3>2
    <2>3. Good(k)
      <3> HIDE DEF k
      <3> QED  BY <1>5, <2>1, <2>2
    <2>4. \A e \in 0 .. d : e = d \/ e \in 0 .. d - 1
      BY <1>0
    <2>5. \A e \in 0 .. d : Good(n + 1 - e)
      BY <1>7, <2>3, <2>4
    <2> QED  BY <1>0, <2>5
  <1>8. n \in T
    <2>1. 0 .. n \subseteq T
      <3> HIDE DEF T, n
      <3> QED  BY <1>0, <1>6, <1>7, InductionUpTo
    <2> HIDE DEF T, n
    <2> QED  BY <1>0, <2>1
  <1>9. Good(n + 1 - n) /\ n + 1 - n = 1
    BY <1>0, <1>8
  <1>10. Good(1)
    BY <1>9
  <1> QED  BY <1>0, <1>1, <1>10 DEF Good, ChunksGive

-----------------------------------------------------------------------------
(* Adding a file *)

\* The lowest level of the DAG of a file.
LeavesOf(bytes) ==
    [i \in DOMAIN chunks(bytes, ChunkSize) |-> Leaf(chunks(bytes, ChunkSize)[i])]

\* The level above a level.
Above(l) == buildDAGLevel(chunks(l, NumChildren))

\* The first k levels of the DAG of a file with these chunks.
Levels(cs, k, f) ==
    f = [j \in 1 .. k |-> IF j = 1 THEN [i \in DOMAIN cs |-> Leaf(cs[i])]
                                   ELSE buildDAGLevel(chunks(f[j - 1], NumChildren))]

LEMMA LevelsExist ==
    ASSUME NEW cs, NEW n \in Nat
    PROVE  \E f : Levels(cs, n, f)
  <1> DEFINE T == {k \in 0 .. n : \E f : Levels(cs, k, f)}
             Next1(j, x) == IF j = 1 THEN [i \in DOMAIN cs |-> Leaf(cs[i])]
                                     ELSE buildDAGLevel(chunks(x, NumChildren))
  <1>1. 0 \in T
    <2> DEFINE g == [j \in 1 .. 0 |-> 0]
    <2>1. Levels(cs, 0, g)
      BY DEF Levels
    <2> QED  BY <2>1
  <1>2. ASSUME NEW k \in 1 .. n, k - 1 \in T  PROVE k \in T
    <2>1. PICK f : Levels(cs, k - 1, f)
      BY <1>2
    <2> DEFINE g == [j \in 1 .. k |-> IF j = k THEN Next1(k, f[k - 1]) ELSE f[j]]
    <2>2. f = [j \in 1 .. k - 1 |-> Next1(j, f[j - 1])]
      BY <2>1 DEF Levels
    <2> HIDE DEF Next1
    <2>3. \A j \in 1 .. k - 1 : f[j] = Next1(j, f[j - 1])
      BY <2>2
    <2>4. \A x, y : Next1(1, x) = Next1(1, y)
      BY DEF Next1
    <2>5. ASSUME NEW j \in 1 .. k  PROVE g[j] = Next1(j, g[j - 1])
      <3>1. CASE j = 1
        <4>1. g[j] = Next1(j, f[j - 1])
          <5>1. CASE k = 1
            BY <3>1, <5>1
          <5>2. CASE k # 1
            <6>1. j \in 1 .. k - 1
              BY <3>1, <5>2
            <6> QED  BY <2>3, <3>1, <5>2, <6>1
          <5> QED  BY <5>1, <5>2
        <4> QED  BY <2>4, <3>1, <4>1
      <3>2. CASE j # 1
        <4>1. j - 1 \in 1 .. k /\ j - 1 # k
          BY <3>2
        <4>2. g[j - 1] = f[j - 1]
          BY <4>1
        <4>3. CASE j = k
          BY <4>2, <4>3
        <4>4. CASE j # k
          <5>1. j \in 1 .. k - 1
            BY <4>4
          <5> QED  BY <2>3, <4>2, <4>4, <5>1
        <4> QED  BY <4>3, <4>4
      <3> QED  BY <3>1, <3>2
    <2>6. Levels(cs, k, g)
      <3>1. g = [j \in 1 .. k |-> g[j]]
        OBVIOUS
      <3> HIDE DEF g
      <3>2. g = [j \in 1 .. k |-> Next1(j, g[j - 1])]
        BY <2>5, <3>1
      <3> QED  BY <3>2 DEF Levels, Next1
    <2> HIDE DEF g
    <2> QED  BY <2>6
  <1>3. 0 .. n \subseteq T
    <2> HIDE DEF T
    <2> QED  BY <1>1, <1>2, InductionUpTo
  <1> QED  BY <1>3

LEMMA LeastExists ==
    ASSUME NEW S, S \subseteq Nat, S # {}
    PROVE  Min(S) \in S /\ \A i \in S : Min(S) <= i
  <1> DEFINE R == {ss \in Nat \X Nat : ss[1] < ss[2]}
  <1>1. IsWellFoundedOn(R, Nat)
    BY NatLessThanWellFounded DEF OpToRel
  <1>2. PICK m \in S : \A i \in S : <<i, m>> \notin R
    <2> HIDE DEF R
    <2> QED  BY <1>1, WFMin
  <1>3. ASSUME NEW i \in S  PROVE m <= i
    <2>1. i \in Nat /\ m \in Nat
      OBVIOUS
    <2>2. ~(i < m)
      BY <1>2, <2>1
    <2> HIDE DEF R
    <2> QED  BY <2>1, <2>2
  <1> QED  BY <1>3 DEF Min

\* The DAG of a file, level by level: the leaves, the nodes above them, and so
\* on up to a single node.
FileDAG(bytes, level, top) ==
    /\ top \in Nat \ {0}
    /\ level[1] = LeavesOf(bytes)
    /\ \A k \in 2 .. top : level[k] = Above(level[k - 1])
    /\ \A k \in 1 .. top : level[k] \in Seq(Range(level[k])) /\ level[k] # <<>>
    /\ Len(level[top]) = 1
    /\ AddBytes(bytes) = FlattenSeq([k \in 1 .. top |-> level[k]])

LEMMA AboveIs ==
    ASSUME NEW S, NEW l \in Seq(S), l # <<>>
    PROVE  /\ chunks(l, NumChildren) \in Seq(Seq(S))
           /\ \A i \in DOMAIN chunks(l, NumChildren) : chunks(l, NumChildren)[i] # <<>>
           /\ Above(l) \in Seq(Range(Above(l)))
           /\ Len(Above(l)) \in Nat /\ Len(Above(l)) >= 1
           /\ DOMAIN Above(l) = DOMAIN chunks(l, NumChildren)
           /\ 2 * Len(Above(l)) <= Len(l) + 1
  <1> DEFINE cc == chunks(l, NumChildren)
  <1>1. NumChildren \in Nat \ {0} /\ NumChildren >= 2
    BY SizeAssumption
  <1>2. ChunksGood(S, l, NumChildren, 1, cc)
    BY <1>1, ChunksAre
  <1>3. Len(l) \in Nat /\ Len(l) >= 1
    OBVIOUS
  <1>4. /\ cc \in Seq(Seq(S)) /\ Len(cc) \in Nat /\ Len(cc) >= 1 /\ DOMAIN cc = 1 .. Len(cc)
        /\ \A i \in DOMAIN cc : cc[i] # <<>>
        /\ 2 * Len(cc) <= Len(l) + 1
    <2> HIDE DEF cc
    <2>1. 2 * Len(cc) <= Len(l) - 1 + 2 /\ Len(l) - 1 + 2 = Len(l) + 1
      BY <1>1, <1>2, <1>3 DEF ChunksGood
    <2> QED  BY <1>2, <1>3, <2>1 DEF ChunksGood
  <1> HIDE DEF cc
  <1>5. /\ Above(l) = [i \in 1 .. Len(cc) |-> Above(l)[i]]
        /\ DOMAIN Above(l) = DOMAIN cc
    BY <1>4 DEF Above, buildDAGLevel, cc
  <1> DEFINE a == Above(l)
  <1> HIDE DEF a
  <1>6. a \in Seq(Range(a)) /\ Len(a) = Len(cc)
    <2>1. a = [i \in 1 .. Len(cc) |-> a[i]] /\ DOMAIN a = 1 .. Len(cc)
      BY <1>4, <1>5 DEF a
    <2>2. \A i \in 1 .. Len(cc) : a[i] \in Range(a)
      BY <2>1 DEF Range
    <2> QED  BY <1>4, <2>1, <2>2
  <1> QED  BY <1>4, <1>5, <1>6 DEF a, cc

LEMMA LeavesAre ==
    ASSUME NEW bytes \in Seq(Byte)
    PROVE  /\ ChunksGood(Byte, bytes, ChunkSize, 1, chunks(bytes, ChunkSize))
           /\ LeavesOf(bytes) \in Seq(Range(LeavesOf(bytes))) /\ LeavesOf(bytes) # <<>>
           /\ Len(LeavesOf(bytes)) = Len(chunks(bytes, ChunkSize))
           /\ DOMAIN LeavesOf(bytes) = DOMAIN chunks(bytes, ChunkSize)
  <1> DEFINE cs == chunks(bytes, ChunkSize)
             l == LeavesOf(bytes)
  <1>1. ChunksGood(Byte, bytes, ChunkSize, 1, cs)
    BY SizeAssumption, ChunksAre
  <1>2. l = [i \in DOMAIN cs |-> l[i]]
    BY DEF LeavesOf
  <1> HIDE DEF cs, l
  <1>3. Len(cs) \in Nat /\ DOMAIN cs = 1 .. Len(cs) /\ Len(cs) >= 1
    BY <1>1 DEF ChunksGood
  <1>4. \A i \in 1 .. Len(cs) : l[i] \in Range(l)
    BY <1>2, <1>3 DEF Range
  <1>5. l \in Seq(Range(l)) /\ Len(l) = Len(cs) /\ DOMAIN l = DOMAIN cs
    BY <1>2, <1>3, <1>4
  <1> QED  BY <1>1, <1>3, <1>5 DEF l, cs

LEMMA FileDAGExists ==
    ASSUME NEW bytes \in Seq(Byte)
    PROVE  \E level, top : FileDAG(bytes, level, top)
  <1> DEFINE cs == chunks(bytes, ChunkSize)
             n == Len(cs)
             level[k \in 1 .. Len(cs)] ==
                IF k = 1 THEN [i \in DOMAIN cs |-> Leaf(cs[i])]
                         ELSE buildDAGLevel(chunks(level[k - 1], NumChildren))
             top == Min({k \in 1 .. Len(cs) : Len(level[k]) = 1})
  <1>1. n \in Nat /\ n >= 1
    BY LeavesAre DEF ChunksGood
  <1>2. AddBytes(bytes) = FlattenSeq([k \in 1 .. top |-> level[k]])
    BY DEF AddBytes
  <1>3. PICK g : Levels(cs, n, g)
    <2> HIDE DEF n, cs
    <2> QED  BY <1>1, LevelsExist
  <1>4. level = [k \in 1 .. n |->
                    IF k = 1 THEN [i \in DOMAIN cs |-> Leaf(cs[i])]
                    ELSE buildDAGLevel(chunks(level[k - 1], NumChildren))]
    BY <1>3 DEF Levels
  <1> HIDE DEF level
  <1>5. /\ level[1] = LeavesOf(bytes)
        /\ \A k \in 2 .. n : level[k] = Above(level[k - 1])
    <2>1. /\ 1 \in 1 .. n
          /\ \A k \in 2 .. n : k \in 1 .. n /\ k # 1
      BY <1>1
    <2>2. level[1] = [i \in DOMAIN cs |-> Leaf(cs[i])]
      <3> HIDE DEF n, cs
      <3> QED  BY <1>4, <2>1
    <2>3. \A k \in 2 .. n : level[k] = buildDAGLevel(chunks(level[k - 1], NumChildren))
      <3> HIDE DEF n, cs
      <3> QED  BY <1>4, <2>1
    <2> QED  BY <2>2, <2>3 DEF LeavesOf, Above
  <1>6. Len(level[1]) = n /\ level[1] \in Seq(Range(level[1])) /\ level[1] # <<>>
    BY <1>5, LeavesAre
  <1> HIDE DEF cs, n
  <1> DEFINE Good(k) ==
                /\ level[k] \in Seq(Range(level[k])) /\ Len(level[k]) \in Nat /\ Len(level[k]) >= 1
                /\ (\A j \in 1 .. k - 1 : Len(level[j]) # 1) => Len(level[k]) <= n - k + 1
             T == {k \in 0 .. n : k = 0 \/ Good(k)}
  <1>7. ASSUME NEW k \in 1 .. n, k - 1 \in T  PROVE k \in T
    <2>1. Good(k)
      <3>1. CASE k = 1
        BY <1>1, <1>6, <3>1
      <3>2. CASE k # 1
        <4>1. Good(k - 1) /\ k \in 2 .. n /\ k - 1 \in 1 .. k - 1
          <5> HIDE DEF Good
          <5> QED  BY <1>1, <1>7, <3>2
        <4>2. level[k] = Above(level[k - 1])
          BY <1>5, <4>1
        <4> DEFINE l == level[k - 1]
                   S == Range(level[k - 1])
        <4>3. l \in Seq(S) /\ l # <<>>
          BY <4>1
        <4>4. /\ Above(l) \in Seq(Range(Above(l)))
              /\ Len(Above(l)) \in Nat /\ Len(Above(l)) >= 1
              /\ 2 * Len(Above(l)) <= Len(l) + 1
          <5> HIDE DEF l, S
          <5> QED  BY <4>3, AboveIs
        <4>5. ASSUME \A j \in 1 .. k - 1 : Len(level[j]) # 1
              PROVE  Len(level[k]) <= n - k + 1
          <5>1. Len(l) # 1 /\ Len(l) \in Nat
            BY <4>1, <4>5
          <5>2. \A j \in 1 .. (k - 1) - 1 : j \in 1 .. k - 1
            BY <1>1
          <5>3. Len(l) <= n - (k - 1) + 1
            BY <4>1, <4>5, <5>2
          <5>4. Len(Above(l)) < Len(l)
            <6> DEFINE x == Len(Above(l))
                       y == Len(l)
            <6>1. x \in Nat /\ y \in Nat /\ x >= 1 /\ y # 1 /\ 2 * x <= y + 1
              BY <4>4, <5>1
            <6> HIDE DEF x, y
            <6>2. x < y
              BY <6>1
            <6> QED  BY <6>2 DEF x, y
          <5> DEFINE x == Len(Above(l))
                     y == Len(l)
          <5>5. x \in Nat /\ y \in Nat /\ x < y /\ y <= n - (k - 1) + 1
            BY <4>4, <5>1, <5>3, <5>4
          <5> HIDE DEF x, y
          <5>6. x <= n - k + 1
            BY <1>1, <5>5
          <5> QED  BY <4>2, <5>6 DEF x
        <4> QED  BY <4>2, <4>4, <4>5
      <3> QED  BY <3>1, <3>2
    <2> HIDE DEF Good
    <2> QED  BY <1>1, <2>1
  <1>8. \A k \in 1 .. n : Good(k)
    <2>1. 0 \in T
      BY <1>1
    <2>2. 0 .. n \subseteq T
      <3> HIDE DEF T
      <3> QED  BY <1>1, <1>7, <2>1, InductionUpTo
    <2>3. \A k \in 1 .. n : k \in 0 .. n /\ k # 0
      BY <1>1
    <2> HIDE DEF Good
    <2> QED  BY <2>2, <2>3
  <1> DEFINE Tops == {k \in 1 .. n : Len(level[k]) = 1}
  <1>9. Tops # {}
    <2> SUFFICES ASSUME Tops = {} PROVE FALSE
      OBVIOUS
    <2>1. n \in 1 .. n /\ \A j \in 1 .. n - 1 : j \in 1 .. n
      BY <1>1
    <2>2. \A j \in 1 .. n - 1 : Len(level[j]) # 1
      BY <2>1
    <2>3. Len(level[n]) <= n - n + 1 /\ Len(level[n]) \in Nat /\ Len(level[n]) >= 1
      BY <1>8, <2>1, <2>2
    <2> DEFINE x == Len(level[n])
    <2>4. x = 1
      <3>1. x \in Nat /\ x >= 1 /\ x <= n - n + 1
        BY <2>3
      <3> HIDE DEF x
      <3> QED  BY <1>1, <3>1
    <2> QED  BY <2>1, <2>4
  <1>10. top \in 1 .. n /\ Len(level[top]) = 1
    <2>1. Tops \subseteq Nat
      BY <1>1
    <2>2. Min(Tops) \in Tops
      <3> HIDE DEF Tops
      <3> QED  BY <1>9, <2>1, LeastExists
    <2>3. top = Min(Tops)
      BY DEF n
    <2> QED  BY <2>2, <2>3
  <1> HIDE DEF top
  <1>11. /\ top \in Nat \ {0} /\ \A k \in 1 .. top : k \in 1 .. n
         /\ \A k \in 2 .. top : k \in 2 .. n
    BY <1>1, <1>10
  <1>12. \A k \in 1 .. top : level[k] \in Seq(Range(level[k])) /\ level[k] # <<>>
    <2> SUFFICES ASSUME NEW k \in 1 .. top PROVE level[k] \in Seq(Range(level[k])) /\ level[k] # <<>>
      OBVIOUS
    <2>1. level[k] \in Seq(Range(level[k])) /\ Len(level[k]) >= 1
      BY <1>8, <1>11
    <2> QED  BY <2>1
  <1>13. FileDAG(bytes, level, top)
    BY <1>2, <1>5, <1>10, <1>11, <1>12 DEF FileDAG
  <1> QED  BY <1>13

-----------------------------------------------------------------------------
(* AddPath and ReadBytes, two recursions on what is below *)

\* What AddPath gives for a tree, and ReadBytes for a node, when f gives it for
\* those below.
AddOf(t, f) ==
    IF Disk[t].kind = "file" THEN AddBytes(Disk[t].bytes)
    ELSE LET entries == Disk[t].entries
             puts == [i \in DOMAIN entries |-> f[entries[i].tree]]
             links == [i \in DOMAIN entries |-> Link(entries[i].name, Last(puts[i]))]
         IN  Append(FlattenSeq(puts), Inner(links))

ReadOf(S, m, f) ==
    IF m.links = <<>> THEN IF m.data = NoInode THEN ReadError ELSE m.data.bytes
    ELSE LET parts == [i \in DOMAIN m.links |->
                IF m.links[i].cid \in S THEN f[m.links[i].cid] ELSE ReadError]
         IN  IF ReadError \in Range(parts) THEN ReadError ELSE FlattenSeq(parts)

\* Either of the two, and what is below x in it.
Value(op, S, x, f) == IF op = "add" THEN AddOf(x, f) ELSE ReadOf(S, x, f)
Lower(op, S, x) == IF op = "add" THEN SubTrees(x) ELSE Range(Children(x)) \cap S

\* Every part of S has an element that is above none of that part.
Founded(op, S) ==
    /\ \A x \in S : Lower(op, S, x) \subseteq S
    /\ \A T \in SUBSET S : T # {} => \E x \in T : Lower(op, S, x) \cap T = {}

\* f has the values of a part D of S, to which all below its elements belongs.
Solves(op, S, D, f) ==
    /\ D \in SUBSET S
    /\ \A x \in D : Lower(op, S, x) \subseteq D
    /\ f = [x \in D |-> Value(op, S, x, f)]

\* Functions that agree below x give it the same value.
LEMMA SameValue ==
    ASSUME NEW op, NEW S, NEW x, NEW f, NEW g, \A y \in Lower(op, S, x) : f[y] = g[y]
    PROVE  Value(op, S, x, f) = Value(op, S, x, g)
  <1>1. CASE op = "add"
    <2>1. CASE Disk[x].kind = "file"
      BY <1>1, <2>1 DEF Value, AddOf
    <2>2. CASE Disk[x].kind # "file"
      <3> DEFINE entries == Disk[x].entries
                 p == [i \in DOMAIN entries |-> f[entries[i].tree]]
                 q == [i \in DOMAIN entries |-> g[entries[i].tree]]
      <3>1. ASSUME NEW i \in DOMAIN entries  PROVE f[entries[i].tree] = g[entries[i].tree]
        <4>1. entries[i].tree \in Lower(op, S, x)
          BY <1>1, <2>2 DEF Lower, SubTrees, Range
        <4> QED  BY <4>1
      <3>2. p = q
        BY <3>1
      <3> HIDE DEF p, q
      <3>3. /\ Value(op, S, x, f) = Append(FlattenSeq(p),
                    Inner([i \in DOMAIN entries |-> Link(entries[i].name, Last(p[i]))]))
            /\ Value(op, S, x, g) = Append(FlattenSeq(q),
                    Inner([i \in DOMAIN entries |-> Link(entries[i].name, Last(q[i]))]))
        BY <1>1, <2>2 DEF Value, AddOf, p, q
      <3> QED  BY <3>2, <3>3
    <2> QED  BY <2>1, <2>2
  <1>2. CASE op # "add"
    <2> DEFINE p == [i \in DOMAIN x.links |->
                        IF x.links[i].cid \in S THEN f[x.links[i].cid] ELSE ReadError]
               q == [i \in DOMAIN x.links |->
                        IF x.links[i].cid \in S THEN g[x.links[i].cid] ELSE ReadError]
    <2>1. ASSUME NEW i \in DOMAIN x.links, x.links[i].cid \in S
          PROVE  f[x.links[i].cid] = g[x.links[i].cid]
      <3>1. x.links[i].cid \in Lower(op, S, x)
        BY <1>2, <2>1 DEF Lower, Children, Range
      <3> QED  BY <3>1
    <2>2. p = q
      BY <2>1
    <2> HIDE DEF p, q
    <2>3. /\ Value(op, S, x, f) =
                IF x.links = <<>> THEN IF x.data = NoInode THEN ReadError ELSE x.data.bytes
                ELSE IF ReadError \in Range(p) THEN ReadError ELSE FlattenSeq(p)
          /\ Value(op, S, x, g) =
                IF x.links = <<>> THEN IF x.data = NoInode THEN ReadError ELSE x.data.bytes
                ELSE IF ReadError \in Range(q) THEN ReadError ELSE FlattenSeq(q)
      BY <1>2 DEF Value, ReadOf, p, q
    <2> QED  BY <2>2, <2>3
  <1> QED  BY <1>1, <1>2

LEMMA SolutionsAgree ==
    ASSUME NEW op, NEW S, Founded(op, S), NEW D, NEW f, NEW E, NEW g,
           Solves(op, S, D, f), Solves(op, S, E, g)
    PROVE  \A x \in D \cap E : f[x] = g[x]
  <1> DEFINE T == {x \in D \cap E : f[x] # g[x]}
  <1> SUFFICES ASSUME T # {} PROVE FALSE
    OBVIOUS
  <1>1. PICK x \in T : Lower(op, S, x) \cap T = {}
    BY DEF Solves, Founded
  <1>2. /\ x \in D /\ x \in E /\ f[x] # g[x]
        /\ f[x] = Value(op, S, x, f) /\ g[x] = Value(op, S, x, g)
    BY DEF Solves
  <1>3. Lower(op, S, x) \subseteq D \cap E
    BY <1>2 DEF Solves
  <1>4. \A y \in Lower(op, S, x) : f[y] = g[y]
    BY <1>1, <1>3
  <1> QED  BY <1>2, <1>4, SameValue

\* There is a solution for all of S: an element that none covers would have one
\* below it that none covers, and so on without end.
LEMMA SolutionExists ==
    ASSUME NEW op, NEW S, Founded(op, S)
    PROVE  \E f : f = [x \in S |-> Value(op, S, x, f)]
  <1> DEFINE Has(x, v) == \E D, f : Solves(op, S, D, f) /\ x \in D /\ v = f[x]
             V == {x \in S : \E v : Has(x, v)}
             h == [x \in V |-> CHOOSE v : Has(x, v)]
             Low(x) == Lower(op, S, x)
             Val(x, f) == Value(op, S, x, f)
  <1>1. ASSUME NEW D, NEW f, Solves(op, S, D, f)
        PROVE  D \subseteq V /\ \A x \in D : h[x] = f[x]
    <2>1. D \subseteq V
      BY <1>1 DEF Solves
    <2>2. ASSUME NEW x \in D  PROVE h[x] = f[x]
      <3>1. Has(x, f[x])
        BY <1>1
      <3>2. PICK v : v = h[x] /\ Has(x, v)
        BY <2>1, <3>1
      <3>3. PICK E, g : Solves(op, S, E, g) /\ x \in E /\ v = g[x]
        BY <3>2
      <3>4. f[x] = g[x]
        BY <1>1, <3>3, SolutionsAgree
      <3> QED  BY <3>2, <3>3, <3>4
    <2> QED  BY <2>1, <2>2
  <1>2. ASSUME NEW x \in V
        PROVE  Low(x) \subseteq V /\ h[x] = Val(x, h)
    <2>1. PICK D, f : Solves(op, S, D, f) /\ x \in D
      OBVIOUS
    <2>2. Low(x) \subseteq D /\ f[x] = Val(x, f)
      BY <2>1 DEF Solves
    <2> HIDE DEF h, V, Has
    <2>3. D \subseteq V /\ \A y \in D : h[y] = f[y]
      BY <1>1, <2>1
    <2>4. Val(x, h) = Val(x, f)
      BY <2>2, <2>3, SameValue
    <2> QED  BY <2>1, <2>2, <2>3, <2>4
  <1>3. Solves(op, S, V, h)
    <2>1. V \in SUBSET S /\ \A x \in V : Low(x) \subseteq V
      BY <1>2
    <2>2. h = [x \in V |-> h[x]]
      OBVIOUS
    <2> HIDE DEF h, V
    <2> QED  BY <1>2, <2>1, <2>2 DEF Solves
  <1>4. V = S
    <2> SUFFICES ASSUME S \ V # {} PROVE FALSE
      OBVIOUS
    <2>1. PICK x \in S \ V : Low(x) \cap (S \ V) = {}
      <3> HIDE DEF V
      <3> QED  BY DEF Founded
    <2>2. Low(x) \subseteq V /\ x \notin V /\ x \in S
      BY <2>1 DEF Founded
    <2> DEFINE W == V \cup {x}
               g == [y \in W |-> IF y = x THEN Val(x, h) ELSE h[y]]
    <2>3. \A y \in V : g[y] = h[y]
      BY <2>2
    <2>4. g[x] = Val(x, h)
      OBVIOUS
    <2>5. ASSUME NEW y \in W
          PROVE  Low(y) \subseteq V /\ y \in S /\ g[y] = Val(y, g)
      <3>1. Low(y) \subseteq V /\ y \in S
        BY <1>2, <2>2
      <3>2. g[y] = Val(y, h)
        BY <1>2, <2>3, <2>4
      <3>3. \A z \in Low(y) : g[z] = h[z]
        BY <2>3, <3>1
      <3>4. Val(y, g) = Val(y, h)
        <4> HIDE DEF g, h, V
        <4> QED  BY <3>1, <3>3, SameValue
      <3> QED  BY <3>1, <3>2, <3>4
    <2>6. Solves(op, S, W, g)
      <3>1. g = [y \in W |-> g[y]] /\ W \in SUBSET S
        BY <2>2
      <3> HIDE DEF g
      <3> QED  BY <2>5, <3>1 DEF Solves
    <2>7. x \in V
      <3> HIDE DEF g, h, V
      <3>1. W \subseteq V
        BY <1>1, <2>6
      <3> QED  BY <3>1
    <2> QED  BY <2>2, <2>7
  <1> HIDE DEF h, V
  <1>5. h = [x \in V |-> Value(op, S, x, h)]
    BY <1>3 DEF Solves
  <1> QED  BY <1>4, <1>5

LEMMA AddPathIs == \A t \in Trees : AddPath[t] = AddOf(t, AddPath)
  <1> DEFINE add[t \in Trees] ==
                IF Disk[t].kind = "file" THEN AddBytes(Disk[t].bytes)
                ELSE LET entries == Disk[t].entries
                         puts == [i \in DOMAIN entries |-> add[entries[i].tree]]
                         links == [i \in DOMAIN entries |-> Link(entries[i].name, Last(puts[i]))]
                     IN  Append(FlattenSeq(puts), Inner(links))
  <1>1. Founded("add", Trees)
    <2>1. \A t \in Trees : SubTrees(t) \subseteq Trees
      <3> SUFFICES ASSUME NEW t \in Trees, Disk[t].kind # "file", NEW e \in Range(Disk[t].entries)
                   PROVE  e.tree \in Trees
        BY DEF SubTrees
      <3>1. Disk[t].entries \in Seq([name : Name, tree : Trees])
        BY DiskAssumption
      <3>2. PICK i \in DOMAIN Disk[t].entries : e = Disk[t].entries[i]
        BY DEF Range
      <3> DEFINE s == Disk[t].entries
                 R == [name : Name, tree : Trees]
      <3>3. s \in Seq(R) /\ i \in DOMAIN s /\ e = s[i]
        BY <3>1, <3>2
      <3> HIDE DEF s, R
      <3>4. e \in R
        BY <3>3
      <3> QED  BY <3>4 DEF R
    <2> QED  BY <2>1, DiskAssumption DEF Founded, Lower
  <1>2. PICK f : f = [t \in Trees |-> AddOf(t, f)]
    BY <1>1, SolutionExists DEF Value
  <1>3. AddPath = [t \in Trees |-> add[t]]
    BY DEF AddPath
  <1>4. add = [t \in Trees |-> AddOf(t, add)]
    BY <1>2 DEF AddOf
  <1> HIDE DEF add
  <1>5. AddPath = add
    BY <1>3, <1>4
  <1>6. \A t \in Trees : add[t] = AddOf(t, add)
    BY <1>4
  <1> QED  BY <1>5, <1>6

\* What a store gives for each of its nodes.
Contents(S) == [m \in S |-> ReadBytes(S, m)]

LEMMA ReadIs ==
    ASSUME NEW S \in SUBSET Blocks
    PROVE  \A m \in S : Contents(S)[m] = ReadOf(S, m, Contents(S))
  <1> DEFINE read[m \in S] ==
                IF m.links = <<>> THEN IF m.data = NoInode THEN ReadError ELSE m.data.bytes
                ELSE LET parts == [i \in DOMAIN m.links |->
                            IF m.links[i].cid \in S THEN read[m.links[i].cid] ELSE ReadError]
                     IN  IF ReadError \in Range(parts) THEN ReadError ELSE FlattenSeq(parts)
  <1>1. Founded("read", S)
    <2>1. ASSUME NEW T \in SUBSET S, T # {}
          PROVE  \E x \in T : (Range(Children(x)) \cap S) \cap T = {}
      <3>1. T \in SUBSET Blocks
        OBVIOUS
      <3>2. PICK x \in T : Range(Children(x)) \cap T = {}
        BY <2>1, <3>1, HashAssumption
      <3> QED  BY <3>2
    <2> QED  BY <2>1 DEF Founded, Lower
  <1>2. PICK f : f = [m \in S |-> ReadOf(S, m, f)]
    BY <1>1, SolutionExists DEF Value
  <1>3. Contents(S) = [m \in S |-> read[m]]
    BY DEF Contents, ReadBytes
  <1>4. read = [m \in S |-> ReadOf(S, m, read)]
    BY <1>2 DEF ReadOf
  <1> HIDE DEF read
  <1>5. Contents(S) = read
    BY <1>3, <1>4
  <1>6. \A m \in S : read[m] = ReadOf(S, m, read)
    BY <1>4
  <1> QED  BY <1>5, <1>6

-----------------------------------------------------------------------------
(* Reading a file *)

\* A larger store gives the same bytes, where the smaller one gives any.
LEMMA LargerStore ==
    ASSUME NEW S \in SUBSET Blocks, NEW T \in SUBSET S
    PROVE  \A m \in T : Contents(T)[m] # ReadError => Contents(S)[m] = Contents(T)[m]
  <1> DEFINE B == {m \in T : Contents(T)[m] # ReadError /\ Contents(S)[m] # Contents(T)[m]}
  <1> SUFFICES ASSUME B # {} PROVE FALSE
    OBVIOUS
  <1>1. PICK m \in B : Range(Children(m)) \cap B = {}
    <2>1. B \in SUBSET Blocks
      OBVIOUS
    <2> HIDE DEF B
    <2> QED  BY <2>1, HashAssumption
  <1>2. m \in T /\ m \in S /\ T \in SUBSET Blocks
    OBVIOUS
  <1> DEFINE f == Contents(T)
             g == Contents(S)
             p == [i \in DOMAIN m.links |-> IF m.links[i].cid \in T THEN f[m.links[i].cid] ELSE ReadError]
             q == [i \in DOMAIN m.links |-> IF m.links[i].cid \in S THEN g[m.links[i].cid] ELSE ReadError]
  <1>3. f[m] # ReadError /\ g[m] # f[m]
    OBVIOUS
  <1>4. f[m] = ReadOf(T, m, f) /\ g[m] = ReadOf(S, m, g)
    BY <1>2, ReadIs
  <1>5. \A x \in T : x \notin B /\ f[x] # ReadError => g[x] = f[x]
    OBVIOUS
  <1> HIDE DEF f, g, B
  <1>6. /\ f[m] = IF m.links = <<>> THEN IF m.data = NoInode THEN ReadError ELSE m.data.bytes
                  ELSE IF ReadError \in Range(p) THEN ReadError ELSE FlattenSeq(p)
        /\ g[m] = IF m.links = <<>> THEN IF m.data = NoInode THEN ReadError ELSE m.data.bytes
                  ELSE IF ReadError \in Range(q) THEN ReadError ELSE FlattenSeq(q)
    BY <1>4 DEF ReadOf
  <1>7. m.links # <<>> /\ ReadError \notin Range(p)
    BY <1>3, <1>6
  <1>8. ASSUME NEW i \in DOMAIN m.links  PROVE p[i] = q[i]
    <2> DEFINE c == m.links[i].cid
    <2>1. p[i] # ReadError
      BY <1>7 DEF Range
    <2>2. c \in T /\ f[c] # ReadError /\ p[i] = f[c]
      BY <2>1
    <2>3. c \in Range(Children(m))
      BY DEF Children, Range
    <2>4. c \notin B
      BY <1>1, <2>3
    <2>5. g[c] = f[c] /\ c \in S
      BY <1>5, <2>2, <2>4
    <2> QED  BY <2>2, <2>5
  <1>9. p = q
    BY <1>8
  <1> HIDE DEF p, q
  <1> QED  BY <1>3, <1>6, <1>9

\* The nodes of a store that give bytes, and what they give.
Readable(T) == {n \in T : Contents(T)[n] \in Seq(Byte)}
BytesOf(T) == [n \in Readable(T) |-> Contents(T)[n]]

LEMMA BytesOfType ==
    ASSUME NEW T
    PROVE  BytesOf(T) \in MapsTo(Readable(T), Seq(Byte))
  BY DEF BytesOf, Readable, MapsTo

\* A leaf gives its bytes.
LEMMA ReadLeaf ==
    ASSUME NEW T \in SUBSET Blocks, NEW b \in Seq(Byte), Leaf(b) \in T
    PROVE  Leaf(b) \in Readable(T) /\ BytesOf(T)[Leaf(b)] = b
  <1> DEFINE n == Leaf(b)
             d == [kind |-> "raw", bytes |-> b]
  <1>1. n.links = <<>> /\ n.data = d /\ d.bytes = b
    BY DEF Leaf
  <1>2. d # NoInode
    BY HashAssumption
  <1> HIDE DEF d, n
  <1>3. ReadOf(T, n, Contents(T)) = b
    BY <1>1, <1>2 DEF ReadOf
  <1>4. n \in T
    BY DEF n
  <1>5. Contents(T)[n] = b
    BY <1>3, <1>4, ReadIs
  <1>6. n \in Readable(T) /\ BytesOf(T)[n] = b
    BY <1>4, <1>5 DEF Readable, BytesOf
  <1> QED  BY <1>6 DEF n

\* The node above these.
Over(c) == Inner([j \in DOMAIN c |-> Link("", c[j])])

\* A node above nodes that give bytes gives these one after the other.
LEMMA ReadInner ==
    ASSUME NEW T \in SUBSET Blocks, NEW c \in Seq(Readable(T)), c # <<>>,
           Over(c) \in T
    PROVE  /\ Over(c) \in Readable(T)
           /\ BytesOf(T)[Over(c)] = FlattenSeq(Map(BytesOf(T), c))
  <1> DEFINE n == Over(c)
             R == Contents(T)
             p == [j \in DOMAIN n.links |-> IF n.links[j].cid \in T THEN R[n.links[j].cid] ELSE ReadError]
             q == Map(BytesOf(T), c)
  <1>1. /\ DOMAIN n.links = DOMAIN c /\ DOMAIN c = 1 .. Len(c) /\ Len(c) \in Nat /\ Len(c) # 0
        /\ \A j \in DOMAIN c : n.links[j].cid = c[j]
    <2>1. DOMAIN c = 1 .. Len(c) /\ Len(c) \in Nat /\ Len(c) # 0
      OBVIOUS
    <2>2. n.links = [j \in DOMAIN c |-> Link("", c[j])]
      BY DEF Inner, Over
    <2>3. \A j \in DOMAIN c : Link("", c[j]).cid = c[j]
      BY DEF Link
    <2> HIDE DEF n
    <2> QED  BY <2>1, <2>2, <2>3
  <1> HIDE DEF n
  <1>2. n.links # <<>>
    <2>1. 1 \in DOMAIN n.links
      BY <1>1
    <2>2. DOMAIN <<>> = {}
      OBVIOUS
    <2> QED  BY <2>1, <2>2
  <1>3. q \in Seq(Seq(Byte)) /\ Len(q) = Len(c)
    <2> DEFINE V == Seq(Byte)
               G == Readable(T)
    <2>1. BytesOf(T) \in MapsTo(G, V) /\ c \in Seq(G)
      BY BytesOfType
    <2> HIDE DEF V, G
    <2>2. Map(BytesOf(T), c) \in Seq(V) /\ Len(Map(BytesOf(T), c)) = Len(c)
      BY <2>1, MapType
    <2> QED  BY <2>2 DEF V
  <1>4. \A j \in DOMAIN c : c[j] \in T /\ R[c[j]] = BytesOf(T)[c[j]]
    <2>1. \A j \in DOMAIN c : c[j] \in Readable(T)
      OBVIOUS
    <2> QED  BY <2>1 DEF Readable, BytesOf
  <1>5. p = q
    BY <1>1, <1>4 DEF Map
  <1>6. ReadError \notin Range(q)
    <2>1. \A j \in DOMAIN q : q[j] \in Seq(Byte)
      <3> HIDE DEF q
      <3> QED  BY <1>3
    <2> HIDE DEF q
    <2> QED  BY <2>1, HashAssumption DEF Range
  <1>7. ReadOf(T, n, R) = FlattenSeq(q)
    <2>1. ReadOf(T, n, R) = IF ReadError \in Range(p) THEN ReadError ELSE FlattenSeq(p)
      BY <1>2 DEF ReadOf
    <2> HIDE DEF p, q
    <2> QED  BY <1>5, <1>6, <2>1
  <1> HIDE DEF p, q
  <1>8. n \in T /\ R[n] = FlattenSeq(q)
    <2>1. n \in T
      BY DEF n
    <2> QED  BY <1>7, <2>1, ReadIs
  <1>9. R[n] \in Seq(Byte)
    BY <1>3, <1>8, FlattenType
  <1> QED  BY <1>8, <1>9 DEF Readable, BytesOf, q, n

\* A level gives what the level below it gives.
LEMMA ReadAbove ==
    ASSUME NEW T \in SUBSET Blocks, NEW l \in Seq(Readable(T)), l # <<>>,
           Range(Above(l)) \subseteq T
    PROVE  /\ Above(l) \in Seq(Readable(T))
           /\ FlattenSeq(Map(BytesOf(T), Above(l))) = FlattenSeq(Map(BytesOf(T), l))
  <1> DEFINE G == Readable(T)
             R == BytesOf(T)
             cc == chunks(l, NumChildren)
             a == Above(l)
             A == All(Readable(T), BytesOf(T))
  <1>1. /\ cc \in Seq(Seq(G)) /\ \A i \in DOMAIN cc : cc[i] # <<>>
        /\ DOMAIN a = DOMAIN cc
        /\ a \in Seq(Range(a))
    BY AboveIs
  <1>2. FlattenSeq(Map(A, cc)) = A[l]
    <2>1. R \in MapsTo(G, Seq(Byte))
      BY BytesOfType
    <2>2. NumChildren \in Nat \ {0}
      BY SizeAssumption
    <2>3. \A B : \A Q \in MapsTo(G, Seq(B)) : FlattenSeq(Map(All(G, Q), cc)) = All(G, Q)[l]
      <3> HIDE DEF G
      <3>1. l \in Seq(G)
        BY DEF G
      <3> QED  BY <2>2, <3>1, ChunksAre
    <2> QED  BY <2>1, <2>3
  <1>3. \A s \in Seq(G) : A[s] = FlattenSeq(Map(R, s))
    BY DEF All
  <1>4. \A i \in DOMAIN cc : cc[i] \in Seq(G)
    <2> DEFINE SS == Seq(G)
    <2> HIDE DEF SS, cc
    <2>1. cc \in Seq(SS)
      BY <1>1 DEF SS
    <2>2. \A i \in DOMAIN cc : cc[i] \in SS
      BY <2>1
    <2> QED  BY <2>2 DEF SS
  <1>5. ASSUME NEW i \in DOMAIN cc
        PROVE  a[i] \in G /\ R[a[i]] = A[cc[i]]
    <2> DEFINE c == cc[i]
               n == a[i]
    <2>1. c \in Seq(G) /\ c # <<>>
      BY <1>1, <1>4
    <2>2. n = Over(c)
      BY DEF Above, buildDAGLevel, Over
    <2>3. n \in T
      <3>1. n \in Range(a)
        <4> HIDE DEF a, cc
        <4> QED  BY <1>1 DEF Range
      <3> QED  BY <3>1
    <2>4. A[c] = FlattenSeq(Map(R, c))
      BY <1>3, <2>1
    <2> HIDE DEF c, n
    <2>5. n \in Readable(T) /\ BytesOf(T)[n] = FlattenSeq(Map(BytesOf(T), c))
      BY <2>1, <2>2, <2>3, ReadInner
    <2> QED  BY <2>4, <2>5 DEF c, n
  <1> HIDE DEF a, cc, A, G, R
  <1>6. a \in Seq(G)
    BY <1>1, <1>5
  <1>7. Map(R, a) = Map(A, cc)
    BY <1>1, <1>5 DEF Map
  <1>8. l \in Seq(G)
    BY DEF G
  <1>9. FlattenSeq(Map(R, a)) = FlattenSeq(Map(R, l))
    BY <1>2, <1>3, <1>7, <1>8
  <1> QED  BY <1>6, <1>9 DEF a, G, R

-----------------------------------------------------------------------------
(* What AddBytes stores *)

LEMMA RangeConcatenated ==
    ASSUME NEW S, NEW s \in Seq(S), NEW t \in Seq(S)
    PROVE  Range(s \o t) = Range(s) \cup Range(t)
  <1>1. /\ s \o t \in Seq(S) /\ Len(s \o t) = Len(s) + Len(t)
        /\ Len(s) \in Nat /\ Len(t) \in Nat
        /\ DOMAIN s = 1 .. Len(s) /\ DOMAIN t = 1 .. Len(t) /\ DOMAIN (s \o t) = 1 .. Len(s) + Len(t)
    OBVIOUS
  <1>2. \A i \in 1 .. Len(s) + Len(t) :
            (s \o t)[i] = IF i <= Len(s) THEN s[i] ELSE t[i - Len(s)]
    OBVIOUS
  <1>3. ASSUME NEW x \in Range(s)  PROVE x \in Range(s \o t)
    <2>1. PICK i \in 1 .. Len(s) : x = s[i]
      BY <1>1 DEF Range
    <2>2. i \in 1 .. Len(s) + Len(t) /\ i <= Len(s)
      BY <1>1
    <2>3. (s \o t)[i] = s[i]
      BY <1>2, <2>2
    <2> QED  BY <1>1, <2>1, <2>2, <2>3 DEF Range
  <1>4. ASSUME NEW x \in Range(t)  PROVE x \in Range(s \o t)
    <2>1. PICK i \in 1 .. Len(t) : x = t[i]
      BY <1>1 DEF Range
    <2>2. i + Len(s) \in 1 .. Len(s) + Len(t) /\ ~(i + Len(s) <= Len(s)) /\ (i + Len(s)) - Len(s) = i
      BY <1>1
    <2>3. (s \o t)[i + Len(s)] = t[i]
      BY <1>2, <2>2
    <2> QED  BY <1>1, <2>1, <2>2, <2>3 DEF Range
  <1>5. ASSUME NEW x \in Range(s \o t)  PROVE x \in Range(s) \cup Range(t)
    <2>1. PICK i \in 1 .. Len(s) + Len(t) : x = (s \o t)[i]
      BY <1>1 DEF Range
    <2>2. CASE i <= Len(s)
      <3>1. i \in 1 .. Len(s) /\ x = s[i]
        BY <1>1, <1>2, <2>1, <2>2
      <3> QED  BY <1>1, <3>1 DEF Range
    <2>3. CASE ~(i <= Len(s))
      <3>1. i - Len(s) \in 1 .. Len(t) /\ x = t[i - Len(s)]
        BY <1>1, <1>2, <2>1, <2>3
      <3> QED  BY <1>1, <3>1 DEF Range
    <2> QED  BY <1>1, <2>2, <2>3
  <1> QED  BY <1>1, <1>3, <1>4, <1>5

LEMMA FlattenRange ==
    ASSUME NEW S, NEW ss \in Seq(Seq(S))
    PROVE  Range(FlattenSeq(ss)) = UNION {Range(ss[i]) : i \in 1 .. Len(ss)}
  <1> DEFINE n == Len(ss)
  <1>1. n \in Nat /\ \A i \in 1 .. n : ss[i] \in Seq(S)
    OBVIOUS
  <1>2. PICK f : /\ \A i \in 1 .. n : f[i] \in Seq(S) /\ f[i] = IF i = 1 THEN ss[i] ELSE f[i - 1] \o ss[i]
                 /\ FlattenSeq(ss) = IF n = 0 THEN <<>> ELSE f[n]
    BY FlattenIs
  <1> HIDE DEF n
  <1> DEFINE Good(k) == Range(f[k]) = UNION {Range(ss[i]) : i \in 1 .. k}
             T == {k \in 0 .. n : k = 0 \/ Good(k)}
  <1>3. 0 \in T
    BY <1>1
  <1>4. ASSUME NEW k \in 1 .. n, k - 1 \in T  PROVE k \in T
    <2>1. Good(k)
      <3>1. CASE k = 1
        <4>1. f[k] = ss[k] /\ \A i : i \in 1 .. k <=> i = k
          BY <1>2, <3>1
        <4> QED  BY <4>1
      <3>2. CASE k # 1
        <4>1. Good(k - 1) /\ k - 1 \in 1 .. n
          <5> HIDE DEF Good
          <5> QED  BY <1>1, <1>4, <3>2
        <4>2. f[k] = f[k - 1] \o ss[k] /\ f[k - 1] \in Seq(S) /\ ss[k] \in Seq(S)
          BY <1>1, <1>2, <3>2, <4>1
        <4>3. Range(f[k]) = Range(f[k - 1]) \cup Range(ss[k])
          BY <4>2, RangeConcatenated
        <4>4. \A i : i \in 1 .. k <=> i = k \/ i \in 1 .. k - 1
          BY <1>1
        <4> QED  BY <4>1, <4>3, <4>4
      <3> QED  BY <3>1, <3>2
    <2> HIDE DEF Good
    <2> QED  BY <1>1, <2>1
  <1>5. n \in T
    <2>1. 0 .. n \subseteq T
      <3> HIDE DEF T
      <3> QED  BY <1>1, <1>3, <1>4, InductionUpTo
    <2> HIDE DEF T
    <2> QED  BY <1>1, <2>1
  <1>6. CASE n = 0
    <2>1. FlattenSeq(ss) = <<>> /\ 1 .. n = {}
      BY <1>2, <1>6
    <2>2. Range(<<>>) = {}
      BY DEF Range
    <2> QED  BY <2>1, <2>2 DEF n
  <1>7. CASE n # 0
    <2>1. FlattenSeq(ss) = f[n]
      BY <1>2, <1>7
    <2> QED  BY <1>5, <1>7, <2>1 DEF n
  <1> QED  BY <1>6, <1>7

LEMMA LastConcat ==
    ASSUME NEW S, NEW s \in Seq(S), NEW t \in Seq(S), Len(t) = 1
    PROVE  Last(s \o t) = t[1] /\ s \o t # <<>>
  <1> DEFINE u == s \o t
  <1>1. Len(s) \in Nat /\ Len(s) + 1 \in 1 .. Len(s) + Len(t) /\ ~(Len(s) + 1 <= Len(s))
        /\ (Len(s) + 1) - Len(s) = 1
    OBVIOUS
  <1>2. /\ Len(u) = Len(s) + Len(t)
        /\ \A i \in 1 .. Len(s) + Len(t) : u[i] = IF i <= Len(s) THEN s[i] ELSE t[i - Len(s)]
    BY ConcatProperties
  <1> HIDE DEF u
  <1>3. Len(u) = Len(s) + 1 /\ u[Len(s) + 1] = t[1] /\ Len(u) # 0
    BY <1>1, <1>2
  <1>4. u # <<>>
    <2>1. Len(<<>>) = 0
      OBVIOUS
    <2> QED  BY <1>3, <2>1
  <1> QED  BY <1>3, <1>4 DEF Last, u

\* AddBytes stores the levels, and at last the single node of the uppermost one.
LEMMA AddBytesAre ==
    ASSUME NEW bytes, NEW level, NEW top, FileDAG(bytes, level, top)
    PROVE  /\ AddBytes(bytes) \in Seq(Range(AddBytes(bytes))) /\ AddBytes(bytes) # <<>>
           /\ \A k \in 1 .. top : Range(level[k]) \subseteq Range(AddBytes(bytes))
           /\ Last(AddBytes(bytes)) = level[top][1]
  <1> DEFINE N == UNION {Range(level[k]) : k \in 1 .. top}
             ll == [k \in 1 .. top |-> level[k]]
             u == SubSeq(ll, 1, top - 1)
             add == AddBytes(bytes)
  <1>1. top \in Nat \ {0} /\ add = FlattenSeq(ll) /\ Len(level[top]) = 1
    BY DEF FileDAG
  <1>2. \A k \in 1 .. top : level[k] \in Seq(N)
    <2> SUFFICES ASSUME NEW k \in 1 .. top PROVE level[k] \in Seq(N)
      OBVIOUS
    <2> DEFINE l == level[k]
               R == Range(level[k])
    <2>1. l \in Seq(R) /\ R \subseteq N
      BY DEF FileDAG
    <2> HIDE DEF l, R, N
    <2>2. l \in Seq(N)
      BY <2>1
    <2> QED  BY <2>2 DEF l
  <1> HIDE DEF N
  <1>3. ll \in Seq(Seq(N)) /\ Len(ll) = top /\ ll[top] = level[top] /\ level[top] \in Seq(N)
    BY <1>1, <1>2
  <1> HIDE DEF ll
  <1>4. Range(add) = UNION {Range(ll[i]) : i \in 1 .. top}
    BY <1>1, <1>3, FlattenRange
  <1>5. Range(add) = N
    BY <1>4 DEF ll, N
  <1>6. add \in Seq(N)
    BY <1>1, <1>3, FlattenType
  <1>7. u \in Seq(Seq(N)) /\ ll = Append(u, level[top])
    <2> DEFINE V == Seq(N)
    <2>1. ll \in Seq(V) /\ top \in 1 .. Len(ll) /\ 1 \in 1 .. top /\ SubSeq(ll, 1, top) = ll
      <3>1. SubSeq(ll, 1, Len(ll)) = ll
        BY <1>3, SubSeqFull
      <3> QED  BY <1>1, <1>3, <3>1
    <2> HIDE DEF V
    <2>2. SubSeq(ll, 1, top) = SubSeq(ll, 1, top - 1) \o <<ll[top]>>
      BY <2>1, SubSeqRecursiveSecond
    <2>3. \A i \in 1 .. top - 1 : ll[i] \in V
      BY <1>1, <1>3, <2>1
    <2>4. SubSeq(ll, 1, top - 1) \in Seq(V)
      BY <1>1, <2>3, SubSeqProperties
    <2>5. Append(u, ll[top]) = u \o <<ll[top]>>
      BY <2>1, <2>4, AppendIsConcat
    <2> HIDE DEF u
    <2> QED  BY <1>3, <2>1, <2>2, <2>4, <2>5 DEF V, u
  <1> HIDE DEF u
  <1>8. add = FlattenSeq(u) \o level[top] /\ FlattenSeq(u) \in Seq(N)
    BY <1>1, <1>3, <1>7, FlattenAppend, FlattenType
  <1>9. Last(add) = level[top][1] /\ add # <<>>
    <2> DEFINE v == FlattenSeq(u)
               w == level[top]
    <2>1. v \in Seq(N) /\ w \in Seq(N) /\ Len(w) = 1 /\ add = v \o w
      BY <1>1, <1>3, <1>8
    <2> HIDE DEF v, w, add
    <2>2. Last(v \o w) = w[1] /\ v \o w # <<>>
      BY <2>1, LastConcat
    <2> QED  BY <2>1, <2>2 DEF w
  <1>10. \A k \in 1 .. top : Range(level[k]) \subseteq N
    BY DEF N
  <1> QED  BY <1>5, <1>6, <1>9, <1>10

LEMMA NoLinks == \A b : DOMAIN Leaf(b).links = {}
  <1>1. \A b : Leaf(b).links = <<>>
    BY DEF Leaf
  <1> QED  BY <1>1

\* A store that has all blocks of a file gives the bytes of the file.
LEMMA FileReads ==
    ASSUME NEW bytes \in Seq(Byte), NEW T \in SUBSET Blocks, Range(AddBytes(bytes)) \subseteq T
    PROVE  /\ Last(AddBytes(bytes)) \in T
           /\ Contents(T)[Last(AddBytes(bytes))] = bytes
  <1>1. PICK level, top : FileDAG(bytes, level, top)
    BY FileDAGExists
  <1> DEFINE G == Readable(T)
             R == BytesOf(T)
             cs == chunks(bytes, ChunkSize)
             Good(k) == level[k] \in Seq(G) /\ FlattenSeq(Map(R, level[k])) = bytes
             U == {k \in 0 .. top : k = 0 \/ Good(k)}
  <1>2. /\ top \in Nat \ {0} /\ Last(AddBytes(bytes)) = level[top][1] /\ Len(level[top]) = 1
        /\ \A k \in 1 .. top : level[k] \in Seq(Range(level[k])) /\ level[k] # <<>> /\ Range(level[k]) \subseteq T
        /\ level[1] = LeavesOf(bytes)
        /\ \A k \in 2 .. top : level[k] = Above(level[k - 1])
    <2>1. /\ Last(AddBytes(bytes)) = level[top][1]
          /\ \A k \in 1 .. top : Range(level[k]) \subseteq T
      BY <1>1, AddBytesAre
    <2>2. /\ top \in Nat \ {0} /\ Len(level[top]) = 1
          /\ \A k \in 1 .. top : level[k] \in Seq(Range(level[k])) /\ level[k] # <<>>
          /\ level[1] = LeavesOf(bytes)
          /\ \A k \in 2 .. top : level[k] = Above(level[k - 1])
      BY <1>1 DEF FileDAG
    <2> QED  BY <2>1, <2>2
  <1>3. Good(1)
    <2> DEFINE l == level[1]
    <2>1. /\ cs \in Seq(Seq(Byte)) /\ Len(cs) \in Nat /\ DOMAIN cs = 1 .. Len(cs)
          /\ FlattenSeq(cs) = bytes
          /\ l \in Seq(Range(l)) /\ DOMAIN l = DOMAIN cs
      <3>1. SubSeq(bytes, 1, Len(bytes)) = bytes
        BY SubSeqFull
      <3>2. cs \in Seq(Seq(Byte)) /\ FlattenSeq(cs) = SubSeq(bytes, 1, Len(bytes))
        BY LeavesAre DEF ChunksGood
      <3>3. Len(cs) \in Nat /\ DOMAIN cs = 1 .. Len(cs)
        <4> HIDE DEF cs
        <4> QED  BY <3>2
      <3> QED  BY <1>2, <3>1, <3>2, <3>3, LeavesAre
    <2>2. ASSUME NEW i \in DOMAIN cs  PROVE l[i] \in G /\ R[l[i]] = cs[i]
      <3>1. cs[i] \in Seq(Byte) /\ l[i] = Leaf(cs[i])
        <4>1. l[i] = Leaf(cs[i])
          BY <1>2 DEF LeavesOf
        <4> HIDE DEF cs, l
        <4> QED  BY <2>1, <4>1
      <3>2. l[i] \in T
        <4>1. l[i] \in Range(l)
          <5> HIDE DEF l, cs
          <5> QED  BY <2>1 DEF Range
        <4>2. 1 \in 1 .. top
          BY <1>2
        <4> QED  BY <1>2, <4>1, <4>2
      <3> DEFINE b == cs[i]
      <3> HIDE DEF l
      <3>3. b \in Seq(Byte) /\ Leaf(b) \in T
        BY <3>1, <3>2
      <3> HIDE DEF b
      <3>4. Leaf(b) \in Readable(T) /\ BytesOf(T)[Leaf(b)] = b
        BY <3>3, ReadLeaf
      <3> QED  BY <3>1, <3>4 DEF b
    <2> HIDE DEF l, cs, G, R
    <2>3. l \in Seq(G)
      <3> DEFINE N == Range(l)
      <3>1. l \in Seq(N) /\ \A i \in DOMAIN l : l[i] \in G
        BY <2>1, <2>2
      <3> HIDE DEF N
      <3> QED  BY <3>1
    <2>4. Map(R, l) = cs
      <3>1. cs = [i \in DOMAIN cs |-> cs[i]]
        BY <2>1
      <3> QED  BY <2>1, <2>2, <3>1 DEF Map
    <2> QED  BY <2>1, <2>3, <2>4 DEF l
  <1>4. ASSUME NEW k \in 1 .. top, k - 1 \in U  PROVE k \in U
    <2>1. Good(k)
      <3>1. CASE k = 1
        BY <1>3, <3>1
      <3>2. CASE k # 1
        <4>1. Good(k - 1) /\ k \in 2 .. top /\ k - 1 \in 1 .. top
          <5> HIDE DEF Good
          <5> QED  BY <1>2, <1>4, <3>2
        <4> DEFINE l == level[k - 1]
        <4>2. /\ l \in Seq(G) /\ l # <<>> /\ level[k] = Above(l) /\ Range(Above(l)) \subseteq T
              /\ FlattenSeq(Map(R, l)) = bytes
          BY <1>2, <4>1
        <4> HIDE DEF l
        <4>3. /\ Above(l) \in Seq(Readable(T))
              /\ FlattenSeq(Map(BytesOf(T), Above(l))) = FlattenSeq(Map(BytesOf(T), l))
          BY <4>2, ReadAbove
        <4> QED  BY <4>2, <4>3
      <3> QED  BY <3>1, <3>2
    <2> HIDE DEF Good
    <2> QED  BY <1>2, <2>1
  <1>5. Good(top)
    <2>1. 0 \in U
      BY <1>2
    <2>2. 0 .. top \subseteq U
      <3> HIDE DEF U
      <3> QED  BY <1>2, <1>4, <2>1, InductionUpTo
    <2> HIDE DEF Good
    <2> QED  BY <1>2, <2>2
  <1> DEFINE l == level[top]
             r == level[top][1]
  <1>6. l \in Seq(G) /\ Len(l) = 1 /\ FlattenSeq(Map(R, l)) = bytes
    BY <1>2, <1>5
  <1>7. r \in G /\ Map(R, l) = <<R[r]>>
    <2>1. l[1] \in G /\ DOMAIN l = 1 .. 1
      <3>1. l \in Seq(G) /\ Len(l) = 1
        BY <1>6
      <3> HIDE DEF l, G
      <3>2. DOMAIN l = 1 .. 1
        BY <3>1
      <3>3. 1 \in DOMAIN l
        BY <3>2
      <3> QED  BY <3>1, <3>2, <3>3
    <2> HIDE DEF G, R
    <2> QED  BY <2>1 DEF Map
  <1>8. r \in T /\ R[r] = Contents(T)[r] /\ R[r] \in Seq(Byte)
    <2> HIDE DEF r
    <2> QED  BY <1>7 DEF Readable, BytesOf
  <1>9. FlattenSeq(<<R[r]>>) = R[r]
    <2> DEFINE b == R[r]
    <2>1. b \in Seq(Byte)
      BY <1>8
    <2> HIDE DEF b
    <2>2. FlattenSeq(<<b>>) = b
      BY <2>1, FlattenOne
    <2> QED  BY <2>2 DEF b
  <1> HIDE DEF R, l
  <1> QED  BY <1>2, <1>6, <1>7, <1>8, <1>9 DEF r

\* What is stored of a file are leaves, and nodes above some of the others.
LEMMA FileNodes ==
    ASSUME NEW bytes \in Seq(Byte), NEW n \in Range(AddBytes(bytes))
    PROVE  \/ \E b \in Seq(Byte) : n = Leaf(b)
           \/ \E c \in Seq(Range(AddBytes(bytes))) : c # <<>> /\ n = Over(c)
  <1> DEFINE N == Range(AddBytes(bytes))
  <1>1. PICK level, top : FileDAG(bytes, level, top)
    BY FileDAGExists
  <1>2. /\ top \in Nat \ {0}
        /\ \A k \in 1 .. top : level[k] \in Seq(Range(level[k])) /\ level[k] # <<>>
        /\ level[1] = LeavesOf(bytes)
        /\ \A k \in 2 .. top : level[k] = Above(level[k - 1])
        /\ AddBytes(bytes) = FlattenSeq([k \in 1 .. top |-> level[k]])
    BY <1>1 DEF FileDAG
  <1>3. \A k \in 1 .. top : Range(level[k]) \subseteq N
    BY <1>1, AddBytesAre
  <1>4. \A k \in 1 .. top : level[k] \in Seq(N)
    <2> SUFFICES ASSUME NEW k \in 1 .. top PROVE level[k] \in Seq(N)
      OBVIOUS
    <2> DEFINE l == level[k]
               R == Range(level[k])
    <2>1. l \in Seq(R) /\ R \subseteq N
      BY <1>2, <1>3
    <2> HIDE DEF l, R, N
    <2>2. l \in Seq(N)
      BY <2>1
    <2> QED  BY <2>2 DEF l
  <1>5. PICK k \in 1 .. top : n \in Range(level[k])
    <2> DEFINE ll == [k \in 1 .. top |-> level[k]]
    <2>1. ll \in Seq(Seq(N)) /\ Len(ll) = top /\ \A k \in 1 .. top : ll[k] = level[k]
      <3> HIDE DEF N
      <3> QED  BY <1>2, <1>4
    <2> HIDE DEF ll
    <2>2. Range(FlattenSeq(ll)) = UNION {Range(ll[k]) : k \in 1 .. top}
      <3> HIDE DEF N
      <3> QED  BY <2>1, FlattenRange
    <2>3. n \in Range(FlattenSeq(ll))
      BY <1>2 DEF ll
    <2> QED  BY <2>1, <2>2, <2>3
  <1>6. PICK i \in DOMAIN level[k] : n = level[k][i]
    BY <1>5 DEF Range
  <1>7. CASE k = 1
    <2> DEFINE cs == chunks(bytes, ChunkSize)
    <2>1. n = Leaf(cs[i])
      BY <1>2, <1>6, <1>7 DEF LeavesOf
    <2>2. cs \in Seq(Seq(Byte)) /\ DOMAIN level[1] = DOMAIN cs
      BY <1>2, LeavesAre DEF ChunksGood
    <2> HIDE DEF cs, N
    <2>3. cs[i] \in Seq(Byte)
      BY <1>6, <1>7, <2>2
    <2> QED  BY <2>1, <2>3
  <1>8. CASE k # 1
    <2>1. k \in 2 .. top /\ k - 1 \in 1 .. top
      BY <1>2, <1>8
    <2> DEFINE l == level[k - 1]
               cc == chunks(l, NumChildren)
               c == cc[i]
    <2>2. level[k] = Above(l) /\ l \in Seq(N) /\ l # <<>>
      BY <1>2, <1>4, <2>1
    <2>3. /\ cc \in Seq(Seq(N)) /\ DOMAIN Above(l) = DOMAIN cc
          /\ \A j \in DOMAIN cc : cc[j] # <<>>
      <3> HIDE DEF l, N
      <3> QED  BY <2>2, AboveIs
    <2>4. i \in DOMAIN cc /\ n = Over(c)
      <3>1. Above(l) = [j \in DOMAIN cc |-> Over(cc[j])]
        BY DEF Above, buildDAGLevel, Over
      <3> HIDE DEF cc, l
      <3> QED  BY <1>6, <2>2, <2>3, <3>1
    <2>5. c \in Seq(N) /\ c # <<>>
      <3> DEFINE V == Seq(N)
      <3>1. cc \in Seq(V) /\ i \in DOMAIN cc /\ cc[i] # <<>>
        BY <2>3, <2>4
      <3> HIDE DEF V, cc
      <3>2. cc[i] \in V
        BY <3>1
      <3> QED  BY <3>1, <3>2 DEF V
    <2> HIDE DEF c, N
    <2> QED  BY <2>4, <2>5 DEF N
  <1> QED  BY <1>7, <1>8

LEMMA LinksOver ==
    ASSUME NEW N, NEW c \in Seq(N)
    PROVE  /\ DOMAIN Over(c).links = DOMAIN c
           /\ \A j \in DOMAIN c : Over(c).links[j].name = "" /\ Over(c).links[j].cid = c[j]
           /\ Children(Over(c)) = c
  <1>1. Over(c).links = [j \in DOMAIN c |-> Link("", c[j])]
    BY DEF Over, Inner
  <1>2. \A j \in DOMAIN c : Link("", c[j]).name = "" /\ Link("", c[j]).cid = c[j]
    BY DEF Link
  <1>3. [j \in DOMAIN c |-> c[j]] = c
    OBVIOUS
  <1>4. Children(Over(c)) = [j \in DOMAIN c |-> c[j]]
    BY <1>1, <1>2 DEF Children
  <1> QED  BY <1>1, <1>2, <1>3, <1>4

\* Whatever is stored of a file has its children stored as well, behind links
\* that have no names.
LEMMA FileClosed ==
    ASSUME NEW bytes \in Seq(Byte), NEW n \in Range(AddBytes(bytes))
    PROVE  /\ Children(n) \in Seq(Range(AddBytes(bytes)))
           /\ \A i \in DOMAIN n.links : n.links[i].name = ""
  <1> DEFINE N == Range(AddBytes(bytes))
  <1>1. ASSUME NEW b \in Seq(Byte), n = Leaf(b)
        PROVE  Children(n) \in Seq(N) /\ DOMAIN n.links = {}
    <2>1. DOMAIN n.links = {}
      BY <1>1, NoLinks
    <2>2. Children(n) = [j \in {} |-> 0]
      BY <2>1 DEF Children
    <2>3. [j \in {} |-> 0] = <<>>
      OBVIOUS
    <2> HIDE DEF N
    <2>4. <<>> \in Seq(N)
      OBVIOUS
    <2> QED  BY <2>1, <2>2, <2>3, <2>4
  <1>2. ASSUME NEW c \in Seq(N), n = Over(c)
        PROVE  Children(n) \in Seq(N) /\ \A i \in DOMAIN n.links : n.links[i].name = ""
    <2> HIDE DEF N
    <2> QED  BY <1>2, LinksOver
  <1>3. (\E b \in Seq(Byte) : n = Leaf(b)) \/ (\E c \in Seq(N) : n = Over(c))
    BY FileNodes
  <1> QED  BY <1>1, <1>2, <1>3

\* A store that has all blocks of a file can read each of them.
LEMMA FileReadable ==
    ASSUME NEW bytes \in Seq(Byte), NEW T \in SUBSET Blocks, Range(AddBytes(bytes)) \subseteq T
    PROVE  Range(AddBytes(bytes)) \subseteq Readable(T)
  <1> DEFINE N == Range(AddBytes(bytes))
             B == {n \in N : n \notin Readable(T)}
  <1> SUFFICES ASSUME B # {} PROVE FALSE
    OBVIOUS
  <1>1. PICK n \in B : Range(Children(n)) \cap B = {}
    <2>1. B \in SUBSET Blocks
      OBVIOUS
    <2> HIDE DEF B
    <2> QED  BY <2>1, HashAssumption
  <1>2. n \in N /\ n \in T /\ n \notin Readable(T)
    OBVIOUS
  <1>3. ASSUME NEW c \in Seq(N), c # <<>>, n = Over(c)  PROVE FALSE
    <2>1. Children(n) = c
      BY <1>3, LinksOver
    <2>2. \A j \in DOMAIN c : c[j] \in N /\ c[j] \in Range(c)
      <3> HIDE DEF N
      <3> QED  BY DEF Range
    <2>3. \A j \in DOMAIN c : c[j] \in Readable(T)
      BY <1>1, <2>1, <2>2
    <2>4. c \in Seq(Readable(T))
      <3> DEFINE G == Readable(T)
      <3> HIDE DEF G, N
      <3> QED  BY <2>3 DEF G
    <2> QED  BY <1>2, <1>3, <2>4, ReadInner
  <1>4. ASSUME NEW b \in Seq(Byte), n = Leaf(b)  PROVE FALSE
    BY <1>2, <1>4, ReadLeaf
  <1> QED  BY <1>2, <1>3, <1>4, FileNodes

-----------------------------------------------------------------------------
(* What AddPath stores *)

\* The nodes that adding a tree stores.
Stored(t) == Range(AddPath[t])

IsFile(t) == Disk[t].kind = "file"
Entries(t) == Disk[t].entries

LEMMA TreeIs ==
    ASSUME NEW t \in Trees
    PROVE  /\ IsFile(t) => Disk[t].bytes \in Seq(Byte)
           /\ ~IsFile(t) => /\ Disk[t].kind = "dir"
                            /\ Entries(t) \in Seq([name : Name, tree : Trees])
                            /\ \A i, j \in DOMAIN Entries(t) :
                                    Entries(t)[i].name = Entries(t)[j].name => i = j
                            /\ SubTrees(t) = {Entries(t)[i].tree : i \in DOMAIN Entries(t)}
                            /\ \A i \in DOMAIN Entries(t) :
                                    Entries(t)[i].name \in Name /\ Entries(t)[i].tree \in Trees
  <1>1. CASE Disk[t].kind = "file"
    <2>1. Disk[t].bytes \in Seq(Byte)
      BY <1>1, DiskAssumption
    <2> QED  BY <1>1, <2>1 DEF IsFile
  <1>2. CASE Disk[t].kind # "file"
    <2> DEFINE s == Entries(t)
               R == [name : Name, tree : Trees]
    <2>1. /\ Disk[t].kind = "dir" /\ s \in Seq(R)
          /\ \A i, j \in DOMAIN s : s[i].name = s[j].name => i = j
      BY <1>2, DiskAssumption DEF Entries
    <2>2. SubTrees(t) = {s[i].tree : i \in DOMAIN s}
      BY <1>2 DEF SubTrees, Range, Entries
    <2> HIDE DEF s
    <2>3. \A i \in DOMAIN s : s[i] \in R
      <3> HIDE DEF R
      <3> QED  BY <2>1
    <2>4. \A i \in DOMAIN s : s[i].name \in Name /\ s[i].tree \in Trees
      BY <2>3
    <2> QED  BY <1>2, <2>1, <2>2, <2>4 DEF IsFile, s
  <1> QED  BY <1>1, <1>2

\* What is stored of t is a sequence that has the children of all its nodes.
Listed(t) ==
    /\ AddPath[t] \in Seq(Stored(t)) /\ AddPath[t] # <<>> /\ Root[t] \in Stored(t)
    /\ \A n \in Stored(t) : Children(n) \in Seq(Stored(t))

\* The links of the root of a directory.
LinksOf(t) == [i \in DOMAIN Entries(t) |-> Link(Entries(t)[i].name, Root[Entries(t)[i].tree])]

LEMMA FileStored ==
    ASSUME NEW t \in Trees, IsFile(t)
    PROVE  /\ AddPath[t] = AddBytes(Disk[t].bytes)
           /\ Root[t] = Last(AddBytes(Disk[t].bytes))
           /\ Listed(t)
  <1> DEFINE b == Disk[t].bytes
             add == AddBytes(b)
  <1>1. b \in Seq(Byte)
    BY TreeIs
  <1>2. AddPath[t] = add /\ Root[t] = Last(add)
    BY AddPathIs DEF AddOf, IsFile, Root
  <1>3. PICK level, top : FileDAG(b, level, top)
    BY <1>1, FileDAGExists
  <1>4. add \in Seq(Range(add)) /\ add # <<>>
    BY <1>3, AddBytesAre
  <1>5. \A n \in Range(add) : Children(n) \in Seq(Range(add))
    BY <1>1, FileClosed
  <1>6. Last(add) \in Range(add)
    <2> DEFINE N == Range(add)
    <2>1. add \in Seq(N) /\ add # <<>>
      BY <1>4
    <2> HIDE DEF add, N
    <2>2. add[Len(add)] \in N
      BY <2>1
    <2> QED  BY <2>2 DEF Last, N
  <1> QED  BY <1>2, <1>4, <1>5, <1>6 DEF Listed, Stored

LEMMA DirStored ==
    ASSUME NEW t \in Trees, ~IsFile(t), \A u \in SubTrees(t) : Listed(u)
    PROVE  /\ Root[t] = Inner(LinksOf(t))
           /\ \A u \in SubTrees(t) : Stored(u) \subseteq Stored(t)
           /\ Listed(t)
  <1> DEFINE s == Entries(t)
             puts == [i \in DOMAIN s |-> AddPath[s[i].tree]]
             links == [i \in DOMAIN s |-> Link(s[i].name, Last(puts[i]))]
             top == Inner(LinksOf(t))
             N == UNION {Stored(u) : u \in SubTrees(t)}
             M == N \cup {top}
  <1>1. /\ s \in Seq([name : Name, tree : Trees])
        /\ SubTrees(t) = {s[i].tree : i \in DOMAIN s}
        /\ \A i \in DOMAIN s : s[i].tree \in Trees /\ s[i].tree \in SubTrees(t)
    <2>1. /\ s \in Seq([name : Name, tree : Trees])
          /\ SubTrees(t) = {s[i].tree : i \in DOMAIN s}
          /\ \A i \in DOMAIN s : s[i].tree \in Trees
      BY TreeIs
    <2> HIDE DEF s
    <2> QED  BY <2>1
  <1>2. links = LinksOf(t)
    BY <1>1 DEF LinksOf, Root
  <1>3. AddPath[t] = Append(FlattenSeq(puts), top)
    <2>1. AddPath[t] = Append(FlattenSeq(puts), Inner(links))
      BY AddPathIs DEF AddOf, IsFile, Entries
    <2> QED  BY <1>2, <2>1
  <1>4. puts \in Seq(Seq(N)) /\ Len(puts) = Len(s) /\ DOMAIN s = 1 .. Len(s) /\ Len(s) \in Nat
    <2>1. DOMAIN s = 1 .. Len(s) /\ Len(s) \in Nat
      <3> DEFINE R == [name : Name, tree : Trees]
      <3>1. s \in Seq(R)
        BY <1>1
      <3> HIDE DEF R, s
      <3> QED  BY <3>1
    <2>2. \A i \in DOMAIN s : AddPath[s[i].tree] \in Seq(N)
      <3> SUFFICES ASSUME NEW u \in SubTrees(t) PROVE AddPath[u] \in Seq(N)
        BY <1>1
      <3> DEFINE a == AddPath[u]
                 A == Stored(u)
      <3>1. a \in Seq(A) /\ A \subseteq N
        BY DEF Listed
      <3> HIDE DEF a, A, N
      <3>2. a \in Seq(N)
        BY <3>1
      <3> QED  BY <3>2 DEF a
    <2> HIDE DEF s, N
    <2> QED  BY <2>1, <2>2
  <1>5. FlattenSeq(puts) \in Seq(N) /\ Range(FlattenSeq(puts)) = N
    <2>1. /\ FlattenSeq(puts) \in Seq(N)
          /\ Range(FlattenSeq(puts)) = UNION {Range(puts[i]) : i \in 1 .. Len(puts)}
      <3> HIDE DEF puts, N
      <3> QED  BY <1>4, FlattenType, FlattenRange
    <2>2. \A i \in DOMAIN s : Range(puts[i]) = Stored(s[i].tree)
      BY DEF Stored
    <2>3. UNION {Range(puts[i]) : i \in 1 .. Len(puts)} = N
      <3> HIDE DEF puts, s
      <3> QED  BY <1>1, <1>4, <2>2
    <2> QED  BY <2>1, <2>3
  <1> DEFINE f == FlattenSeq(puts)
             a == AddPath[t]
  <1> HIDE DEF f, N, top
  <1>6. a = f \o <<top>> /\ f \in Seq(M) /\ <<top>> \in Seq(M) /\ Range(f) = N
    <2>1. a = Append(f, top) /\ f \in Seq(N)
      BY <1>3, <1>5 DEF f
    <2>2. f \in Seq(M) /\ top \in M
      BY <2>1
    <2> HIDE DEF M, a
    <2>3. Append(f, top) = f \o <<top>>
      BY <2>2, AppendIsConcat
    <2>4. <<top>> \in Seq(M)
      BY <2>2
    <2>5. Range(f) = N
      BY <1>5 DEF f
    <2> QED  BY <2>1, <2>2, <2>3, <2>4, <2>5
  <1> DEFINE one == <<top>>
  <1>7. Len(one) = 1 /\ one[1] = top /\ Range(one) = {top}
    BY DEF Range
  <1> HIDE DEF one, M, a
  <1>8. a \in Seq(M) /\ a # <<>> /\ Last(a) = top /\ Range(a) = M
    <2>1. a = f \o one /\ one \in Seq(M)
      BY <1>6 DEF one
    <2>2. Last(f \o one) = one[1] /\ f \o one # <<>> /\ f \o one \in Seq(M)
      BY <1>6, <1>7, <2>1, LastConcat, ConcatProperties
    <2>3. Range(f \o one) = Range(f) \cup Range(one)
      BY <1>6, <2>1, RangeConcatenated
    <2> QED  BY <1>6, <1>7, <2>1, <2>2, <2>3 DEF M
  <1>9. Root[t] = top /\ Stored(t) = M
    BY <1>8 DEF Root, Stored, a
  <1>10. \A u \in SubTrees(t) : Stored(u) \subseteq N
    BY DEF N
  <1>11. ASSUME NEW n \in M  PROVE Children(n) \in Seq(M)
    <2>1. CASE n \in N
      <3>1. PICK u \in SubTrees(t) : n \in Stored(u)
        BY <2>1 DEF N
      <3> DEFINE c == Children(n)
                 A == Stored(u)
      <3>2. c \in Seq(A) /\ A \subseteq M
        BY <1>10, <3>1 DEF Listed, M
      <3> HIDE DEF c, A
      <3>3. c \in Seq(M)
        BY <3>2
      <3> QED  BY <3>3 DEF c
    <2>2. CASE n = top
      <3>1. Children(n) = [i \in DOMAIN s |-> Root[s[i].tree]]
        <4>1. top.links = LinksOf(t)
          BY DEF top, Inner
        <4>2. LinksOf(t) = [i \in DOMAIN s |-> Link(s[i].name, Root[s[i].tree])]
          BY DEF LinksOf
        <4>3. \A i \in DOMAIN s : Link(s[i].name, Root[s[i].tree]).cid = Root[s[i].tree]
          BY DEF Link
        <4> HIDE DEF s
        <4> QED  BY <2>2, <4>1, <4>2, <4>3 DEF Children
      <3>2. \A i \in DOMAIN s : Root[s[i].tree] \in M
        BY <1>1, <1>10 DEF Listed, M
      <3> HIDE DEF s
      <3>3. [i \in 1 .. Len(s) |-> Root[s[i].tree]] \in Seq(M)
        BY <1>4, <3>2
      <3> QED  BY <1>4, <3>1, <3>3
    <2> QED  BY <2>1, <2>2 DEF M
  <1>12. Listed(t)
    <2>1. top \in M
      BY DEF M
    <2> QED  BY <1>8, <1>9, <1>11, <2>1 DEF Listed, a
  <1> QED  BY <1>9, <1>10, <1>12 DEF top, M

LEMMA AllListed == \A t \in Trees : Listed(t)
  <1> DEFINE B == {t \in Trees : ~Listed(t)}
  <1> SUFFICES ASSUME B # {} PROVE FALSE
    OBVIOUS
  <1>1. PICK t \in B : SubTrees(t) \cap B = {}
    <2>1. B \in SUBSET Trees
      OBVIOUS
    <2> HIDE DEF B
    <2> QED  BY <2>1, DiskAssumption
  <1>2. CASE IsFile(t)
    BY <1>2, FileStored
  <1>3. CASE ~IsFile(t)
    <2>1. SubTrees(t) \subseteq Trees
      BY <1>3, TreeIs
    <2>2. \A u \in SubTrees(t) : Listed(u)
      BY <1>1, <2>1
    <2> QED  BY <1>3, <2>2, DirStored
  <1> QED  BY <1>2, <1>3

-----------------------------------------------------------------------------
(* Paths *)

\* The walk along a path, on the disk and in a store.
OneName(op, S, x, name) ==
    IF op = "disk" THEN UNION {InDir(v, name) : v \in x}
    ELSE IF x = ReadError THEN ReadError ELSE Named(S, x, name)

Walk(op, S, x, parts, k, f) ==
    f = [i \in 0 .. k |-> IF i = 0 THEN x ELSE OneName(op, S, f[i - 1], parts[i])]

LEMMA WalkExists ==
    ASSUME NEW op, NEW S, NEW x, NEW parts, NEW n \in Nat
    PROVE  \E f : Walk(op, S, x, parts, n, f)
  <1> DEFINE T == {k \in 0 .. n : \E f : Walk(op, S, x, parts, k, f)}
             To(i, y) == IF i = 0 THEN x ELSE OneName(op, S, y, parts[i])
  <1>1. 0 \in T
    <2> DEFINE g == [i \in 0 .. 0 |-> x]
    <2>1. \A i \in 0 .. 0 : i = 0
      OBVIOUS
    <2>2. g = [i \in 0 .. 0 |-> IF i = 0 THEN x ELSE OneName(op, S, g[i - 1], parts[i])]
      BY <2>1
    <2> HIDE DEF g
    <2>3. Walk(op, S, x, parts, 0, g)
      BY <2>2 DEF Walk
    <2> QED  BY <2>3
  <1>2. ASSUME NEW k \in 1 .. n, k - 1 \in T  PROVE k \in T
    <2>1. PICK f : Walk(op, S, x, parts, k - 1, f)
      BY <1>2
    <2> DEFINE g == [i \in 0 .. k |-> IF i = k THEN To(k, f[k - 1]) ELSE f[i]]
    <2>2. f = [i \in 0 .. k - 1 |-> To(i, f[i - 1])]
      BY <2>1 DEF Walk
    <2> HIDE DEF To
    <2>3. \A i \in 0 .. k - 1 : f[i] = To(i, f[i - 1])
      BY <2>2
    <2>4. \A y, z : To(0, y) = To(0, z)
      BY DEF To
    <2>5. ASSUME NEW i \in 0 .. k  PROVE g[i] = To(i, g[i - 1])
      <3>1. CASE i = 0
        <4>1. i \in 0 .. k - 1 /\ i # k
          BY <3>1
        <4> QED  BY <2>3, <2>4, <3>1, <4>1
      <3>2. CASE i # 0
        <4>1. i - 1 \in 0 .. k /\ i - 1 # k
          BY <3>2
        <4>2. g[i - 1] = f[i - 1]
          BY <4>1
        <4>3. CASE i = k
          BY <4>2, <4>3
        <4>4. CASE i # k
          <5>1. i \in 0 .. k - 1
            BY <4>4
          <5> QED  BY <2>3, <4>2, <4>4, <5>1
        <4> QED  BY <4>3, <4>4
      <3> QED  BY <3>1, <3>2
    <2>6. Walk(op, S, x, parts, k, g)
      <3>1. g = [i \in 0 .. k |-> g[i]]
        OBVIOUS
      <3> HIDE DEF g
      <3>2. g = [i \in 0 .. k |-> To(i, g[i - 1])]
        BY <2>5, <3>1
      <3> QED  BY <3>2 DEF Walk, To
    <2> HIDE DEF g
    <2> QED  BY <2>6
  <1>3. 0 .. n \subseteq T
    <2> HIDE DEF T
    <2> QED  BY <1>1, <1>2, InductionUpTo
  <1> QED  BY <1>3

\* What may stand in a path.
PathName == Name \cup {""}

LEMMA NamedPath ==
    ASSUME NEW parts \in Seq(Name)
    PROVE  parts \in Seq(PathName)
  <1>1. Name \subseteq PathName
    BY DEF PathName
  <1> QED  BY <1>1

LEMMA ResolveIs ==
    ASSUME NEW S, NEW n, NEW parts \in Seq(PathName)
    PROVE  \E f : /\ f[0] = Get(S, n)
                  /\ \A i \in 1 .. Len(parts) :
                        f[i] = IF f[i - 1] = ReadError THEN ReadError ELSE Named(S, f[i - 1], parts[i])
                  /\ ResolvePath(S, n, parts) = f[Len(parts)]
  <1> DEFINE at[i \in 0 .. Len(parts)] ==
                IF i = 0 THEN Get(S, n)
                ELSE IF at[i - 1] = ReadError THEN ReadError
                ELSE Named(S, at[i - 1], parts[i])
             l == Len(parts)
  <1>1. l \in Nat
    OBVIOUS
  <1>2. PICK f : Walk("store", S, Get(S, n), parts, l, f)
    <2> HIDE DEF l
    <2> QED  BY <1>1, WalkExists
  <1>3. at = [i \in 0 .. l |-> IF i = 0 THEN Get(S, n)
                               ELSE IF at[i - 1] = ReadError THEN ReadError
                               ELSE Named(S, at[i - 1], parts[i])]
    BY <1>2 DEF Walk, OneName
  <1>4. ResolvePath(S, n, parts) = at[l]
    BY DEF ResolvePath
  <1> HIDE DEF at, l
  <1>5. 0 \in 0 .. l /\ \A i \in 1 .. l : i \in 0 .. l /\ i # 0
    BY <1>1
  <1>6. /\ at[0] = Get(S, n)
        /\ \A i \in 1 .. l : at[i] = IF at[i - 1] = ReadError THEN ReadError ELSE Named(S, at[i - 1], parts[i])
    BY <1>3, <1>5
  <1> QED  BY <1>4, <1>6 DEF l

LEMMA OnDiskIs ==
    ASSUME NEW t, NEW parts \in Seq(PathName)
    PROVE  \E f : /\ f[0] = {t}
                  /\ \A i \in 1 .. Len(parts) : f[i] = UNION {InDir(v, parts[i]) : v \in f[i - 1]}
                  /\ OnDisk(t, parts) = f[Len(parts)]
  <1> DEFINE at[i \in 0 .. Len(parts)] ==
                IF i = 0 THEN {t} ELSE UNION {InDir(u, parts[i]) : u \in at[i - 1]}
             l == Len(parts)
  <1>1. l \in Nat
    OBVIOUS
  <1>2. PICK f : Walk("disk", 0, {t}, parts, l, f)
    <2> HIDE DEF l
    <2> QED  BY <1>1, WalkExists
  <1>3. at = [i \in 0 .. l |-> IF i = 0 THEN {t} ELSE UNION {InDir(u, parts[i]) : u \in at[i - 1]}]
    <2>1. f = [i \in 0 .. l |-> IF i = 0 THEN {t} ELSE OneName("disk", 0, f[i - 1], parts[i])]
      BY <1>2 DEF Walk
    <2> DEFINE Inside(us, name) == UNION {InDir(u, name) : u \in us}
    <2>2. \A x, name : OneName("disk", 0, x, name) = Inside(x, name)
      BY DEF OneName
    <2> HIDE DEF l, Inside
    <2>3. f = [i \in 0 .. l |-> IF i = 0 THEN {t} ELSE Inside(f[i - 1], parts[i])]
      BY <2>1, <2>2
    <2>4. \E h : h = [i \in 0 .. l |-> IF i = 0 THEN {t} ELSE Inside(h[i - 1], parts[i])]
      BY <2>3
    <2>5. at = [i \in 0 .. l |-> IF i = 0 THEN {t} ELSE Inside(at[i - 1], parts[i])]
      BY <2>4 DEF Inside, l
    <2> HIDE DEF at
    <2> QED  BY <2>5 DEF Inside
  <1>4. OnDisk(t, parts) = at[l]
    BY DEF OnDisk
  <1> HIDE DEF at, l
  <1>5. 0 \in 0 .. l /\ \A i \in 1 .. l : i \in 0 .. l /\ i # 0
    BY <1>1
  <1>6. /\ at[0] = {t}
        /\ \A i \in 1 .. l : at[i] = UNION {InDir(u, parts[i]) : u \in at[i - 1]}
    BY <1>3, <1>5
  <1> QED  BY <1>4, <1>6 DEF l

LEMMA SubStored ==
    ASSUME NEW t \in Trees, NEW u \in SubTrees(t)
    PROVE  u \in Trees /\ Stored(u) \subseteq Stored(t)
  <1>1. ~IsFile(t)
    BY DEF SubTrees, IsFile
  <1>2. SubTrees(t) \subseteq Trees
    BY <1>1, TreeIs
  <1>3. \A v \in SubTrees(t) : Listed(v)
    BY <1>2, AllListed
  <1> QED  BY <1>1, <1>2, <1>3, DirStored

LEMMA StoredBlocks ==
    ASSUME NEW t \in Trees
    PROVE  Stored(t) \subseteq Blocks /\ Root[t] \in Stored(t)
  BY AllListed DEF Stored, Blocks, Listed

\* Only the empty name leads on within a file.
InFile(t, name) == IsFile(t) /\ name = ""

\* A name leads to the same in the store as on the disk.
LEMMA NamedIs ==
    ASSUME NEW S, NEW t \in Trees, NEW name, ~InFile(t, name)
    PROVE  \/ InDir(t, name) = {} /\ Named(S, Root[t], name) = ReadError
           \/ \E u \in SubTrees(t) :
                InDir(t, name) = {u} /\ Named(S, Root[t], name) = Get(S, Root[u])
  <1> DEFINE n == Root[t]
             named == {i \in DOMAIN n.links : n.links[i].name = name}
  <1>1. Named(S, n, name) = IF named = {} THEN ReadError ELSE Get(S, n.links[Min(named)].cid)
    BY DEF Named
  <1>2. CASE IsFile(t)
    <2>1. InDir(t, name) = {}
      BY <1>2 DEF InDir, SubTrees, IsFile
    <2> DEFINE b == Disk[t].bytes
    <2>2. n = Last(AddBytes(b)) /\ b \in Seq(Byte)
      BY <1>2, FileStored, TreeIs
    <2> HIDE DEF n, b
    <2>3. \A i \in DOMAIN n.links : n.links[i].name = ""
      <3>1. n \in Range(AddBytes(b))
        BY <1>2, FileStored, StoredBlocks DEF Stored, n, b
      <3> QED  BY <2>2, <3>1, FileClosed
    <2>4. name # ""
      BY <1>2 DEF InFile
    <2>5. named = {}
      BY <2>3, <2>4
    <2> QED  BY <1>1, <2>1, <2>5 DEF n
  <1>3. CASE ~IsFile(t)
    <2> DEFINE s == Entries(t)
    <2>1. /\ Disk[t].kind = "dir"
          /\ \A i, j \in DOMAIN s : s[i].name = s[j].name => i = j
          /\ SubTrees(t) = {s[i].tree : i \in DOMAIN s}
          /\ \A i \in DOMAIN s : s[i].tree \in Trees
      BY <1>3, TreeIs
    <2>2. s \in Seq([name : Name, tree : Trees])
      BY <1>3, TreeIs
    <2>3. SubTrees(t) \subseteq Trees
      <3> HIDE DEF s
      <3> QED  BY <2>1
    <2>4. n = Inner(LinksOf(t))
      <3>1. \A u \in SubTrees(t) : Listed(u)
        BY <2>3, AllListed
      <3> QED  BY <1>3, <3>1, DirStored
    <2>5. /\ DOMAIN n.links = DOMAIN s
          /\ \A i \in DOMAIN s : n.links[i].name = s[i].name /\ n.links[i].cid = Root[s[i].tree]
      <3>1. n.links = LinksOf(t)
        <4> HIDE DEF n
        <4> QED  BY <2>4 DEF Inner
      <3>2. \A i \in DOMAIN s : /\ Link(s[i].name, Root[s[i].tree]).name = s[i].name
                                /\ Link(s[i].name, Root[s[i].tree]).cid = Root[s[i].tree]
        BY DEF Link
      <3>3. LinksOf(t) = [i \in DOMAIN s |-> Link(s[i].name, Root[s[i].tree])]
        BY DEF LinksOf
      <3> HIDE DEF s, n
      <3> QED  BY <3>1, <3>2, <3>3
    <2>6. InDir(t, name) = {u \in Trees : \E i \in DOMAIN s : s[i].name = name /\ s[i].tree = u}
      <3>1. InDir(t, name) = {u \in SubTrees(t) : \E i \in DOMAIN s : s[i].name = name /\ s[i].tree = u}
        BY DEF InDir, Entries, Range
      <3> HIDE DEF s
      <3> QED  BY <2>1, <3>1
    <2>7. named = {i \in DOMAIN s : s[i].name = name}
      <3> HIDE DEF n, s
      <3> QED  BY <2>5
    <2>8. DOMAIN s \subseteq Nat
      <3> DEFINE R == [name : Name, tree : Trees]
      <3>1. s \in Seq(R)
        BY <2>2
      <3> HIDE DEF R, s
      <3>2. DOMAIN s = 1 .. Len(s)
        BY <3>1
      <3> QED  BY <3>2
    <2> HIDE DEF n, s, named
    <2>9. CASE named = {}
      <3>1. InDir(t, name) = {}
        BY <2>6, <2>7, <2>9
      <3> QED  BY <1>1, <2>9, <3>1 DEF n
    <2>10. CASE named # {}
      <3> DEFINE i == Min(named)
      <3>1. i \in named
        <4>1. named \subseteq Nat
          BY <2>7, <2>8
        <4> QED  BY <2>10, <4>1, LeastExists
      <3> HIDE DEF i
      <3>2. i \in DOMAIN s /\ s[i].name = name
        BY <2>7, <3>1
      <3>3. InDir(t, name) = {s[i].tree}
        BY <2>1, <2>6, <3>2
      <3>4. Named(S, n, name) = Get(S, Root[s[i].tree])
        BY <1>1, <2>5, <2>10, <3>2 DEF i
      <3>5. s[i].tree \in SubTrees(t)
        BY <2>1, <3>2
      <3> QED  BY <3>3, <3>4, <3>5 DEF n
    <2> QED  BY <2>9, <2>10
  <1> QED  BY <1>2, <1>3

\* Where a path leads in the store, and where on the disk: either nowhere, or
\* to the root of that tree, as far as the store has the blocks.
Leads(S, t, x, us) ==
    \/ us = {} /\ x = ReadError
    \/ \E v \in Trees :
        /\ us = {v}
        /\ x = ReadError \/ (x = Root[v] /\ x \in S)
        /\ Stored(t) \subseteq S => x = Root[v] /\ x \in S /\ Stored(v) \subseteq S

LEMMA LeadsNowhere == \A S, t : Leads(S, t, ReadError, {})
  BY DEF Leads

LEMMA LeadsTo ==
    ASSUME NEW S, NEW t, NEW x, NEW v \in Trees,
           x = ReadError \/ (x = Root[v] /\ x \in S),
           Stored(t) \subseteq S => x = Root[v] /\ x \in S /\ Stored(v) \subseteq S
    PROVE  Leads(S, t, x, {v})
  BY DEF Leads

LEMMA LeadsOn ==
    ASSUME NEW S, NEW t \in Trees, NEW v \in Trees, NEW name \in Name,
           Root[v] \in S, Stored(t) \subseteq S => Stored(v) \subseteq S
    PROVE  Leads(S, t, Named(S, Root[v], name), InDir(v, name))
  <1>1. CASE InDir(v, name) = {} /\ Named(S, Root[v], name) = ReadError
    BY <1>1, LeadsNowhere
  <1>2. ASSUME NEW u \in SubTrees(v), InDir(v, name) = {u}, Named(S, Root[v], name) = Get(S, Root[u])
        PROVE  Leads(S, t, Named(S, Root[v], name), InDir(v, name))
    <2>1. u \in Trees /\ Stored(u) \subseteq Stored(v) /\ Root[u] \in Stored(u)
      BY SubStored, StoredBlocks
    <2>2. Get(S, Root[u]) = IF Root[u] \in S THEN Root[u] ELSE ReadError
      BY DEF Get
    <2> DEFINE x == Get(S, Root[u])
    <2>3. x = ReadError \/ (x = Root[u] /\ x \in S)
      BY <2>2
    <2>4. Stored(t) \subseteq S => x = Root[u] /\ x \in S /\ Stored(u) \subseteq S
      BY <2>1, <2>2
    <2> HIDE DEF x
    <2>5. Leads(S, t, x, {u})
      BY <2>1, <2>3, <2>4, LeadsTo
    <2> QED  BY <1>2, <2>5 DEF x
  <1>3. ~InFile(v, name)
    BY DiskAssumption DEF InFile
  <1> QED  BY <1>1, <1>2, <1>3, NamedIs

LEMMA PathLeads ==
    ASSUME NEW S \in SUBSET Blocks, NEW t \in Trees, NEW parts \in Seq(Name)
    PROVE  Leads(S, t, ResolvePath(S, Root[t], parts), OnDisk(t, parts))
  <1> DEFINE l == Len(parts)
  <1>1. l \in Nat /\ \A i \in 1 .. l : parts[i] \in Name
    OBVIOUS
  <1>2. PICK f : /\ f[0] = Get(S, Root[t])
                 /\ \A i \in 1 .. l :
                        f[i] = IF f[i - 1] = ReadError THEN ReadError ELSE Named(S, f[i - 1], parts[i])
                 /\ ResolvePath(S, Root[t], parts) = f[l]
    BY NamedPath, ResolveIs
  <1>3. PICK g : /\ g[0] = {t}
                 /\ \A i \in 1 .. l : g[i] = UNION {InDir(v, parts[i]) : v \in g[i - 1]}
                 /\ OnDisk(t, parts) = g[l]
    BY NamedPath, OnDiskIs
  <1> HIDE DEF l
  <1> DEFINE T == {i \in 0 .. l : Leads(S, t, f[i], g[i])}
  <1>4. 0 \in T
    <2>1. Root[t] \in Stored(t)
      BY StoredBlocks
    <2>2. f[0] = IF Root[t] \in S THEN Root[t] ELSE ReadError
      BY <1>2 DEF Get
    <2> DEFINE x == f[0]
    <2>4. /\ x = ReadError \/ (x = Root[t] /\ x \in S)
          /\ Stored(t) \subseteq S => x = Root[t] /\ x \in S /\ Stored(t) \subseteq S
      BY <2>1, <2>2
    <2> HIDE DEF x
    <2>3. Leads(S, t, x, {t})
      BY <2>4, LeadsTo
    <2> HIDE DEF T
    <2>5. Leads(S, t, f[0], g[0])
      BY <1>3, <2>3 DEF x
    <2> QED  BY <1>1, <2>5 DEF T
  <1>5. ASSUME NEW k \in 1 .. l, k - 1 \in T  PROVE k \in T
    <2> DEFINE x == f[k - 1]
               us == g[k - 1]
               name == parts[k]
    <2>1. /\ Leads(S, t, x, us) /\ name \in Name
          /\ f[k] = IF x = ReadError THEN ReadError ELSE Named(S, x, name)
      BY <1>1, <1>2, <1>5
    <2>2. g[k] = UNION {InDir(v, name) : v \in us}
      BY <1>3
    <2> HIDE DEF x, us, name
    <2>3. CASE us = {} /\ x = ReadError
      <3>1. g[k] = {} /\ f[k] = ReadError
        BY <2>1, <2>2, <2>3
      <3>2. Leads(S, t, f[k], g[k])
        BY <3>1 DEF Leads
      <3> QED  BY <1>1, <3>2
    <2>4. ASSUME NEW v \in Trees, us = {v}, x = ReadError \/ (x = Root[v] /\ x \in S),
                 Stored(t) \subseteq S => x = Root[v] /\ x \in S /\ Stored(v) \subseteq S
          PROVE  Leads(S, t, f[k], g[k])
      <3>1. g[k] = InDir(v, name)
        BY <2>2, <2>4
      <3>2. ReadError \notin S
        BY HashAssumption
      <3>3. CASE x = ReadError
        <4>1. f[k] = ReadError /\ ~(Stored(t) \subseteq S)
          BY <2>1, <2>4, <3>2, <3>3
        <4>2. InDir(v, name) = {} \/ \E u \in SubTrees(v) : InDir(v, name) = {u}
          BY <2>1, NamedIs, DiskAssumption DEF InFile
        <4>3. \A u \in SubTrees(v) : u \in Trees
          BY SubStored
        <4>4. ASSUME NEW u \in SubTrees(v), InDir(v, name) = {u}
              PROVE  Leads(S, t, f[k], g[k])
          <5>1. Leads(S, t, ReadError, {u})
            BY <4>1, <4>3, LeadsTo
          <5> QED  BY <3>1, <4>1, <4>4, <5>1
        <4> QED  BY <3>1, <4>1, <4>2, <4>4, LeadsNowhere
      <3>4. CASE x # ReadError
        <4>1. Root[v] \in S /\ f[k] = Named(S, Root[v], name) /\ (Stored(t) \subseteq S => Stored(v) \subseteq S)
          BY <2>1, <2>4, <3>4
        <4>2. Leads(S, t, Named(S, Root[v], name), InDir(v, name))
          BY <2>1, <4>1, LeadsOn
        <4> QED  BY <3>1, <4>1, <4>2
      <3> QED  BY <3>3, <3>4
    <2>5. Leads(S, t, f[k], g[k])
      BY <2>1, <2>3, <2>4 DEF Leads
    <2> QED  BY <1>1, <2>5
  <1>6. 0 .. l \subseteq T
    <2> HIDE DEF T
    <2> QED  BY <1>1, <1>4, <1>5, InductionUpTo
  <1>7. Leads(S, t, f[l], g[l])
    BY <1>1, <1>6
  <1> QED  BY <1>2, <1>3, <1>7

\* Reading a path of names: whatever a store gives is what lies on the disk, and
\* a store with all blocks of the tree gives it.
LEMMA NamedCatIs ==
    ASSUME NEW S \in SUBSET Blocks, NEW t \in Trees, NEW parts \in Seq(Name)
    PROVE  /\ Cat(S, Root[t], parts) # ReadError =>
                /\ OnDisk(t, parts) # {}
                /\ \A u \in FilesAt(t, parts) : Cat(S, Root[t], parts) = Disk[u].bytes
           /\ Stored(t) \subseteq S =>
                \A u \in FilesAt(t, parts) : Cat(S, Root[t], parts) = Disk[u].bytes
  <1> DEFINE x == ResolvePath(S, Root[t], parts)
             us == OnDisk(t, parts)
             data == Cat(S, Root[t], parts)
  <1>1. Leads(S, t, x, us)
    BY PathLeads
  <1>2. data = IF x = ReadError THEN ReadError ELSE ReadBytes(S, x)
    BY DEF Cat
  <1>3. FilesAt(t, parts) = {u \in us : IsFile(u)}
    BY DEF FilesAt, IsFile
  <1> HIDE DEF x, us, data
  <1>4. CASE us = {} /\ x = ReadError
    BY <1>2, <1>3, <1>4 DEF data
  <1>5. ASSUME NEW v \in Trees, us = {v}, x = ReadError \/ (x = Root[v] /\ x \in S),
               Stored(t) \subseteq S => x = Root[v] /\ x \in S /\ Stored(v) \subseteq S,
               IsFile(v)
        PROVE  /\ data # ReadError => data = Disk[v].bytes
               /\ Stored(t) \subseteq S => data = Disk[v].bytes
    <2> DEFINE b == Disk[v].bytes
               r == Root[v]
               Sv == Stored(v)
    <2>1. b \in Seq(Byte) /\ r = Last(AddBytes(b)) /\ Sv = Range(AddBytes(b)) /\ r \in Sv /\ Sv \in SUBSET Blocks
      BY <1>5, TreeIs, FileStored, StoredBlocks DEF Stored
    <2> HIDE DEF b, r, Sv
    <2>2. Contents(Sv)[r] = b
      BY <2>1, FileReads
    <2>3. b # ReadError /\ ReadError \notin S
      BY <2>1, HashAssumption
    <2>4. \A R \in SUBSET Blocks : Sv \subseteq R => Contents(R)[r] = b
      <3> SUFFICES ASSUME NEW R \in SUBSET Blocks, Sv \subseteq R PROVE Contents(R)[r] = b
        OBVIOUS
      <3>1. Contents(R)[r] = Contents(Sv)[r]
        BY <2>1, <2>2, <2>3, LargerStore
      <3> QED  BY <2>2, <3>1
    <2>5. ASSUME x # ReadError
          PROVE  x = r /\ r \in S /\ data = Contents(S)[r]
      BY <1>2, <1>5, <2>5 DEF Contents, r
    <2>6. ASSUME data # ReadError  PROVE data = b
      <3>1. x # ReadError
        BY <1>2, <2>6
      <3>2. r \in S /\ data = Contents(S)[r] /\ Contents(S)[r] # ReadError
        BY <2>5, <2>6, <3>1
      <3>3. Blocks \in SUBSET Blocks /\ S \in SUBSET Blocks
        OBVIOUS
      <3>4. Contents(Blocks)[r] = Contents(S)[r]
        <4> DEFINE BB == Blocks
        <4>1. BB \in SUBSET Blocks /\ S \in SUBSET BB
          OBVIOUS
        <4> HIDE DEF BB
        <4>2. Contents(BB)[r] = Contents(S)[r]
          BY <3>2, <4>1, LargerStore
        <4> QED  BY <4>2 DEF BB
      <3>5. Contents(Blocks)[r] = b
        BY <2>1, <2>4, <3>3
      <3> QED  BY <3>2, <3>4, <3>5
    <2>7. ASSUME Stored(t) \subseteq S  PROVE data = b
      <3>1. x = r /\ r \in S /\ Sv \subseteq S
        BY <1>5, <2>7 DEF r, Sv
      <3>2. x # ReadError
        BY <2>3, <3>1
      <3> QED  BY <2>4, <2>5, <3>1, <3>2
    <2> QED  BY <2>6, <2>7 DEF b
  <1>6. ASSUME NEW v \in Trees, us = {v}, x = ReadError \/ (x = Root[v] /\ x \in S),
               Stored(t) \subseteq S => x = Root[v] /\ x \in S /\ Stored(v) \subseteq S
        PROVE  /\ data # ReadError =>
                    us # {} /\ \A u \in FilesAt(t, parts) : data = Disk[u].bytes
               /\ Stored(t) \subseteq S => \A u \in FilesAt(t, parts) : data = Disk[u].bytes
    <2>1. IsFile(v) => /\ data # ReadError => data = Disk[v].bytes
                       /\ Stored(t) \subseteq S => data = Disk[v].bytes
      BY <1>5, <1>6
    <2>2. \A u \in FilesAt(t, parts) : u = v /\ IsFile(v)
      BY <1>3, <1>6
    <2> QED  BY <1>6, <2>1, <2>2
  <1> QED  BY <1>1, <1>4, <1>6 DEF Leads, us, data

-----------------------------------------------------------------------------
(* Empty names in a path *)

LEMMA PrefixOf ==
    ASSUME NEW S, NEW a \in Seq(S), NEW r \in Seq(S)
    PROVE  IsPrefix(a, a \o r)
  <1>1. /\ Len(a) \in Nat /\ Len(r) \in Nat /\ Len(a \o r) = Len(a) + Len(r)
        /\ \A i \in 1 .. Len(a) : (a \o r)[i] = a[i]
    BY ConcatProperties
  <1>2. SubSeq(a, 1, Len(a)) = SubSeq(a \o r, 1, Len(a))
    <2> DEFINE u == a \o r
    <2>1. u \in Seq(S) /\ Len(a) <= Len(u) /\ \A i \in 1 .. Len(a) : u[i] = a[i]
      BY <1>1, ConcatProperties
    <2> HIDE DEF u
    <2> QED  BY <1>1, <2>1
  <1> QED  BY <1>1, <1>2 DEF IsPrefix

\* What a sequence gives begins with what its first element gives.
LEMMA FirstBytes ==
    ASSUME NEW G, NEW B, NEW R \in MapsTo(G, Seq(B)), NEW c \in Seq(G), c # <<>>
    PROVE  c[1] \in G /\ R[c[1]] \in Seq(B)
           /\ \E rest \in Seq(B) : FlattenSeq(Map(R, c)) = R[c[1]] \o rest
  <1> DEFINE V == Seq(B)
             ss == Map(R, c)
             tt == SubSeq(ss, 2, Len(ss))
  <1>1. ss \in Seq(V) /\ Len(ss) = Len(c) /\ \A i \in 1 .. Len(c) : ss[i] = R[c[i]]
    <2> HIDE DEF V
    <2>1. R \in MapsTo(G, V)
      BY DEF V
    <2> QED  BY <2>1, MapType
  <1>2. 1 \in 1 .. Len(c) /\ Len(c) \in Nat /\ c[1] \in G
    OBVIOUS
  <1> HIDE DEF ss
  <1>3. ss[1] = R[c[1]] /\ ss[1] \in V
    <2> HIDE DEF V
    <2> QED  BY <1>1, <1>2
  <1>4. tt \in Seq(V) /\ ss = <<ss[1]>> \o tt
    <2> HIDE DEF V
    <2>1. 1 \in 1 .. Len(ss) /\ Len(ss) \in 1 .. Len(ss) /\ \A i \in 2 .. Len(ss) : ss[i] \in V
      BY <1>1, <1>2
    <2>2. tt \in Seq(V)
      BY <1>1, <2>1, SubSeqProperties
    <2>3. ss = SubSeq(ss, 1, Len(ss))
      BY <1>1, SubSeqFull
    <2>4. SubSeq(ss, 1, Len(ss)) = <<ss[1]>> \o SubSeq(ss, 1 + 1, Len(ss))
      BY <1>1, <2>1, SubSeqRecursiveFirst
    <2> QED  BY <2>2, <2>3, <2>4
  <1> HIDE DEF tt
  <1>5. FlattenSeq(<<ss[1]>> \o tt) = ss[1] \o FlattenSeq(tt) /\ FlattenSeq(tt) \in Seq(B)
    <2> DEFINE a == ss[1]
    <2>1. a \in Seq(B) /\ tt \in Seq(Seq(B))
      BY <1>3, <1>4
    <2> HIDE DEF a
    <2>2. FlattenSeq(<<a>> \o tt) = a \o FlattenSeq(tt) /\ FlattenSeq(tt) \in Seq(B)
      BY <2>1, FlattenCons, FlattenType
    <2> QED  BY <2>2 DEF a
  <1>6. FlattenSeq(ss) = R[c[1]] \o FlattenSeq(tt)
    BY <1>3, <1>4, <1>5
  <1> QED  BY <1>2, <1>3, <1>5, <1>6 DEF ss

\* x is a node within the file v, with which the file begins, or none.
Inside(S, v, x) ==
    \/ x = ReadError
    \/ /\ x \in S /\ x \in Stored(v) /\ Contents(Blocks)[x] \in Seq(Byte)
       /\ \E rest \in Seq(Byte) : Disk[v].bytes = Contents(Blocks)[x] \o rest

LEMMA FileBytes ==
    ASSUME NEW v \in Trees, IsFile(v)
    PROVE  /\ Disk[v].bytes \in Seq(Byte) /\ Stored(v) = Range(AddBytes(Disk[v].bytes))
           /\ Stored(v) \in SUBSET Blocks /\ Stored(v) \subseteq Readable(Blocks)
           /\ Root[v] \in Stored(v) /\ Contents(Blocks)[Root[v]] = Disk[v].bytes
  <1> DEFINE b == Disk[v].bytes
             N == Stored(v)
             r == Root[v]
  <1>1. b \in Seq(Byte) /\ r = Last(AddBytes(b)) /\ N = Range(AddBytes(b)) /\ r \in N /\ N \in SUBSET Blocks
    BY TreeIs, FileStored, StoredBlocks DEF Stored
  <1> DEFINE BB == Blocks
  <1>2. BB \in SUBSET Blocks /\ N \subseteq BB
    BY <1>1
  <1> HIDE DEF b, N, r, BB
  <1>3. N \subseteq Readable(BB) /\ Contents(BB)[r] = b
    BY <1>1, <1>2, FileReadable, FileReads
  <1> QED  BY <1>1, <1>3 DEF b, N, r, BB

LEMMA InsideRoot ==
    ASSUME NEW S \in SUBSET Blocks, NEW v \in Trees, IsFile(v), Root[v] \in S
    PROVE  Inside(S, v, Root[v])
  <1> DEFINE b == Disk[v].bytes
  <1>1. /\ b \in Seq(Byte) /\ Root[v] \in Stored(v) /\ Contents(Blocks)[Root[v]] = b
    BY FileBytes
  <1> HIDE DEF b
  <1>2. <<>> \in Seq(Byte) /\ b = b \o <<>>
    BY <1>1, ConcatEmptySeq
  <1>3. \E rest \in Seq(Byte) : b = Contents(Blocks)[Root[v]] \o rest
    BY <1>1, <1>2
  <1> QED  BY <1>1, <1>3 DEF Inside, b

\* The name of the links within a file.
NoName == ""

\* A further name leads to no node, or to one with which that node begins.
LEMMA InsideOn ==
    ASSUME NEW S \in SUBSET Blocks, NEW v \in Trees, IsFile(v), NEW x, NEW name,
           Inside(S, v, x), x # ReadError
    PROVE  Inside(S, v, Named(S, x, name))
  <1> DEFINE b == Disk[v].bytes
             N == Stored(v)
             R == BytesOf(Blocks)
             G == Readable(Blocks)
             named == {i \in DOMAIN x.links : x.links[i].name = name}
  <1>1. /\ b \in Seq(Byte) /\ N = Range(AddBytes(b)) /\ N \subseteq G
        /\ x \in N /\ \A n \in G : n \in Blocks /\ R[n] = Contents(Blocks)[n]
    BY FileBytes DEF Inside, Readable, BytesOf
  <1>2. PICK rest \in Seq(Byte) : b = R[x] \o rest
    BY <1>1 DEF Inside
  <1>3. Named(S, x, name) = IF named = {} THEN ReadError ELSE Get(S, x.links[Min(named)].cid)
    BY DEF Named
  <1>4. (\E d \in Seq(Byte) : x = Leaf(d)) \/ (\E c \in Seq(N) : c # <<>> /\ x = Over(c))
    <2> HIDE DEF b, N
    <2> QED  BY <1>1, FileNodes
  <1>5. CASE named = {}
    BY <1>3, <1>5 DEF Inside
  <1>6. CASE named # {}
    <2>1. PICK c \in Seq(N) : c # <<>> /\ x = Over(c)
      <3>1. DOMAIN x.links # {}
        BY <1>6
      <3> HIDE DEF N
      <3> QED  BY <1>4, <3>1, NoLinks
    <2>2. /\ DOMAIN x.links = 1 .. Len(c) /\ Len(c) \in Nat /\ Len(c) >= 1
          /\ \A j \in DOMAIN x.links : x.links[j].name = NoName /\ x.links[j].cid = c[j]
      <3>1. DOMAIN c = 1 .. Len(c) /\ Len(c) \in Nat /\ Len(c) >= 1
        <4> HIDE DEF N
        <4> QED  BY <2>1
      <3> HIDE DEF N
      <3> QED  BY <2>1, <3>1, LinksOver DEF NoName
    <2>3. Min(named) = 1
      <3>1. named = 1 .. Len(c) /\ 1 \in named
        <4>1. name = NoName
          BY <1>6, <2>2
        <4>2. named = DOMAIN x.links
          BY <2>2, <4>1
        <4> HIDE DEF named
        <4> QED  BY <2>2, <4>2
      <3> HIDE DEF named
      <3>2. named \subseteq Nat
        BY <2>2, <3>1
      <3>3. Min(named) \in named /\ \A i \in named : Min(named) <= i
        BY <3>1, <3>2, LeastExists
      <3> QED  BY <2>2, <3>1, <3>3
    <2>4. Named(S, x, name) = Get(S, c[1])
      <3> HIDE DEF named
      <3> QED  BY <1>3, <1>6, <2>2, <2>3
    <2>5. c \in Seq(G)
      <3>1. \A j \in DOMAIN c : c[j] \in N
        <4> HIDE DEF N
        <4> QED  OBVIOUS
      <3>2. \A j \in DOMAIN c : c[j] \in G
        BY <1>1, <3>1
      <3> HIDE DEF G, N
      <3> QED  BY <3>2
    <2>6. c[1] \in N
      <3>1. c \in Seq(N) /\ c # <<>>
        BY <2>1
      <3> HIDE DEF N
      <3> QED  BY <3>1
    <2>7. R[x] = FlattenSeq(Map(R, c))
      <3> DEFINE BB == Blocks
      <3>1. BB \in SUBSET Blocks /\ Over(c) \in BB /\ c \in Seq(Readable(BB)) /\ c # <<>>
        BY <1>1, <2>1, <2>5
      <3> HIDE DEF BB
      <3>2. BytesOf(BB)[Over(c)] = FlattenSeq(Map(BytesOf(BB), c))
        BY <3>1, ReadInner
      <3> QED  BY <2>1, <3>2 DEF BB
    <2>8. R[c[1]] \in Seq(Byte) /\ \E more \in Seq(Byte) : R[x] = R[c[1]] \o more
      <3>1. R \in MapsTo(G, Seq(Byte))
        BY BytesOfType
      <3> HIDE DEF G, R
      <3> QED  BY <2>1, <2>5, <2>7, <3>1, FirstBytes
    <2>9. PICK more \in Seq(Byte) : R[x] = R[c[1]] \o more
      BY <2>8
    <2>10. b = R[c[1]] \o (more \o rest) /\ more \o rest \in Seq(Byte)
      <3> DEFINE y == R[c[1]]
      <3>1. y \in Seq(Byte) /\ b = (y \o more) \o rest
        BY <1>2, <2>8, <2>9
      <3> HIDE DEF y, b
      <3>2. (y \o more) \o rest = y \o (more \o rest)
        BY <3>1, SMTT(30)
      <3>3. more \o rest \in Seq(Byte)
        BY ConcatProperties
      <3> QED  BY <3>1, <3>2, <3>3 DEF y
    <2>11. R[c[1]] = Contents(Blocks)[c[1]]
      BY <1>1, <2>6
    <2> HIDE DEF R, N, b, G
    <2>12. Get(S, c[1]) = IF c[1] \in S THEN c[1] ELSE ReadError
      BY DEF Get
    <2>13. CASE c[1] \in S
      BY <2>4, <2>6, <2>8, <2>10, <2>11, <2>12, <2>13 DEF Inside, N, b
    <2>14. CASE c[1] \notin S
      BY <2>4, <2>12, <2>14 DEF Inside
    <2> QED  BY <2>13, <2>14
  <1> QED  BY <1>5, <1>6

\* A path has no empty name, or a first one.
LEMMA FirstEmpty ==
    ASSUME NEW parts \in Seq(PathName)
    PROVE  \/ parts \in Seq(Name) /\ BeforeEmpty(parts) = parts
           \/ \E m \in 1 .. Len(parts) :
                /\ parts[m] = NoName
                /\ BeforeEmpty(parts) \in Seq(Name) /\ BeforeEmpty(parts) # parts
                /\ Len(BeforeEmpty(parts)) = m - 1
                /\ \A i \in 1 .. m - 1 : BeforeEmpty(parts)[i] = parts[i]
  <1> DEFINE empty == {i \in DOMAIN parts : parts[i] = ""}
  <1>1. Len(parts) \in Nat /\ DOMAIN parts = 1 .. Len(parts) /\ \A i \in 1 .. Len(parts) : parts[i] \in PathName
    OBVIOUS
  <1>2. empty \subseteq 1 .. Len(parts) /\ \A i \in 1 .. Len(parts) : i \notin empty => parts[i] \in Name
    BY <1>1 DEF PathName
  <1>3. BeforeEmpty(parts) = IF empty = {} THEN parts ELSE SubSeq(parts, 1, Min(empty) - 1)
    BY DEF BeforeEmpty
  <1>4. \A i \in empty : parts[i] = NoName
    BY DEF NoName
  <1> HIDE DEF empty
  <1>5. CASE empty = {}
    <2>1. parts \in Seq(Name)
      BY <1>2, <1>5
    <2> QED  BY <1>3, <1>5, <2>1
  <1>6. CASE empty # {}
    <2> DEFINE m == Min(empty)
    <2>1. m \in empty /\ \A i \in empty : m <= i
      <3>1. empty \subseteq Nat
        BY <1>1, <1>2
      <3> QED  BY <1>6, <3>1, LeastExists
    <2>2. BeforeEmpty(parts) = SubSeq(parts, 1, m - 1)
      BY <1>3, <1>6
    <2> HIDE DEF m
    <2>3. m \in 1 .. Len(parts) /\ parts[m] = NoName
      BY <1>2, <1>4, <2>1
    <2>4. \A i \in 1 .. m - 1 : i \in 1 .. Len(parts) /\ parts[i] \in Name
      <3> SUFFICES ASSUME NEW i \in 1 .. m - 1 PROVE i \in 1 .. Len(parts) /\ parts[i] \in Name
        OBVIOUS
      <3>1. i \in 1 .. Len(parts) /\ ~(m <= i)
        BY <1>1, <2>3
      <3> QED  BY <1>2, <2>1, <3>1
    <2>5. /\ SubSeq(parts, 1, m - 1) \in Seq(Name) /\ Len(SubSeq(parts, 1, m - 1)) = m - 1
          /\ \A i \in 1 .. m - 1 : SubSeq(parts, 1, m - 1)[i] = parts[i]
      <3>1. 1 \in Int /\ m - 1 \in Int /\ 1 <= (m - 1) + 1
        BY <2>3
      <3>2. SubSeq(parts, 1, m - 1) \in Seq(Name)
        BY <2>4, <3>1, SubSeqProperties
      <3>3. SubSeq(parts, 1, m - 1) = [i \in 1 .. m - 1 |-> parts[i]]
        BY <1>1, <2>3, <2>4
      <3> QED  BY <2>3, <3>2, <3>3
    <2>6. SubSeq(parts, 1, m - 1) # parts
      BY <1>1, <2>3, <2>5
    <2> QED  BY <2>2, <2>3, <2>5, <2>6
  <1> QED  BY <1>5, <1>6

LEMMA NothingNamed ==
    ASSUME NEW t \in Trees
    PROVE  InDir(t, NoName) = {}
  <1>1. CASE IsFile(t)
    BY <1>1 DEF InDir, SubTrees, IsFile
  <1>2. CASE ~IsFile(t)
    <2>1. \A e \in Range(Disk[t].entries) : e.name # ""
      <3> DEFINE s == Disk[t].entries
      <3>1. \A i \in DOMAIN s : s[i].name \in Name
        BY <1>2, TreeIs DEF Entries
      <3> HIDE DEF s
      <3>2. \A e \in Range(s) : e.name \in Name
        BY <3>1 DEF Range
      <3>3. \A e \in Range(s) : e.name # ""
        BY <3>2, DiskAssumption
      <3> QED  BY <3>3 DEF s
    <2> QED  BY <2>1 DEF InDir, NoName
  <1> QED  BY <1>1, <1>2

\* Beyond its first empty name a path leads nowhere, or stays within the file
\* before that name.
Within(S, t, file, x) ==
    \/ x = ReadError
    \/ \E v \in Trees : IsFile(v) /\ OnDisk(t, file) = {v} /\ Inside(S, v, x)

LEMMA WithinOn ==
    ASSUME NEW S \in SUBSET Blocks, NEW t, NEW file, NEW x, NEW name, Within(S, t, file, x)
    PROVE  Within(S, t, file, IF x = ReadError THEN ReadError ELSE Named(S, x, name))
  <1>1. CASE x = ReadError
    BY <1>1 DEF Within
  <1>2. CASE x # ReadError
    <2>1. PICK v \in Trees : IsFile(v) /\ OnDisk(t, file) = {v} /\ Inside(S, v, x)
      BY <1>2 DEF Within
    <2>2. Inside(S, v, Named(S, x, name))
      BY <1>2, <2>1, InsideOn
    <2> QED  BY <1>2, <2>1, <2>2 DEF Within
  <1> QED  BY <1>1, <1>2

LEMMA EmptyNameLeads ==
    ASSUME NEW S \in SUBSET Blocks, NEW t \in Trees, NEW file,
           NEW x, Leads(S, t, x, OnDisk(t, file))
    PROVE  /\ Within(S, t, file, IF x = ReadError THEN ReadError ELSE Named(S, x, NoName))
           /\ UNION {InDir(v, NoName) : v \in OnDisk(t, file)} = {}
  <1> DEFINE us == OnDisk(t, file)
  <1>1. (us = {} /\ x = ReadError) \/ \E v \in Trees : us = {v} /\ (x = ReadError \/ (x = Root[v] /\ x \in S))
    BY DEF Leads
  <1>2. us \subseteq Trees
    BY <1>1
  <1>3. UNION {InDir(v, NoName) : v \in us} = {}
    BY <1>2, NothingNamed
  <1>4. CASE x = ReadError
    BY <1>3, <1>4 DEF Within
  <1>5. CASE x # ReadError
    <2>1. PICK v \in Trees : us = {v} /\ x = Root[v] /\ x \in S
      BY <1>1, <1>5
    <2>2. CASE IsFile(v)
      <3>1. Inside(S, v, x)
        BY <2>1, <2>2, InsideRoot
      <3>2. Within(S, t, file, x)
        BY <2>1, <2>2, <3>1 DEF Within
      <3> QED  BY <1>3, <3>2, WithinOn
    <2>3. CASE ~IsFile(v)
      <3>1. InDir(v, NoName) = {} /\ ~InFile(v, NoName)
        BY <2>3, NothingNamed DEF InFile
      <3>2. Named(S, Root[v], NoName) = ReadError
        BY <3>1, NamedIs
      <3> QED  BY <1>3, <2>1, <3>2 DEF Within
    <2> QED  BY <2>2, <2>3
  <1> QED  BY <1>4, <1>5

LEMMA PathWithin ==
    ASSUME NEW S \in SUBSET Blocks, NEW t \in Trees, NEW parts \in Seq(PathName),
           BeforeEmpty(parts) # parts
    PROVE  /\ Within(S, t, BeforeEmpty(parts), ResolvePath(S, Root[t], parts))
           /\ OnDisk(t, parts) = {}
  <1> DEFINE file == BeforeEmpty(parts)
             l == Len(parts)
             Next1(x, name) == IF x = ReadError THEN ReadError ELSE Named(S, x, name)
             Next2(us, name) == UNION {InDir(v, name) : v \in us}
  <1>1. PICK m \in 1 .. l : /\ parts[m] = NoName /\ file \in Seq(Name) /\ Len(file) = m - 1
                            /\ \A i \in 1 .. m - 1 : file[i] = parts[i]
    BY FirstEmpty
  <1>2. l \in Nat /\ m \in Nat
    OBVIOUS
  <1>3. PICK f : /\ f[0] = Get(S, Root[t])
                 /\ \A i \in 1 .. l : f[i] = Next1(f[i - 1], parts[i])
                 /\ ResolvePath(S, Root[t], parts) = f[l]
    BY ResolveIs
  <1>4. PICK g : /\ g[0] = {t}
                 /\ \A i \in 1 .. l : g[i] = Next2(g[i - 1], parts[i])
                 /\ OnDisk(t, parts) = g[l]
    BY OnDiskIs
  <1>5. PICK h : /\ h[0] = Get(S, Root[t])
                 /\ \A i \in 1 .. m - 1 : h[i] = Next1(h[i - 1], file[i])
                 /\ ResolvePath(S, Root[t], file) = h[m - 1]
    <2> HIDE DEF file, l
    <2>1. file \in Seq(PathName)
      BY <1>1, NamedPath
    <2> QED  BY <1>1, <2>1, ResolveIs
  <1>6. PICK k : /\ k[0] = {t}
                 /\ \A i \in 1 .. m - 1 : k[i] = Next2(k[i - 1], file[i])
                 /\ OnDisk(t, file) = k[m - 1]
    <2> HIDE DEF file, l
    <2>1. file \in Seq(PathName)
      BY <1>1, NamedPath
    <2>2. \E k : /\ k[0] = {t}
                 /\ \A i \in 1 .. Len(file) : k[i] = UNION {InDir(v, file[i]) : v \in k[i - 1]}
                 /\ OnDisk(t, file) = k[Len(file)]
      BY <2>1, OnDiskIs
    <2>3. Len(file) = m - 1
      BY <1>1
    <2> QED  BY <2>2, <2>3, Zenon
  <1>7. Leads(S, t, h[m - 1], OnDisk(t, file))
    BY <1>1, <1>5, PathLeads
  <1>8. /\ Within(S, t, file, Next1(h[m - 1], NoName))
        /\ Next2(OnDisk(t, file), NoName) = {}
    <2> DEFINE y == h[m - 1]
    <2>1. Leads(S, t, y, OnDisk(t, file))
      BY <1>7
    <2> HIDE DEF y, file
    <2>2. /\ Within(S, t, file, IF y = ReadError THEN ReadError ELSE Named(S, y, NoName))
          /\ UNION {InDir(v, NoName) : v \in OnDisk(t, file)} = {}
      BY <2>1, EmptyNameLeads
    <2> QED  BY <2>2 DEF y
  <1>9. \A x, name : Within(S, t, file, x) => Within(S, t, file, Next1(x, name))
    BY WithinOn
  <1>10. \A name : Next2({}, name) = {}
    OBVIOUS
  <1> HIDE DEF Next1, Next2, file, l
  <1> DEFINE T == {i \in 0 .. m - 1 : f[i] = h[i] /\ g[i] = k[i]}
  <1>11. 0 \in T /\ \A i \in 1 .. m - 1 : i - 1 \in T => i \in T
    <2>1. ASSUME NEW i \in 1 .. m - 1, i - 1 \in T  PROVE i \in T
      <3>1. i \in 1 .. l /\ i \in 0 .. m - 1
        BY <1>1, <1>2
      <3>2. f[i - 1] = h[i - 1] /\ g[i - 1] = k[i - 1]
        BY <2>1
      <3>3. f[i] = h[i] /\ g[i] = k[i]
        BY <1>1, <1>3, <1>4, <1>5, <1>6, <3>1, <3>2
      <3> QED  BY <3>1, <3>3
    <2>2. 0 \in T
      <3>1. 0 \in 0 .. m - 1
        BY <1>1, <1>2
      <3> QED  BY <1>3, <1>4, <1>5, <1>6, <3>1
    <2> QED  BY <2>1, <2>2
  <1>12. f[m - 1] = h[m - 1] /\ g[m - 1] = k[m - 1]
    <2>1. m - 1 \in Nat
      BY <1>1, <1>2
    <2>2. 0 .. m - 1 \subseteq T
      <3> HIDE DEF T
      <3> QED  BY <1>11, <2>1, InductionUpTo
    <2> QED  BY <2>1, <2>2
  <1> DEFINE Good(i) == i < m \/ (Within(S, t, file, f[i]) /\ g[i] = {})
             U == {i \in 0 .. l : Good(i)}
  <1>13. ASSUME NEW i \in 1 .. l, i - 1 \in U  PROVE i \in U
    <2>1. CASE i < m
      BY <1>2, <2>1
    <2>2. CASE i = m
      <3>1. Within(S, t, file, f[i]) /\ g[i] = {}
        <4>1. f[m] = Next1(f[m - 1], NoName) /\ g[m] = Next2(g[m - 1], NoName)
          BY <1>1, <1>3, <1>4
        <4>2. f[m] = Next1(h[m - 1], NoName) /\ g[m] = Next2(OnDisk(t, file), NoName)
          BY <1>6, <1>12, <4>1
        <4> QED  BY <1>8, <2>2, <4>2
      <3> QED  BY <1>2, <3>1
    <2>3. CASE i > m
      <3>1. ~(i - 1 < m)
        BY <1>2, <2>3
      <3>2. Within(S, t, file, f[i - 1]) /\ g[i - 1] = {}
        BY <1>13, <3>1
      <3>3. Within(S, t, file, f[i]) /\ g[i] = {}
        <4>1. f[i] = Next1(f[i - 1], parts[i]) /\ g[i] = Next2(g[i - 1], parts[i])
          BY <1>3, <1>4
        <4>2. Within(S, t, file, Next1(f[i - 1], parts[i]))
          BY <1>9, <3>2, Zenon
        <4>3. Next2(g[i - 1], parts[i]) = {}
          BY <1>10, <3>2
        <4> QED  BY <4>1, <4>2, <4>3
      <3> QED  BY <1>2, <3>3
    <2> QED  BY <1>2, <2>1, <2>2, <2>3
  <1>14. Good(l)
    <2>1. 0 \in U
      BY <1>1, <1>2
    <2>2. 0 .. l \subseteq U
      <3> HIDE DEF U
      <3> QED  BY <1>2, <1>13, <2>1, InductionUpTo
    <2> HIDE DEF Good
    <2> QED  BY <1>2, <2>2
  <1>15. Within(S, t, file, f[l]) /\ g[l] = {}
    BY <1>1, <1>2, <1>14
  <1> QED  BY <1>3, <1>4, <1>15 DEF file

\* What a store gives of a node within a file is a beginning of the file.
LEMMA InsideGives ==
    ASSUME NEW S \in SUBSET Blocks, NEW v \in Trees, NEW x, Inside(S, v, x), x # ReadError,
           Contents(S)[x] # ReadError
    PROVE  IsPrefix(Contents(S)[x], Disk[v].bytes)
  <1> DEFINE BB == Blocks
             a == Contents(Blocks)[x]
  <1>1. x \in S /\ a \in Seq(Byte) /\ \E rest \in Seq(Byte) : Disk[v].bytes = a \o rest
    BY DEF Inside
  <1>2. BB \in SUBSET Blocks /\ S \in SUBSET BB
    OBVIOUS
  <1> HIDE DEF BB
  <1>3. Contents(BB)[x] = Contents(S)[x]
    BY <1>1, <1>2, LargerStore
  <1>4. a = Contents(S)[x]
    BY <1>3 DEF BB
  <1> HIDE DEF a
  <1> QED  BY <1>1, <1>4, PrefixOf

\* Reading a path: whatever a store gives is what "cat" has to print, and a
\* store with all blocks of the tree gives what lies on the disk.
LEMMA CatIs ==
    ASSUME NEW S \in SUBSET Blocks, NEW t \in Trees, NEW parts \in Seq(PathName)
    PROVE  /\ Cat(S, Root[t], parts) # ReadError => Prints(t, parts, Cat(S, Root[t], parts))
           /\ Stored(t) \subseteq S =>
                \A u \in FilesAt(t, parts) : Cat(S, Root[t], parts) = Disk[u].bytes
  <1> DEFINE file == BeforeEmpty(parts)
             data == Cat(S, Root[t], parts)
             x == ResolvePath(S, Root[t], parts)
  <1>1. CASE file = parts
    <2>1. parts \in Seq(Name)
      BY <1>1, FirstEmpty
    <2>2. /\ data # ReadError => /\ OnDisk(t, parts) # {}
                                 /\ \A u \in FilesAt(t, parts) : data = Disk[u].bytes
          /\ Stored(t) \subseteq S => \A u \in FilesAt(t, parts) : data = Disk[u].bytes
      BY <2>1, NamedCatIs
    <2> HIDE DEF data
    <2> QED  BY <1>1, <2>2 DEF Prints, data
  <1>2. CASE file # parts
    <2>1. Within(S, t, file, x) /\ OnDisk(t, parts) = {}
      BY <1>2, PathWithin
    <2>2. data = IF x = ReadError THEN ReadError ELSE ReadBytes(S, x)
      BY DEF Cat
    <2>3. FilesAt(t, parts) = {}
      BY <2>1 DEF FilesAt
    <2> HIDE DEF data, x
    <2>4. ASSUME data # ReadError  PROVE Prints(t, parts, data)
      <3>1. x # ReadError
        BY <2>2, <2>4
      <3>2. PICK v \in Trees : IsFile(v) /\ OnDisk(t, file) = {v} /\ Inside(S, v, x)
        BY <2>1, <3>1 DEF Within
      <3>3. x \in S /\ data = Contents(S)[x]
        BY <2>2, <3>1, <3>2 DEF Inside, Contents
      <3>4. IsPrefix(data, Disk[v].bytes)
        BY <2>4, <3>1, <3>2, <3>3, InsideGives
      <3>5. FilesAt(t, file) = {v}
        BY <3>2 DEF FilesAt, IsFile
      <3> QED  BY <1>2, <3>2, <3>4, <3>5 DEF Prints
    <2> QED  BY <2>3, <2>4 DEF data
  <1> QED  BY <1>1, <1>2

LEMMA WholeRead ==
    ASSUME NEW S \in SUBSET Blocks, NEW t \in Trees, NEW parts \in Seq(PathName), Stored(t) \subseteq S
    PROVE  \A u \in FilesAt(t, parts) : Cat(S, Root[t], parts) = Disk[u].bytes
  BY CatIs

-----------------------------------------------------------------------------
(* The processes *)

\* The values of pc.
Stages == {"idle", "probe", "probing", "start", "listen", "dial", "call", "reply", "serving",
           "stop", "shutdown", "close", "exited", "panicked"}

\* The types of the variables that control the processes.
ControlType ==
    /\ pc \in [Procs -> Stages]
    /\ cmd \in [Procs -> Command \cup {NoCommand}]
    /\ conn \in [Procs -> Procs \cup {NoProc}]
    /\ public \in Procs \cup {NoProc} /\ private \in Procs \cup {NoProc}
    /\ storeOpen \subseteq Procs /\ privateL \subseteq Procs /\ accepting \subseteq Procs

\* A process that listens on the RPC port is alive; its field privateL is set
\* before it accepts and stays set until the process has ended, and it does not
\* end by a panic then.
ListenInv ==
    /\ \A p \in Procs :
        /\ private = p => pc[p] \in {"probing", "dial", "call", "reply", "serving", "stop",
                                      "shutdown", "close"}
        /\ private = p /\ pc[p] \in {"dial", "call", "reply"} => p \in storeOpen
        /\ pc[p] = "listen" => p \in storeOpen
        /\ pc[p] = "probing" => private = p
        /\ p \in privateL => private = p /\ pc[p] # "probing"
        /\ p \in accepting => p \in privateL
    /\ \A q \in Procs :
        conn[q] # NoProc => conn[q] \in privateL \/ pc[conn[q]] = "exited"

ControlInv == ControlType /\ ListenInv

LEMMA Ops ==
    /\ NoCommand.op = "none"
    /\ \A c \in Command : c.op \in {"daemon", "add", "dl", "cat"}
    /\ NoProc \notin Procs
  BY CommandsAssumption DEF NoCommand, Command

LEMMA ControlStep == ControlInv /\ [Next]_vars => ControlInv'
  <1> SUFFICES ASSUME ControlInv, [Next]_vars PROVE ControlInv'
    OBVIOUS
  <1> USE Ops DEF ControlInv, ControlType, ListenInv, Stages
  <1>1. CASE UNCHANGED vars
    BY <1>1 DEF vars
  <1> SUFFICES ASSUME NEW p \in Procs,
                      \/ \E c \in Commands[p] : Run(p, c)
                      \/ Step(p) \/ SetPrivateL(p) \/ AcceptLoop(p) \/ BlockFails(p) \/ Signal(p) \/ Kill(p)
               PROVE  ControlInv'
    BY <1>1 DEF Next
  <1> USE DEF callVars, daemonVars, loopVars, Goto
  <1>2. ASSUME NEW c \in Commands[p], Run(p, c)  PROVE ControlInv'
    BY <1>2, CommandsAssumption DEF Run
  <1>3. CASE Probe(p)
    BY <1>3 DEF Probe
  <1>4. CASE ProbeCloses(p)
    BY <1>4 DEF ProbeCloses
  <1>5. CASE ListenPublic(p)
    BY <1>5 DEF ListenPublic, Leave
  <1>6. CASE ListenPrivate(p)
    BY <1>6 DEF ListenPrivate, Leave
  <1>7. CASE SetPrivateL(p) \/ AcceptLoop(p)
    BY <1>7 DEF SetPrivateL, AcceptLoop
  <1>8. CASE Dial(p)
    BY <1>8 DEF Dial, Listening
  <1>9. ASSUME NEW r, pc[p] \in {"dial", "call", "reply"}, Return(p, r)  PROVE ControlInv'
    BY <1>9 DEF Return
  <1>10. CASE Refused(p) \/ Reply(p) \/ CallFails(p) \/ BlockFails(p)
    BY <1>9, <1>10 DEF Refused, Reply, CallFails, BlockFails
  <1>11. CASE Put(p)
    BY <1>11 DEF Put
  <1>17. CASE Answer(p)
    <2>1. /\ pc[p] = "call" /\ pc' = [pc EXCEPT ![p] = "reply"]
          /\ UNCHANGED <<cmd, conn, daemonVars>>
      BY <1>17 DEF Answer
    <2> QED  BY <2>1
  <1>12. CASE Signal(p)
    BY <1>12 DEF Signal
  <1>13. CASE CloseStore(p)
    BY <1>13 DEF CloseStore
  <1>14. CASE Shutdown(p)
    BY <1>14 DEF Shutdown
  <1>15. CASE ClosePrivate(p)
    BY <1>15 DEF ClosePrivate, Leave
  <1>16. CASE Kill(p)
    BY <1>16 DEF Kill, Leave, Ended
  <1> QED  BY <1>2, <1>3, <1>4, <1>5, <1>6, <1>7, <1>8, <1>10, <1>11, <1>12, <1>13, <1>14,
              <1>15, <1>16, <1>17 DEF Step

\* Where each process is, and which locks it holds there.
THEOREM ControlHolds == Spec => []ControlInv
  <1>1. Init => ControlInv
    BY Ops DEF Init, ControlInv, ControlType, ListenInv, Stages
  <1> QED  BY <1>1, ControlStep, PTL DEF Spec

\* No command that got as far as its call panics when it stops its daemon.
THEOREM StopAfterCallHolds == Spec => []StopAfterCall
  <1>1. ControlInv => StopAfterCall
    BY Ops DEF ControlInv, ControlType, ListenInv, StopAfterCall
  <1> QED  BY <1>1, ControlHolds, PTL

-----------------------------------------------------------------------------
(* What the commands store and read *)

\* A call of "add" has stored, or still has to store, every block of its tree.
Storing(p) ==
    pc[p] = "call" /\ cmd[p].op = "add" => Stored(cmd[p].tree) \subseteq blocks \cup Range(todo[p])

\* An "add" that succeeded has stored every block of its tree.
AllStored(p) ==
    cmd[p].op = "add" /\ Succeeded(p) => Stored(cmd[p].tree) \subseteq blocks

\* A "cat" that succeeded has given what it has to print.
ReadWhole(p) ==
    cmd[p].op = "cat" /\ Succeeded(p) => Prints(cmd[p].tree, cmd[p].path, result[p][2])

DataInv ==
    /\ blocks \subseteq Blocks
    /\ todo \in [Procs -> Seq(Blocks)]
    /\ DOMAIN result = Procs
    /\ \A p \in Procs : pc[p] = "idle" => ~Succeeded(p)
    /\ \A p \in Procs : Storing(p) /\ AllStored(p) /\ ReadWhole(p)

LEMMA Removed ==
    ASSUME NEW S, NEW s \in Seq(S), NEW i \in DOMAIN s
    PROVE  /\ RemoveAt(s, i) \in Seq(S)
           /\ i = 1 => Range(s) \subseteq {s[1]} \cup Range(RemoveAt(s, i))
  <1> DEFINE a == SubSeq(s, 1, i - 1)
             b == SubSeq(s, i + 1, Len(s))
  <1>1. /\ Len(s) \in Nat /\ DOMAIN s = 1 .. Len(s) /\ i \in 1 .. Len(s)
        /\ \A j \in 1 .. Len(s) : s[j] \in S
    OBVIOUS
  <1>2. \A j \in 1 .. i - 1 : j \in 1 .. Len(s)
    BY <1>1
  <1>3. \A j \in i + 1 .. Len(s) : j \in 1 .. Len(s)
    BY <1>1
  <1>4. a \in Seq(S)
    BY <1>1, <1>2, SubSeqProperties
  <1>5. b \in Seq(S)
    BY <1>1, <1>3, SubSeqProperties
  <1>6. RemoveAt(s, i) = a \o b
    BY DEF RemoveAt
  <1>7. a \o b \in Seq(S) /\ Range(a \o b) = Range(a) \cup Range(b)
    <2> HIDE DEF a, b
    <2> QED  BY <1>4, <1>5, ConcatProperties, RangeConcatenated
  <1>8. ASSUME i = 1, NEW x \in Range(s), x # s[1]  PROVE x \in Range(b)
    <2>1. PICK j \in 1 .. Len(s) : x = s[j] /\ j # 1
      BY <1>1, <1>8 DEF Range
    <2>2. j - 1 \in 1 .. Len(s) - 1 /\ (j - 1) + 1 = j /\ 2 <= Len(s)
      BY <1>1, <2>1
    <2>3. /\ b = SubSeq(s, 2, Len(s))
          /\ \A k \in 2 .. Len(s) : s[k] \in S
      BY <1>1, <1>8
    <2>4. SubSeq(s, 2, Len(s)) = [k \in 1 .. Len(s) - 1 |-> s[k + 1]]
      BY <1>1, <2>2
    <2>5. b[j - 1] = x /\ j - 1 \in DOMAIN b
      <3> HIDE DEF b
      <3> QED  BY <2>1, <2>2, <2>3, <2>4
    <2> HIDE DEF b
    <2> QED  BY <2>5 DEF Range
  <1> HIDE DEF a, b
  <1> QED  BY <1>6, <1>7, <1>8

LEMMA BlocksClosed == \A n \in Blocks : Children(n) \in Seq(Blocks)
  <1> SUFFICES ASSUME NEW n \in Blocks PROVE Children(n) \in Seq(Blocks)
    OBVIOUS
  <1>1. PICK t \in Trees : n \in Stored(t)
    BY DEF Blocks, Stored
  <1> DEFINE c == Children(n)
             A == Stored(t)
             BB == Blocks
  <1>2. c \in Seq(A) /\ A \subseteq BB
    BY <1>1, AllListed, StoredBlocks DEF Listed
  <1> HIDE DEF c, A, BB
  <1>3. c \in Seq(BB)
    BY <1>2
  <1> QED  BY <1>3 DEF c, BB

LEMMA Arguments ==
    ASSUME NEW c \in Command \cup {NoCommand}, c.op \in {"add", "dl", "cat"}
    PROVE  c.tree \in Trees /\ c.path \in Paths /\ c.path \in Seq(PathName)
  <1>1. Paths \subseteq Seq(PathName)
    BY CommandsAssumption DEF PathName
  <1> QED  BY <1>1 DEF Command, NoCommand

LEMMA ToPutIs ==
    ASSUME NEW c \in Command \cup {NoCommand}
    PROVE  /\ ToPut(c) \in Seq(Blocks)
           /\ c.op = "add" => Stored(c.tree) = Range(ToPut(c))
  <1> DEFINE BB == Blocks
  <1>1. CASE c.op = "add"
    <2>1. c.tree \in Trees /\ ToPut(c) = AddPath[c.tree]
      BY <1>1, Arguments DEF ToPut
    <2> DEFINE t == c.tree
               a == AddPath[t]
               A == Stored(t)
    <2>2. a \in Seq(A) /\ A \subseteq BB
      BY <2>1, AllListed, StoredBlocks DEF Listed
    <2> HIDE DEF a, A, BB
    <2>3. a \in Seq(BB)
      BY <2>2
    <2> QED  BY <2>1, <2>3 DEF Stored, a, BB
  <1>2. CASE c.op = "dl"
    <2>1. c.tree \in Trees /\ ToPut(c) = <<Root[c.tree]>>
      BY <1>2, Arguments DEF ToPut
    <2>2. Root[c.tree] \in BB
      BY <2>1, StoredBlocks
    <2> HIDE DEF BB
    <2> QED  BY <1>2, <2>1, <2>2 DEF BB
  <1>3. CASE c.op \notin {"add", "dl"}
    <2>1. ToPut(c) = <<>>
      BY <1>3 DEF ToPut
    <2>2. <<>> \in Seq(BB)
      OBVIOUS
    <2> QED  BY <1>3, <2>1, <2>2
  <1> QED  BY <1>1, <1>2, <1>3

\* Steps that do not store, return or begin anything.
LEMMA DataKept ==
    ASSUME DataInv, UNCHANGED <<cmd, todo, result, blocks>>,
           \A q \in Procs : pc'[q] \in {"idle", "call"} => pc'[q] = pc[q]
    PROVE  DataInv'
  BY DEF DataInv, Storing, AllStored, ReadWhole, Succeeded

\* A call that returns: with an error, or with what it promises.
LEMMA DataReturned ==
    ASSUME ControlInv, DataInv, NEW p \in Procs, NEW r, Return(p, r),
           r[1] = "ok" =>
             /\ cmd[p].op = "add" => Stored(cmd[p].tree) \subseteq blocks
             /\ cmd[p].op = "cat" => Prints(cmd[p].tree, cmd[p].path, r[2])
    PROVE  DataInv'
  <1> DEFINE BB == Blocks
  <1>1. /\ cmd' = cmd /\ blocks' = blocks
        /\ result' = [result EXCEPT ![p] = r]
        /\ todo' = [todo EXCEPT ![p] = <<>>]
        /\ pc \in [Procs -> Stages]
        /\ \E s \in {"stop", "exited"} : pc' = [pc EXCEPT ![p] = s]
    BY DEF Return, Goto, ControlInv, ControlType
  <1>2. /\ \A q \in Procs : q # p => pc'[q] = pc[q] /\ todo'[q] = todo[q] /\ result'[q] = result[q]
        /\ pc'[p] \notin {"idle", "call"} /\ result'[p] = r
        /\ DOMAIN result' = Procs
    BY <1>1 DEF DataInv
  <1>3. todo' \in [Procs -> Seq(Blocks)]
    <2>1. todo \in [Procs -> Seq(BB)]
      BY DEF DataInv
    <2>2. <<>> \in Seq(BB)
      OBVIOUS
    <2> HIDE DEF BB
    <2>3. todo' \in [Procs -> Seq(BB)]
      BY <1>1, <2>1, <2>2
    <2> QED  BY <2>3 DEF BB
  <1>4. ASSUME NEW q \in Procs
        PROVE  /\ pc'[q] = "idle" => ~Succeeded(q)'
               /\ Storing(q)' /\ AllStored(q)' /\ ReadWhole(q)'
    <2>1. CASE q = p
      BY <1>1, <1>2, <2>1 DEF Storing, AllStored, ReadWhole, Succeeded
    <2>2. CASE q # p
      BY <1>1, <1>2, <2>2 DEF DataInv, Storing, AllStored, ReadWhole, Succeeded
    <2> QED  BY <2>1, <2>2
  <1>5. blocks' \subseteq Blocks /\ DOMAIN result' = Procs
    BY <1>1, <1>2 DEF DataInv
  <1> QED  BY <1>3, <1>4, <1>5 DEF DataInv

LEMMA DataRun ==
    ASSUME ControlInv, DataInv, NEW p \in Procs, NEW c \in Commands[p], Run(p, c)
    PROVE  DataInv'
  <1>1. /\ cmd' = [cmd EXCEPT ![p] = c] /\ UNCHANGED <<todo, result, blocks>>
        /\ pc[p] = "idle" /\ pc \in [Procs -> Stages] /\ DOMAIN cmd = Procs
        /\ \E s \in {"start", "probe"} : pc' = [pc EXCEPT ![p] = s]
    BY DEF Run, Goto, ControlInv, ControlType
  <1>2. /\ \A q \in Procs : q # p => pc'[q] = pc[q] /\ cmd'[q] = cmd[q]
        /\ pc'[p] \notin {"idle", "call"}
    BY <1>1
  <1>3. ~Succeeded(p)
    BY <1>1 DEF DataInv
  <1>4. ASSUME NEW q \in Procs
        PROVE  /\ pc'[q] = "idle" => ~Succeeded(q)'
               /\ Storing(q)' /\ AllStored(q)' /\ ReadWhole(q)'
    <2>1. CASE q = p
      BY <1>1, <1>2, <1>3, <2>1 DEF Storing, AllStored, ReadWhole, Succeeded
    <2>2. CASE q # p
      BY <1>1, <1>2, <2>2 DEF DataInv, Storing, AllStored, ReadWhole, Succeeded
    <2> QED  BY <2>1, <2>2
  <1> QED  BY <1>1, <1>4 DEF DataInv

LEMMA DataDial ==
    ASSUME ControlInv, DataInv, NEW p \in Procs, Dial(p)
    PROVE  DataInv'
  <1> DEFINE t == ToPut(cmd[p])
             BB == Blocks
  <1>1. /\ UNCHANGED <<cmd, result, blocks>> /\ todo' = [todo EXCEPT ![p] = t]
        /\ pc[p] = "dial" /\ pc \in [Procs -> Stages] /\ pc' = [pc EXCEPT ![p] = "call"]
        /\ cmd[p] \in Command \cup {NoCommand}
    BY DEF Dial, Goto, ControlInv, ControlType
  <1>2. t \in Seq(BB) /\ (cmd[p].op = "add" => Stored(cmd[p].tree) = Range(t))
    BY <1>1, ToPutIs
  <1> HIDE DEF t, BB
  <1>3. todo' \in [Procs -> Seq(BB)] /\ todo'[p] = t /\ \A q \in Procs : q # p => todo'[q] = todo[q]
    <2>1. todo \in [Procs -> Seq(BB)]
      BY DEF DataInv, BB
    <2> QED  BY <1>1, <1>2, <2>1
  <1>4. ASSUME NEW q \in Procs
        PROVE  /\ pc'[q] = "idle" => ~Succeeded(q)'
               /\ Storing(q)' /\ AllStored(q)' /\ ReadWhole(q)'
    <2>1. CASE q = p
      <3>1. Storing(q)'
        BY <1>1, <1>2, <1>3, <2>1 DEF Storing
      <3>2. pc'[q] = "call"
        BY <1>1, <2>1
      <3> QED  BY <1>1, <3>1, <3>2 DEF DataInv, AllStored, ReadWhole, Succeeded
    <2>2. CASE q # p
      <3>1. pc'[q] = pc[q]
        BY <1>1, <2>2
      <3> QED  BY <1>1, <1>3, <2>2, <3>1 DEF DataInv, Storing, AllStored, ReadWhole, Succeeded
    <2> QED  BY <2>1, <2>2
  <1> QED  BY <1>1, <1>3, <1>4 DEF DataInv, BB

LEMMA DataPut ==
    ASSUME ControlInv, DataInv, NEW p \in Procs, Put(p)
    PROVE  DataInv'
  <1> DEFINE s == todo[p]
             BB == Blocks
             more(n) == IF cmd[p].op = "dl" THEN Children(n) ELSE <<>>
  <1>1. PICK i \in DOMAIN s :
            /\ cmd[p].op # "dl" => i = 1
            /\ blocks' = blocks \cup {s[i]}
            /\ todo' = [todo EXCEPT ![p] = RemoveAt(s, i) \o more(s[i])]
    BY DEF Put
  <1>2. UNCHANGED <<pc, cmd, result>>
    BY DEF Put
  <1>3. todo \in [Procs -> Seq(BB)] /\ blocks \subseteq BB /\ DOMAIN result = Procs
    BY DEF DataInv
  <1> DEFINE rest == RemoveAt(s, i)
             m == more(s[i])
  <1>4. s \in Seq(BB)
    BY <1>3
  <1>5. s[i] \in BB
    <2> HIDE DEF s, BB
    <2> QED  BY <1>1, <1>4
  <1>6. rest \in Seq(BB) /\ (i = 1 => Range(s) \subseteq {s[1]} \cup Range(rest))
    <2> HIDE DEF s, BB
    <2> QED  BY <1>1, <1>4, Removed
  <1>7. m \in Seq(BB)
    <2>1. Children(s[i]) \in Seq(BB)
      BY <1>5, BlocksClosed
    <2>2. <<>> \in Seq(BB)
      OBVIOUS
    <2> QED  BY <2>1, <2>2
  <1> HIDE DEF rest, m, s, BB
  <1>8. rest \o m \in Seq(BB) /\ Range(rest \o m) = Range(rest) \cup Range(m)
    BY <1>6, <1>7, ConcatProperties, RangeConcatenated
  <1> DEFINE new == rest \o m
  <1>9. new \in Seq(BB) /\ todo' = [todo EXCEPT ![p] = new] /\ Range(rest) \subseteq Range(new)
    BY <1>1, <1>8 DEF rest, m
  <1> HIDE DEF new
  <1>10. todo' \in [Procs -> Seq(BB)] /\ todo'[p] = new /\ \A q \in Procs : q # p => todo'[q] = todo[q]
    BY <1>3, <1>9
  <1>11. blocks' \subseteq BB /\ blocks \subseteq blocks' /\ s[i] \in blocks'
    BY <1>1, <1>3, <1>5
  <1>12. ASSUME NEW q \in Procs  PROVE Storing(q)'
    <2>1. CASE q = p
      <3>1. ASSUME pc[p] = "call", cmd[p].op = "add"
            PROVE  Stored(cmd[p].tree) \subseteq blocks' \cup Range(new)
        <4>1. Stored(cmd[p].tree) \subseteq blocks \cup Range(s)
          BY <3>1 DEF DataInv, Storing, s
        <4>2. i = 1
          BY <1>1, <3>1
        <4> QED  BY <1>6, <1>9, <1>11, <4>1, <4>2
      <3> QED  BY <1>2, <1>10, <2>1, <3>1 DEF Storing
    <2>2. CASE q # p
      BY <1>2, <1>10, <1>11, <2>2 DEF DataInv, Storing
    <2> QED  BY <2>1, <2>2
  <1>13. ASSUME NEW q \in Procs
         PROVE  (pc'[q] = "idle" => ~Succeeded(q)') /\ AllStored(q)' /\ ReadWhole(q)'
    BY <1>2, <1>11 DEF DataInv, AllStored, ReadWhole, Succeeded
  <1> QED  BY <1>2, <1>3, <1>10, <1>11, <1>12, <1>13 DEF DataInv, BB

\* What a call promises when it succeeds.
Kept(p, r) ==
    r[1] = "ok" =>
        /\ cmd[p].op = "add" => Stored(cmd[p].tree) \subseteq blocks
        /\ cmd[p].op = "cat" => Prints(cmd[p].tree, cmd[p].path, r[2])

LEMMA DataAnswer ==
    ASSUME ControlInv, DataInv, NEW p \in Procs, Answer(p)
    PROVE  DataInv'
  <1> DEFINE c == cmd[p]
             data == Cat(blocks, Root[c.tree], c.path)
             r == IF c.op # "cat" THEN Ok(<<>>) ELSE IF data = ReadError THEN Error ELSE Ok(data)
  <1>1. /\ pc[p] = "call" /\ todo[p] = <<>> /\ pc \in [Procs -> Stages]
        /\ result' = [result EXCEPT ![p] = r] /\ pc' = [pc EXCEPT ![p] = "reply"]
        /\ UNCHANGED <<cmd, todo, blocks>>
    BY DEF Answer, Goto, ControlInv, ControlType
  <1>2. c \in Command \cup {NoCommand}
    BY DEF ControlInv, ControlType
  <1>3. c.op = "add" => Stored(c.tree) \subseteq blocks
    <2>1. Range(todo[p]) = {}
      <3>1. Range(<<>>) = {}
        BY DEF Range
      <3> QED  BY <1>1, <3>1
    <2> QED  BY <1>1, <2>1 DEF DataInv, Storing
  <1>4. c.op = "cat" /\ data # ReadError => Prints(c.tree, c.path, data)
    <2> DEFINE t == c.tree
               path == c.path
    <2>1. c.op = "cat" => t \in Trees /\ path \in Seq(PathName) /\ blocks \in SUBSET Blocks
      BY <1>2, Arguments DEF DataInv
    <2> HIDE DEF t, path
    <2>2. c.op = "cat" /\ Cat(blocks, Root[t], path) # ReadError =>
            Prints(t, path, Cat(blocks, Root[t], path))
      BY <2>1, CatIs
    <2> QED  BY <2>2 DEF t, path
  <1>5. Error[1] = "error" /\ \A d : Ok(d)[1] = "ok" /\ Ok(d)[2] = d
    BY DEF Error, Ok
  <1> HIDE DEF data
  <1>6. Kept(p, r)
    BY <1>3, <1>4, <1>5 DEF Kept
  <1> HIDE DEF r
  <1>7. /\ \A q \in Procs : q # p => pc'[q] = pc[q] /\ result'[q] = result[q]
        /\ pc'[p] = "reply" /\ result'[p] = r /\ DOMAIN result' = Procs
    BY <1>1 DEF DataInv
  <1>8. ASSUME NEW q \in Procs
        PROVE  /\ pc'[q] = "idle" => ~Succeeded(q)'
               /\ Storing(q)' /\ AllStored(q)' /\ ReadWhole(q)'
    <2>1. CASE q = p
      BY <1>1, <1>6, <1>7, <2>1 DEF Storing, AllStored, ReadWhole, Succeeded, Kept
    <2>2. CASE q # p
      BY <1>1, <1>7, <2>2 DEF DataInv, Storing, AllStored, ReadWhole, Succeeded
    <2> QED  BY <2>1, <2>2
  <1> QED  BY <1>1, <1>7, <1>8 DEF DataInv

\* A reply that arrives gives what the daemon has answered.
LEMMA DataReply ==
    ASSUME ControlInv, DataInv, NEW p \in Procs, Reply(p)
    PROVE  DataInv'
  <1>1. Return(p, result[p])
    BY DEF Reply
  <1>2. result[p][1] = "ok" =>
             /\ cmd[p].op = "add" => Stored(cmd[p].tree) \subseteq blocks
             /\ cmd[p].op = "cat" => Prints(cmd[p].tree, cmd[p].path, result[p][2])
    BY DEF DataInv, AllStored, ReadWhole, Succeeded
  <1> QED  BY <1>1, <1>2, DataReturned

LEMMA DataStep == ControlInv /\ DataInv /\ [Next]_vars => DataInv'
  <1> SUFFICES ASSUME ControlInv, DataInv, [Next]_vars PROVE DataInv'
    OBVIOUS
  <1>1. CASE UNCHANGED vars
    BY <1>1, DataKept DEF vars
  <1> SUFFICES ASSUME NEW p \in Procs,
                      \/ \E c \in Commands[p] : Run(p, c)
                      \/ Step(p) \/ SetPrivateL(p) \/ AcceptLoop(p) \/ BlockFails(p) \/ Signal(p) \/ Kill(p)
               PROVE  DataInv'
    BY <1>1 DEF Next
  <1>0. pc \in [Procs -> Stages]
    BY DEF ControlInv, ControlType
  <1>2. ASSUME NEW s \in Stages \ {"idle", "call"}, Goto(p, s) \/ UNCHANGED pc,
               UNCHANGED <<cmd, todo, result, blocks>>
        PROVE  DataInv'
    <2>1. \A q \in Procs : pc'[q] \in {"idle", "call"} => pc'[q] = pc[q]
      BY <1>0, <1>2 DEF Goto
    <2> QED  BY <1>2, <2>1, DataKept
  <1>3. ASSUME Return(p, Error)  PROVE DataInv'
    <2>1. Error[1] # "ok"
      BY DEF Error
    <2> QED  BY <1>3, <2>1, DataReturned
  <1>4. CASE Probe(p) \/ ProbeCloses(p) \/ ListenPublic(p) \/ ListenPrivate(p)
    BY <1>2, <1>4 DEF Probe, ProbeCloses, ListenPublic, ListenPrivate, Leave, Stages, callVars
  <1>5. CASE CloseStore(p) \/ Shutdown(p) \/ ClosePrivate(p) \/ SetPrivateL(p) \/ AcceptLoop(p)
              \/ Signal(p) \/ Kill(p)
    BY <1>2, <1>5 DEF CloseStore, Shutdown, ClosePrivate, SetPrivateL, AcceptLoop, Signal, Kill,
                      Leave, Stages, callVars
  <1>6. CASE Refused(p) \/ CallFails(p) \/ BlockFails(p)
    BY <1>3, <1>6 DEF Refused, CallFails, BlockFails
  <1> QED  BY <1>4, <1>5, <1>6, DataRun, DataDial, DataPut, DataAnswer,
              DataReply DEF Step

\* What the calls have stored so far, and what those that returned have given.
THEOREM DataHolds == Spec => []DataInv
  <1>1. Init => DataInv
    <2> SUFFICES ASSUME Init PROVE DataInv
      OBVIOUS
    <2> DEFINE BB == Blocks
    <2>1. todo \in [Procs -> Seq(BB)] /\ blocks = {}
      <3>1. <<>> \in Seq(BB)
        OBVIOUS
      <3> QED  BY <3>1 DEF Init
    <2>2. DOMAIN result = Procs /\ \A p \in Procs : pc[p] = "idle" /\ cmd[p].op = "none" /\ ~Succeeded(p)
      BY DEF Init, NoCommand, Succeeded
    <2> QED  BY <2>1, <2>2 DEF DataInv, Storing, AllStored, ReadWhole
  <1> QED  BY <1>1, DataStep, ControlHolds, PTL DEF Spec

\* After an "add" that succeeded, every file of the path can be read back, in
\* any disk, with any size of the chunks and any number of children per node.
THEOREM AddedReadableHolds == Spec => []AddedReadable
  <1>1. ControlInv /\ DataInv => AddedReadable
    <2> SUFFICES ASSUME ControlInv, DataInv, NEW p \in Procs, cmd[p].op = "add", Succeeded(p),
                        NEW path \in Paths, NEW f \in FilesAt(cmd[p].tree, path)
                 PROVE  Cat(blocks, Root[cmd[p].tree], path) = Disk[f].bytes
      BY DEF AddedReadable
    <2> DEFINE t == cmd[p].tree
    <2>1. cmd[p] \in Command \cup {NoCommand}
      BY DEF ControlInv, ControlType
    <2>2. t \in Trees /\ path \in Seq(PathName)
      BY <2>1, Arguments, CommandsAssumption DEF PathName
    <2>3. Stored(t) \subseteq blocks /\ blocks \in SUBSET Blocks /\ f \in FilesAt(t, path)
      BY DEF DataInv, AllStored
    <2> HIDE DEF t
    <2>4. \A u \in FilesAt(t, path) : Cat(blocks, Root[t], path) = Disk[u].bytes
      <3>1. \A S \in SUBSET Blocks : Stored(t) \subseteq S =>
              \A u \in FilesAt(t, path) : Cat(S, Root[t], path) = Disk[u].bytes
        BY <2>2, WholeRead
      <3> QED  BY <2>3, <3>1
    <2> QED  BY <2>3, <2>4 DEF t
  <1> QED  BY <1>1, ControlHolds, DataHolds, PTL

\* A "cat" that succeeds prints the whole file under a path of names, and a
\* beginning of it when the path goes on with an empty name, whatever part of
\* the DAG is in the store.
THEOREM CatWholeHolds == Spec => []CatWhole
  <1>1. DataInv => CatWhole
    BY DEF DataInv, ReadWhole, CatWhole
  <1> QED  BY <1>1, DataHolds, PTL
=============================================================================

-------------------------- MODULE TableLocksProofs --------------------------
(***************************************************************************)
(* Proofs about TableLocks: pings do not multiply, for every finite set of *)
(* nodes, every K, all tables, any crashes and timeouts.                   *)
(***************************************************************************)
EXTENDS TableLocks, FiniteSetTheorems, TLAPS

-----------------------------------------------------------------------------
(* Counting: what one unit more or less does *)

LEMMA InUnits ==
    ASSUME NEW f, NEW y
    PROVE  y \in Units(f) <=> \E x \in DOMAIN f : \E k \in 1 .. f[x] : y = <<x, k>>
BY DEF Units

LEMMA OneMore ==
    ASSUME NEW f, NEW g, NEW x \in DOMAIN f, DOMAIN g = DOMAIN f, f[x] \in Nat,
           g[x] = f[x] + 1, \A z \in DOMAIN f : z # x => g[z] = f[z],
           IsFiniteSet(Units(f))
    PROVE  /\ IsFiniteSet(Units(g))
           /\ Cardinality(Units(g)) = Cardinality(Units(f)) + 1
<1>1. <<x, f[x] + 1>> \notin Units(f)
  BY InUnits
<1>2. Units(g) = Units(f) \cup {<<x, f[x] + 1>>}
  <2>1. \A y : y \in Units(g) => y \in Units(f) \cup {<<x, f[x] + 1>>}
    <3> SUFFICES ASSUME NEW z \in DOMAIN g, NEW k \in 1 .. g[z]
                 PROVE  <<z, k>> \in Units(f) \cup {<<x, f[x] + 1>>}
      BY InUnits
    <3>1. CASE z = x
      <4>1. k \in 1 .. f[x] \/ k = f[x] + 1
        BY <3>1
      <4> QED BY <3>1, <4>1, InUnits
    <3>2. CASE z # x
      BY <3>2, InUnits
    <3> QED BY <3>1, <3>2
  <2>2. \A y \in Units(f) : y \in Units(g)
    <3> SUFFICES ASSUME NEW z \in DOMAIN f, NEW k \in 1 .. f[z]
                 PROVE  <<z, k>> \in Units(g)
      BY InUnits
    <3>1. k \in 1 .. g[z]
      <4>1. CASE z = x
        BY <4>1
      <4>2. CASE z # x
        BY <4>2
      <4> QED BY <4>1, <4>2
    <3> QED BY <3>1, InUnits
  <2>3. <<x, f[x] + 1>> \in Units(g)
    <3>1. f[x] + 1 \in 1 .. g[x]
      OBVIOUS
    <3> QED BY <3>1, InUnits
  <2> QED BY <2>1, <2>2, <2>3
<1> QED BY <1>1, <1>2, FS_AddElement

LEMMA OneLess ==
    ASSUME NEW f, NEW g, NEW x \in DOMAIN f, DOMAIN g = DOMAIN f, f[x] \in Nat \ {0},
           g[x] = f[x] - 1, \A z \in DOMAIN f : z # x => g[z] = f[z],
           IsFiniteSet(Units(f))
    PROVE  /\ IsFiniteSet(Units(g))
           /\ Cardinality(Units(g)) = Cardinality(Units(f)) - 1
<1>1. <<x, f[x]>> \notin Units(g)
  BY InUnits
<1>2. Units(f) \ {<<x, f[x]>>} \subseteq Units(g)
  <2> SUFFICES ASSUME NEW z \in DOMAIN f, NEW k \in 1 .. f[z], <<z, k>> # <<x, f[x]>>
               PROVE  <<z, k>> \in Units(g)
    BY InUnits
  <2>1. k \in 1 .. g[z]
    <3>1. CASE z = x
      BY <3>1
    <3>2. CASE z # x
      BY <3>2
    <3> QED BY <3>1, <3>2
  <2> QED BY <2>1, InUnits
<1>3. Units(g) \subseteq Units(f)
  <2> SUFFICES ASSUME NEW z \in DOMAIN g, NEW k \in 1 .. g[z]
               PROVE  <<z, k>> \in Units(f)
    BY InUnits
  <2>1. k \in 1 .. f[z]
    <3>1. CASE z = x
      BY <3>1
    <3>2. CASE z # x
      BY <3>2
    <3> QED BY <3>1, <3>2
  <2> QED BY <2>1, InUnits
<1>4. Units(g) = Units(f) \ {<<x, f[x]>>} /\ <<x, f[x]>> \in Units(f)
  <2>1. f[x] \in 1 .. f[x]
    OBVIOUS
  <2>2. <<x, f[x]>> \in Units(f)
    BY <2>1, InUnits
  <2> QED BY <1>1, <1>2, <1>3, <2>2
<1> QED BY <1>4, FS_RemoveElement

\* m units of a kind of which there was none.
LEMMA SomeMore ==
    ASSUME NEW f, NEW g, NEW x \in DOMAIN f, DOMAIN g = DOMAIN f, f[x] = 0,
           g[x] \in Nat, \A z \in DOMAIN f : z # x => g[z] = f[z],
           IsFiniteSet(Units(f))
    PROVE  /\ IsFiniteSet(Units(g))
           /\ Cardinality(Units(g)) = Cardinality(Units(f)) + g[x]
<1> DEFINE m == g[x]
           M == {<<x, k>> : k \in 1 .. m}
           b == [k \in 1 .. m |-> <<x, k>>]
<1>1. b \in Bijection(1 .. m, M)
  BY DEF Bijection, Injection, Surjection, IsInjective
<1>2. IsFiniteSet(M) /\ Cardinality(M) = m
  <2>1. IsFiniteSet(1 .. m) /\ Cardinality(1 .. m) = m
    BY FS_Interval
  <2>2. ExistsBijection(1 .. m, M)
    BY <1>1 DEF ExistsBijection
  <2> HIDE DEF M, m
  <2> QED BY <2>1, <2>2, FS_Bijection
<1>3. Units(f) \cap M = {}
  <2>1. \A k \in 1 .. m : <<x, k>> \notin Units(f)
    BY InUnits
  <2> QED BY <2>1
<1>4. Units(g) = Units(f) \cup M
  <2>1. ASSUME NEW z \in DOMAIN g, NEW k \in 1 .. g[z]
        PROVE  <<z, k>> \in Units(f) \cup M
    <3>1. CASE z = x
      BY <3>1
    <3>2. CASE z # x
      BY <3>2, InUnits
    <3> QED BY <3>1, <3>2
  <2>2. Units(g) \subseteq Units(f) \cup M
    <3> HIDE DEF M
    <3> QED BY <2>1, InUnits
  <2>3. ASSUME NEW z \in DOMAIN f, NEW k \in 1 .. f[z]
        PROVE  <<z, k>> \in Units(g)
    <3>1. z # x
      OBVIOUS
    <3> QED BY <3>1, InUnits
  <2>4. Units(f) \subseteq Units(g)
    BY <2>3, InUnits
  <2>5. M \subseteq Units(g)
    BY InUnits
  <2> QED BY <2>2, <2>4, <2>5
<1>5. Cardinality({}) = 0
  BY FS_EmptySet
<1> HIDE DEF M
<1>6. /\ IsFiniteSet(Units(f) \cup M)
      /\ Cardinality(Units(f) \cup M)
            = Cardinality(Units(f)) + Cardinality(M) - Cardinality(Units(f) \cap M)
  BY <1>2, FS_Union
<1>7. Cardinality(Units(f)) \in Nat
  BY FS_CardinalityType
<1>8. Cardinality(Units(f) \cup M) = Cardinality(Units(f)) + g[x] - 0
  BY <1>2, <1>3, <1>5, <1>6
<1> QED BY <1>4, <1>6, <1>7, <1>8

LEMMA NoMore ==
    ASSUME NEW f, NEW g, DOMAIN g = DOMAIN f,
           \A z \in DOMAIN f : g[z] = f[z] \/ g[z] = 0,
           IsFiniteSet(Units(f))
    PROVE  /\ IsFiniteSet(Units(g))
           /\ Cardinality(Units(g)) <= Cardinality(Units(f))
<1>1. Units(g) \subseteq Units(f)
  <2> SUFFICES ASSUME NEW z \in DOMAIN g, NEW k \in 1 .. g[z]
               PROVE  <<z, k>> \in Units(f)
    BY InUnits
  <2>1. g[z] = f[z]
    OBVIOUS
  <2> QED BY <2>1, InUnits
<1> QED BY <1>1, FS_Subset

\* A set of nodes loses or wins at most one of them.
LEMMA OneNode ==
    ASSUME NEW A, NEW B, NEW x, IsFiniteSet(A), \A z : z # x => (z \in B <=> z \in A)
    PROVE  /\ IsFiniteSet(B)
           /\ x \in A /\ x \in B => Cardinality(B) = Cardinality(A)
           /\ x \notin A /\ x \notin B => Cardinality(B) = Cardinality(A)
           /\ x \notin A /\ x \in B => Cardinality(B) = Cardinality(A) + 1
           /\ x \in A /\ x \notin B => Cardinality(B) = Cardinality(A) - 1
<1>1. CASE (x \in A /\ x \in B) \/ (x \notin A /\ x \notin B)
  <2>1. A = B
    BY <1>1
  <2> QED BY <1>1, <2>1
<1>2. CASE x \notin A /\ x \in B
  <2>1. B = A \cup {x}
    BY <1>2
  <2> QED BY <1>2, <2>1, FS_AddElement
<1>3. CASE x \in A /\ x \notin B
  <2>1. B = A \ {x}
    BY <1>3
  <2> QED BY <1>3, <2>1, FS_RemoveElement
<1> QED BY <1>1, <1>2, <1>3

-----------------------------------------------------------------------------
(* The inductive invariant *)

Holders == [c : Nodes, by : {"rpc", "task"}, stage : {"locked", "ping", "answered"}]

TypeOK ==
    /\ waiting \in [Nodes -> [Nodes -> Nat]]
    /\ holder \in [Nodes -> Holders \cup {NoHolder}]
    /\ task \in [Nodes -> Seq(Nodes)]
    /\ call \in [Calls -> [dst : Nodes \cup {NoNode},
                          stage : {"idle", "rlock", "answered", "failed"}]]
    /\ entered \in Nat

\* A task that updates the table is with the first of its contacts.
TaskHolds ==
    \A n \in Nodes : holder[n] # NoHolder /\ holder[n].by = "task" => task[n] # <<>>

Counted ==
    IsFiniteSet(Units(Goroutines)) /\ IsFiniteSet(Units(ToEnter)) /\ IsFiniteSet(Started)

IInv == TypeOK /\ TaskHolds /\ Counted /\ NoAmplification

\* What is counted: numbers.
LEMMA CountsAreNumbers ==
    ASSUME IInv
    PROVE  /\ IsFiniteSet(Updating)
           /\ Cardinality(Units(Goroutines)) \in Nat
           /\ Cardinality(Updating) \in Nat
           /\ Cardinality(Units(ToEnter)) \in Nat
           /\ Cardinality(Started) \in Nat
           /\ entered \in Nat
<1>1. IsFiniteSet(Updating)
  <2>1. Updating \subseteq Nodes
    BY DEF Updating
  <2> QED BY <2>1, NodesAssumption, FS_Subset
<1> QED BY <1>1, FS_CardinalityType DEF IInv, TypeOK, Counted

-----------------------------------------------------------------------------
(* What the parts of a step do to the counts *)

LEMMA Waits ==
    ASSUME IInv, NEW n \in Nodes, NEW c \in Nodes
    PROVE  /\ Spawn(n, c) =>
                /\ IsFiniteSet(Units(Goroutines'))
                /\ Cardinality(Units(Goroutines')) = Cardinality(Units(Goroutines)) + 1
           /\ waiting[n][c] > 0 /\ waiting' = [waiting EXCEPT ![n][c] = @ - 1] =>
                /\ IsFiniteSet(Units(Goroutines'))
                /\ Cardinality(Units(Goroutines')) = Cardinality(Units(Goroutines)) - 1
<1> DEFINE f == Goroutines
           g == Goroutines'
           x == <<n, c>>
<1>1. /\ waiting \in [Nodes -> [Nodes -> Nat]]
      /\ IsFiniteSet(Units(f))
  BY DEF IInv, TypeOK, Counted
<1>2. x \in DOMAIN f /\ DOMAIN g = DOMAIN f /\ f[x] = waiting[n][c] /\ f[x] \in Nat
  BY <1>1 DEF Goroutines
<1>3. ASSUME NEW v \in Nat, waiting' = [waiting EXCEPT ![n][c] = v]
      PROVE  g[x] = v /\ \A z \in DOMAIN f : z # x => g[z] = f[z]
  <2>1. g[x] = v
    BY <1>1, <1>3 DEF Goroutines
  <2>2. ASSUME NEW p \in Nodes, NEW q \in Nodes, <<p, q>> # x
        PROVE  g[<<p, q>>] = f[<<p, q>>]
    <3>1. waiting'[p][q] = waiting[p][q]
      BY <1>1, <1>3, <2>2
    <3> QED BY <3>1 DEF Goroutines
  <2>3. \A z \in DOMAIN f : \E p, q \in Nodes : z = <<p, q>>
    BY DEF Goroutines
  <2> HIDE DEF f, g, x
  <2> QED BY <2>1, <2>2, <2>3
<1>4. ASSUME Spawn(n, c)
      PROVE  IsFiniteSet(Units(g)) /\ Cardinality(Units(g)) = Cardinality(Units(f)) + 1
  <2>1. waiting[n][c] + 1 \in Nat /\ waiting' = [waiting EXCEPT ![n][c] = waiting[n][c] + 1]
    BY <1>1, <1>4 DEF Spawn
  <2>2. g[x] = f[x] + 1 /\ \A z \in DOMAIN f : z # x => g[z] = f[z]
    BY <1>2, <1>3, <2>1
  <2> HIDE DEF f, g, x
  <2> QED BY <1>1, <1>2, <2>2, OneMore
<1>5. ASSUME waiting[n][c] > 0, waiting' = [waiting EXCEPT ![n][c] = @ - 1]
      PROVE  IsFiniteSet(Units(g)) /\ Cardinality(Units(g)) = Cardinality(Units(f)) - 1
  <2>1. waiting[n][c] - 1 \in Nat /\ waiting' = [waiting EXCEPT ![n][c] = waiting[n][c] - 1]
    BY <1>1, <1>5
  <2> HIDE DEF f, g, x
  <2>2. g[x] = waiting[n][c] - 1 /\ \A z \in DOMAIN f : z # x => g[z] = f[z]
    BY <1>3, <2>1
  <2>3. f[x] \in Nat \ {0} /\ g[x] = f[x] - 1
    BY <1>2, <1>5, <2>2
  <2> QED BY <1>1, <1>2, <2>2, <2>3, OneLess
<1> QED BY <1>4, <1>5

\* One node n takes, holds or gives back the lock of its table.
LEMMA Updates ==
    ASSUME IInv, NEW n \in Nodes, \A m \in Nodes \ {n} : holder'[m] = holder[m]
    PROVE  /\ n \in Updating /\ n \in Updating' =>
                Cardinality(Updating') = Cardinality(Updating)
           /\ n \notin Updating /\ n \notin Updating' =>
                Cardinality(Updating') = Cardinality(Updating)
           /\ n \notin Updating /\ n \in Updating' =>
                Cardinality(Updating') = Cardinality(Updating) + 1
           /\ n \in Updating /\ n \notin Updating' =>
                Cardinality(Updating') = Cardinality(Updating) - 1
<1> DEFINE A == Updating
           B == Updating'
<1>1. IsFiniteSet(A)
  BY CountsAreNumbers
<1>2. \A z : z # n => (z \in B <=> z \in A)
  BY DEF Updating, At
<1> HIDE DEF A, B
<1>3. /\ n \in A /\ n \in B => Cardinality(B) = Cardinality(A)
      /\ n \notin A /\ n \notin B => Cardinality(B) = Cardinality(A)
      /\ n \notin A /\ n \in B => Cardinality(B) = Cardinality(A) + 1
      /\ n \in A /\ n \notin B => Cardinality(B) = Cardinality(A) - 1
  BY <1>1, <1>2, OneNode
<1> QED BY <1>3 DEF A, B

LEMMA LeftToEnter ==
    ASSUME IInv, NEW n \in Nodes
    PROVE  /\ ToEnter[n] = Len(task[n]) - Handled(n)
           /\ ToEnter[n] \in Nat
<1>1. task[n] \in Seq(Nodes) /\ Len(task[n]) \in Nat
  BY DEF IInv, TypeOK
<1>2. Handled(n) = 1 => Len(task[n]) > 0
  BY <1>1 DEF IInv, TaskHolds, Handled, At
<1> QED BY <1>1, <1>2 DEF ToEnter, Handled

LEMMA Entries ==
    ASSUME IInv, NEW n \in Nodes,
           \A m \in Nodes \ {n} : holder'[m] = holder[m] /\ task'[m] = task[m]
    PROVE  /\ ToEnter'[n] = ToEnter[n] =>
                /\ IsFiniteSet(Units(ToEnter'))
                /\ Cardinality(Units(ToEnter')) = Cardinality(Units(ToEnter))
           /\ ToEnter[n] > 0 /\ ToEnter'[n] = ToEnter[n] - 1 =>
                /\ IsFiniteSet(Units(ToEnter'))
                /\ Cardinality(Units(ToEnter')) = Cardinality(Units(ToEnter)) - 1
           /\ ToEnter[n] = 0 /\ ToEnter'[n] \in Nat =>
                /\ IsFiniteSet(Units(ToEnter'))
                /\ Cardinality(Units(ToEnter'))
                        = Cardinality(Units(ToEnter)) + ToEnter'[n]
<1> DEFINE f == ToEnter
           g == ToEnter'
<1>1. /\ n \in DOMAIN f
      /\ DOMAIN g = DOMAIN f
      /\ f[n] \in Nat
      /\ IsFiniteSet(Units(f))
  BY LeftToEnter DEF ToEnter, IInv, Counted
<1>2. \A z \in DOMAIN f : z # n => g[z] = f[z]
  BY DEF ToEnter, Handled, At
<1>3. f[n] = g[n] => f = g
  BY <1>1, <1>2 DEF ToEnter
<1> HIDE DEF f, g
<1>4. f[n] = g[n] =>
        IsFiniteSet(Units(g)) /\ Cardinality(Units(g)) = Cardinality(Units(f))
  BY <1>1, <1>3
<1>5. f[n] > 0 /\ g[n] = f[n] - 1 =>
        IsFiniteSet(Units(g)) /\ Cardinality(Units(g)) = Cardinality(Units(f)) - 1
  BY <1>1, <1>2, OneLess
<1>6. f[n] = 0 /\ g[n] \in Nat =>
        IsFiniteSet(Units(g)) /\ Cardinality(Units(g)) = Cardinality(Units(f)) + g[n]
  BY <1>1, <1>2, SomeMore
<1> QED BY <1>4, <1>5, <1>6 DEF f, g

-----------------------------------------------------------------------------
(* Types and TaskHolds *)

LEMMA SpawnType ==
    ASSUME IInv, NEW n, NEW c \in Nodes, Spawn(n, c)
    PROVE  waiting' \in [Nodes -> [Nodes -> Nat]]
<1>1. waiting \in [Nodes -> [Nodes -> Nat]]
  BY DEF IInv, TypeOK
<1>2. CASE n \in Nodes
  <2>1. waiting[n] \in [Nodes -> Nat] /\ waiting[n][c] + 1 \in Nat
    BY <1>1, <1>2
  <2>2. [waiting[n] EXCEPT ![c] = @ + 1] \in [Nodes -> Nat]
    BY <2>1
  <2>3. waiting' = [waiting EXCEPT ![n] = [waiting[n] EXCEPT ![c] = @ + 1]]
    BY DEF Spawn
  <2> QED BY <1>1, <2>2, <2>3
<1>3. CASE n \notin Nodes
  BY <1>1, <1>3 DEF Spawn
<1> QED BY <1>2, <1>3

LEMMA Listed ==
    ASSUME NEW S \in SUBSET Nodes, Cardinality(S) \in Nat, NEW s \in SetToSeqs(S)
    PROVE  s \in Seq(Nodes) /\ Len(s) = Cardinality(S)
<1>1. s \in [1 .. Cardinality(S) -> S]
  BY DEF SetToSeqs
<1>2. s \in Seq(S) /\ Len(s) = Cardinality(S)
  BY <1>1
<1> QED BY <1>2

LEMMA TypeStep == IInv /\ [Next]_vars => TypeOK'
<1> SUFFICES ASSUME IInv, [Next]_vars PROVE TypeOK'
  OBVIOUS
<1> USE DEF IInv, TypeOK
<1>1. ASSUME NEW i \in Calls, NEW r \in Routes, Find(i, r[1], r[2]) PROVE TypeOK'
  <2>1. r[1] \in Nodes /\ r[2] \in Nodes
    BY SidesAssumption
  <2>2. call' \in [Calls -> [dst : Nodes \cup {NoNode},
                            stage : {"idle", "rlock", "answered", "failed"}]]
    <3>1. /\ [dst |-> r[2], stage |-> "rlock"] \in
                  [dst : Nodes \cup {NoNode},
                   stage : {"idle", "rlock", "answered", "failed"}]
          /\ [dst |-> r[2], stage |-> "failed"] \in
                  [dst : Nodes \cup {NoNode},
                   stage : {"idle", "rlock", "answered", "failed"}]
      BY <2>1
    <3> QED BY <1>1, <3>1 DEF Find
  <2>3. waiting' \in [Nodes -> [Nodes -> Nat]]
    BY <1>1, <2>1, SpawnType DEF Find
  <2> QED BY <1>1, <2>2, <2>3 DEF Find
<1>2. ASSUME NEW i \in Calls, RLock(i) PROVE TypeOK'
  BY <1>2 DEF RLock
<1>3. ASSUME NEW n \in Nodes, NEW c \in Nodes, Lock(n, c) PROVE TypeOK'
  <2>1. holder' \in [Nodes -> Holders \cup {NoHolder}]
    BY <1>3 DEF Lock, Hold, Holders
  <2>2. waiting' \in [Nodes -> [Nodes -> Nat]]
    <3>1. waiting[n][c] - 1 \in Nat
      BY <1>3 DEF Lock
    <3> QED BY <1>3, <3>1 DEF Lock
  <2> QED BY <1>3, <2>1, <2>2 DEF Lock
<1>4. ASSUME NEW n \in Nodes, LockTask(n) PROVE TypeOK'
  <2>1. Head(task[n]) \in Nodes
    BY <1>4 DEF LockTask
  <2> QED BY <1>4, <2>1 DEF LockTask, Hold, Holders
<1>5. ASSUME NEW n \in Nodes, Release(n), TaskHolds, holder[n] # NoHolder
      PROVE  /\ task' \in [Nodes -> Seq(Nodes)]
             /\ holder' \in [Nodes -> Holders \cup {NoHolder}]
  <2>1. CASE holder[n].by = "task"
    <3>1. task[n] # <<>> /\ task[n] \in Seq(Nodes)
      BY <1>5, <2>1 DEF TaskHolds
    <3>2. Tail(task[n]) \in Seq(Nodes)
      BY <3>1
    <3> QED BY <1>5, <2>1, <3>2 DEF Release
  <2>2. CASE holder[n].by # "task"
    BY <1>5, <2>2 DEF Release
  <2> QED BY <2>1, <2>2
<1>6. ASSUME NEW n \in Nodes, Refresh(n) \/ Split(n) \/ Ping(n) PROVE TypeOK'
  <2>1. CASE Refresh(n)
    BY <1>5, <2>1 DEF Refresh, At
  <2>2. CASE Split(n)
    BY <2>2 DEF Split
  <2>3. CASE Ping(n)
    BY <2>3 DEF Ping, At, Holders
  <2> QED BY <1>6, <2>1, <2>2, <2>3
<1>7. ASSUME NEW n \in Nodes, HandlePing(n) PROVE TypeOK'
  <2>1. holder' \in [Nodes -> Holders \cup {NoHolder}]
    <3>1. holder[n] \in Holders /\ holder' = [holder EXCEPT ![n].stage = "answered"]
      BY <1>7 DEF HandlePing, At
    <3>2. [holder[n] EXCEPT !.stage = "answered"] \in Holders
      BY <3>1 DEF Holders
    <3> QED BY <3>1, <3>2
  <2>2. waiting' \in [Nodes -> [Nodes -> Nat]]
    BY <1>7, SpawnType DEF HandlePing
  <2> QED BY <1>7, <2>1, <2>2 DEF HandlePing
<1>8. ASSUME NEW n \in Nodes, PingReturns(n) PROVE TypeOK'
  BY <1>5, <1>8 DEF PingReturns, At
<1>9. ASSUME NEW n \in Nodes, PingRefused(n) \/ PingTimeout(n) PROVE TypeOK'
  BY <1>5, <1>9 DEF PingRefused, PingTimeout, Evict, At
<1>10. ASSUME NEW n \in Nodes, NEW S \in SUBSET (Nodes \ {n}), EnterContacts(n, S)
       PROVE  TypeOK'
  <2>1. PICK s \in SetToSeqs(S) : task' = [task EXCEPT ![n] = s]
    BY <1>10 DEF EnterContacts
  <2>2. Cardinality(S) \in Nat
    BY <1>10, KAssumption DEF EnterContacts
  <2>3. s \in Seq(Nodes)
    BY <2>2, Listed
  <2> QED BY <1>10, <2>1, <2>2, <2>3 DEF EnterContacts
<1>11. ASSUME NEW n \in Nodes, Crash(n) PROVE TypeOK'
  <2>1. call' \in [Calls -> [dst : Nodes \cup {NoNode},
                            stage : {"idle", "rlock", "answered", "failed"}]]
    BY <1>11 DEF Crash
  <2>2. waiting' \in [Nodes -> [Nodes -> Nat]]
    BY <1>11 DEF Crash
  <2>3. task' \in [Nodes -> Seq(Nodes)]
    BY <1>11 DEF Crash
  <2>4. holder' \in [Nodes -> Holders \cup {NoHolder}]
    BY <1>11 DEF Crash
  <2> QED BY <1>11, <2>1, <2>2, <2>3, <2>4 DEF Crash
<1>12. ASSUME NEW n \in Nodes, Restart(n) PROVE TypeOK'
  BY <1>12 DEF Restart
<1>13. CASE UNCHANGED vars
  BY <1>13 DEF vars
<1> QED BY <1>1, <1>2, <1>3, <1>4, <1>6, <1>7, <1>8, <1>9, <1>10, <1>11, <1>12, <1>13
        DEF Next, Step

LEMMA TaskHoldsStep == IInv /\ [Next]_vars => TaskHolds'
<1> SUFFICES ASSUME IInv, [Next]_vars PROVE TaskHolds'
  OBVIOUS
<1> USE DEF IInv, TypeOK, TaskHolds
<1>1. ASSUME NEW i \in Calls, NEW r \in Routes, Find(i, r[1], r[2]) PROVE TaskHolds'
  BY <1>1 DEF Find
<1>2. ASSUME NEW i \in Calls, RLock(i) PROVE TaskHolds'
  BY <1>2 DEF RLock
<1>3. ASSUME NEW n \in Nodes, NEW c \in Nodes, Lock(n, c) PROVE TaskHolds'
  BY <1>3 DEF Lock, Hold
<1>4. ASSUME NEW n \in Nodes, LockTask(n) PROVE TaskHolds'
  BY <1>4 DEF LockTask, Hold
<1>5. ASSUME NEW n \in Nodes, Release(n) PROVE TaskHolds'
  <2>1. holder'[n] = NoHolder
    BY <1>5 DEF Release
  <2>2. \A m \in Nodes \ {n} : holder'[m] = holder[m] /\ task'[m] = task[m]
    BY <1>5 DEF Release
  <2> QED BY <2>1, <2>2
<1>6. ASSUME NEW n \in Nodes, Refresh(n) \/ Split(n) \/ Ping(n) PROVE TaskHolds'
  <2>1. CASE Refresh(n)
    BY <1>5, <2>1 DEF Refresh
  <2>2. CASE Split(n)
    BY <2>2 DEF Split
  <2>3. CASE Ping(n)
    BY <2>3 DEF Ping, At, Holders
  <2> QED BY <1>6, <2>1, <2>2, <2>3
<1>7. ASSUME NEW n \in Nodes, HandlePing(n) PROVE TaskHolds'
  BY <1>7 DEF HandlePing, At, Holders
<1>8. ASSUME NEW n \in Nodes, PingReturns(n) \/ PingRefused(n) \/ PingTimeout(n)
      PROVE  TaskHolds'
  BY <1>5, <1>8 DEF PingReturns, PingRefused, PingTimeout, Evict
<1>9. ASSUME NEW n \in Nodes, NEW S \in SUBSET (Nodes \ {n}), EnterContacts(n, S)
      PROVE  TaskHolds'
  <2>1. task[n] = <<>> /\ UNCHANGED holder
        /\ \A m \in Nodes \ {n} : task'[m] = task[m]
    BY <1>9 DEF EnterContacts
  <2> QED BY <2>1
<1>10. ASSUME NEW n \in Nodes, Crash(n) PROVE TaskHolds'
  BY <1>10 DEF Crash
<1>11. ASSUME NEW n \in Nodes, Restart(n) PROVE TaskHolds'
  BY <1>11 DEF Restart
<1>12. CASE UNCHANGED vars
  BY <1>12 DEF vars
<1> QED BY <1>1, <1>2, <1>3, <1>4, <1>6, <1>7, <1>8, <1>9, <1>10, <1>11, <1>12
        DEF Next, Step

-----------------------------------------------------------------------------
(* The counts *)

Bound == Counted /\ NoAmplification

\* A call that has started is not idle again, and no other call starts.
LEMMA StartedSame ==
    ASSUME \A i \in Calls : call'[i].stage = "idle" <=> call[i].stage = "idle"
    PROVE  Started' = Started
BY DEF Started

LEMMA FindBound ==
    ASSUME IInv, NEW i \in Calls, NEW r \in Routes, Find(i, r[1], r[2])
    PROVE  Bound'
<1>1. r[1] \in Nodes /\ r[2] \in Nodes
  BY SidesAssumption
<1>2. /\ IsFiniteSet(Started')
      /\ Cardinality(Started') = Cardinality(Started) + 1
  <2>1. i \notin Started /\ i \in Started'
    BY DEF Started, Find, IInv, TypeOK
  <2>2. \A z : z # i => (z \in Started' <=> z \in Started)
    BY DEF Started, Find, IInv, TypeOK
  <2>3. IsFiniteSet(Started)
    BY DEF IInv, Counted
  <2> QED BY <2>1, <2>2, <2>3, OneNode
<1>3. UNCHANGED <<Updating, ToEnter, entered>>
  BY DEF Find, Updating, ToEnter, Handled, At
<1>4. /\ IsFiniteSet(Units(Goroutines'))
      /\ Cardinality(Units(Goroutines')) <= Cardinality(Units(Goroutines)) + 1
  <2>1. CASE Spawn(r[2], r[1])
    BY <1>1, <2>1, Waits, CountsAreNumbers
  <2>2. CASE UNCHANGED waiting
    <3>1. Goroutines' = Goroutines
      BY <2>2 DEF Goroutines
    <3> QED BY <3>1, CountsAreNumbers DEF IInv, Counted
  <2> QED BY <2>1, <2>2 DEF Find
<1>5. /\ IsFiniteSet(Units(ToEnter'))
      /\ Cardinality(Units(Goroutines')) \in Nat
      /\ Units(ToEnter') = Units(ToEnter)
  BY <1>3, <1>4, FS_CardinalityType DEF IInv, Counted
<1>6. NoAmplification
  BY DEF IInv
<1> QED BY <1>2, <1>3, <1>4, <1>5, <1>6, CountsAreNumbers DEF Bound, Counted, NoAmplification

\* A step that starts no call and no task.
LEMMA Balance ==
    ASSUME IInv, Started' = Started, entered' = entered,
           IsFiniteSet(Units(Goroutines')), IsFiniteSet(Updating'), IsFiniteSet(Units(ToEnter')),
           Cardinality(Units(Goroutines')) + Cardinality(Updating') + Cardinality(Units(ToEnter'))
             <= Cardinality(Units(Goroutines)) + Cardinality(Updating)
                    + Cardinality(Units(ToEnter))
    PROVE  Bound'
<1>1. /\ Cardinality(Units(Goroutines')) \in Nat
      /\ Cardinality(Updating') \in Nat
      /\ Cardinality(Units(ToEnter')) \in Nat
  BY FS_CardinalityType
<1> QED BY <1>1, CountsAreNumbers DEF Bound, IInv, Counted, NoAmplification

LEMMA FiniteUpdating == IsFiniteSet(Updating')
<1>1. Updating' \subseteq Nodes
  BY DEF Updating
<1> QED BY <1>1, NodesAssumption, FS_Subset

LEMMA SameGoroutines ==
    ASSUME IInv, UNCHANGED waiting
    PROVE  /\ IsFiniteSet(Units(Goroutines'))
           /\ Cardinality(Units(Goroutines')) = Cardinality(Units(Goroutines))
<1>1. Goroutines' = Goroutines
  BY DEF Goroutines
<1> QED BY <1>1 DEF IInv, Counted

LEMMA SameStarted ==
    ASSUME UNCHANGED call PROVE Started' = Started
BY DEF Started

\* When the lock is given back, nothing is left of the update, of which one
\* unit was left if its ping had not been handled.
LEMMA ReleaseCounts ==
    ASSUME IInv, NEW n \in Nodes, holder[n] # NoHolder, Release(n)
    PROVE  /\ IsFiniteSet(Units(ToEnter'))
           /\ Cardinality(Updating') + Cardinality(Units(ToEnter'))
                    <= Cardinality(Updating) + Cardinality(Units(ToEnter))
<1>1. /\ holder'[n] = NoHolder
      /\ \A m \in Nodes \ {n} : holder'[m] = holder[m] /\ task'[m] = task[m]
      /\ task'[n] = IF holder[n].by = "task" THEN Tail(task[n]) ELSE task[n]
      /\ holder[n] \in Holders
      /\ task[n] \in Seq(Nodes)
  BY DEF Release, IInv, TypeOK
<1>2. n \notin Updating'
  BY <1>1 DEF Updating, At
<1>3. Cardinality(Updating') <= Cardinality(Updating)
  BY <1>1, <1>2, Updates, CountsAreNumbers
<1>4. ToEnter[n] = Len(task[n]) - Handled(n) /\ ToEnter[n] \in Nat
  BY LeftToEnter
<1>5. ToEnter'[n] = Len(task'[n])
  <2>1. Handled(n)' = 0
    BY <1>1 DEF Handled, At
  <2>2. Len(task'[n]) \in Nat
    <3>1. holder[n].by = "task" => task[n] # <<>>
      BY DEF IInv, TaskHolds
    <3>2. task'[n] \in Seq(Nodes)
      BY <1>1, <3>1
    <3> QED BY <3>2
  <2> QED BY <2>1, <2>2 DEF ToEnter
<1>6. ToEnter'[n] = ToEnter[n] \/ (ToEnter[n] > 0 /\ ToEnter'[n] = ToEnter[n] - 1)
  <2>1. CASE holder[n].by = "task"
    <3>1. task[n] # <<>>
      BY <2>1 DEF IInv, TaskHolds
    <3>2. Len(task'[n]) = Len(task[n]) - 1 /\ Len(task[n]) > 0
      BY <1>1, <2>1, <3>1
    <3>3. Handled(n) \in {0, 1}
      BY DEF Handled
    <3> QED BY <1>1, <1>4, <1>5, <3>2, <3>3
  <2>2. CASE holder[n].by # "task"
    BY <1>1, <1>4, <1>5, <2>2 DEF Handled
  <2> QED BY <2>1, <2>2
<1>7. /\ IsFiniteSet(Units(ToEnter'))
      /\ Cardinality(Units(ToEnter')) <= Cardinality(Units(ToEnter))
  BY <1>1, <1>6, Entries, CountsAreNumbers
<1>8. Cardinality(Units(ToEnter')) \in Nat /\ Cardinality(Updating') \in Nat
  BY <1>7, FiniteUpdating, FS_CardinalityType
<1> QED BY <1>3, <1>7, <1>8, CountsAreNumbers

LEMMA ReleaseBound ==
    ASSUME IInv, NEW n \in Nodes, holder[n] # NoHolder, Release(n),
           UNCHANGED <<waiting, call, entered>>
    PROVE  Bound'
<1>1. /\ IsFiniteSet(Units(ToEnter'))
      /\ Cardinality(Updating') + Cardinality(Units(ToEnter'))
            <= Cardinality(Updating) + Cardinality(Units(ToEnter))
  BY ReleaseCounts
<1>2. /\ IsFiniteSet(Units(Goroutines'))
      /\ Cardinality(Units(Goroutines')) = Cardinality(Units(Goroutines))
  BY SameGoroutines
<1>3. Started' = Started
  BY SameStarted
<1>4. Cardinality(Units(ToEnter')) \in Nat /\ Cardinality(Updating') \in Nat
  BY <1>1, FiniteUpdating, FS_CardinalityType
<1> QED BY <1>1, <1>2, <1>3, <1>4, FiniteUpdating, CountsAreNumbers, Balance

\* The lock is taken: a goroutine becomes an update; a task has its contact
\* counted already.
LEMMA LockBound ==
    ASSUME IInv, NEW n \in Nodes, NEW c \in Nodes, Lock(n, c)
    PROVE  Bound'
<1>1. /\ holder[n] = NoHolder
      /\ \A m \in Nodes \ {n} : holder'[m] = holder[m] /\ task'[m] = task[m]
      /\ holder'[n] = [c |-> c, by |-> "rpc", stage |-> "locked"]
      /\ task' = task
  BY DEF Lock, Hold, IInv, TypeOK
<1>2. n \notin Updating
  BY <1>1 DEF Updating, At
<1>3. Cardinality(Updating') <= Cardinality(Updating) + 1
  BY <1>1, <1>2, Updates, CountsAreNumbers
<1>4. /\ IsFiniteSet(Units(Goroutines'))
      /\ Cardinality(Units(Goroutines')) = Cardinality(Units(Goroutines)) - 1
  BY Waits DEF Lock
<1>5. ToEnter'[n] = ToEnter[n]
  <2>1. Handled(n) = 0 /\ Handled(n)' = 0
    BY <1>1 DEF Handled, At
  <2> QED BY <1>1, <2>1 DEF ToEnter
<1>6. /\ IsFiniteSet(Units(ToEnter'))
      /\ Cardinality(Units(ToEnter')) = Cardinality(Units(ToEnter))
  BY <1>1, <1>5, Entries
<1>7. Started' = Started /\ entered' = entered
  BY SameStarted DEF Lock
<1>8. Cardinality(Updating') \in Nat
  BY FiniteUpdating, FS_CardinalityType
<1> QED BY <1>3, <1>4, <1>6, <1>7, <1>8, FiniteUpdating, CountsAreNumbers, Balance

\* The holder of the lock goes on, or a task takes it: only a handled ping
\* counts less.
LEMMA HolderBound ==
    ASSUME IInv, NEW n \in Nodes, UNCHANGED <<waiting, task, call, entered>>,
           \A m \in Nodes \ {n} : holder'[m] = holder[m],
           n \in Updating' <=> n \in Updating, Handled(n)' = Handled(n)
    PROVE  Bound'
<1>1. Cardinality(Updating') = Cardinality(Updating)
  BY Updates
<1>2. ToEnter'[n] = ToEnter[n]
  BY DEF ToEnter
<1>3. /\ IsFiniteSet(Units(ToEnter'))
      /\ Cardinality(Units(ToEnter')) = Cardinality(Units(ToEnter))
  BY <1>2, Entries
<1>4. /\ IsFiniteSet(Units(Goroutines'))
      /\ Cardinality(Units(Goroutines')) = Cardinality(Units(Goroutines))
  BY SameGoroutines
<1>5. Started' = Started
  BY SameStarted
<1> QED BY <1>1, <1>3, <1>4, <1>5, FiniteUpdating, CountsAreNumbers, Balance

\* The update whose ping is handled is replaced by a goroutine of the pinged
\* node.
LEMMA HandlePingBound ==
    ASSUME IInv, NEW n \in Nodes, HandlePing(n)
    PROVE  Bound'
<1>1. /\ holder[n] # NoHolder /\ holder[n] \in Holders
      /\ holder[n].stage = "ping"
      /\ \A m \in Nodes \ {n} : holder'[m] = holder[m] /\ task'[m] = task[m]
      /\ holder'[n] = [holder[n] EXCEPT !.stage = "answered"]
      /\ task' = task
      /\ task[n] \in Seq(Nodes)
  BY DEF HandlePing, At, IInv, TypeOK
<1>2. /\ holder'[n] \in Holders
      /\ holder'[n].stage = "answered"
      /\ holder'[n].by = holder[n].by
      /\ holder'[n] # NoHolder
  BY <1>1, HolderAssumption DEF Holders
<1>3. Handled(n) = 0 /\ Handled(n)' = IF holder[n].by = "task" THEN 1 ELSE 0
  BY <1>1, <1>2 DEF Handled, At
<1>4. /\ IsFiniteSet(Units(ToEnter'))
      /\ Cardinality(Updating') + Cardinality(Units(ToEnter')) + 1
            = Cardinality(Updating) + Cardinality(Units(ToEnter))
  <2>1. n \notin Updating' /\ (n \in Updating <=> holder[n].by = "rpc")
    BY <1>1, <1>2 DEF Updating, At
  <2>2. ToEnter[n] = Len(task[n]) /\ ToEnter'[n] = Len(task[n]) - Handled(n)'
        /\ Len(task[n]) \in Nat
    <3>1. ToEnter[n] = Len(task[n]) - Handled(n)
      BY LeftToEnter
    <3>2. ToEnter'[n] = Len(task[n]) - Handled(n)'
      BY <1>1 DEF ToEnter
    <3>3. Len(task[n]) \in Nat
      BY <1>1
    <3> QED BY <1>3, <3>1, <3>2, <3>3
  <2>3. CASE holder[n].by = "rpc"
    <3>1. Cardinality(Updating') = Cardinality(Updating) - 1
      BY <1>1, <2>1, <2>3, Updates
    <3>2. ToEnter'[n] = ToEnter[n]
      BY <1>3, <2>2, <2>3
    <3>3. /\ IsFiniteSet(Units(ToEnter'))
          /\ Cardinality(Units(ToEnter')) = Cardinality(Units(ToEnter))
      BY <1>1, <3>2, Entries
    <3> QED BY <3>1, <3>3, CountsAreNumbers
  <2>4. CASE holder[n].by = "task"
    <3>1. Cardinality(Updating') = Cardinality(Updating)
      BY <1>1, <2>1, <2>4, Updates
    <3>2. task[n] # <<>>
      BY <1>1, <2>4 DEF IInv, TaskHolds
    <3>3. ToEnter[n] > 0 /\ ToEnter'[n] = ToEnter[n] - 1
      BY <1>1, <1>3, <2>2, <2>4, <3>2
    <3>4. /\ IsFiniteSet(Units(ToEnter'))
          /\ Cardinality(Units(ToEnter')) = Cardinality(Units(ToEnter)) - 1
      BY <1>1, <3>3, Entries
    <3> QED BY <3>1, <3>4, CountsAreNumbers
  <2> QED BY <1>1, <2>3, <2>4 DEF Holders
<1>5. /\ IsFiniteSet(Units(Goroutines'))
      /\ Cardinality(Units(Goroutines')) <= Cardinality(Units(Goroutines)) + 1
  <2>1. CASE Pinged(n) \in Nodes
    <3>1. Spawn(Pinged(n), n)
      BY DEF HandlePing
    <3> QED BY <2>1, <3>1, Waits, CountsAreNumbers
  <2>2. CASE Pinged(n) \notin Nodes
    <3>1. UNCHANGED waiting
      BY <2>2 DEF HandlePing, Spawn, IInv, TypeOK
    <3> QED BY <3>1, SameGoroutines, CountsAreNumbers
  <2> QED BY <2>1, <2>2
<1>6. Started' = Started /\ entered' = entered
  BY SameStarted DEF HandlePing
<1>7. /\ Cardinality(Updating') \in Nat
      /\ Cardinality(Units(ToEnter')) \in Nat
      /\ Cardinality(Units(Goroutines')) \in Nat
  BY <1>4, <1>5, FiniteUpdating, FS_CardinalityType
<1> QED BY <1>4, <1>5, <1>6, <1>7, FiniteUpdating, CountsAreNumbers, Balance

\* A task brings as many contacts as its lookup has found.
LEMMA EnterContactsBound ==
    ASSUME IInv, NEW n \in Nodes, NEW S \in SUBSET (Nodes \ {n}), EnterContacts(n, S)
    PROVE  Bound'
<1>1. PICK s \in SetToSeqs(S) : task' = [task EXCEPT ![n] = s]
  BY DEF EnterContacts
<1>2. Cardinality(S) \in Nat /\ Len(s) = Cardinality(S)
  <2>1. Cardinality(S) \in Nat
    BY KAssumption DEF EnterContacts
  <2> QED BY <2>1, Listed
<1>3. /\ \A m \in Nodes \ {n} : holder'[m] = holder[m] /\ task'[m] = task[m]
      /\ task'[n] = s
      /\ task[n] = <<>>
      /\ holder' = holder
  BY <1>1 DEF EnterContacts, IInv, TypeOK
<1>4. Handled(n) = 0 /\ Handled(n)' = 0
  BY <1>3 DEF Handled, At, IInv, TaskHolds
<1>5. ToEnter[n] = 0 /\ ToEnter'[n] = Cardinality(S)
  BY <1>2, <1>3, <1>4 DEF ToEnter
<1>6. /\ IsFiniteSet(Units(ToEnter'))
      /\ Cardinality(Units(ToEnter')) = Cardinality(Units(ToEnter)) + Cardinality(S)
  BY <1>2, <1>3, <1>5, Entries
<1>7. /\ IsFiniteSet(Units(Goroutines'))
      /\ Cardinality(Units(Goroutines')) = Cardinality(Units(Goroutines))
  BY SameGoroutines DEF EnterContacts
<1>8. Updating' = Updating
  BY <1>3 DEF Updating, At
<1>9. Started' = Started /\ entered' = entered + Cardinality(S)
  BY SameStarted DEF EnterContacts
<1> QED BY <1>2, <1>6, <1>7, <1>8, <1>9, CountsAreNumbers
        DEF Bound, IInv, Counted, NoAmplification

\* A crash loses goroutines, an update and a task.
LEMMA CrashBound ==
    ASSUME IInv, NEW n \in Nodes, Crash(n)
    PROVE  Bound'
<1>1. /\ \A m \in Nodes \ {n} :
            holder'[m] = holder[m] /\ task'[m] = task[m] /\ waiting'[m] = waiting[m]
      /\ holder'[n] = NoHolder
      /\ task'[n] = <<>>
      /\ waiting'[n] = [c \in Nodes |-> 0]
  BY DEF Crash, IInv, TypeOK
<1>2. /\ IsFiniteSet(Units(Goroutines'))
      /\ Cardinality(Units(Goroutines')) <= Cardinality(Units(Goroutines))
  <2>1. DOMAIN Goroutines' = DOMAIN Goroutines
    BY DEF Goroutines
  <2>2. ASSUME NEW p \in Nodes \X Nodes
        PROVE  Goroutines'[p] = Goroutines[p] \/ Goroutines'[p] = 0
    BY <1>1 DEF Goroutines
  <2>3. \A p \in DOMAIN Goroutines : Goroutines'[p] = Goroutines[p] \/ Goroutines'[p] = 0
    BY <2>2 DEF Goroutines
  <2> QED BY <2>1, <2>3, NoMore DEF IInv, Counted
<1>3. /\ IsFiniteSet(Units(ToEnter'))
      /\ Cardinality(Units(ToEnter')) <= Cardinality(Units(ToEnter))
  <2>1. DOMAIN ToEnter' = DOMAIN ToEnter
    BY DEF ToEnter
  <2>2. ToEnter'[n] = 0
    BY <1>1 DEF ToEnter, Handled, At
  <2>3. \A m \in Nodes \ {n} : ToEnter'[m] = ToEnter[m]
    BY <1>1 DEF ToEnter, Handled, At
  <2>4. \A m \in DOMAIN ToEnter : ToEnter'[m] = ToEnter[m] \/ ToEnter'[m] = 0
    BY <2>2, <2>3 DEF ToEnter
  <2> QED BY <2>1, <2>4, NoMore DEF IInv, Counted
<1>4. Cardinality(Updating') <= Cardinality(Updating)
  <2>1. n \notin Updating'
    BY <1>1 DEF Updating, At
  <2> QED BY <1>1, <2>1, Updates, CountsAreNumbers
<1>5. Started' = Started /\ entered' = entered
  <2>1. \A i \in Calls : call'[i].stage = "idle" <=> call[i].stage = "idle"
    BY DEF Crash, IInv, TypeOK
  <2> QED BY <2>1, StartedSame DEF Crash
<1>6. /\ Cardinality(Updating') \in Nat
      /\ Cardinality(Units(ToEnter')) \in Nat
      /\ Cardinality(Units(Goroutines')) \in Nat
  BY <1>2, <1>3, FiniteUpdating, FS_CardinalityType
<1> QED BY <1>2, <1>3, <1>4, <1>5, <1>6, FiniteUpdating, CountsAreNumbers, Balance

LEMMA BoundStep == IInv /\ [Next]_vars => Bound'
<1> SUFFICES ASSUME IInv, [Next]_vars PROVE Bound'
  OBVIOUS
<1>1. ASSUME NEW i \in Calls, RLock(i) PROVE Bound'
  <2>1. UNCHANGED <<Goroutines, Updating, ToEnter, entered>>
    BY <1>1 DEF RLock, Goroutines, Updating, ToEnter, Handled, At
  <2>2. Started' = Started
    <3>1. \A j \in Calls : call'[j].stage = "idle" <=> call[j].stage = "idle"
      BY <1>1 DEF RLock, IInv, TypeOK
    <3> QED BY <3>1, StartedSame
  <2> QED BY <2>1, <2>2 DEF IInv, Bound, Counted, NoAmplification
<1>2. ASSUME NEW n \in Nodes, LockTask(n) PROVE Bound'
  <2>1. /\ holder[n] = NoHolder
        /\ holder'[n] = [c |-> Head(task[n]), by |-> "task", stage |-> "locked"]
        /\ \A m \in Nodes \ {n} : holder'[m] = holder[m]
    BY <1>2 DEF LockTask, Hold, IInv, TypeOK
  <2>2. n \notin Updating' /\ n \notin Updating /\ Handled(n) = 0 /\ Handled(n)' = 0
    BY <2>1 DEF Updating, Handled, At
  <2>3. UNCHANGED <<waiting, task, call, entered>>
    BY <1>2 DEF LockTask
  <2> QED BY <2>1, <2>2, <2>3, HolderBound
<1>3. ASSUME NEW n \in Nodes, Refresh(n) \/ Split(n) \/ Ping(n) PROVE Bound'
  <2>1. CASE Refresh(n)
    BY <2>1, ReleaseBound DEF Refresh, At
  <2>2. CASE Split(n)
    <3>1. UNCHANGED <<waiting, holder, task, call, entered>>
      BY <2>2 DEF Split
    <3>2. (n \in Updating' <=> n \in Updating) /\ Handled(n)' = Handled(n)
      BY <3>1 DEF Updating, Handled, At
    <3> QED BY <3>1, <3>2, HolderBound
  <2>3. CASE Ping(n)
    <3>1. /\ holder[n] # NoHolder /\ holder[n].stage = "locked" /\ holder[n] \in Holders
          /\ holder'[n] = [holder[n] EXCEPT !.stage = "ping"]
          /\ \A m \in Nodes \ {n} : holder'[m] = holder[m]
      BY <2>3 DEF Ping, At, IInv, TypeOK
    <3>2. /\ holder'[n] # NoHolder /\ holder'[n].stage = "ping"
          /\ holder'[n].by = holder[n].by
      BY <3>1, HolderAssumption DEF Holders
    <3>3. (n \in Updating' <=> n \in Updating) /\ Handled(n)' = Handled(n)
      BY <3>1, <3>2 DEF Updating, Handled, At
    <3>4. UNCHANGED <<waiting, task, call, entered>>
      BY <2>3 DEF Ping
    <3> QED BY <3>1, <3>3, <3>4, HolderBound
  <2> QED BY <1>3, <2>1, <2>2, <2>3
<1>4. ASSUME NEW n \in Nodes, PingReturns(n) \/ PingRefused(n) \/ PingTimeout(n)
      PROVE  Bound'
  BY <1>4, ReleaseBound DEF PingReturns, PingRefused, PingTimeout, Evict, At
<1>5. CASE (\E n \in Nodes : Restart(n)) \/ UNCHANGED vars
  <2>1. UNCHANGED <<waiting, holder, task, call, entered>>
    BY <1>5 DEF Restart, vars
  <2>2. UNCHANGED <<Goroutines, Updating, ToEnter, Started, entered>>
    BY <2>1 DEF Goroutines, Updating, ToEnter, Handled, At, Started
  <2> QED BY <2>2 DEF IInv, Bound, Counted, NoAmplification
<1> QED BY <1>1, <1>2, <1>3, <1>4, <1>5, FindBound, LockBound, HandlePingBound,
           EnterContactsBound, CrashBound DEF Next, Step

-----------------------------------------------------------------------------
(* The theorem *)

LEMMA Initially == Init => IInv
<1> SUFFICES ASSUME Init PROVE IInv
  OBVIOUS
<1>1. TypeOK
  BY DEF Init, TypeOK
<1>2. TaskHolds
  BY DEF Init, TaskHolds
<1>3. Units(Goroutines) = {} /\ Units(ToEnter) = {} /\ Started = {} /\ Updating = {}
  <2>1. \A p \in DOMAIN Goroutines : Goroutines[p] = 0
    BY DEF Init, Goroutines
  <2>2. \A n \in DOMAIN ToEnter : ToEnter[n] = 0
    BY DEF Init, ToEnter, Handled, At
  <2>3. Units(Goroutines) = {}
    BY <2>1 DEF Units
  <2>4. Units(ToEnter) = {}
    BY <2>2 DEF Units
  <2> QED BY <2>3, <2>4 DEF Init, Started, Updating, At
<1>4. entered = 0
  BY DEF Init
<1> QED BY <1>1, <1>2, <1>3, <1>4, FS_EmptySet DEF IInv, Counted, NoAmplification

LEMMA IInvHolds == Spec => []IInv
<1>1. IInv /\ [Next]_vars => IInv'
  BY TypeStep, TaskHoldsStep, BoundStep DEF IInv, Bound
<1> QED BY <1>1, Initially, PTL DEF Spec

\* However many nodes there are, wherever their keys lie, and whatever buckets
\* and contacts their tables have come to: updates with a ping each
\* (UpdateContact) and the updates that these pings cause (parseSrc) are
\* together never more than the RPCs and entries that started them, with
\* crashes and timeouts anywhere.
THEOREM NoAmplificationHolds == Spec => []NoAmplification
<1>1. IInv => NoAmplification
  BY DEF IInv
<1> QED BY <1>1, IInvHolds, PTL
=============================================================================

---------------------------- MODULE LookupProofs ----------------------------
(***************************************************************************)
(* Proofs about Lookup, for every network, every shortlist length, every   *)
(* degree of parallelism and every interleaving of replies and failures.   *)
(* ResultAnswered and PeersReturned hold also for networks in which a key  *)
(* is known under several addresses; what the shortlist promises is proved *)
(* for networks of one address per key (OneAddress).                       *)
(***************************************************************************)
EXTENDS Lookup, SequenceTheorems, WellFoundedInduction, TLAPS

AnsweredIDs == {c.id : c \in answered}
OpenIDs == {round[i].id : i \in open}

\* A key is marked as contacted only while its call is open or after an
\* answer under this key: a failed call takes the mark away again.
MarkedInv ==
    /\ contacted \subseteq OpenIDs \cup AnsweredIDs
    /\ late \subseteq open
    /\ \A i \in late : round[i] \in answered
    /\ pc # "wait" => open = {}
    /\ outcome = "contacts" => pc = "done" /\ AllContacted

\* The value in peers and the keys marked as having peers go together.
PeersInv ==
    /\ hasPeers # {} => peers # NoContact
    /\ peers # NoContact => peers \in answered /\ peers.id \in hasPeers
    /\ outcome = "peers" => peers # NoContact
    /\ pc = "done" /\ peers # NoContact => outcome = "peers"
    /\ pc # "wait" => open = {} /\ late = {}
    /\ late \subseteq open
    /\ pc = "begin" => peers = NoContact

\* Marks: each step keeps MarkedInv.
LEMMA MarkedStep == MarkedInv /\ [Next]_vars => MarkedInv'
<1> SUFFICES ASSUME MarkedInv, [Next]_vars PROVE MarkedInv'
  OBVIOUS
<1> USE DEF MarkedInv, AnsweredIDs, OpenIDs
<1>1. CASE NoCloseNodes
  BY <1>1 DEF NoCloseNodes, Return, shortlist, calls, history, AllContacted
<1>2. CASE Begin
  BY <1>2 DEF Begin, calls
<1>3. CASE Pick
  <2>1. /\ open = {} /\ late = {} /\ outcome # "contacts"
        /\ contacted \subseteq AnsweredIDs
    BY <1>3 DEF Pick
  <2>2. UNCHANGED <<contacted, open, late, answered, outcome>> /\ pc' = "wait"
    BY <1>3 DEF Pick, shortlist, history
  <2> QED BY <2>1, <2>2
<1>13. CASE Ask
  <2>1. /\ pc = "wait" /\ open' = open \cup {asked + 1}
        /\ contacted' = contacted \cup {round[asked + 1].id}
        /\ UNCHANGED <<pc, round, late, answered, outcome>>
    BY <1>13 DEF Ask, StartCall, history
  <2> QED BY <2>1
<1>4. ASSUME NEW i \in open, CloseOrLate(i), contacted' = contacted
      PROVE  MarkedInv'
  <2>1. /\ pc = "wait" /\ pc' = "wait" /\ outcome' = outcome /\ round' = round
        /\ answered' = answered \cup {round[i]}
        /\ open' = open \/ open' = open \ {i}
        /\ i \notin late
        /\ \/ open' = open \ {i} /\ late' = late
           \/ open' = open /\ late' = late \cup {i}
    BY <1>4 DEF CloseOrLate, Close
  <2> QED BY <1>4, <2>1
<1>5. ASSUME NEW i \in open, ReplyContacts(i)
      PROVE  MarkedInv'
  BY <1>4, <1>5 DEF ReplyContacts
<1>6. ASSUME NEW i \in open, ReplyPeers(i)
      PROVE  MarkedInv'
  BY <1>4, <1>6 DEF ReplyPeers
<1>7. ASSUME NEW i \in open, InsertAgain(i)
      PROVE  MarkedInv'
  BY <1>7 DEF InsertAgain, Close, history
<1>8. ASSUME NEW i \in open, Fail(i)
      PROVE  MarkedInv'
  BY <1>8 DEF Fail, Close
<1>9. CASE ReturnPeers \/ ReturnUnreachable
  BY <1>9 DEF ReturnPeers, ReturnUnreachable, RoundOver, Return, shortlist, calls, history
<1>10. CASE CloserFound \/ AskTheRest
  BY <1>10 DEF CloserFound, AskTheRest, RoundOver, NextRound, shortlist, calls, history
<1>11. CASE ReturnContacts
  BY <1>11 DEF ReturnContacts, RoundOver, Return, shortlist, calls, history, AllContacted
<1>12. CASE UNCHANGED vars
  BY <1>12 DEF vars, AllContacted
<1> QED
  BY <1>1, <1>2, <1>3, <1>5, <1>6, <1>7, <1>8, <1>9, <1>10, <1>11, <1>12, <1>13
     DEF Next, Call

\* MarkedInv is an invariant of every lookup.
THEOREM MarkedHolds == Spec => []MarkedInv
<1>1. Init => MarkedInv
  BY DEF Init, MarkedInv, AnsweredIDs, OpenIDs
<1> QED BY <1>1, MarkedStep, PTL DEF Spec

\* Every key that FindNode returns has answered a query of the same lookup,
\* whatever failed and in whatever order the replies came.
THEOREM ResultAnsweredHolds == Spec => []ResultAnswered
<1>1. MarkedInv => ResultAnswered
  BY DEF MarkedInv, AnsweredIDs, OpenIDs, ResultAnswered, AllContacted
<1> QED BY <1>1, MarkedHolds, PTL

\* Peers: each step keeps PeersInv.
LEMMA PeersStep == PeersInv /\ [Next]_vars => PeersInv'
<1> SUFFICES ASSUME PeersInv, [Next]_vars PROVE PeersInv'
  OBVIOUS
<1> USE DEF PeersInv
<1>1. CASE NoCloseNodes
  BY <1>1 DEF NoCloseNodes, Return, shortlist, calls, history
<1>2. CASE Begin
  BY <1>2 DEF Begin, calls
<1>3. CASE Pick \/ Ask
  BY <1>3 DEF Pick, Ask, StartCall, shortlist, history
<1>4. ASSUME NEW i \in open, ReplyContacts(i)
      PROVE  PeersInv'
  BY <1>4 DEF ReplyContacts, CloseOrLate, Close
<1>5. ASSUME NEW i \in open, ReplyPeers(i)
      PROVE  PeersInv'
  <2>1. round[i] # NoContact
    BY <1>5, NetworkAssumption DEF ReplyPeers
  <2> QED BY <1>5, <2>1 DEF ReplyPeers, CloseOrLate, Close
<1>6. ASSUME NEW i \in open, InsertAgain(i)
      PROVE  PeersInv'
  BY <1>6 DEF InsertAgain, Close, history
<1>7. ASSUME NEW i \in open, Fail(i)
      PROVE  PeersInv'
  BY <1>7 DEF Fail, Close
<1>8. CASE ReturnPeers \/ ReturnUnreachable \/ ReturnContacts
  BY <1>8 DEF ReturnPeers, ReturnUnreachable, ReturnContacts, RoundOver, Return,
              shortlist, calls, history
<1>9. CASE CloserFound \/ AskTheRest
  BY <1>9 DEF CloserFound, AskTheRest, RoundOver, NextRound, shortlist, calls, history
<1>10. CASE UNCHANGED vars
  BY <1>10 DEF vars
<1> QED
  BY <1>1, <1>2, <1>3, <1>4, <1>5, <1>6, <1>7, <1>8, <1>9, <1>10 DEF Next, Call

\* Peers that a contact returned are what the lookup returns, and no lookup
\* returns peers that no contact gave it.
THEOREM PeersReturnedHolds == Spec => []PeersReturned
<1>1. Init => PeersInv
  BY DEF Init, PeersInv
<1>2. PeersInv => PeersReturned
  BY DEF PeersInv, PeersReturned
<1> QED BY <1>1, <1>2, PeersStep, PTL DEF Spec

-----------------------------------------------------------------------------
(* Induction over the natural numbers, as a fact about sets of them *)

\* A set of naturals that is not empty has a least element.
LEMMA LeastNatural ==
    ASSUME NEW T \in SUBSET Nat, T # {}
    PROVE  \E m \in T : \A n \in T : m <= n
<1> DEFINE R == {ss \in Nat \X Nat : ss[1] < ss[2]}
<1>1. IsWellFoundedOn(R, Nat)
  BY NatLessThanWellFounded DEF OpToRel
<1> HIDE DEF R
<1>2. PICK x \in T : \A y \in T : <<y, x>> \notin R
  BY <1>1, WFMin
<1>3. \A y \in T : ~(y < x)
  BY <1>2 DEF R
<1>4. x \in Nat /\ \A y \in T : y \in Nat
  OBVIOUS
<1> QED BY <1>3, <1>4

\* What holds of 0, and of a number up to n with its predecessor, holds up to n.
LEMMA InductionUpTo ==
    ASSUME NEW n \in Nat, NEW S, 0 \in S,
           \A i \in 1 .. n : i - 1 \in S => i \in S
    PROVE  0 .. n \subseteq S
<1> SUFFICES ASSUME (0 .. n) \ S # {} PROVE FALSE
  OBVIOUS
<1> DEFINE T == (0 .. n) \ S
<1>1. PICK m \in T : \A i \in T : m <= i
  <2>1. T \in SUBSET Nat
    OBVIOUS
  <2> HIDE DEF T
  <2> QED BY <2>1, LeastNatural DEF T
<1>2. m \in 1 .. n /\ m - 1 \in 0 .. n
  BY <1>1
<1> QED BY <1>1, <1>2

\* Iterating a step function n times, from a base on.
Iterable(n, S, base, step) ==
    n \in Nat /\ base \in S /\ step \in [(1 .. n) \X S -> S]
Iteration(n, S, base, step, f) ==
    f \in [0 .. n -> S] /\ f[0] = base /\ \A i \in 1 .. n : f[i] = step[<<i, f[i - 1]>>]

\* Recursive functions over 0 .. n exist.
LEMMA Iterates ==
    ASSUME NEW n, NEW S, NEW base, NEW step, Iterable(n, S, base, step)
    PROVE  \E f : Iteration(n, S, base, step, f)
<1> n \in Nat /\ base \in S /\ step \in [(1 .. n) \X S -> S]
  BY DEF Iterable
<1> DEFINE T == {k \in 0 .. n : \E f : Iteration(k, S, base, step, f)}
<1>1. 0 \in T
  <2>1. Iteration(0, S, base, step, [j \in 0 .. 0 |-> base])
    BY DEF Iteration
  <2> QED BY <2>1
<1>2. ASSUME NEW i \in 1 .. n, i - 1 \in T
      PROVE  i \in T
  <2>1. PICK f : Iteration(i - 1, S, base, step, f)
    BY <1>2
  <2>2. /\ f \in [0 .. i - 1 -> S] /\ f[0] = base
        /\ \A j \in 1 .. i - 1 : f[j] = step[<<j, f[j - 1]>>]
    BY <2>1 DEF Iteration
  <2> DEFINE g == [j \in 0 .. i |-> IF j = i THEN step[<<i, f[i - 1]>>] ELSE f[j]]
  <2>3. step[<<i, f[i - 1]>>] \in S
    BY <2>2
  <2>4. g \in [0 .. i -> S] /\ g[0] = base
    BY <2>2, <2>3
  <2>5. ASSUME NEW j \in 1 .. i
        PROVE  g[j] = step[<<j, g[j - 1]>>]
    <3>1. j \in 0 .. i /\ j - 1 \in 0 .. i /\ j - 1 # i
      OBVIOUS
    <3>2. g[j - 1] = f[j - 1]
      BY <3>1
    <3>3. CASE j = i
      BY <3>1, <3>2, <3>3
    <3>4. CASE j # i
      BY <2>2, <3>1, <3>2, <3>4
    <3> QED BY <3>3, <3>4
  <2>6. Iteration(i, S, base, step, g)
    <3> HIDE DEF g
    <3> QED BY <2>4, <2>5 DEF Iteration
  <2> QED BY <2>6
<1>3. n \in T
  <2> HIDE DEF T
  <2>1. 0 .. n \subseteq T
    BY <1>1, <1>2, InductionUpTo
  <2> QED BY <2>1
<1> QED BY <1>3

-----------------------------------------------------------------------------
(* The shortlist *)

\* A key is known under one address.
OneAddress == \A c, d \in Contacts : c.id = d.id => c = d

Distance(c) == Dist[c.id]

Ordered(l) == \A i, j \in DOMAIN l : i < j => Distance(l[i]) < Distance(l[j])

\* l has the closest of the contacts A: all others are farther than K of them.
Keeps(l, A) ==
    /\ Range(l) \subseteq A
    /\ \A c \in A \ Range(l) : Len(l) >= K /\ Distance(l[K]) < Distance(c)

LEMMA Distances ==
    /\ \A c \in Contacts : Distance(c) \in Nat
    /\ OneAddress => \A c, d \in Contacts : Distance(c) = Distance(d) => c = d
<1>1. \A c \in Contacts : c.id \in IDs
  BY DEF IDs
<1> QED BY <1>1, DistAssumption DEF Distance, OneAddress

LEMMA InRange ==
    ASSUME NEW S, NEW l \in Seq(S), NEW x
    PROVE  x \in Range(l) <=> \E i \in 1 .. Len(l) : l[i] = x
BY DEF Range

LEMMA SearchPlace ==
    ASSUME NEW l \in Seq(Contacts), NEW c \in Contacts
    PROVE  /\ search(l, c) \in 1 .. Len(l) + 1
           /\ \A i \in 1 .. search(l, c) - 1 : Distance(l[i]) < Distance(c)
           /\ search(l, c) <= Len(l) => Distance(l[search(l, c)]) >= Distance(c)
<1> DEFINE T == {i \in DOMAIN l : Distance(l[i]) >= Distance(c)} \cup {Len(l) + 1}
<1>1. T \in SUBSET Nat /\ T # {} /\ T \subseteq 1 .. Len(l) + 1
  OBVIOUS
<1>2. \E m \in T : \A n \in T : m <= n
  <2> HIDE DEF T
  <2> QED BY <1>1, LeastNatural
<1>3. search(l, c) = Min(T)
  BY DEF search, Distance
<1>4. search(l, c) \in T /\ \A n \in T : search(l, c) <= n
  <2> HIDE DEF T
  <2> QED BY <1>2, <1>3 DEF Min
<1>5. \A i \in 1 .. Len(l) : Distance(l[i]) \in Nat /\ Distance(c) \in Nat
  BY Distances
<1>6. ASSUME NEW i \in 1 .. search(l, c) - 1
      PROVE  Distance(l[i]) < Distance(c)
  <2>1. i \in 1 .. Len(l) /\ i < search(l, c)
    BY <1>1, <1>4
  <2>2. ASSUME i \in T PROVE FALSE
    <3>1. search(l, c) <= i
      BY <1>4, <2>2
    <3>2. search(l, c) \in Nat /\ i \in Nat
      BY <1>1, <1>4
    <3> QED BY <2>1, <3>1, <3>2
  <2> QED BY <1>5, <2>1, <2>2
<1> QED BY <1>1, <1>4, <1>6

LEMMA Inserted ==
    ASSUME NEW S, NEW l \in Seq(S), NEW c \in S, NEW p \in 1 .. Len(l) + 1
    PROVE  /\ InsertAt(l, p, c) \in Seq(S)
           /\ Len(InsertAt(l, p, c)) = Len(l) + 1
           /\ \A i \in 1 .. p - 1 : InsertAt(l, p, c)[i] = l[i]
           /\ InsertAt(l, p, c)[p] = c
           /\ \A i \in p .. Len(l) : InsertAt(l, p, c)[i + 1] = l[i]
<1> DEFINE a == SubSeq(l, 1, p - 1)
           b == SubSeq(l, p, Len(l))
           ac == a \o <<c>>
<1>1. Len(l) \in Nat /\ p \in Nat \ {0} /\ p <= Len(l) + 1
  OBVIOUS
<1>2. a \in Seq(S) /\ Len(a) = p - 1 /\ \A i \in 1 .. p - 1 : a[i] = l[i]
  <2>1. \A i \in 1 .. p - 1 : l[i] \in S
    BY <1>1
  <2> QED BY <1>1, <2>1, SubSeqProperties
<1>3. /\ b \in Seq(S) /\ Len(b) = Len(l) - p + 1
      /\ \A i \in 1 .. Len(l) - p + 1 : b[i] = l[p + i - 1]
  <2>1. \A i \in p .. Len(l) : l[i] \in S
    BY <1>1
  <2> QED BY <1>1, <2>1, SubSeqProperties
<1>4. ac = Append(a, c)
  BY <1>2, AppendIsConcat
<1>5. InsertAt(l, p, c) = ac \o b
  BY DEF InsertAt
<1> HIDE DEF a, b
<1>6. /\ ac \in Seq(S) /\ Len(ac) = p /\ ac[p] = c
      /\ \A i \in 1 .. p - 1 : ac[i] = l[i]
  <2>1. /\ Append(a, c) \in Seq(S) /\ Len(Append(a, c)) = p - 1 + 1
        /\ \A i \in 1 .. p - 1 : Append(a, c)[i] = a[i]
        /\ Append(a, c)[p - 1 + 1] = c
    BY <1>2, AppendProperties
  <2> QED BY <1>1, <1>2, <1>4, <2>1
<1> HIDE DEF ac
<1>7. /\ ac \o b \in Seq(S) /\ Len(ac \o b) = p + (Len(l) - p + 1)
      /\ \A i \in 1 .. p + (Len(l) - p + 1) :
            (ac \o b)[i] = IF i <= p THEN ac[i] ELSE b[i - p]
  BY <1>3, <1>6, ConcatProperties
<1>8. p + (Len(l) - p + 1) = Len(l) + 1
  BY <1>1
<1>9. ASSUME NEW i \in p .. Len(l)
      PROVE  (ac \o b)[i + 1] = l[i]
  <2>1. /\ i + 1 \in 1 .. Len(l) + 1 /\ ~(i + 1 <= p) /\ i + 1 - p \in 1 .. Len(l) - p + 1
        /\ p + (i + 1 - p) - 1 = i
    BY <1>1
  <2> QED BY <1>3, <1>7, <1>8, <2>1
<1>10. \A i \in 1 .. p : i \in 1 .. Len(l) + 1 /\ (ac \o b)[i] = ac[i]
  BY <1>1, <1>7, <1>8
<1> QED BY <1>1, <1>5, <1>6, <1>7, <1>8, <1>9, <1>10

LEMMA Removed ==
    ASSUME NEW S, NEW l \in Seq(S), NEW p \in 1 .. Len(l)
    PROVE  /\ RemoveAt(l, p) \in Seq(S)
           /\ Len(RemoveAt(l, p)) = Len(l) - 1
           /\ \A i \in 1 .. p - 1 : RemoveAt(l, p)[i] = l[i]
           /\ \A i \in p .. Len(l) - 1 : RemoveAt(l, p)[i] = l[i + 1]
<1> DEFINE a == SubSeq(l, 1, p - 1)
           b == SubSeq(l, p + 1, Len(l))
<1>1. Len(l) \in Nat /\ p \in Nat \ {0} /\ p <= Len(l)
  OBVIOUS
<1>2. a \in Seq(S) /\ Len(a) = p - 1 /\ \A i \in 1 .. p - 1 : a[i] = l[i]
  <2>1. \A i \in 1 .. p - 1 : l[i] \in S
    BY <1>1
  <2> QED BY <1>1, <2>1, SubSeqProperties
<1>3. /\ b \in Seq(S) /\ Len(b) = Len(l) - p
      /\ \A i \in 1 .. Len(l) - p : b[i] = l[p + i]
  <2>1. \A i \in p + 1 .. Len(l) : l[i] \in S
    BY <1>1
  <2>2. /\ b \in Seq(S)
        /\ Len(b) = IF p + 1 <= Len(l) THEN Len(l) - (p + 1) + 1 ELSE 0
        /\ \A i \in 1 .. Len(l) - (p + 1) + 1 : b[i] = l[p + 1 + i - 1]
    BY <1>1, <2>1, SubSeqProperties
  <2>3. \A i \in 1 .. Len(l) - p : i \in 1 .. Len(l) - (p + 1) + 1 /\ p + 1 + i - 1 = p + i
    BY <1>1
  <2> HIDE DEF b
  <2>4. \A i \in 1 .. Len(l) - p : b[i] = l[p + i]
    BY <2>2, <2>3
  <2> QED BY <1>1, <2>2, <2>4
<1>4. RemoveAt(l, p) = a \o b
  BY DEF RemoveAt
<1> HIDE DEF a, b
<1>5. /\ a \o b \in Seq(S) /\ Len(a \o b) = p - 1 + (Len(l) - p)
      /\ \A i \in 1 .. p - 1 + (Len(l) - p) :
            (a \o b)[i] = IF i <= p - 1 THEN a[i] ELSE b[i - (p - 1)]
  BY <1>2, <1>3, ConcatProperties
<1>6. p - 1 + (Len(l) - p) = Len(l) - 1
  BY <1>1
<1>7. ASSUME NEW i \in p .. Len(l) - 1
      PROVE  (a \o b)[i] = l[i + 1]
  <2>1. /\ i \in 1 .. Len(l) - 1 /\ ~(i <= p - 1) /\ i - (p - 1) \in 1 .. Len(l) - p
        /\ p + (i - (p - 1)) = i + 1
    BY <1>1
  <2> QED BY <1>3, <1>5, <1>6, <2>1
<1>8. \A i \in 1 .. p - 1 : i \in 1 .. Len(l) - 1 /\ (a \o b)[i] = a[i]
  BY <1>1, <1>5, <1>6
<1> QED BY <1>2, <1>4, <1>5, <1>6, <1>7, <1>8

LEMMA InsertOneType ==
    ASSUME NEW l \in Seq(Contacts), NEW c \in Contacts
    PROVE  InsertOne(l, c) \in Seq(Contacts)
BY SearchPlace, Inserted DEF InsertOne

\* An ordered list finds every contact that it has.
LEMMA PresentIffInList ==
    ASSUME OneAddress, NEW l \in Seq(Contacts), Ordered(l), NEW c \in Contacts
    PROVE  /\ Present(l, c) <=> c \in Range(l)
           /\ ~Present(l, c) /\ search(l, c) <= Len(l) =>
                Distance(c) < Distance(l[search(l, c)])
<1> DEFINE p == search(l, c)
<1>1. /\ p \in 1 .. Len(l) + 1
      /\ \A i \in 1 .. p - 1 : Distance(l[i]) < Distance(c)
      /\ p <= Len(l) => Distance(l[p]) >= Distance(c)
  BY SearchPlace
<1>2. Present(l, c) <=> p <= Len(l) /\ l[p] = c
  BY DEF Present
<1> HIDE DEF p
<1>3. \A i \in 1 .. Len(l) : l[i] \in Contacts /\ Distance(l[i]) \in Nat
  BY Distances
<1>4. Distance(c) \in Nat /\ Len(l) \in Nat
  BY Distances
<1>5. ASSUME NEW i \in 1 .. Len(l), l[i] = c
      PROVE  i = p
  <2>1. ~(i < p)
    BY <1>1, <1>4, <1>5
  <2>2. i > p => Distance(l[p]) < Distance(l[i])
    BY <1>1 DEF Ordered
  <2> QED BY <1>1, <1>3, <1>4, <1>5, <2>1, <2>2
<1>6. Present(l, c) => c \in Range(l)
  BY <1>1, <1>2, InRange
<1>7. c \in Range(l) => Present(l, c)
  BY <1>2, <1>5, InRange
<1>8. ASSUME p <= Len(l), l[p] # c
      PROVE  Distance(c) < Distance(l[p])
  <2>1. p \in 1 .. Len(l)
    BY <1>1, <1>8
  <2>2. Distance(l[p]) # Distance(c)
    BY <1>3, <1>8, <2>1, Distances
  <2> QED BY <1>1, <1>3, <1>4, <1>8, <2>1, <2>2
<1> QED BY <1>2, <1>6, <1>7, <1>8 DEF p

\* One more contact in the list, the list not cut yet.
LEMMA InsertOneKeeps ==
    ASSUME OneAddress, NEW l \in Seq(Contacts), Ordered(l), NEW c \in Contacts
    PROVE  /\ InsertOne(l, c) \in Seq(Contacts)
           /\ Ordered(InsertOne(l, c))
           /\ \A S \in SUBSET Contacts :
                Keeps(l, S) => Keeps(InsertOne(l, c), S \cup {c})
<1>1. CASE Present(l, c)
  <2>1. InsertOne(l, c) = l /\ c \in Range(l)
    BY <1>1, PresentIffInList DEF InsertOne
  <2> QED BY <2>1 DEF Keeps
<1>2. CASE ~Present(l, c)
  <2> DEFINE p == search(l, c)
             m == InsertAt(l, p, c)
  <2>1. /\ p \in 1 .. Len(l) + 1
        /\ \A i \in 1 .. p - 1 : Distance(l[i]) < Distance(c)
        /\ p <= Len(l) => Distance(c) < Distance(l[p])
    BY <1>2, SearchPlace, PresentIffInList
  <2>2. InsertOne(l, c) = m
    BY <1>2 DEF InsertOne
  <2> HIDE DEF p
  <2>3. /\ m \in Seq(Contacts)
        /\ Len(m) = Len(l) + 1
        /\ \A i \in 1 .. p - 1 : m[i] = l[i]
        /\ m[p] = c
        /\ \A i \in p .. Len(l) : m[i + 1] = l[i]
    BY <2>1, Inserted
  <2> HIDE DEF m
  <2>4. Len(l) \in Nat /\ p \in Nat \ {0} /\ p <= Len(l) + 1
    BY <2>1
  <2>5. \A i \in 1 .. Len(l) + 1 :
            \/ i \in 1 .. p - 1 /\ i \in 1 .. Len(l) /\ m[i] = l[i]
            \/ i = p
            \/ i > p /\ i - 1 \in p .. Len(l) /\ i - 1 \in 1 .. Len(l) /\ m[i] = l[i - 1]
    <3> SUFFICES ASSUME NEW i \in 1 .. Len(l) + 1, i > p
                 PROVE  i - 1 \in p .. Len(l) /\ i - 1 \in 1 .. Len(l) /\ m[i] = l[i - 1]
      BY <2>3, <2>4
    <3>1. i - 1 \in p .. Len(l) /\ i - 1 \in 1 .. Len(l) /\ (i - 1) + 1 = i
      BY <2>4
    <3> QED BY <2>3, <3>1
  <2>6. /\ \A i \in 1 .. Len(l) : Distance(l[i]) \in Nat
        /\ Distance(c) \in Nat
        /\ \A i, j \in 1 .. Len(l) : i < j => Distance(l[i]) < Distance(l[j])
    BY Distances DEF Ordered
  <2>7. \A i \in p .. Len(l) : Distance(c) < Distance(l[i])
    <3> SUFFICES ASSUME NEW i \in p .. Len(l) PROVE Distance(c) < Distance(l[i])
      OBVIOUS
    <3>1. p \in 1 .. Len(l) /\ i \in 1 .. Len(l) /\ (p = i \/ p < i)
      BY <2>4
    <3> QED BY <2>1, <2>6, <3>1
  <2>8. Ordered(m)
    <3> SUFFICES ASSUME NEW i \in 1 .. Len(l) + 1, NEW j \in 1 .. Len(l) + 1, i < j
                 PROVE  Distance(m[i]) < Distance(m[j])
      BY <2>3 DEF Ordered
    <3>1. CASE j < p
      <4>1. i \in 1 .. p - 1 /\ i \in 1 .. Len(l) /\ j \in 1 .. p - 1 /\ j \in 1 .. Len(l)
        BY <2>4, <3>1
      <4> QED BY <2>3, <2>6, <4>1
    <3>2. CASE j = p
      <4>1. i \in 1 .. p - 1
        BY <2>4, <3>2
      <4> QED BY <2>1, <2>3, <3>2, <4>1
    <3>3. CASE j > p
      <4>1. j - 1 \in p .. Len(l) /\ j - 1 \in 1 .. Len(l) /\ m[j] = l[j - 1]
        BY <2>4, <2>5, <3>3
      <4>2. CASE i < p
        <5>1. i \in 1 .. p - 1 /\ i \in 1 .. Len(l) /\ i < j - 1
          BY <2>4, <3>3, <4>2
        <5> QED BY <2>3, <2>6, <4>1, <5>1
      <4>3. CASE i = p
        BY <2>3, <2>7, <4>1, <4>3
      <4>4. CASE i > p
        <5>1. i - 1 \in 1 .. Len(l) /\ m[i] = l[i - 1] /\ i - 1 < j - 1
          BY <2>4, <2>5, <4>4
        <5> QED BY <2>6, <4>1, <5>1
      <4> QED BY <2>4, <4>2, <4>3, <4>4
    <3> QED BY <2>4, <3>1, <3>2, <3>3
  <2>9. Range(m) = Range(l) \cup {c}
    <3>1. \A x \in Range(m) : x \in Range(l) \cup {c}
      BY <2>3, <2>5, InRange
    <3>2. c \in Range(m)
      <4>1. p \in 1 .. Len(m)
        BY <2>3, <2>4
      <4> QED BY <2>3, <4>1, InRange
    <3>3. ASSUME NEW i \in 1 .. Len(l) PROVE l[i] \in Range(m)
      <4>1. CASE i < p
        <5>1. i \in 1 .. Len(m) /\ i \in 1 .. p - 1
          BY <2>3, <2>4, <4>1
        <5> QED BY <2>3, <5>1, InRange
      <4>2. CASE i >= p
        <5>1. i + 1 \in 1 .. Len(m) /\ i \in p .. Len(l)
          BY <2>3, <2>4, <4>2
        <5> QED BY <2>3, <5>1, InRange
      <4> QED BY <2>4, <4>1, <4>2
    <3>4. \A x \in Range(l) : x \in Range(m)
      BY <3>3, InRange
    <3> QED BY <3>1, <3>2, <3>4
  <2>10. \A i \in 1 .. Len(l) : Distance(m[i]) <= Distance(l[i])
    <3> SUFFICES ASSUME NEW i \in 1 .. Len(l) PROVE Distance(m[i]) <= Distance(l[i])
      OBVIOUS
    <3>1. CASE i < p
      <4>1. i \in 1 .. p - 1
        BY <2>4, <3>1
      <4> QED BY <2>3, <2>6, <4>1
    <3>2. CASE i = p
      BY <2>1, <2>3, <2>6, <3>2
    <3>3. CASE i > p
      <4>1. i - 1 \in 1 .. Len(l) /\ m[i] = l[i - 1] /\ i - 1 < i
        BY <2>4, <2>5, <3>3
      <4> QED BY <2>6, <4>1
    <3> QED BY <2>4, <3>1, <3>2, <3>3
  <2>11. ASSUME NEW S \in SUBSET Contacts, Keeps(l, S)
         PROVE  Keeps(m, S \cup {c})
    <3>1. Range(m) \subseteq S \cup {c}
      BY <2>9, <2>11 DEF Keeps
    <3>2. ASSUME NEW d \in (S \cup {c}) \ Range(m)
          PROVE  Len(m) >= K /\ Distance(m[K]) < Distance(d)
      <4>1. d \in S \ Range(l)
        BY <2>9, <3>2
      <4>2. Len(l) >= K /\ Distance(l[K]) < Distance(d)
        BY <2>11, <4>1 DEF Keeps
      <4>3. K \in 1 .. Len(l) /\ Len(m) >= K
        BY <2>3, <2>4, <4>2, SizesAssumption
      <4>4. Distance(m[K]) <= Distance(l[K])
        BY <2>10, <4>3
      <4>5. Distance(m[K]) \in Nat /\ Distance(l[K]) \in Nat /\ Distance(d) \in Nat
        <5>1. m[K] \in Contacts /\ l[K] \in Contacts /\ d \in Contacts
          BY <2>3, <4>1, <4>3
        <5> QED BY <5>1, Distances
      <4> QED BY <4>2, <4>3, <4>4, <4>5
    <3> QED BY <3>1, <3>2 DEF Keeps
  <2> QED BY <2>2, <2>3, <2>8, <2>11
<1> QED BY <1>1, <1>2

LEMMA ShrinkKeeps ==
    ASSUME NEW l \in Seq(Contacts), Ordered(l)
    PROVE  /\ Shrink(l) \in Seq(Contacts)
           /\ Ordered(Shrink(l))
           /\ Len(Shrink(l)) <= K
           /\ \A S \in SUBSET Contacts : Keeps(l, S) => Keeps(Shrink(l), S)
<1>1. CASE Len(l) <= K
  BY <1>1, SizesAssumption DEF Shrink
<1>2. CASE Len(l) > K
  <2> DEFINE m == SubSeq(l, 1, K)
  <2>1. K \in Nat \ {0} /\ Len(l) \in Nat
    BY SizesAssumption
  <2>2. m \in Seq(Contacts) /\ Len(m) = K /\ \A i \in 1 .. K : m[i] = l[i]
    <3>1. \A i \in 1 .. K : l[i] \in Contacts
      BY <1>2, <2>1
    <3> QED BY <2>1, <3>1, SubSeqProperties
  <2>3. Shrink(l) = m
    BY <1>2, <2>1 DEF Shrink
  <2> HIDE DEF m
  <2>4. Ordered(m)
    <3>1. \A i \in 1 .. K : i \in 1 .. Len(l)
      BY <1>2, <2>1
    <3> QED BY <2>2, <3>1 DEF Ordered
  <2>5. ASSUME NEW S \in SUBSET Contacts, Keeps(l, S)
        PROVE  Keeps(m, S)
    <3>1. Range(m) \subseteq Range(l)
      <4>1. \A i \in 1 .. K : i \in 1 .. Len(l)
        BY <1>2, <2>1
      <4> QED BY <2>2, <4>1, InRange
    <3>2. ASSUME NEW d \in S \ Range(m)
          PROVE  Distance(m[K]) < Distance(d)
      <4>1. m[K] = l[K] /\ K \in 1 .. Len(l)
        BY <1>2, <2>1, <2>2
      <4>2. CASE d \notin Range(l)
        BY <2>5, <4>1, <4>2 DEF Keeps
      <4>3. CASE d \in Range(l)
        <5>1. PICK i \in 1 .. Len(l) : l[i] = d
          BY <4>3, InRange
        <5>2. i \notin 1 .. K
          BY <2>2, <3>2, <5>1, InRange
        <5>3. K < i
          BY <2>1, <5>2
        <5> QED BY <4>1, <5>1, <5>3 DEF Ordered
      <4> QED BY <4>2, <4>3
    <3> QED BY <2>1, <2>2, <2>5, <3>1, <3>2 DEF Keeps
  <2> QED BY <2>1, <2>2, <2>3, <2>4, <2>5
<1> QED BY <1>1, <1>2, SizesAssumption

\* Insert is a recursion over the contacts of a reply.
LEMMA InsertRecursion ==
    ASSUME NEW l \in Seq(Contacts), NEW cs \in Seq(Contacts)
    PROVE  \E into : /\ into[0] = l
                     /\ \A i \in 1 .. Len(cs) : into[i] = InsertOne(into[i - 1], cs[i])
                     /\ Insert(l, cs) = Shrink(into[Len(cs)])
<1> DEFINE n == Len(cs)
           into[i \in 0 .. n] == IF i = 0 THEN l ELSE InsertOne(into[i - 1], cs[i])
           step == [x \in (1 .. n) \X Seq(Contacts) |-> InsertOne(x[2], cs[x[1]])]
<1>1. n \in Nat /\ \A i \in 1 .. n : cs[i] \in Contacts
  OBVIOUS
<1>2. step \in [(1 .. n) \X Seq(Contacts) -> Seq(Contacts)]
  <2>1. \A i \in 1 .. n, m \in Seq(Contacts) : InsertOne(m, cs[i]) \in Seq(Contacts)
    BY <1>1, InsertOneType
  <2> QED BY <2>1
<1>3. \A i \in 1 .. n, m \in Seq(Contacts) : step[<<i, m>>] = InsertOne(m, cs[i])
  OBVIOUS
<1>4. PICK f \in [0 .. n -> Seq(Contacts)] :
          f[0] = l /\ \A i \in 1 .. n : f[i] = step[<<i, f[i - 1]>>]
  <2>1. Iterable(n, Seq(Contacts), l, step)
    BY <1>1, <1>2 DEF Iterable
  <2>2. \E f : Iteration(n, Seq(Contacts), l, step, f)
    <3> HIDE DEF n, step
    <3> QED BY <2>1, Iterates
  <2> QED BY <2>2 DEF Iteration
<1>5. f = [i \in 0 .. n |-> IF i = 0 THEN l ELSE InsertOne(f[i - 1], cs[i])]
  <2>1. \A i \in 0 .. n :
            i # 0 => i \in 1 .. n /\ i - 1 \in 0 .. n /\ f[i - 1] \in Seq(Contacts)
    BY <1>1
  <2>2. \A i \in 0 .. n : f[i] = IF i = 0 THEN l ELSE InsertOne(f[i - 1], cs[i])
    <3> HIDE DEF step, n
    <3> QED BY <1>3, <1>4, <2>1
  <2> HIDE DEF step, n
  <2> QED BY <2>2
<1>6. into = [i \in 0 .. n |-> IF i = 0 THEN l ELSE InsertOne(into[i - 1], cs[i])]
  <2> HIDE DEF step, n
  <2> QED BY <1>5
<1>7. Insert(l, cs) = Shrink(into[n])
  BY DEF Insert
<1>8. into[0] = l /\ \A i \in 1 .. n : into[i] = InsertOne(into[i - 1], cs[i])
  <2>1. 0 \in 0 .. n /\ \A i \in 1 .. n : i \in 0 .. n /\ i # 0
    BY <1>1
  <2> HIDE DEF into, step, n
  <2> QED BY <1>6, <2>1
<1> HIDE DEF into
<1> QED BY <1>7, <1>8

\* What Insert does to the shortlist: in order, bounded, and the closest of all
\* contacts that it was given.
LEMMA InsertKeeps ==
    ASSUME OneAddress, NEW l \in Seq(Contacts), Ordered(l), NEW cs \in Seq(Contacts)
    PROVE  /\ Insert(l, cs) \in Seq(Contacts)
           /\ Ordered(Insert(l, cs))
           /\ Len(Insert(l, cs)) <= K
           /\ \A S \in SUBSET Contacts :
                Keeps(l, S) => Keeps(Insert(l, cs), S \cup Range(cs))
<1> DEFINE n == Len(cs)
           Upto(i) == {cs[j] : j \in 1 .. i}
<1>1. PICK into : /\ into[0] = l
                  /\ \A i \in 1 .. n : into[i] = InsertOne(into[i - 1], cs[i])
                  /\ Insert(l, cs) = Shrink(into[n])
  BY InsertRecursion
<1> DEFINE Good(i) ==
              /\ into[i] \in Seq(Contacts)
              /\ Ordered(into[i])
              /\ \A S \in SUBSET Contacts : Keeps(l, S) => Keeps(into[i], S \cup Upto(i))
           T == {i \in 0 .. n : Good(i)}
<1>2. n \in Nat /\ \A i \in 1 .. n : cs[i] \in Contacts
  OBVIOUS
<1>3. \A i \in 1 .. n : /\ Upto(i) = Upto(i - 1) \cup {cs[i]}
                        /\ Upto(i - 1) \in SUBSET Contacts
  <2> SUFFICES ASSUME NEW i \in 1 .. n
               PROVE  /\ Upto(i) = Upto(i - 1) \cup {cs[i]}
                      /\ Upto(i - 1) \in SUBSET Contacts
    OBVIOUS
  <2>1. 1 .. i = (1 .. i - 1) \cup {i} /\ 1 .. i - 1 \subseteq 1 .. n
    BY <1>2
  <2> QED BY <1>2, <2>1
<1>4. Upto(0) = {} /\ Upto(n) = Range(cs)
  BY DEF Range
<1> HIDE DEF n, Upto
<1>5. 0 \in T
  <2>1. into[0] = l /\ 0 \in 0 .. n
    BY <1>1, <1>2
  <2>2. ASSUME NEW S \in SUBSET Contacts, Keeps(l, S)
        PROVE  Keeps(into[0], S \cup Upto(0))
    <3>1. S \cup Upto(0) = S
      BY <1>4
    <3> QED BY <2>1, <2>2, <3>1
  <2> QED BY <2>1, <2>2
<1>6. ASSUME NEW i \in 1 .. n, i - 1 \in T
      PROVE  i \in T
  <2>1. Good(i - 1)
    BY <1>6
  <2>2. cs[i] \in Contacts /\ into[i] = InsertOne(into[i - 1], cs[i])
    BY <1>1, <1>2
  <2>3. into[i] \in Seq(Contacts) /\ Ordered(into[i])
    BY <2>1, <2>2, InsertOneKeeps
  <2>4. ASSUME NEW S \in SUBSET Contacts, Keeps(l, S)
        PROVE  Keeps(into[i], S \cup Upto(i))
    <3>1. S \cup Upto(i - 1) \in SUBSET Contacts
          /\ (S \cup Upto(i - 1)) \cup {cs[i]} = S \cup Upto(i)
      BY <1>3
    <3>2. Keeps(into[i - 1], S \cup Upto(i - 1))
      BY <2>1, <2>4
    <3>3. Keeps(InsertOne(into[i - 1], cs[i]), (S \cup Upto(i - 1)) \cup {cs[i]})
      BY <2>1, <2>2, <3>1, <3>2, InsertOneKeeps
    <3> QED BY <2>2, <3>1, <3>3
  <2>5. i \in 0 .. n
    BY <1>2
  <2> QED BY <2>3, <2>4, <2>5
<1>7. Good(n)
  <2>1. 0 .. n \subseteq T
    <3> HIDE DEF T
    <3> QED BY <1>2, <1>5, <1>6, InductionUpTo
  <2>2. n \in 0 .. n
    BY <1>2
  <2> QED BY <2>1, <2>2
<1>8. ASSUME NEW S \in SUBSET Contacts, Keeps(l, S)
      PROVE  Keeps(Insert(l, cs), S \cup Range(cs))
  <2>1. Keeps(into[n], S \cup Range(cs))
    BY <1>4, <1>7, <1>8
  <2>2. S \cup Range(cs) \in SUBSET Contacts
    BY InRange
  <2> QED BY <1>1, <1>7, <2>1, <2>2, ShrinkKeeps
<1> QED BY <1>1, <1>7, <1>8, ShrinkKeeps

LEMMA RemoveKeeps ==
    ASSUME OneAddress, NEW l \in Seq(Contacts), Ordered(l), NEW c \in Contacts
    PROVE  /\ RemoveContact(l, c) \in Seq(Contacts)
           /\ Ordered(RemoveContact(l, c))
           /\ Len(RemoveContact(l, c)) <= Len(l)
           /\ Range(RemoveContact(l, c)) = Range(l) \ {c}
<1>1. CASE ~Present(l, c)
  <2>1. RemoveContact(l, c) = l /\ c \notin Range(l)
    BY <1>1, PresentIffInList DEF RemoveContact
  <2> QED BY <2>1
<1>2. CASE Present(l, c)
  <2> DEFINE p == search(l, c)
             m == RemoveAt(l, p)
  <2>1. p \in 1 .. Len(l) /\ l[p] = c
    BY <1>2, SearchPlace DEF Present
  <2>2. RemoveContact(l, c) = m
    BY <1>2 DEF RemoveContact
  <2> HIDE DEF p
  <2>3. /\ m \in Seq(Contacts)
        /\ Len(m) = Len(l) - 1
        /\ \A i \in 1 .. p - 1 : m[i] = l[i]
        /\ \A i \in p .. Len(l) - 1 : m[i] = l[i + 1]
    BY <2>1, Removed
  <2> HIDE DEF m
  <2>4. Len(l) \in Nat /\ p \in Nat \ {0} /\ p <= Len(l)
    BY <2>1
  <2> DEFINE from(i) == IF i < p THEN i ELSE i + 1
  <2>5. \A i \in 1 .. Len(m) :
            from(i) \in 1 .. Len(l) /\ from(i) # p /\ m[i] = l[from(i)]
    <3> SUFFICES ASSUME NEW i \in 1 .. Len(m)
                 PROVE  from(i) \in 1 .. Len(l) /\ from(i) # p /\ m[i] = l[from(i)]
      OBVIOUS
    <3>1. CASE i < p
      <4>1. i \in 1 .. p - 1 /\ i \in 1 .. Len(l)
        BY <2>3, <2>4, <3>1
      <4> QED BY <2>3, <3>1, <4>1
    <3>2. CASE i >= p
      <4>1. i \in p .. Len(l) - 1 /\ i + 1 \in 1 .. Len(l) /\ i + 1 # p /\ ~(i < p)
        BY <2>3, <2>4, <3>2
      <4> QED BY <2>3, <4>1
    <3> QED BY <2>3, <2>4, <3>1, <3>2
  <2>6. \A i, j \in 1 .. Len(m) : i < j => from(i) < from(j)
    BY <2>3, <2>4
  <2>7. \A k \in 1 .. Len(l) : k # p => \E i \in 1 .. Len(m) : from(i) = k
    <3> SUFFICES ASSUME NEW k \in 1 .. Len(l), k # p
                 PROVE  \E i \in 1 .. Len(m) : from(i) = k
      OBVIOUS
    <3>1. CASE k < p
      <4>1. k \in 1 .. Len(m)
        BY <2>3, <2>4, <3>1
      <4> QED BY <3>1, <4>1
    <3>2. CASE k > p
      <4>1. k - 1 \in 1 .. Len(m) /\ ~(k - 1 < p) /\ (k - 1) + 1 = k
        BY <2>3, <2>4, <3>2
      <4> QED BY <4>1
    <3> QED BY <2>4, <3>1, <3>2
  <2> HIDE DEF from
  <2>8. Ordered(m)
    BY <2>5, <2>6 DEF Ordered
  <2>9. \A i \in 1 .. Len(l) : l[i] = c => i = p
    <3> SUFFICES ASSUME NEW i \in 1 .. Len(l), i # p PROVE l[i] # c
      OBVIOUS
    <3>1. Distance(l[i]) # Distance(c)
      <4>1. Distance(l[i]) \in Nat /\ Distance(c) \in Nat
        BY Distances
      <4>2. i < p => Distance(l[i]) < Distance(c)
        BY <2>1 DEF Ordered
      <4>3. p < i => Distance(c) < Distance(l[i])
        BY <2>1 DEF Ordered
      <4> QED BY <2>4, <4>1, <4>2, <4>3
    <3> QED BY <3>1
  <2>10. Range(m) = Range(l) \ {c}
    <3>1. \A x \in Range(m) : x \in Range(l) \ {c}
      <4> SUFFICES ASSUME NEW i \in 1 .. Len(m) PROVE m[i] \in Range(l) \ {c}
        BY <2>3, InRange
      <4>1. l[from(i)] # c
        BY <2>5, <2>9
      <4> QED BY <2>5, <4>1, InRange
    <3>2. \A x \in Range(l) \ {c} : x \in Range(m)
      <4> SUFFICES ASSUME NEW k \in 1 .. Len(l), l[k] # c PROVE l[k] \in Range(m)
        BY InRange
      <4>1. k # p
        BY <2>1
      <4>2. PICK i \in 1 .. Len(m) : from(i) = k
        BY <2>7, <4>1
      <4> QED BY <2>3, <2>5, <4>2, InRange
    <3> QED BY <3>1, <3>2
  <2> QED BY <2>2, <2>3, <2>4, <2>8, <2>10
<1> QED BY <1>1, <1>2

\* PickNotContacted is a recursion over the list.
LEMMA PickRecursion ==
    ASSUME list \in Seq(Contacts), NEW n
    PROVE  \E picked :
             /\ picked[0] = <<>>
             /\ \A i \in 1 .. Len(list) :
                    picked[i] = IF Len(picked[i - 1]) >= n \/ list[i].id \in contacted
                                THEN picked[i - 1] ELSE Append(picked[i - 1], list[i])
             /\ PickNotContacted(n) = picked[Len(list)]
<1> DEFINE m == Len(list)
           Next1(i, s) == IF Len(s) >= n \/ list[i].id \in contacted
                          THEN s ELSE Append(s, list[i])
           picked[i \in 0 .. m] == IF i = 0 THEN <<>> ELSE Next1(i, picked[i - 1])
           step == [x \in (1 .. m) \X Seq(Contacts) |-> Next1(x[1], x[2])]
<1>1. m \in Nat /\ \A i \in 1 .. m : list[i] \in Contacts
  OBVIOUS
<1>2. step \in [(1 .. m) \X Seq(Contacts) -> Seq(Contacts)]
  <2>1. \A i \in 1 .. m, s \in Seq(Contacts) : Next1(i, s) \in Seq(Contacts)
    BY <1>1
  <2> HIDE DEF Next1
  <2> QED BY <2>1
<1>3. \A i \in 1 .. m, s \in Seq(Contacts) : step[<<i, s>>] = Next1(i, s)
  <2> HIDE DEF Next1
  <2> QED OBVIOUS
<1>4. PICK f \in [0 .. m -> Seq(Contacts)] :
          f[0] = <<>> /\ \A i \in 1 .. m : f[i] = step[<<i, f[i - 1]>>]
  <2>1. Iterable(m, Seq(Contacts), <<>>, step)
    BY <1>1, <1>2 DEF Iterable
  <2>2. \E f : Iteration(m, Seq(Contacts), <<>>, step, f)
    <3> HIDE DEF m, step
    <3> QED BY <2>1, Iterates
  <2> QED BY <2>2 DEF Iteration
<1>5. f = [i \in 0 .. m |-> IF i = 0 THEN <<>> ELSE Next1(i, f[i - 1])]
  <2>1. \A i \in 0 .. m :
            i # 0 => i \in 1 .. m /\ i - 1 \in 0 .. m /\ f[i - 1] \in Seq(Contacts)
    BY <1>1
  <2>2. \A i \in 0 .. m : f[i] = IF i = 0 THEN <<>> ELSE Next1(i, f[i - 1])
    <3> HIDE DEF step, m, Next1
    <3> QED BY <1>3, <1>4, <2>1
  <2> HIDE DEF step, m, Next1
  <2> QED BY <2>2
<1>6. picked = [i \in 0 .. m |-> IF i = 0 THEN <<>> ELSE Next1(i, picked[i - 1])]
  <2> HIDE DEF step, m, Next1
  <2> QED BY <1>5
<1>7. PickNotContacted(n) = picked[m]
  BY DEF PickNotContacted
<1>8. picked[0] = <<>> /\ \A i \in 1 .. m : picked[i] = Next1(i, picked[i - 1])
  <2>1. 0 \in 0 .. m /\ \A i \in 1 .. m : i \in 0 .. m /\ i # 0
    BY <1>1
  <2> HIDE DEF picked, step, m, Next1
  <2> QED BY <1>6, <2>1
<1> HIDE DEF picked
<1> QED BY <1>7, <1>8

\* A round: contacts of the list that are not marked, each of them once.
LEMMA PickedOnce ==
    ASSUME OneAddress, list \in Seq(Contacts), Ordered(list), NEW n
    PROVE  LET s == PickNotContacted(n)
           IN  /\ s \in Seq(Contacts)
               /\ Range(s) \subseteq Range(list)
               /\ \A i \in DOMAIN s : s[i].id \notin contacted
               /\ \A i, j \in DOMAIN s : i # j => s[i] # s[j]
<1> DEFINE m == Len(list)
           Upto(i) == {list[j] : j \in 1 .. i}
<1>1. PICK picked :
        /\ picked[0] = <<>>
        /\ \A i \in 1 .. m :
             picked[i] = IF Len(picked[i - 1]) >= n \/ list[i].id \in contacted
                         THEN picked[i - 1] ELSE Append(picked[i - 1], list[i])
        /\ PickNotContacted(n) = picked[m]
  BY PickRecursion
<1> DEFINE Good(i, s) ==
             /\ s \in Seq(Contacts)
             /\ \A k \in 1 .. Len(s) : s[k] \in Upto(i) /\ s[k].id \notin contacted
             /\ \A k, j \in 1 .. Len(s) : k # j => s[k] # s[j]
           T == {i \in 0 .. m : Good(i, picked[i])}
<1>2. m \in Nat /\ \A i \in 1 .. m : list[i] \in Contacts
  OBVIOUS
<1>3. \A i \in 1 .. m : Upto(i - 1) \subseteq Upto(i) /\ list[i] \in Upto(i)
                        /\ list[i] \notin Upto(i - 1)
  <2> SUFFICES ASSUME NEW i \in 1 .. m
               PROVE  /\ Upto(i - 1) \subseteq Upto(i) /\ list[i] \in Upto(i)
                      /\ list[i] \notin Upto(i - 1)
    OBVIOUS
  <2>1. \A j \in 1 .. i - 1 : j \in 1 .. i /\ j \in 1 .. m /\ j < i
    BY <1>2
  <2>2. ASSUME NEW j \in 1 .. i - 1 PROVE list[j] # list[i]
    <3>1. Distance(list[j]) < Distance(list[i])
      BY <2>1 DEF Ordered
    <3>2. Distance(list[i]) \in Nat
      BY <1>2, Distances
    <3> QED BY <3>1, <3>2
  <2>3. i \in 1 .. i
    BY <1>2
  <2> QED BY <2>1, <2>2, <2>3
<1>4. Upto(m) = Range(list)
  BY DEF Range
<1> HIDE DEF m, Upto
<1>5. 0 \in T
  <2>1. picked[0] = <<>> /\ 0 \in 0 .. m
    BY <1>1, <1>2
  <2>2. Good(0, <<>>)
    <3>1. <<>> \in Seq(Contacts) /\ \A k \in 1 .. Len(<<>>) : FALSE
      OBVIOUS
    <3> QED BY <3>1
  <2> HIDE DEF Good
  <2> QED BY <2>1, <2>2
<1>6. ASSUME NEW i \in 1 .. m, i - 1 \in T
      PROVE  i \in T
  <2>1. Good(i - 1, picked[i - 1])
    <3> HIDE DEF Good
    <3> QED BY <1>6
  <2> DEFINE s == picked[i - 1]
             t == picked[i]
  <2>2. t = s \/ (list[i].id \notin contacted /\ t = Append(s, list[i]))
    BY <1>1
  <2>3. Good(i - 1, s)
    BY <2>1
  <2> HIDE DEF s, t
  <2>4. ASSUME t = s PROVE Good(i, t)
    BY <1>3, <2>3, <2>4
  <2>5. ASSUME list[i].id \notin contacted, t = Append(s, list[i]) PROVE Good(i, t)
    <3>1. /\ t \in Seq(Contacts) /\ Len(t) = Len(s) + 1 /\ Len(s) \in Nat
          /\ \A k \in 1 .. Len(s) : t[k] = s[k]
          /\ t[Len(s) + 1] = list[i]
      BY <1>2, <2>3, <2>5, AppendProperties
    <3>2. \A k \in 1 .. Len(t) : k \in 1 .. Len(s) \/ k = Len(s) + 1
      BY <3>1
    <3>3. \A k \in 1 .. Len(t) : t[k] \in Upto(i) /\ t[k].id \notin contacted
      BY <1>3, <2>3, <2>5, <3>1, <3>2
    <3>4. \A k, j \in 1 .. Len(t) : k # j => t[k] # t[j]
      BY <1>3, <2>3, <3>1, <3>2
    <3> QED BY <3>1, <3>3, <3>4
  <2> HIDE DEF Good
  <2>6. Good(i, t)
    BY <2>2, <2>4, <2>5
  <2>7. i \in 0 .. m
    BY <1>2
  <2> QED BY <2>6, <2>7 DEF t
<1>7. Good(m, picked[m])
  <2>1. 0 .. m \subseteq T
    <3> HIDE DEF T
    <3> QED BY <1>2, <1>5, <1>6, InductionUpTo
  <2>2. m \in 0 .. m
    BY <1>2
  <2> QED BY <2>1, <2>2
<1> QED BY <1>1, <1>4, <1>7, InRange

LEMMA RepliesType ==
    ASSUME NEW S \in SUBSET Contacts, NEW s \in Replies(S)
    PROVE  /\ s \in Seq(Contacts)
           /\ \A n \in Nat : FirstN(s, n) \in Seq(Contacts)
<1>1. PICK m \in 0 .. K : s \in [1 .. m -> S]
  BY DEF Replies, SeqOf
<1>2. m \in Nat /\ s \in [1 .. m -> Contacts]
  BY <1>1, SizesAssumption
<1>3. s \in Seq(Contacts)
  BY <1>2
<1>4. ASSUME NEW n \in Nat
      PROVE  FirstN(s, n) \in Seq(Contacts)
  <2>1. CASE Len(s) > n
    <3>1. \A i \in 1 .. n : s[i] \in Contacts
      BY <1>3, <2>1
    <3>2. SubSeq(s, 1, n) \in Seq(Contacts)
      BY <3>1, SubSeqProperties
    <3> QED BY <2>1, <3>2 DEF FirstN
  <2>2. CASE ~(Len(s) > n)
    BY <1>3, <2>2 DEF FirstN
  <2> QED BY <2>1, <2>2
<1> QED BY <1>3, <1>4

-----------------------------------------------------------------------------
(* The state of a lookup *)

ListInv ==
    /\ list \in Seq(Contacts)
    /\ round \in Seq(Contacts)
    /\ learned \in SUBSET Contacts
    /\ Ordered(list)
    /\ Len(list) <= K
    /\ Range(list) \subseteq learned
    /\ Range(round) \subseteq learned
    /\ failures = {} => Keeps(list, learned)
    /\ pc = "begin" => list = <<>> /\ learned = {}

\* No contact of a round is asked twice, the mark of a contact that has answered
\* stays, and those of the round that are still to be asked have not answered.
RoundInv ==
    /\ asked \in 0 .. Len(round)
    /\ open \subseteq 1 .. asked
    /\ late \subseteq open
    /\ pc # "wait" => open = {}
    /\ \A i, j \in DOMAIN round : i # j => round[i] # round[j]
    /\ answered \in SUBSET Contacts
    /\ \A c \in answered : c.id \in contacted
    /\ \A i \in open \ late : round[i] \notin answered /\ round[i].id \in contacted
    /\ pc = "wait" => \A i \in asked + 1 .. Len(round) : round[i] \notin answered

CachedInv ==
    /\ cached # NoContact => pc = "done"
    /\ CachedAtClosestGap

\* More contacts in a list that is in order.
LEMMA ListGrows ==
    ASSUME OneAddress, ListInv, NEW cs \in Seq(Contacts)
    PROVE  /\ Insert(list, cs) \in Seq(Contacts)
           /\ Ordered(Insert(list, cs))
           /\ Len(Insert(list, cs)) <= K
           /\ Range(Insert(list, cs)) \subseteq learned \cup Range(cs)
           /\ failures = {} => Keeps(Insert(list, cs), learned \cup Range(cs))
           /\ learned \cup Range(cs) \in SUBSET Contacts
<1>1. list \in Seq(Contacts) /\ Ordered(list) /\ learned \in SUBSET Contacts
      /\ Range(list) \subseteq learned
  BY DEF ListInv
<1>2. Range(list) \in SUBSET Contacts /\ Range(cs) \in SUBSET Contacts
  BY <1>1, InRange
<1>3. Keeps(list, Range(list))
  BY DEF Keeps
<1>4. Keeps(Insert(list, cs), Range(list) \cup Range(cs))
  BY <1>1, <1>2, <1>3, InsertKeeps
<1>5. failures = {} => Keeps(Insert(list, cs), learned \cup Range(cs))
  BY <1>1, InsertKeeps DEF ListInv
<1>6. /\ Insert(list, cs) \in Seq(Contacts)
      /\ Ordered(Insert(list, cs))
      /\ Len(Insert(list, cs)) <= K
  BY <1>1, InsertKeeps
<1>7. Range(Insert(list, cs)) \subseteq learned \cup Range(cs)
  BY <1>1, <1>4 DEF Keeps
<1> QED BY <1>1, <1>2, <1>5, <1>6, <1>7

LEMMA ListStep == OneAddress /\ ListInv /\ RoundInv /\ [Next]_vars => ListInv'
<1> SUFFICES ASSUME OneAddress, ListInv, RoundInv, [Next]_vars PROVE ListInv'
  OBVIOUS
<1>1. CASE NoCloseNodes
  BY <1>1 DEF ListInv, NoCloseNodes, Return, shortlist, calls, history
<1>2. CASE Begin
  <2>1. PICK s \in Replies(Local) \ {<<>>} :
            /\ list' = Insert(<<>>, FirstN(s, Alpha))
            /\ learned' = Range(FirstN(s, Alpha))
    BY <1>2 DEF Begin
  <2>2. FirstN(s, Alpha) \in Seq(Contacts)
    BY <2>1, RepliesType, NetworkAssumption, SizesAssumption
  <2>3. list = <<>> /\ learned = {} /\ pc' = "pick" /\ round' = round /\ failures' = failures
        /\ pc = "begin"
    BY <1>2 DEF ListInv, Begin, calls
  <2>4. learned' = learned \cup Range(FirstN(s, Alpha)) /\ list' = Insert(list, FirstN(s, Alpha))
    BY <2>1, <2>3
  <2>5. Range(round') \subseteq learned'
    BY <2>3, <2>4 DEF ListInv
  <2> QED BY <2>2, <2>3, <2>4, <2>5, ListGrows DEF ListInv
<1>3. CASE Pick
  <2>1. round' = PickNotContacted(limit) /\ UNCHANGED <<list, learned, failures>>
        /\ pc' = "wait"
    BY <1>3 DEF Pick, shortlist, history
  <2>2. round' \in Seq(Contacts) /\ Range(round') \subseteq Range(list)
    BY <2>1, PickedOnce DEF ListInv
  <2> QED BY <2>1, <2>2 DEF ListInv
<1>4. ASSUME NEW i \in open, ReplyContacts(i)
      PROVE  ListInv'
  <2>1. /\ UNCHANGED <<round, failures>> /\ pc = "wait" /\ pc' = pc
        /\ \E s \in Replies(Knows[round[i]]) :
                list' = Insert(list, s) /\ learned' = learned \cup Range(s)
    BY <1>4 DEF ReplyContacts, CloseOrLate, Close
  <2>2. PICK s \in Replies(Knows[round[i]]) :
            list' = Insert(list, s) /\ learned' = learned \cup Range(s)
    BY <2>1
  <2>3. Knows[round[i]] \in SUBSET Contacts
    BY NetworkAssumption DEF ListInv, RoundInv
  <2>4. s \in Seq(Contacts)
    BY <2>3, RepliesType
  <2>5. Range(round') \subseteq learned'
    BY <2>1, <2>2 DEF ListInv
  <2> QED BY <2>1, <2>2, <2>4, <2>5, ListGrows DEF ListInv
<1>5. ASSUME NEW i \in open, ReplyPeers(i)
      PROVE  ListInv'
  BY <1>5 DEF ListInv, ReplyPeers, CloseOrLate, Close
<1>6. ASSUME NEW i \in open, InsertAgain(i)
      PROVE  ListInv'
  <2>1. /\ UNCHANGED <<round, failures, learned>> /\ pc' = pc
        /\ list' = Insert(list, <<round[i]>>)
        /\ pc = "wait"
    BY <1>6 DEF InsertAgain, Close, history, RoundInv
  <2>2. i \in DOMAIN round /\ round[i] \in Contacts /\ round[i] \in learned
    BY InRange DEF ListInv, RoundInv
  <2>3. <<round[i]>> \in Seq(Contacts) /\ learned \cup Range(<<round[i]>>) = learned
    BY <2>2 DEF Range
  <2>4. /\ list' \in Seq(Contacts) /\ Ordered(list') /\ Len(list') <= K
        /\ Range(list') \subseteq learned
        /\ failures = {} => Keeps(list', learned)
    <3> DEFINE cs == <<round[i]>>
    <3> HIDE DEF cs
    <3>1. list' = Insert(list, cs) /\ cs \in Seq(Contacts) /\ learned \cup Range(cs) = learned
      BY <2>1, <2>3 DEF cs
    <3> QED BY <3>1, ListGrows
  <2> QED BY <2>1, <2>4 DEF ListInv
<1>7. ASSUME NEW i \in open, Fail(i)
      PROVE  ListInv'
  <2>1. /\ UNCHANGED <<round, learned>> /\ pc' = pc /\ pc = "wait"
        /\ list' = RemoveContact(list, round[i])
        /\ failures' # {}
    BY <1>7 DEF Fail, Close
  <2>2. round[i] \in Contacts
    BY DEF ListInv, RoundInv
  <2>3. /\ list' \in Seq(Contacts)
        /\ Ordered(list')
        /\ Len(list') <= Len(list)
        /\ Range(list') \subseteq Range(list)
    BY <2>1, <2>2, RemoveKeeps DEF ListInv
  <2>4. Len(list') <= K
    <3>1. Len(list') \in Nat /\ Len(list) \in Nat /\ Len(list) <= K /\ K \in Nat
      BY <2>3, SizesAssumption DEF ListInv
    <3> QED BY <2>3, <3>1
  <2> QED BY <2>1, <2>3, <2>4 DEF ListInv
<1>8. CASE ReturnPeers \/ ReturnUnreachable \/ ReturnContacts
  BY <1>8 DEF ListInv, ReturnPeers, ReturnUnreachable, ReturnContacts, Return,
              shortlist, calls, history
<1>9. CASE CloserFound \/ AskTheRest
  BY <1>9 DEF ListInv, CloserFound, AskTheRest, NextRound, shortlist, calls, history
<1>10. CASE UNCHANGED vars
  BY <1>10 DEF ListInv, vars
<1>11. CASE Ask
  BY <1>11 DEF ListInv, Ask, StartCall, history
<1> QED
  BY <1>1, <1>2, <1>3, <1>4, <1>5, <1>6, <1>7, <1>8, <1>9, <1>10, <1>11 DEF Next, Call

LEMMA RoundStep == OneAddress /\ ListInv /\ RoundInv /\ [Next]_vars => RoundInv'
<1> SUFFICES ASSUME OneAddress, ListInv, RoundInv, [Next]_vars PROVE RoundInv'
  OBVIOUS
<1> round \in Seq(Contacts) /\ \A i \in DOMAIN round : round[i] \in Contacts
  BY DEF ListInv
<1>a. asked \in Nat /\ Len(round) \in Nat /\ asked <= Len(round) /\ open \subseteq DOMAIN round
  BY DEF RoundInv
<1>1. CASE NoCloseNodes
  BY <1>1 DEF RoundInv, NoCloseNodes, Return, shortlist, calls, history
<1>2. CASE Begin
  BY <1>2 DEF RoundInv, Begin, calls
<1>3. CASE Pick
  <2>1. /\ round' = PickNotContacted(limit) /\ asked' = 0 /\ pc' = "wait"
        /\ UNCHANGED <<contacted, open, late, answered>>
        /\ open = {} /\ late = {}
    BY <1>3 DEF Pick, shortlist, history, RoundInv
  <2>2. /\ round' \in Seq(Contacts)
        /\ \A i \in DOMAIN round' : round'[i].id \notin contacted
        /\ \A i, j \in DOMAIN round' : i # j => round'[i] # round'[j]
    BY <2>1, PickedOnce DEF ListInv
  <2>3. \A i \in DOMAIN round' : round'[i] \notin answered
    BY <2>2 DEF RoundInv
  <2>4. asked' \in 0 .. Len(round') /\ asked' + 1 .. Len(round') = DOMAIN round'
    BY <2>1, <2>2
  <2> QED BY <2>1, <2>2, <2>3, <2>4 DEF RoundInv
<1>11. CASE Ask
  <2>1. /\ pc = "wait" /\ pc' = "wait" /\ round' = round /\ asked < Len(round)
        /\ asked' = asked + 1 /\ open' = open \cup {asked + 1}
        /\ contacted' = contacted \cup {round[asked + 1].id}
        /\ UNCHANGED <<late, answered>>
    BY <1>11 DEF Ask, StartCall, history
  <2>2. asked' \in 0 .. Len(round') /\ open' \subseteq 1 .. asked' /\ late' \subseteq open'
    BY <1>a, <2>1 DEF RoundInv
  <2>3. round[asked + 1] \notin answered
    BY <1>a, <2>1 DEF RoundInv
  <2>4. \A j \in open' \ late' : round[j] \notin answered /\ round[j].id \in contacted'
    BY <2>1, <2>3 DEF RoundInv
  <2>5. \A j \in asked' + 1 .. Len(round) : round[j] \notin answered
    BY <1>a, <2>1 DEF RoundInv
  <2> QED BY <2>1, <2>2, <2>4, <2>5 DEF RoundInv
<1>4. ASSUME NEW i \in open, CloseOrLate(i), contacted' = contacted
      PROVE  RoundInv'
  <2>1. /\ pc = "wait" /\ pc' = "wait" /\ round' = round /\ asked' = asked
        /\ i \in open \ late
        /\ answered' = answered \cup {round[i]}
        /\ \/ open' = open \ {i} /\ late' = late
           \/ open' = open /\ late' = late \cup {i}
    BY <1>4 DEF CloseOrLate, Close
  <2>2. \A j \in open' \ late' : j \in open \ late /\ j # i
    BY <2>1
  <2>3. \A j \in open \ late : j # i => round[j] # round[i]
    BY <1>a, <2>1 DEF RoundInv
  <2>4. round[i] \in Contacts /\ round[i].id \in contacted
    BY <1>a, <2>1 DEF RoundInv
  <2>5. \A j \in asked + 1 .. Len(round) : round[j] \notin answered'
    <3> SUFFICES ASSUME NEW j \in asked + 1 .. Len(round)
                 PROVE  round[j] \notin answered /\ round[j] # round[i]
      BY <2>1
    <3>1. i \in 1 .. asked /\ i \in DOMAIN round /\ j \in DOMAIN round /\ i # j
      BY <1>a, <2>1 DEF RoundInv
    <3> QED BY <2>1, <3>1 DEF RoundInv
  <2> QED BY <1>4, <2>1, <2>2, <2>3, <2>4, <2>5 DEF RoundInv
<1>5. ASSUME NEW i \in open, ReplyContacts(i) \/ ReplyPeers(i)
      PROVE  RoundInv'
  BY <1>4, <1>5 DEF ReplyContacts, ReplyPeers
<1>6. ASSUME NEW i \in open, InsertAgain(i)
      PROVE  RoundInv'
  BY <1>6 DEF RoundInv, InsertAgain, Close, history
<1>7. ASSUME NEW i \in open, Fail(i)
      PROVE  RoundInv'
  <2>1. /\ pc = "wait" /\ pc' = "wait" /\ round' = round /\ asked' = asked
        /\ i \in open \ late
        /\ answered' = answered /\ open' = open \ {i} /\ late' = late
        /\ contacted' = contacted \ {round[i].id}
    BY <1>7 DEF Fail, Close
  <2>2. ASSUME NEW c \in Contacts, c # round[i]
        PROVE  c.id # round[i].id
    BY <2>1, <2>2 DEF OneAddress, RoundInv
  <2>3. \A c \in answered : c.id \in contacted'
    BY <2>1, <2>2 DEF RoundInv
  <2>4. \A j \in open' \ late' :
            j \in open \ late /\ round[j] \notin answered /\ round[j].id \in contacted'
    <3> SUFFICES ASSUME NEW j \in open' \ late'
                 PROVE  j \in open \ late /\ round[j] \notin answered
                        /\ round[j].id \in contacted'
      OBVIOUS
    <3>1. j \in open \ late /\ j # i /\ j \in DOMAIN round /\ i \in DOMAIN round
      BY <1>a, <2>1
    <3>2. round[j] # round[i]
      BY <3>1 DEF RoundInv
    <3> QED BY <2>1, <2>2, <3>1, <3>2 DEF RoundInv
  <2>5. late' \subseteq open' /\ open' \subseteq 1 .. asked'
    BY <2>1 DEF RoundInv
  <2> QED BY <2>1, <2>3, <2>4, <2>5 DEF RoundInv
<1>8. CASE ReturnPeers \/ ReturnUnreachable \/ ReturnContacts
  BY <1>8 DEF RoundInv, RoundOver, ReturnPeers, ReturnUnreachable, ReturnContacts, Return,
              shortlist, calls, history
<1>9. CASE CloserFound \/ AskTheRest
  BY <1>9 DEF RoundInv, RoundOver, CloserFound, AskTheRest, NextRound, shortlist, calls,
              history
<1>10. CASE UNCHANGED vars
  BY <1>10 DEF RoundInv, vars
<1> QED
  BY <1>1, <1>2, <1>3, <1>5, <1>6, <1>7, <1>8, <1>9, <1>10, <1>11 DEF Next, Call

\* PickClosestWithoutValue finds the first contact of the list without peers.
LEMMA PickedWithout ==
    ASSUME list \in Seq(Contacts), PickClosestWithoutValue # NoContact
    PROVE  \E p \in 1 .. Len(list) :
             /\ PickClosestWithoutValue = list[p]
             /\ list[p].id \notin hasPeers
             /\ \A i \in 1 .. p - 1 : list[i].id \in hasPeers
<1> DEFINE W == {i \in DOMAIN list : list[i].id \notin hasPeers}
<1>1. W # {} /\ PickClosestWithoutValue = list[Min(W)]
  BY DEF PickClosestWithoutValue
<1>2. W \in SUBSET Nat /\ W \subseteq 1 .. Len(list)
  OBVIOUS
<1>3. \E m \in W : \A n \in W : m <= n
  <2> HIDE DEF W
  <2> QED BY <1>1, <1>2, LeastNatural
<1>4. Min(W) \in W /\ \A n \in W : Min(W) <= n
  <2> HIDE DEF W
  <2> QED BY <1>3 DEF Min
<1>5. ASSUME NEW i \in 1 .. Min(W) - 1
      PROVE  list[i].id \in hasPeers
  <2>1. Min(W) \in 1 .. Len(list)
    BY <1>2, <1>4
  <2>2. i \in 1 .. Len(list) /\ ~(Min(W) <= i)
    BY <2>1
  <2>3. i \notin W
    BY <1>4, <2>2
  <2> QED BY <2>2, <2>3
<1> QED BY <1>1, <1>2, <1>4, <1>5

LEMMA CachedStep ==
    OneAddress /\ ListInv /\ RoundInv /\ CachedInv /\ [Next]_vars => CachedInv'
<1> SUFFICES ASSUME OneAddress, ListInv, RoundInv, CachedInv, [Next]_vars PROVE CachedInv'
  OBVIOUS
<1>1. CASE ReturnPeers
  <2>1. cached' = PickClosestWithoutValue /\ UNCHANGED <<list, hasPeers, failures, learned>>
        /\ pc' = "done"
    BY <1>1 DEF ReturnPeers, Return, shortlist, history
  <2>2. ASSUME cached' # NoContact
        PROVE  CachedAtClosestGap'
    <3>1. PICK p \in 1 .. Len(list) :
             /\ cached' = list[p]
             /\ list[p].id \notin hasPeers
             /\ \A i \in 1 .. p - 1 : list[i].id \in hasPeers
      BY <2>1, <2>2, PickedWithout DEF ListInv
    <3>2. ASSUME failures = {}, NEW c \in learned, Distance(c) < Distance(list[p])
          PROVE  c.id \in hasPeers
      <4>1. Keeps(list, learned) /\ c \in Contacts /\ list \in Seq(Contacts) /\ Ordered(list)
        BY <3>2 DEF ListInv
      <4>2. \A i \in 1 .. Len(list) : Distance(list[i]) \in Nat /\ list[i] \in Contacts
        BY <4>1, Distances
      <4>3. Distance(c) \in Nat
        BY <4>1, Distances
      <4>4. CASE c \notin Range(list)
        <5>1. Len(list) >= K /\ Distance(list[K]) < Distance(c)
          BY <4>1, <4>4 DEF Keeps
        <5>2. Len(list) = K /\ K \in Nat \ {0}
          BY <4>1, <5>1, SizesAssumption DEF ListInv
        <5>3. K \in 1 .. Len(list) /\ (p = K \/ p < K)
          BY <5>2
        <5>4. Distance(list[p]) <= Distance(list[K])
          BY <4>1, <4>2, <5>3 DEF Ordered
        <5> QED BY <3>2, <4>2, <4>3, <5>1, <5>3, <5>4
      <4>5. CASE c \in Range(list)
        <5>1. PICK i \in 1 .. Len(list) : list[i] = c
          BY <4>1, <4>5, InRange
        <5>2. ~(p < i) /\ i # p
          BY <3>2, <4>1, <4>2, <5>1 DEF Ordered
        <5>3. i \in 1 .. p - 1
          BY <5>2
        <5> QED BY <3>1, <5>1, <5>3
      <4> QED BY <4>4, <4>5
    <3> QED BY <2>1, <3>1, <3>2 DEF CachedAtClosestGap, Distance
  <2>3. CachedAtClosestGap'
    BY <2>2 DEF CachedAtClosestGap
  <2> QED BY <2>1, <2>3 DEF CachedInv
<1>2. CASE pc # "done" /\ UNCHANGED cached
  BY <1>2 DEF CachedInv, CachedAtClosestGap
<1>3. CASE UNCHANGED vars
  BY <1>3 DEF CachedInv, CachedAtClosestGap, vars
<1>4. Next => ReturnPeers \/ (pc # "done" /\ UNCHANGED cached)
  <2>1. NoCloseNodes \/ Begin \/ Pick \/ Ask => pc # "done" /\ UNCHANGED cached
    BY DEF NoCloseNodes, Begin, Pick, Ask, StartCall
  <2>2. ASSUME NEW i \in open, Call(i)
        PROVE  pc # "done" /\ UNCHANGED cached
    BY <2>2 DEF Call, ReplyContacts, ReplyPeers, InsertAgain, Fail, CloseOrLate, Close, RoundInv
  <2>3. ReturnUnreachable \/ ReturnContacts \/ CloserFound \/ AskTheRest
            => pc # "done" /\ UNCHANGED cached
    BY DEF ReturnUnreachable, ReturnContacts, CloserFound, AskTheRest, NextRound, RoundOver
  <2> QED BY <2>1, <2>2, <2>3 DEF Next
<1> QED BY <1>1, <1>2, <1>3, <1>4

-----------------------------------------------------------------------------
(* Theorems about networks in which a key has one address *)

IInv == ListInv /\ RoundInv /\ CachedInv

LEMMA IInvHolds == ASSUME OneAddress PROVE Spec => []IInv
<1>1. Init => IInv
  <2> SUFFICES ASSUME Init PROVE IInv
    OBVIOUS
  <2>1. ListInv
    <3>1. <<>> \in Seq(Contacts) /\ Len(<<>>) = 0 /\ Range(<<>>) = {}
      BY DEF Range
    <3>2. Len(<<>>) <= K
      BY <3>1, SizesAssumption
    <3> QED BY <3>1, <3>2 DEF Init, ListInv, Ordered, Keeps
  <2>2. RoundInv
    BY DEF Init, RoundInv
  <2>3. CachedInv
    BY DEF Init, CachedInv, CachedAtClosestGap
  <2> QED BY <2>1, <2>2, <2>3 DEF IInv
<1>2. IInv /\ [Next]_vars => IInv'
  BY ListStep, RoundStep, CachedStep DEF IInv
<1> QED BY <1>1, <1>2, PTL DEF Spec

\* Concurrent replies and failures insert into and remove from the shortlist in
\* any order (Insert, Remove), and the list stays in the order of distance, with
\* every key once, and no longer than K.
THEOREM ListOrderedHolds == ASSUME OneAddress PROVE Spec => []ListOrdered
<1>1. IInv => ListOrdered
  BY DEF IInv, ListInv, ListOrdered, Ordered, Distance
<1> QED BY <1>1, IInvHolds, PTL

\* The bound on the list and the early end of the rounds lose none of the K
\* closest contacts that the lookup was told of, if no call failed.
THEOREM ClosestReturnedHolds == ASSUME OneAddress PROVE Spec => []ClosestReturned
<1>1. IInv => ClosestReturned
  <2> SUFFICES ASSUME ListInv, failures = {} PROVE ClosestReturned
    BY DEF IInv, ClosestReturned
  <2>1. Keeps(list, learned) /\ Len(list) <= K /\ list \in Seq(Contacts) /\ K \in Nat \ {0}
        /\ learned \in SUBSET Contacts /\ Ordered(list)
    BY SizesAssumption DEF ListInv
  <2>2. ASSUME NEW c \in learned \ Range(list), NEW i \in DOMAIN list
        PROVE  Distance(list[i]) < Distance(c)
    <3>1. Len(list) >= K /\ Distance(list[K]) < Distance(c)
      BY <2>1, <2>2 DEF Keeps
    <3>2. K \in 1 .. Len(list) /\ i \in 1 .. Len(list) /\ (i = K \/ i < K)
      BY <2>1, <3>1
    <3>3. /\ Distance(list[i]) \in Nat /\ Distance(list[K]) \in Nat /\ Distance(c) \in Nat
      <4>1. list[i] \in Contacts /\ list[K] \in Contacts /\ c \in Contacts
        BY <2>1, <3>2
      <4> QED BY <4>1, Distances
    <3>4. i < K => Distance(list[i]) < Distance(list[K])
      BY <2>1, <3>2 DEF Ordered
    <3> QED BY <3>1, <3>2, <3>3, <3>4
  <2>3. \A c \in learned \ Range(list) : Len(list) = K
    BY <2>1 DEF Keeps
  <2> QED BY <2>1, <2>2, <2>3 DEF ClosestReturned, Keeps, Distance
<1> QED BY <1>1, IInvHolds, PTL

\* The peers found are cached at a contact without them; if no call failed, all
\* closer contacts that the lookup was told of have them.
THEOREM CachedAtClosestGapHolds == ASSUME OneAddress PROVE Spec => []CachedAtClosestGap
<1>1. IInv => CachedAtClosestGap
  BY DEF IInv, CachedInv
<1> QED BY <1>1, IInvHolds, PTL

\* "do not re-contact nodes": a contact whose call has succeeded is not called
\* again in the lookup, although failures take marks away.
THEOREM AskedOnceHolds == ASSUME OneAddress PROVE Spec => AskedOnce
<1>1. IInv => [StartCall => round[asked + 1] \notin answered]_vars
  <2> SUFFICES ASSUME IInv, StartCall
               PROVE  round[asked + 1] \notin answered
    OBVIOUS
  <2>1. pc = "wait" /\ asked \in Nat /\ asked < Len(round) /\ Len(round) \in Nat
    BY DEF StartCall, IInv, ListInv, RoundInv
  <2>2. asked + 1 \in asked + 1 .. Len(round)
    BY <2>1
  <2> QED BY <2>1, <2>2 DEF IInv, RoundInv
<1> QED BY <1>1, IInvHolds, PTL DEF Spec, AskedOnce

\* A contact whose call fails is not in the list after its removal (Remove finds
\* it by its distance), wherever replies have moved it in the meantime.
THEOREM UnreachableRemovedHolds == ASSUME OneAddress PROVE Spec => UnreachableRemoved
<1>1. IInv => [\A i \in open : Fail(i) => round[i] \notin Range(list')]_vars
  <2> SUFFICES ASSUME IInv, NEW i \in open, Fail(i)
               PROVE  round[i] \notin Range(list')
    OBVIOUS
  <2>1. list' = RemoveContact(list, round[i]) /\ round[i] \in Contacts
    BY DEF Fail, IInv, ListInv, RoundInv
  <2> QED BY <2>1, RemoveKeeps DEF IInv, ListInv
<1> QED BY <1>1, IInvHolds, PTL DEF Spec, UnreachableRemoved
=============================================================================

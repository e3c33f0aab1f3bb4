------------------------ MODULE RoutingTableProofs ------------------------
(***************************************************************************)
(* Proofs about RoutingTable, for every key space, bucket size, own key    *)
(* and set of contacts.                                                    *)
(***************************************************************************)
EXTENDS RoutingTable, SequenceTheorems, TLAPS

\* A bucket that satisfies everything the invariant says of one bucket.
Good(b) ==
    /\ BucketOK(b)
    /\ IndexedBucket(b)
    /\ b.low <= b.high
    /\ b.high <= TopKey
    /\ Len(b.contacts) <= K

\* The inductive invariant: every bucket is good, the ranges partition the
\* keys up to TopKey, and only a full far bucket has forgotten a key.
IInv ==
    /\ TypeOK
    /\ Partition
    /\ \A i \in DOMAIN buckets : Good(buckets[i])
    /\ ForgottenOnlyFromFullFarBucket
    /\ BucketFound

-----------------------------------------------------------------------------
(* One bucket *)

\* Appending a contact whose key the bucket owns and does not hold yet.
LEMMA PushBackGood ==
    ASSUME NEW b, Good(b), NEW c \in Contacts, inRange(b, c.id),
           c.id \notin DOMAIN b.elements, Len(b.contacts) < K
    PROVE  /\ Good(PushBack(b, c))
           /\ PushBack(b, c).low = b.low /\ PushBack(b, c).high = b.high
           /\ Range(PushBack(b, c).contacts) = Range(b.contacts) \cup {c}
           /\ DOMAIN PushBack(b, c).elements = DOMAIN b.elements \cup {c.id}
           /\ Len(PushBack(b, c).contacts) = Len(b.contacts) + 1
<1> DEFINE p == PushBack(b, c)
<1>1. /\ p = [low |-> b.low, high |-> b.high,
              contacts |-> Append(b.contacts, c),
              elements |-> [k \in DOMAIN b.elements \cup {c.id} |->
                                IF k = c.id THEN c ELSE b.elements[k]]]
  BY DEF PushBack, Holding, Point
<1>2. b.contacts \in Seq(Contacts) /\ c.id \in Keys
  BY ContactsAssumption DEF Good, BucketOK
<1>3. /\ p.contacts \in Seq(Contacts)
      /\ Len(p.contacts) = Len(b.contacts) + 1
      /\ \A j \in 1 .. Len(b.contacts) : p.contacts[j] = b.contacts[j]
      /\ p.contacts[Len(b.contacts) + 1] = c
      /\ DOMAIN p.contacts = 1 .. Len(b.contacts) + 1
      /\ DOMAIN b.contacts = 1 .. Len(b.contacts)
  BY <1>1, <1>2
<1>4. Range(p.contacts) = Range(b.contacts) \cup {c}
  BY <1>2, <1>3 DEF Range
<1>5. /\ DOMAIN p.elements = DOMAIN b.elements \cup {c.id}
      /\ p.elements[c.id] = c
      /\ \A k \in DOMAIN b.elements : p.elements[k] = b.elements[k]
  BY <1>1
<1>6. Range(p.elements) = Range(b.elements) \cup {c}
  BY <1>5 DEF Range
<1>7. BucketOK(p)
  BY <1>1, <1>2, <1>3, <1>5 DEF Good, BucketOK
<1>8. \A k \in DOMAIN p.elements : p.elements[k].id = k /\ inRange(p, k)
  BY <1>1, <1>5 DEF Good, IndexedBucket, inRange
<1>9. \A m \in 1 .. Len(b.contacts) : b.contacts[m].id # c.id
  <2> SUFFICES ASSUME NEW m \in 1 .. Len(b.contacts), b.contacts[m].id = c.id
               PROVE FALSE
    OBVIOUS
  <2>1. b.contacts[m] \in Range(b.elements)
    BY <1>3 DEF Good, IndexedBucket, Range
  <2>2. PICK k \in DOMAIN b.elements : b.elements[k] = b.contacts[m]
    BY <2>1 DEF Range
  <2> QED BY <2>2 DEF Good, IndexedBucket
<1>10. \A m, n \in DOMAIN p.contacts : p.contacts[m].id = p.contacts[n].id => m = n
  <2> SUFFICES ASSUME NEW m \in DOMAIN p.contacts, NEW n \in DOMAIN p.contacts,
                      p.contacts[m].id = p.contacts[n].id
               PROVE m = n
    OBVIOUS
  <2>1. CASE m \in 1 .. Len(b.contacts) /\ n \in 1 .. Len(b.contacts)
    BY <2>1, <1>3 DEF Good, IndexedBucket
  <2>2. CASE m = Len(b.contacts) + 1 /\ n \in 1 .. Len(b.contacts)
    BY <2>2, <1>3, <1>9
  <2>3. CASE n = Len(b.contacts) + 1 /\ m \in 1 .. Len(b.contacts)
    BY <2>3, <1>3, <1>9
  <2> QED BY <2>1, <2>2, <2>3, <1>3, <1>2
<1>11. Range(p.elements) = Range(p.contacts)
  BY <1>4, <1>6 DEF Good, IndexedBucket
<1>12. IndexedBucket(p)
  BY <1>8, <1>10, <1>11 DEF IndexedBucket
<1> QED
  BY <1>1, <1>2, <1>3, <1>4, <1>5, <1>7, <1>12, SizeAssumption DEF Good

\* A list without the element at j: the elements behind it move up by one.
LEMMA RemoveShape ==
    ASSUME NEW S, NEW list \in Seq(S), NEW c \in Range(list)
    PROVE  \E j \in 1 .. Len(list) :
              /\ list[j] = c
              /\ Remove(list, c) \in Seq(S)
              /\ Len(Remove(list, c)) = Len(list) - 1
              /\ \A n \in 1 .. Len(list) - 1 :
                    Remove(list, c)[n] = IF n < j THEN list[n] ELSE list[n + 1]
<1> DEFINE j == CHOOSE n \in DOMAIN list : list[n] = c
<1>1. j \in 1 .. Len(list) /\ list[j] = c
  <2>1. \E n \in DOMAIN list : list[n] = c
    BY DEF Range
  <2>2. j \in DOMAIN list /\ list[j] = c
    BY <2>1
  <2> QED BY <2>2
<1> HIDE DEF j
<1> DEFINE front == SubSeq(list, 1, j - 1)
           back == SubSeq(list, j + 1, Len(list))
<1>2. Remove(list, c) = front \o back
  BY DEF Remove, j
<1>3. /\ front \in Seq(S) /\ Len(front) = j - 1
      /\ \A n \in 1 .. j - 1 : front[n] = list[n]
  BY <1>1
<1>4. /\ back \in Seq(S) /\ Len(back) = Len(list) - j
      /\ \A n \in 1 .. Len(list) - j : back[n] = list[j + n]
  BY <1>1
<1> HIDE DEF front, back
<1>5. /\ Remove(list, c) \in Seq(S)
      /\ Len(Remove(list, c)) = Len(list) - 1
      /\ \A n \in 1 .. Len(list) - 1 :
            Remove(list, c)[n] = IF n <= j - 1 THEN front[n] ELSE back[n - (j - 1)]
  <2>1. /\ front \o back \in Seq(S)
        /\ Len(front \o back) = Len(front) + Len(back)
        /\ \A n \in 1 .. Len(front) + Len(back) :
              (front \o back)[n] = IF n <= Len(front) THEN front[n]
                                                      ELSE back[n - Len(front)]
    BY <1>3, <1>4, ConcatProperties
  <2>2. Len(front) + Len(back) = Len(list) - 1
    BY <1>1, <1>3, <1>4
  <2> QED BY <1>2, <1>3, <2>1, <2>2
<1>6. ASSUME NEW n \in 1 .. Len(list) - 1
      PROVE  Remove(list, c)[n] = IF n < j THEN list[n] ELSE list[n + 1]
  <2>1. CASE n < j
    BY <2>1, <1>1, <1>3, <1>5
  <2>2. CASE ~(n < j)
    <3>1. n - (j - 1) \in 1 .. Len(list) - j /\ j + (n - (j - 1)) = n + 1
      BY <2>2, <1>1
    <3>2. Remove(list, c)[n] = back[n - (j - 1)]
      BY <2>2, <1>1, <1>5
    <3> QED BY <3>1, <3>2, <2>2, <1>4
  <2> QED BY <2>1, <2>2
<1> QED BY <1>1, <1>5, <1>6

\* The index of a bucket has an entry exactly for the keys on its list.
LEMMA ListKeys ==
    ASSUME NEW b, Good(b)
    PROVE  /\ \A n \in 1 .. Len(b.contacts) :
                  /\ b.contacts[n].id \in DOMAIN b.elements
                  /\ b.elements[b.contacts[n].id] = b.contacts[n]
           /\ \A k \in DOMAIN b.elements :
                  \E n \in 1 .. Len(b.contacts) : b.contacts[n] = b.elements[k]
<1>1. DOMAIN b.contacts = 1 .. Len(b.contacts)
  BY DEF Good, BucketOK
<1>2. ASSUME NEW n \in 1 .. Len(b.contacts)
      PROVE  /\ b.contacts[n].id \in DOMAIN b.elements
             /\ b.elements[b.contacts[n].id] = b.contacts[n]
  <2>1. b.contacts[n] \in Range(b.elements)
    BY <1>1 DEF Good, IndexedBucket, Range
  <2>2. PICK k \in DOMAIN b.elements : b.elements[k] = b.contacts[n]
    BY <2>1 DEF Range
  <2> QED BY <2>2 DEF Good, IndexedBucket
<1>3. ASSUME NEW k \in DOMAIN b.elements
      PROVE  \E n \in 1 .. Len(b.contacts) : b.contacts[n] = b.elements[k]
  <2>1. b.elements[k] \in Range(b.contacts)
    BY DEF Good, IndexedBucket, Range
  <2> QED BY <2>1, <1>1 DEF Range
<1> QED BY <1>2, <1>3

\* A contact that is already in the bucket moves to the tail.
LEMMA MoveToTailGood ==
    ASSUME NEW b, Good(b), NEW c \in Contacts, Found(b, c)
    PROVE  /\ Good(MoveToTail(b, c))
           /\ MoveToTail(b, c).low = b.low /\ MoveToTail(b, c).high = b.high
           /\ \A d \in Range(b.contacts) :
                  d \in Range(MoveToTail(b, c).contacts) \/ d.id = c.id
           /\ DOMAIN MoveToTail(b, c).elements = DOMAIN b.elements
           /\ Len(MoveToTail(b, c).contacts) = Len(b.contacts)
<1> DEFINE old == b.elements[c.id]
           r == Remove(b.contacts, old)
           L == Len(b.contacts)
           t == MoveToTail(b, c)
<1>1. t = [low |-> b.low, high |-> b.high, contacts |-> Append(r, c),
           elements |-> Point(b.elements, c)]
  BY DEF MoveToTail, Holding
<1>2. /\ b.contacts \in Seq(Contacts)
      /\ L \in Nat
      /\ DOMAIN b.contacts = 1 .. L
      /\ old \in Range(b.elements)
      /\ old \in Range(b.contacts)
      /\ old.id = c.id
  <2>1. old \in Range(b.elements)
    BY DEF Found, Range
  <2> QED BY <2>1 DEF Good, BucketOK, IndexedBucket, Found
<1>3. PICK j \in 1 .. L :
              /\ b.contacts[j] = old
              /\ r \in Seq(Contacts)
              /\ Len(r) = L - 1
              /\ \A n \in 1 .. L - 1 :
                    r[n] = IF n < j THEN b.contacts[n] ELSE b.contacts[n + 1]
  <2> HIDE DEF old
  <2>1. b.contacts \in Seq(Contacts) /\ old \in Range(b.contacts)
    BY <1>2
  <2>2. \E j \in 1 .. Len(b.contacts) :
              /\ b.contacts[j] = old
              /\ Remove(b.contacts, old) \in Seq(Contacts)
              /\ Len(Remove(b.contacts, old)) = Len(b.contacts) - 1
              /\ \A n \in 1 .. Len(b.contacts) - 1 :
                    Remove(b.contacts, old)[n] =
                        IF n < j THEN b.contacts[n] ELSE b.contacts[n + 1]
    BY <2>1, RemoveShape, SMTT(30)
  <2> QED BY <2>2
<1> DEFINE at(n) == IF n < j THEN n ELSE n + 1
<1> HIDE DEF r, old, t
<1>4. /\ t.contacts \in Seq(Contacts)
      /\ Len(t.contacts) = L
      /\ DOMAIN t.contacts = 1 .. L
      /\ t.contacts[L] = c
      /\ \A n \in 1 .. L - 1 :
            t.contacts[n] = IF n < j THEN b.contacts[n] ELSE b.contacts[n + 1]
  BY <1>1, <1>2, <1>3
<1>5. /\ DOMAIN t.elements = DOMAIN b.elements
      /\ t.elements[c.id] = c
      /\ \A k \in DOMAIN b.elements : k # c.id => t.elements[k] = b.elements[k]
  BY <1>1 DEF Point, Found
<1>6. \A m, n \in 1 .. L : b.contacts[m].id = b.contacts[n].id => m = n
  BY <1>2 DEF Good, IndexedBucket
<1>7. \A n \in 1 .. L : n # j => b.contacts[n].id # c.id
  BY <1>2, <1>3, <1>6
<1>8. \A n \in 1 .. L - 1 : /\ at(n) \in 1 .. L /\ at(n) # j
                            /\ t.contacts[n] = b.contacts[at(n)]
  BY <1>2, <1>3, <1>4
<1>9. \A m, n \in 1 .. L - 1 : at(m) = at(n) => m = n
  BY <1>2, <1>3
<1> HIDE DEF at
<1>10. \A m, n \in 1 .. L : t.contacts[m].id = t.contacts[n].id => m = n
  <2> SUFFICES ASSUME NEW m \in 1 .. L, NEW n \in 1 .. L,
                      t.contacts[m].id = t.contacts[n].id
               PROVE m = n
    OBVIOUS
  <2>1. CASE m \in 1 .. L - 1 /\ n \in 1 .. L - 1
    BY <2>1, <1>6, <1>8, <1>9
  <2>2. CASE m = L /\ n \in 1 .. L - 1
    BY <2>2, <1>4, <1>7, <1>8
  <2>3. CASE n = L /\ m \in 1 .. L - 1
    BY <2>3, <1>4, <1>7, <1>8
  <2> QED BY <2>1, <2>2, <2>3, <1>2
<1>11. \A n \in 1 .. L : n # j =>
            \E m \in 1 .. L - 1 : t.contacts[m] = b.contacts[n]
  <2> SUFFICES ASSUME NEW n \in 1 .. L, n # j
               PROVE \E m \in 1 .. L - 1 : t.contacts[m] = b.contacts[n]
    OBVIOUS
  <2>1. CASE n < j
    BY <2>1, <1>2, <1>3, <1>4, SMTT(30)
  <2>2. CASE n > j
    <3>1. n - 1 \in 1 .. L - 1 /\ ~(n - 1 < j) /\ (n - 1) + 1 = n
      BY <2>2, <1>2, <1>3
    <3> QED BY <3>1, <1>4
  <2> QED BY <2>1, <2>2, <1>2, <1>3
<1>12. Range(t.contacts) = {d \in Range(b.contacts) : d.id # c.id} \cup {c}
  <2>1. ASSUME NEW d \in Range(t.contacts)
        PROVE  d = c \/ (d \in Range(b.contacts) /\ d.id # c.id)
    <3>1. PICK n \in 1 .. L : d = t.contacts[n]
      BY <1>4 DEF Range
    <3>2. CASE n = L
      BY <3>1, <3>2, <1>4
    <3>3. CASE n \in 1 .. L - 1
      BY <3>1, <3>3, <1>2, <1>7, <1>8 DEF Range
    <3> QED BY <3>2, <3>3, <1>2
  <2>2. ASSUME NEW d \in Range(b.contacts), d.id # c.id
        PROVE  d \in Range(t.contacts)
    <3>1. PICK n \in 1 .. L : d = b.contacts[n]
      BY <1>2 DEF Range
    <3>2. n # j
      BY <3>1, <2>2, <1>2, <1>3
    <3>3. PICK m \in 1 .. L - 1 : t.contacts[m] = d
      BY <3>1, <3>2, <1>11
    <3>4. m \in DOMAIN t.contacts
      BY <1>2, <1>4
    <3> QED BY <3>3, <3>4 DEF Range
  <2>3. c \in Range(t.contacts)
    BY <1>4, <1>3 DEF Range
  <2> QED BY <2>1, <2>2, <2>3
<1>13. Range(t.elements) = {d \in Range(b.elements) : d.id # c.id} \cup {c}
  <2>1. \A k \in DOMAIN b.elements : b.elements[k].id = k
    BY DEF Good, IndexedBucket
  <2>2. c.id \in DOMAIN b.elements
    BY DEF Found
  <2> QED BY <2>1, <2>2, <1>5 DEF Range
<1>14. Range(t.elements) = Range(t.contacts)
  BY <1>12, <1>13 DEF Good, IndexedBucket
<1>15. \A k \in DOMAIN t.elements : t.elements[k].id = k /\ inRange(t, k)
  BY <1>1, <1>5 DEF Good, IndexedBucket, inRange
<1>16. IndexedBucket(t)
  BY <1>4, <1>10, <1>14, <1>15 DEF IndexedBucket
<1>17. BucketOK(t)
  <2>1. t.elements \in [DOMAIN t.elements -> Contacts]
    BY <1>1, <1>5 DEF Good, BucketOK, Point
  <2> QED BY <2>1, <1>1, <1>4, <1>5 DEF Good, BucketOK
<1> QED
  BY <1>1, <1>4, <1>5, <1>12, <1>16, <1>17 DEF Good, t

\* A bucket without its front contact.
DropFront(b) ==
    Holding(b, Tail(b.contacts),
            Restrict(b.elements, DOMAIN b.elements \ {Head(b.contacts).id}))

\* Dropping the front contact from the list and from the map.
LEMMA DropFrontGood ==
    ASSUME NEW b, Good(b), Len(b.contacts) > 0
    PROVE  /\ Good(DropFront(b))
           /\ DropFront(b).low = b.low /\ DropFront(b).high = b.high
           /\ Head(b.contacts) \in Contacts
           /\ Head(b.contacts).id \in DOMAIN b.elements
           /\ b.elements[Head(b.contacts).id] = Head(b.contacts)
           /\ inRange(b, Head(b.contacts).id)
           /\ Range(b.contacts) = Range(DropFront(b).contacts) \cup {Head(b.contacts)}
           /\ DOMAIN DropFront(b).elements = DOMAIN b.elements \ {Head(b.contacts).id}
           /\ Len(DropFront(b).contacts) = Len(b.contacts) - 1
<1> DEFINE L == Len(b.contacts)
           h == Head(b.contacts)
           d == DropFront(b)
<1>1. /\ b.contacts \in Seq(Contacts)
      /\ L \in Nat
      /\ DOMAIN b.contacts = 1 .. L
      /\ h = b.contacts[1]
      /\ b.contacts # << >>
  BY DEF Good, BucketOK
<1>2. /\ d.low = b.low /\ d.high = b.high
      /\ d.contacts = Tail(b.contacts)
      /\ d.elements = [k \in DOMAIN b.elements \ {h.id} |-> b.elements[k]]
      /\ d = [low |-> d.low, high |-> d.high, contacts |-> d.contacts,
              elements |-> d.elements]
  BY DEF DropFront, Holding, Restrict
<1>3. /\ d.contacts \in Seq(Contacts)
      /\ Len(d.contacts) = L - 1
      /\ DOMAIN d.contacts = 1 .. L - 1
      /\ \A n \in 1 .. L - 1 : d.contacts[n] = b.contacts[n + 1]
  BY <1>1, <1>2, HeadTailProperties
<1>4. /\ h \in Contacts
      /\ h.id \in DOMAIN b.elements
      /\ b.elements[h.id] = h
      /\ inRange(b, h.id)
  BY <1>1, ListKeys DEF Good, IndexedBucket
<1> HIDE DEF d, h
<1>5. \A m, n \in 1 .. L : b.contacts[m].id = b.contacts[n].id => m = n
  BY <1>1 DEF Good, IndexedBucket
<1>6. \A m, n \in DOMAIN d.contacts : d.contacts[m].id = d.contacts[n].id => m = n
  <2> SUFFICES ASSUME NEW m \in 1 .. L - 1, NEW n \in 1 .. L - 1,
                      d.contacts[m].id = d.contacts[n].id
               PROVE  m = n
    BY <1>3
  <2>1. m + 1 \in 1 .. L /\ n + 1 \in 1 .. L
    BY <1>1
  <2>2. m + 1 = n + 1
    BY <2>1, <1>3, <1>5
  <2> QED BY <2>2, <1>1
<1>7. Range(d.contacts) = {x \in Range(b.contacts) : x.id # h.id}
  <2>1. ASSUME NEW x \in Range(d.contacts)
        PROVE  x \in Range(b.contacts) /\ x.id # h.id
    <3>1. PICK n \in 1 .. L - 1 : x = d.contacts[n]
      BY <1>3 DEF Range
    <3>2. n + 1 \in 1 .. L /\ n + 1 # 1 /\ x = b.contacts[n + 1]
      BY <3>1, <1>1, <1>3
    <3> QED BY <3>2, <1>1, <1>5 DEF Range
  <2>2. ASSUME NEW x \in Range(b.contacts), x.id # h.id
        PROVE  x \in Range(d.contacts)
    <3>1. PICK n \in 1 .. L : x = b.contacts[n]
      BY <1>1 DEF Range
    <3>2. n - 1 \in 1 .. L - 1 /\ (n - 1) + 1 = n
      BY <3>1, <2>2, <1>1
    <3>3. d.contacts[n - 1] = x
      BY <3>1, <3>2, <1>3
    <3> QED BY <3>2, <3>3, <1>3 DEF Range
  <2> QED BY <2>1, <2>2
<1>8. /\ DOMAIN d.elements = DOMAIN b.elements \ {h.id}
      /\ \A k \in DOMAIN d.elements : d.elements[k] = b.elements[k]
  BY <1>2
<1>9. Range(d.elements) = {x \in Range(b.elements) : x.id # h.id}
  <2>1. \A k \in DOMAIN b.elements : b.elements[k].id = k
    BY DEF Good, IndexedBucket
  <2> QED BY <2>1, <1>8 DEF Range
<1>10. IndexedBucket(d)
  <2>1. \A k \in DOMAIN d.elements : d.elements[k].id = k /\ inRange(d, k)
    BY <1>2, <1>8 DEF Good, IndexedBucket, inRange
  <2>2. Range(d.elements) = Range(d.contacts)
    BY <1>7, <1>9 DEF Good, IndexedBucket
  <2> QED BY <2>1, <2>2, <1>6 DEF IndexedBucket
<1>11. BucketOK(d)
  <2>1. d.elements \in [DOMAIN d.elements -> Contacts]
    BY <1>2, <1>8 DEF Good, BucketOK
  <2> QED BY <2>1, <1>2, <1>3, <1>8 DEF Good, BucketOK
<1>12. Range(b.contacts) = Range(d.contacts) \cup {h}
  <2>1. \A x \in Range(b.contacts) : x.id = h.id => x = h
    BY <1>1, <1>5 DEF Range
  <2>2. h \in Range(b.contacts)
    BY <1>1 DEF Range
  <2> QED BY <2>1, <2>2, <1>7
<1>13. Good(d)
  BY <1>1, <1>2, <1>3, <1>10, <1>11, SizeAssumption DEF Good
<1> QED
  BY <1>2, <1>3, <1>4, <1>8, <1>12, <1>13 DEF d, h

\* The front contact is replaced by a new one at the tail.
LEMMA ReplaceFrontGood ==
    ASSUME NEW b, Good(b), NEW c \in Contacts, inRange(b, c.id),
           ~Found(b, c), Full(b)
    PROVE  /\ Good(ReplaceFront(b, c))
           /\ ReplaceFront(b, c).low = b.low /\ ReplaceFront(b, c).high = b.high
           /\ \A d \in Range(b.contacts) :
                  d \in Range(ReplaceFront(b, c).contacts) \/ d = Head(b.contacts)
           /\ \A k \in DOMAIN b.elements : k # Head(b.contacts).id
                  => k \in DOMAIN ReplaceFront(b, c).elements
           /\ c.id \in DOMAIN ReplaceFront(b, c).elements
           /\ Len(ReplaceFront(b, c).contacts) = K
<1>1. Len(b.contacts) = K /\ K > 0
  BY SizeAssumption DEF Good, BucketOK, Full
<1>2. ReplaceFront(b, c) = PushBack(DropFront(b), c)
  BY DEF ReplaceFront, DropFront
<1>3. /\ Good(DropFront(b))
      /\ DropFront(b).low = b.low /\ DropFront(b).high = b.high
      /\ Range(b.contacts) = Range(DropFront(b).contacts) \cup {Head(b.contacts)}
      /\ DOMAIN DropFront(b).elements = DOMAIN b.elements \ {Head(b.contacts).id}
      /\ Len(DropFront(b).contacts) = K - 1
  BY <1>1, DropFrontGood
<1> DEFINE d == DropFront(b)
<1> HIDE DEF d
<1>4. inRange(d, c.id) /\ c.id \notin DOMAIN d.elements /\ Len(d.contacts) < K
  BY <1>1, <1>3, SizeAssumption DEF inRange, Found, d
<1>5. /\ Good(PushBack(d, c))
      /\ PushBack(d, c).low = d.low /\ PushBack(d, c).high = d.high
      /\ Range(PushBack(d, c).contacts) = Range(d.contacts) \cup {c}
      /\ DOMAIN PushBack(d, c).elements = DOMAIN d.elements \cup {c.id}
      /\ Len(PushBack(d, c).contacts) = Len(d.contacts) + 1
  BY <1>3, <1>4, PushBackGood DEF d
<1> QED
  BY <1>2, <1>3, <1>5, SizeAssumption DEF d

\* The front contact goes to the tail and nothing else changes.
LEMMA FrontToTailGood ==
    ASSUME NEW b, Good(b), Full(b)
    PROVE  /\ Good(FrontToTail(b))
           /\ FrontToTail(b).low = b.low /\ FrontToTail(b).high = b.high
           /\ Range(FrontToTail(b).contacts) = Range(b.contacts)
           /\ DOMAIN FrontToTail(b).elements = DOMAIN b.elements
           /\ Len(FrontToTail(b).contacts) = K
<1> DEFINE d == DropFront(b)
           h == Head(b.contacts)
<1>1. Len(b.contacts) = K /\ K > 0
  BY SizeAssumption DEF Good, BucketOK, Full
<1>2. /\ Good(d)
      /\ d.low = b.low /\ d.high = b.high
      /\ h \in Contacts
      /\ h.id \in DOMAIN b.elements
      /\ b.elements[h.id] = h
      /\ inRange(b, h.id)
      /\ Range(b.contacts) = Range(d.contacts) \cup {h}
      /\ DOMAIN d.elements = DOMAIN b.elements \ {h.id}
      /\ Len(d.contacts) = K - 1
  BY <1>1, DropFrontGood
<1>3. FrontToTail(b) = PushBack(d, h)
  <2>1. /\ d.contacts = Tail(b.contacts)
        /\ d.elements = [k \in DOMAIN b.elements \ {h.id} |-> b.elements[k]]
    BY DEF DropFront, Holding, Restrict
  <2>2. Point(d.elements, h) = b.elements
    <3>1. b.elements = [k \in DOMAIN b.elements |-> b.elements[k]]
      BY DEF Good, BucketOK
    <3>2. DOMAIN d.elements \cup {h.id} = DOMAIN b.elements
      BY <1>2
    <3>3. \A k \in DOMAIN b.elements :
              (IF k = h.id THEN h ELSE d.elements[k]) = b.elements[k]
      BY <1>2, <2>1
    <3>4. Point(d.elements, h)
              = [k \in DOMAIN b.elements |-> IF k = h.id THEN h ELSE d.elements[k]]
      BY <3>2 DEF Point
    <3> HIDE DEF d, h
    <3> QED BY <3>1, <3>3, <3>4
  <2> QED BY <2>1, <2>2, <1>2 DEF FrontToTail, PushBack, Holding
<1> HIDE DEF d, h
<1>4. inRange(d, h.id) /\ h.id \notin DOMAIN d.elements /\ Len(d.contacts) < K
  BY <1>1, <1>2, SizeAssumption DEF inRange
<1>5. /\ Good(PushBack(d, h))
      /\ PushBack(d, h).low = d.low /\ PushBack(d, h).high = d.high
      /\ Range(PushBack(d, h).contacts) = Range(d.contacts) \cup {h}
      /\ DOMAIN PushBack(d, h).elements = DOMAIN d.elements \cup {h.id}
      /\ Len(PushBack(d, h).contacts) = Len(d.contacts) + 1
  BY <1>2, <1>4, PushBackGood
<1> QED
  BY <1>2, <1>3, <1>5, SizeAssumption

\* What a half of a split bucket receives: the contacts in its range, each
\* once, and no more than K of them.
LEMMA HalfGood ==
    ASSUME NEW b, Good(b), NEW low \in Keys, NEW high \in Keys,
           b.low <= low, low <= high, high <= b.high,
           NEW order \in Orders(Share(b, low, high))
    PROVE  /\ Good(Half(b, low, high, order))
           /\ Half(b, low, high, order).low = low
           /\ Half(b, low, high, order).high = high
           /\ \A d \in Range(b.contacts) : low <= d.id /\ d.id <= high
                  => d \in Range(Half(b, low, high, order).contacts)
           /\ \A k \in DOMAIN b.elements : low <= k /\ k <= high
                  => k \in DOMAIN Half(b, low, high, order).elements
<1> DEFINE D == {k \in DOMAIN b.elements : low <= k /\ k <= high}
           S == Share(b, low, high)
           h == Half(b, low, high, order)
<1>1. h = [low |-> low, high |-> high, contacts |-> order,
           elements |-> [k \in D |-> b.elements[k]]]
  BY DEF Half, Restrict
<1>2. S = {b.elements[k] : k \in D}
  BY DEF Share
<1>3. S \subseteq Contacts
  BY <1>2 DEF Good, BucketOK
<1> HIDE DEF S, D, h
<1>4. /\ Range(order) = S
      /\ \A m, n \in DOMAIN order : order[m] = order[n] => m = n
      /\ \E n \in 0 .. K : order \in [1 .. n -> S]
  BY DEF Orders, S
<1>5. /\ order \in Seq(Contacts)
      /\ Len(order) <= K
  <2>1. PICK n \in 0 .. K : order \in [1 .. n -> S]
    BY <1>4
  <2>2. n \in Nat /\ n <= K
    BY <2>1, SizeAssumption
  <2>3. order \in [1 .. n -> Contacts]
    BY <2>1, <1>3
  <2> QED BY <2>2, <2>3
<1>6. \A k \in D : k \in DOMAIN b.elements /\ low <= k /\ k <= high /\ b.elements[k].id = k
  BY DEF D, Good, IndexedBucket
<1>7. /\ DOMAIN h.elements = D
      /\ \A k \in D : h.elements[k] = b.elements[k]
      /\ h.contacts = order /\ h.low = low /\ h.high = high
  BY <1>1
<1>8. Range(h.elements) = Range(h.contacts)
  <2>1. Range(h.elements) = S
    BY <1>2, <1>7 DEF Range
  <2> QED BY <2>1, <1>4, <1>7
<1>9. \A m, n \in DOMAIN order : order[m].id = order[n].id => m = n
  <2> SUFFICES ASSUME NEW m \in DOMAIN order, NEW n \in DOMAIN order,
                      order[m].id = order[n].id
               PROVE  m = n
    OBVIOUS
  <2>1. order[m] \in S /\ order[n] \in S
    BY <1>4 DEF Range
  <2>2. order[m] = order[n]
    BY <2>1, <1>2, <1>6
  <2> QED BY <2>2, <1>4
<1>10. IndexedBucket(h)
  BY <1>6, <1>7, <1>8, <1>9 DEF IndexedBucket, inRange
<1>11. BucketOK(h)
  <2>1. h.elements \in [D -> Contacts]
    BY <1>1, <1>6 DEF Good, BucketOK
  <2>2. D \subseteq Keys
    BY <1>6 DEF Good, BucketOK
  <2> QED BY <2>1, <2>2, <1>1, <1>5, <1>7 DEF BucketOK
<1>12. Good(h)
  <2>1. high <= TopKey
    BY TopKeyAssumption DEF Good, BucketOK, Keys
  <2> QED BY <2>1, <1>5, <1>7, <1>10, <1>11 DEF Good
<1>13. ASSUME NEW d \in Range(b.contacts), low <= d.id, d.id <= high
       PROVE  d \in Range(h.contacts)
  <2>1. PICK k \in DOMAIN b.elements : d = b.elements[k]
    BY DEF Good, IndexedBucket, Range
  <2>2. k \in D
    BY <2>1, <1>13 DEF D, Good, IndexedBucket
  <2> QED BY <2>1, <2>2, <1>2, <1>4, <1>7
<1>14. \A k \in DOMAIN b.elements : low <= k /\ k <= high => k \in DOMAIN h.elements
  BY <1>7 DEF D
<1> QED BY <1>7, <1>12, <1>13, <1>14 DEF h

-----------------------------------------------------------------------------
(* The table *)

\* Two elements in the place of element i of a sequence.
LEMMA SpliceShape ==
    ASSUME NEW s, s \in Seq(Range(s)), NEW i \in 1 .. Len(s), NEW x, NEW y
    PROVE  LET t == Splice(s, i, <<x, y>>)
           IN  /\ t \in Seq(Range(t))
               /\ Len(t) = Len(s) + 1
               /\ \A n \in 1 .. i - 1 : t[n] = s[n]
               /\ t[i] = x
               /\ t[i + 1] = y
               /\ \A n \in i + 2 .. Len(s) + 1 : t[n] = s[n - 1]
<1> DEFINE S == Range(s) \cup {x, y}
           front == SubSeq(s, 1, i - 1)
           back == SubSeq(s, i + 1, Len(s))
           two == <<x, y>>
           t == Splice(s, i, two)
<1>1. Len(s) \in Nat /\ \A n \in 1 .. Len(s) : s[n] \in S
  BY DEF Range
<1>2. /\ front \in Seq(S) /\ Len(front) = i - 1
      /\ \A n \in 1 .. i - 1 : front[n] = s[n]
  <2>1. s \in Seq(S)
    BY <1>1
  <2> HIDE DEF S
  <2> QED BY <1>1, <2>1
<1>3. /\ back \in Seq(S) /\ Len(back) = Len(s) - i
      /\ \A n \in 1 .. Len(s) - i : back[n] = s[i + n]
  <2>1. s \in Seq(S)
    BY <1>1
  <2> HIDE DEF S
  <2> QED BY <1>1, <2>1
<1>4. two \in Seq(S) /\ Len(two) = 2 /\ two[1] = x /\ two[2] = y
  OBVIOUS
<1> HIDE DEF S, front, back, two, t
<1>5. /\ front \o two \in Seq(S)
      /\ Len(front \o two) = i + 1
      /\ \A n \in 1 .. i + 1 : (front \o two)[n] = IF n <= i - 1 THEN front[n]
                                                              ELSE two[n - (i - 1)]
  <2>1. /\ front \o two \in Seq(S)
        /\ Len(front \o two) = Len(front) + Len(two)
        /\ \A n \in 1 .. Len(front) + Len(two) :
              (front \o two)[n] = IF n <= Len(front) THEN front[n] ELSE two[n - Len(front)]
    BY <1>2, <1>4, ConcatProperties
  <2>2. Len(front) + Len(two) = i + 1
    BY <1>2, <1>4
  <2> QED BY <2>1, <2>2, <1>2
<1> DEFINE head == front \o two
<1>6. t = head \o back
  BY DEF t, Splice, front, back, two
<1> HIDE DEF head
<1>7. head \in Seq(S) /\ Len(head) = i + 1
  BY <1>5 DEF head
<1>8. /\ t \in Seq(S)
      /\ Len(t) = Len(s) + 1
      /\ \A n \in 1 .. Len(s) + 1 : t[n] = IF n <= i + 1 THEN head[n]
                                                         ELSE back[n - (i + 1)]
  <2>1. /\ head \o back \in Seq(S)
        /\ Len(head \o back) = Len(head) + Len(back)
        /\ \A n \in 1 .. Len(head) + Len(back) :
              (head \o back)[n] = IF n <= Len(head) THEN head[n] ELSE back[n - Len(head)]
    BY <1>7, <1>3, ConcatProperties
  <2>2. Len(head) + Len(back) = Len(s) + 1
    BY <1>3, <1>7, <1>1
  <2> QED BY <2>1, <2>2, <1>6, <1>7
<1>9. t \in Seq(Range(t))
  <2>1. t \in [1 .. Len(t) -> S] /\ Len(t) \in Nat
    BY <1>8
  <2>2. \A n \in 1 .. Len(t) : t[n] \in Range(t)
    BY <2>1 DEF Range
  <2> QED BY <2>1, <2>2
<1>10. ASSUME NEW n \in 1 .. i - 1
       PROVE  t[n] = s[n]
  <2>1. n \in 1 .. Len(s) + 1 /\ n \in 1 .. i + 1 /\ n <= i + 1 /\ n <= i - 1
    BY <1>1
  <2>2. t[n] = head[n]
    BY <2>1, <1>8
  <2>3. head[n] = front[n]
    BY <2>1, <1>5 DEF head
  <2> QED BY <2>2, <2>3, <1>2
<1>11. t[i] = x /\ t[i + 1] = y
  <2>1. /\ i \in 1 .. Len(s) + 1 /\ i + 1 \in 1 .. Len(s) + 1
        /\ i <= i + 1 /\ i \in 1 .. i + 1 /\ i + 1 \in 1 .. i + 1
        /\ ~(i <= i - 1) /\ ~(i + 1 <= i - 1)
        /\ i - (i - 1) = 1 /\ (i + 1) - (i - 1) = 2
    BY <1>1
  <2>2. t[i] = head[i] /\ t[i + 1] = head[i + 1]
    BY <2>1, <1>8
  <2>3. head[i] = two[1] /\ head[i + 1] = two[2]
    BY <2>1, <1>5 DEF head
  <2> QED BY <2>2, <2>3, <1>4
<1>12. ASSUME NEW n \in i + 2 .. Len(s) + 1
       PROVE  t[n] = s[n - 1]
  <2>1. /\ n \in 1 .. Len(s) + 1 /\ ~(n <= i + 1)
        /\ n - (i + 1) \in 1 .. Len(s) - i /\ i + (n - (i + 1)) = n - 1
    BY <1>1
  <2> QED BY <2>1, <1>3, <1>8
<1> QED BY <1>8, <1>9, <1>10, <1>11, <1>12 DEF t, two

\* bucket(k) is a bucket whose range holds k: the ranges do not overlap, so
\* the first bucket that fits is the only one.
LEMMA BucketIndex ==
    ASSUME IInv, NEW k \in Keys, HasBucket(k)
    PROVE  bucket(k) \in DOMAIN buckets /\ inRange(buckets[bucket(k)], k)
<1>1. DOMAIN buckets = 1 .. Len(buckets) /\ Len(buckets) \in Nat
  BY DEF IInv, TypeOK
<1>2. PICK i \in DOMAIN buckets : inRange(buckets[i], k)
  BY DEF HasBucket
<1>3. \A j \in 1 .. i - 1 : ~inRange(buckets[j], k)
  <2> SUFFICES ASSUME NEW j \in 1 .. i - 1 PROVE ~inRange(buckets[j], k)
    OBVIOUS
  <2>1. j \in DOMAIN buckets /\ j < i
    BY <1>1, <1>2
  <2>2. buckets[j].high < buckets[i].low
    BY <2>1, <1>2 DEF IInv, Partition
  <2>3. k \in Int /\ buckets[j].high \in Int /\ buckets[i].low \in Int
    BY <2>1, <1>2, TopKeyAssumption DEF IInv, TypeOK, BucketOK, Keys
  <2> QED BY <2>2, <2>3, <1>2 DEF inRange
<1> QED BY <1>2, <1>3 DEF bucket

\* A call that ends by replacing bucket i by a bucket b on the same range.
LEMMA FinishStep ==
    ASSUME IInv, NEW i \in DOMAIN buckets, AtBucket(i), NEW b, Finish(i, b),
           Good(b), b.low = buckets[i].low, b.high = buckets[i].high,
           Len(buckets[i].contacts) = K => Len(b.contacts) = K,
           \A k \in DOMAIN buckets[i].elements \cup {pending.id} :
               \/ k \in DOMAIN b.elements
               \/ ~inRange(b, SelfID) /\ Len(b.contacts) = K
    PROVE  IInv'
<1>1. DOMAIN buckets = 1 .. Len(buckets) /\ Len(buckets) \in Nat
  BY DEF IInv, TypeOK
<1>2. /\ DOMAIN buckets' = DOMAIN buckets
      /\ Len(buckets') = Len(buckets)
      /\ buckets'[i] = b
      /\ \A j \in DOMAIN buckets : j # i => buckets'[j] = buckets[j]
      /\ buckets' \in Seq(Range(buckets'))
  <2>1. buckets' = [j \in 1 .. Len(buckets) |-> IF j = i THEN b ELSE buckets[j]]
    BY <1>1 DEF Finish, IInv, TypeOK
  <2>2. buckets' \in [1 .. Len(buckets) -> Range(buckets')]
    BY <2>1 DEF Range
  <2> QED BY <2>1, <2>2, <1>1
<1>3. pending \in Contacts /\ pending.id \in Keys /\ inRange(buckets[i], pending.id)
  <2>1. pending \in Contacts /\ pending.id \in Keys
    BY ContactsAssumption DEF AtBucket, Running, IInv, TypeOK
  <2> QED BY <2>1, BucketIndex DEF AtBucket
<1>4. \A j \in DOMAIN buckets' : Good(buckets'[j])
  BY <1>2 DEF IInv
<1>5. TypeOK'
  <2>1. \A j \in DOMAIN buckets' : BucketOK(buckets'[j])
    BY <1>4 DEF Good
  <2>2. seen' \subseteq Keys
    BY <1>3 DEF Finish, IInv, TypeOK
  <2>3. pending' \in Contacts \cup {NoContact}
    BY DEF Finish
  <2> QED BY <2>1, <2>2, <2>3, <1>2 DEF Finish, IInv, TypeOK, BucketOK
<1>6. \A j \in DOMAIN buckets : /\ buckets'[j].low = buckets[j].low
                                /\ buckets'[j].high = buckets[j].high
  BY <1>2
<1>7. Partition'
  BY <1>2, <1>6 DEF IInv, Partition, HasBucket, inRange
<1>8. ForgottenOnlyFromFullFarBucket'
  <2> SUFFICES ASSUME NEW k \in seen'
               PROVE  \/ \E j \in DOMAIN buckets' : k \in DOMAIN buckets'[j].elements
                      \/ \E j \in DOMAIN buckets' :
                            /\ inRange(buckets'[j], k)
                            /\ ~inRange(buckets'[j], SelfID)
                            /\ Len(buckets'[j].contacts) = K
    BY DEF ForgottenOnlyFromFullFarBucket, Known
  <2>1. CASE k = pending.id
    <3>1. inRange(buckets'[i], k)
      BY <2>1, <1>2, <1>3 DEF inRange
    <3> QED BY <2>1, <3>1, <1>2
  <2>2. CASE k \in seen /\ \E j \in DOMAIN buckets : k \in DOMAIN buckets[j].elements
    <3>1. PICK j \in DOMAIN buckets : k \in DOMAIN buckets[j].elements
      BY <2>2
    <3>2. CASE j # i
      BY <3>1, <3>2, <1>2
    <3>3. CASE j = i
      <4>1. inRange(buckets[i], k)
        BY <3>1, <3>3 DEF IInv, Good, IndexedBucket
      <4>2. inRange(buckets'[i], k)
        BY <4>1, <1>2 DEF inRange
      <4> QED BY <3>1, <3>3, <4>2, <1>2
    <3> QED BY <3>2, <3>3
  <2>3. CASE k \in seen /\ \E j \in DOMAIN buckets :
                               /\ inRange(buckets[j], k)
                               /\ ~inRange(buckets[j], SelfID)
                               /\ Len(buckets[j].contacts) = K
    <3>1. PICK j \in DOMAIN buckets : /\ inRange(buckets[j], k)
                                      /\ ~inRange(buckets[j], SelfID)
                                      /\ Len(buckets[j].contacts) = K
      BY <2>3
    <3>2. Len(buckets'[j].contacts) = K
      BY <3>1, <1>2
    <3>3. inRange(buckets'[j], k) /\ ~inRange(buckets'[j], SelfID)
      BY <3>1, <1>6 DEF inRange
    <3> QED BY <3>2, <3>3, <1>2
  <2> QED
    BY <2>1, <2>2, <2>3 DEF Finish, IInv, ForgottenOnlyFromFullFarBucket, Known
<1>9. BucketFound'
  BY DEF Finish, AtBucket, Running, BucketFound
<1> QED BY <1>4, <1>5, <1>7, <1>8, <1>9 DEF IInv

\* What SplitBucket(i) makes of the table: two good halves x and y in the
\* place of bucket i, between which no contact is lost.
LEMMA SplitShape ==
    ASSUME IInv, NEW i \in DOMAIN buckets, SplitBucket(i)
    PROVE  \E x, y :
        LET b == buckets[i] IN
        /\ Good(x) /\ Good(y)
        /\ x.low = b.low /\ x.high + 1 = y.low /\ y.high = b.high
        /\ \A c \in Range(b.contacts) : c \in Range(x.contacts) \cup Range(y.contacts)
        /\ \A k \in DOMAIN b.elements : k \in DOMAIN x.elements \cup DOMAIN y.elements
        /\ buckets' \in Seq(Range(buckets'))
        /\ Len(buckets') = Len(buckets) + 1
        /\ \A n \in 1 .. i - 1 : buckets'[n] = buckets[n]
        /\ buckets'[i] = x
        /\ buckets'[i + 1] = y
        /\ \A n \in i + 2 .. Len(buckets) + 1 : buckets'[n] = buckets[n - 1]
<1> DEFINE b == buckets[i]
           mid == Mid(b)
<1>1. Good(b) /\ i \in 1 .. Len(buckets) /\ buckets \in Seq(Range(buckets))
  BY DEF IInv, TypeOK
<1>2. pending \in Contacts /\ pending.id \in Keys
  BY ContactsAssumption DEF SplitBucket, AtFull, AtBucket, Running, IInv, TypeOK
<1>3. inRange(b, pending.id)
  BY <1>2, BucketIndex DEF SplitBucket, AtFull, AtBucket
<1>4. /\ b.low \in Int /\ b.high \in Int /\ 0 <= b.low /\ b.high <= MaxKey
      /\ MaxKey \in Int
  BY <1>1, TopKeyAssumption DEF Good, BucketOK, Keys
<1>5. b.low < b.high
  <2>1. Len(b.contacts) \in Nat /\ 1 \in 1 .. Len(b.contacts)
    BY <1>1, SizeAssumption DEF SplitBucket, AtFull, Full, Good, BucketOK
  <2>2. b.contacts[1].id \in DOMAIN b.elements
    BY <2>1, <1>1, ListKeys
  <2>3. inRange(b, b.contacts[1].id) /\ b.contacts[1].id \in Keys
    BY <2>2, <1>1 DEF Good, IndexedBucket, BucketOK
  <2>4. b.contacts[1].id # pending.id
    BY <2>2 DEF SplitBucket, AtFull, Found
  <2>5. b.contacts[1].id \in Int /\ pending.id \in Int
    BY <2>3, <1>2, TopKeyAssumption DEF Keys
  <2> QED BY <2>3, <2>4, <2>5, <1>3, <1>4 DEF inRange
<1>6. mid \in Int /\ b.low <= mid /\ mid < b.high /\ mid + 1 \in Keys /\ mid \in Keys
  BY <1>4, <1>5 DEF Mid, Keys
<1>7. PICK s \in Orders(Share(b, b.low, mid)), t \in Orders(Share(b, mid + 1, b.high)) :
          buckets' = Splice(buckets, i, <<Half(b, b.low, mid, s),
                                          Half(b, mid + 1, b.high, t)>>)
  BY DEF SplitBucket, Split
<1> DEFINE x == Half(b, b.low, mid, s)
           y == Half(b, mid + 1, b.high, t)
<1> HIDE DEF mid
<1>8. /\ Good(x) /\ x.low = b.low /\ x.high = mid
      /\ \A c \in Range(b.contacts) : b.low <= c.id /\ c.id <= mid
             => c \in Range(x.contacts)
      /\ \A k \in DOMAIN b.elements : b.low <= k /\ k <= mid => k \in DOMAIN x.elements
  <2>1. b.low \in Keys /\ b.low <= b.low /\ mid <= b.high
    BY <1>1, <1>4, <1>6 DEF Good, BucketOK
  <2>2. s \in Orders(Share(b, b.low, mid))
    BY <1>7
  <2>3. Good(b) /\ mid \in Keys /\ b.low <= mid
    BY <1>1, <1>6
  <2> HIDE DEF b
  <2> QED BY <2>1, <2>2, <2>3, HalfGood
<1>9. /\ Good(y) /\ y.low = mid + 1 /\ y.high = b.high
      /\ \A c \in Range(b.contacts) : mid + 1 <= c.id /\ c.id <= b.high
             => c \in Range(y.contacts)
      /\ \A k \in DOMAIN b.elements : mid + 1 <= k /\ k <= b.high
             => k \in DOMAIN y.elements
  <2>1. b.high \in Keys /\ b.low <= mid + 1 /\ mid + 1 <= b.high /\ b.high <= b.high
    BY <1>1, <1>4, <1>6 DEF Good, BucketOK
  <2>2. t \in Orders(Share(b, mid + 1, b.high))
    BY <1>7
  <2>3. Good(b) /\ mid + 1 \in Keys
    BY <1>1, <1>6
  <2> HIDE DEF b
  <2> QED BY <2>1, <2>2, <2>3, HalfGood
<1>10. \A k \in DOMAIN b.elements :
           \/ b.low <= k /\ k <= mid
           \/ mid + 1 <= k /\ k <= b.high
  <2> SUFFICES ASSUME NEW k \in DOMAIN b.elements
               PROVE  \/ b.low <= k /\ k <= mid
                      \/ mid + 1 <= k /\ k <= b.high
    OBVIOUS
  <2>1. k \in Int /\ b.low <= k /\ k <= b.high
    BY <1>1, TopKeyAssumption DEF Good, BucketOK, IndexedBucket, inRange, Keys
  <2> QED BY <2>1, <1>6
<1>11. \A c \in Range(b.contacts) : c.id \in DOMAIN b.elements
  <2>1. DOMAIN b.contacts = 1 .. Len(b.contacts)
    BY <1>1 DEF Good, BucketOK
  <2>2. \A n \in 1 .. Len(b.contacts) : b.contacts[n].id \in DOMAIN b.elements
    BY <1>1, ListKeys
  <2> QED BY <2>1, <2>2 DEF Range
<1> HIDE DEF b, x, y
<1>12. /\ \A c \in Range(b.contacts) : c \in Range(x.contacts) \cup Range(y.contacts)
       /\ \A k \in DOMAIN b.elements : k \in DOMAIN x.elements \cup DOMAIN y.elements
  BY <1>8, <1>9, <1>10, <1>11
<1>13. buckets' = Splice(buckets, i, <<x, y>>)
  BY <1>7 DEF x, y, b
<1>14. /\ buckets' \in Seq(Range(buckets'))
       /\ Len(buckets') = Len(buckets) + 1
       /\ \A n \in 1 .. i - 1 : buckets'[n] = buckets[n]
       /\ buckets'[i] = x
       /\ buckets'[i + 1] = y
       /\ \A n \in i + 2 .. Len(buckets) + 1 : buckets'[n] = buckets[n - 1]
  BY <1>1, <1>13, SpliceShape
<1>15. x.high + 1 = y.low
  BY <1>8, <1>9
<1> QED BY <1>8, <1>9, <1>12, <1>14, <1>15 DEF b

\* A split keeps the invariant.
LEMMA SplitStep ==
    ASSUME IInv, NEW i \in DOMAIN buckets, SplitBucket(i)
    PROVE  IInv'
<1> DEFINE b == buckets[i]
           N == Len(buckets)
<1>1. PICK x, y :
        /\ Good(x) /\ Good(y)
        /\ x.low = b.low /\ x.high + 1 = y.low /\ y.high = b.high
        /\ \A k \in DOMAIN b.elements : k \in DOMAIN x.elements \cup DOMAIN y.elements
        /\ buckets' \in Seq(Range(buckets'))
        /\ Len(buckets') = N + 1
        /\ \A n \in 1 .. i - 1 : buckets'[n] = buckets[n]
        /\ buckets'[i] = x
        /\ buckets'[i + 1] = y
        /\ \A n \in i + 2 .. N + 1 : buckets'[n] = buckets[n - 1]
  BY SplitShape
<1>2. N \in Nat /\ DOMAIN buckets = 1 .. N /\ i \in 1 .. N /\ DOMAIN buckets' = 1 .. N + 1
  BY <1>1 DEF IInv, TypeOK
<1>3. \A n \in 1 .. N : Good(buckets[n])
  BY <1>2 DEF IInv
<1>4. /\ \A n \in 1 .. N : buckets[n].low \in Int /\ buckets[n].high \in Int
      /\ x.low \in Int /\ x.high \in Int /\ y.low \in Int /\ y.high \in Int
  <2>1. \A g : Good(g) => g.low \in Int /\ g.high \in Int
    BY TopKeyAssumption DEF Good, BucketOK, Keys
  <2> QED BY <2>1, <1>1, <1>3
<1>5. \A n \in 1 .. N + 1 : Good(buckets'[n])
  <2> SUFFICES ASSUME NEW n \in 1 .. N + 1 PROVE Good(buckets'[n])
    OBVIOUS
  <2>1. CASE n \in 1 .. i - 1
    BY <2>1, <1>1, <1>2, <1>3
  <2>2. CASE n \in i + 2 .. N + 1
    <3>1. n - 1 \in 1 .. N
      BY <2>2, <1>2
    <3> QED BY <2>2, <3>1, <1>1, <1>3
  <2>3. CASE n = i \/ n = i + 1
    BY <2>3, <1>1
  <2> QED BY <2>1, <2>2, <2>3, <1>2
<1>6. TypeOK'
  <2>1. \A n \in DOMAIN buckets' : BucketOK(buckets'[n])
    BY <1>2, <1>5 DEF Good
  <2> QED BY <2>1, <1>1 DEF SplitBucket, IInv, TypeOK, BucketOK
<1>7. x.low <= x.high /\ y.low <= y.high
  BY <1>1 DEF Good
<1> DEFINE old(n) == IF n <= i THEN n ELSE n - 1
<1>8. \A n \in 1 .. N + 1 :
        /\ old(n) \in 1 .. N
        /\ buckets[old(n)].low <= buckets'[n].low
        /\ buckets'[n].high <= buckets[old(n)].high
        /\ buckets'[n].low \in Int /\ buckets'[n].high \in Int
  <2> SUFFICES ASSUME NEW n \in 1 .. N + 1
               PROVE  /\ old(n) \in 1 .. N
                      /\ buckets[old(n)].low <= buckets'[n].low
                      /\ buckets'[n].high <= buckets[old(n)].high
                      /\ buckets'[n].low \in Int /\ buckets'[n].high \in Int
    OBVIOUS
  <2>1. CASE n \in 1 .. i - 1
    BY <2>1, <1>1, <1>2, <1>4, SMTT(30)
  <2>2. CASE n = i
    BY <2>2, <1>1, <1>2, <1>4, <1>7, SMTT(30)
  <2>3. CASE n = i + 1
    BY <2>3, <1>1, <1>2, <1>4, <1>7, SMTT(30)
  <2>4. CASE n \in i + 2 .. N + 1
    <3>1. n - 1 \in 1 .. N /\ ~(n <= i)
      BY <2>4, <1>2
    <3>2. old(n) = n - 1 /\ buckets'[n] = buckets[n - 1]
      BY <2>4, <3>1, <1>1
    <3>3. buckets[n - 1].low \in Int /\ buckets[n - 1].high \in Int
      BY <3>1, <1>4
    <3> HIDE DEF old
    <3> QED BY <3>1, <3>2, <3>3
  <2> QED BY <2>1, <2>2, <2>3, <2>4, <1>2
<1>9. \A m, n \in 1 .. N + 1 : m < n => buckets'[m].high < buckets'[n].low
  <2> SUFFICES ASSUME NEW m \in 1 .. N + 1, NEW n \in 1 .. N + 1, m < n
               PROVE  buckets'[m].high < buckets'[n].low
    OBVIOUS
  <2>1. CASE m = i /\ n = i + 1
    BY <2>1, <1>1, <1>4
  <2>2. CASE ~(m = i /\ n = i + 1)
    <3>1. old(m) < old(n)
      BY <2>2, <1>2
    <3>2. old(m) \in 1 .. N /\ old(n) \in 1 .. N
      BY <1>8
    <3> HIDE DEF old
    <3>3. buckets[old(m)].high < buckets[old(n)].low
      BY <3>1, <3>2, <1>2 DEF IInv, Partition
    <3>4. /\ buckets[old(n)].low <= buckets'[n].low
          /\ buckets'[m].high <= buckets[old(m)].high
          /\ buckets'[n].low \in Int /\ buckets'[m].high \in Int
          /\ buckets[old(n)].low \in Int /\ buckets[old(m)].high \in Int
      BY <3>2, <1>4, <1>8
    <3> QED BY <3>3, <3>4
  <2> QED BY <2>1, <2>2
\* A bucket other than i is still there, maybe one place further on.
<1>10. \A n \in 1 .. N : n # i => \E m \in 1 .. N + 1 : buckets'[m] = buckets[n]
  <2> SUFFICES ASSUME NEW n \in 1 .. N, n # i
               PROVE  \E m \in 1 .. N + 1 : buckets'[m] = buckets[n]
    OBVIOUS
  <2>1. CASE n < i
    BY <2>1, <1>1, <1>2
  <2>2. CASE n > i
    <3>1. n + 1 \in i + 2 .. N + 1 /\ n + 1 \in 1 .. N + 1 /\ (n + 1) - 1 = n
      BY <2>2, <1>2
    <3> QED BY <3>1, <1>1
  <2> QED BY <2>1, <2>2, <1>2
<1>11. i \in 1 .. N + 1 /\ i + 1 \in 1 .. N + 1
  BY <1>2
<1>12. Partition'
  <2>1. ASSUME NEW k \in 0 .. TopKey
        PROVE  \E m \in 1 .. N + 1 : inRange(buckets'[m], k)
    <3>1. PICK n \in 1 .. N : inRange(buckets[n], k)
      BY <1>2 DEF IInv, Partition, HasBucket
    <3>2. CASE n # i
      BY <3>1, <3>2, <1>10
    <3>3. CASE n = i
      <4>1. k \in Int
        BY TopKeyAssumption DEF Keys
      <4>2. inRange(x, k) \/ inRange(y, k)
        BY <3>1, <3>3, <4>1, <1>1, <1>4 DEF inRange
      <4> QED BY <4>2, <1>1, <1>11
    <3> QED BY <3>2, <3>3
  <2>2. \A n \in 1 .. N + 1 : buckets'[n].low <= buckets'[n].high /\ buckets'[n].high <= TopKey
    BY <1>5 DEF Good
  <2> QED BY <2>1, <2>2, <1>2, <1>9 DEF Partition, HasBucket, inRange
<1>13. ForgottenOnlyFromFullFarBucket'
  <2> SUFFICES ASSUME NEW k \in seen
               PROVE  \/ \E m \in 1 .. N + 1 : k \in DOMAIN buckets'[m].elements
                      \/ \E m \in 1 .. N + 1 :
                            /\ inRange(buckets'[m], k)
                            /\ ~inRange(buckets'[m], SelfID)
                            /\ Len(buckets'[m].contacts) = K
    BY <1>2 DEF ForgottenOnlyFromFullFarBucket, Known, SplitBucket, inRange
  <2>1. CASE \E n \in 1 .. N : k \in DOMAIN buckets[n].elements
    <3>1. PICK n \in 1 .. N : k \in DOMAIN buckets[n].elements
      BY <2>1
    <3>2. CASE n # i
      BY <3>1, <3>2, <1>10
    <3>3. CASE n = i
      BY <3>1, <3>3, <1>1, <1>11
    <3> QED BY <3>2, <3>3
  <2>2. CASE \E n \in 1 .. N : /\ inRange(buckets[n], k)
                               /\ ~inRange(buckets[n], SelfID)
                               /\ Len(buckets[n].contacts) = K
    <3>1. PICK n \in 1 .. N : /\ inRange(buckets[n], k)
                              /\ ~inRange(buckets[n], SelfID)
                              /\ Len(buckets[n].contacts) = K
      BY <2>2
    <3>2. n # i
      BY <3>1 DEF SplitBucket
    <3> QED BY <3>1, <3>2, <1>10
  <2> QED BY <2>1, <2>2, <1>2 DEF IInv, ForgottenOnlyFromFullFarBucket, Known
<1>14. BucketFound'
  BY DEF SplitBucket, AtFull, AtBucket, Running, BucketFound
<1> QED BY <1>2, <1>5, <1>6, <1>12, <1>13, <1>14 DEF IInv

-----------------------------------------------------------------------------
(* The theorems *)

\* The table of newRoutingTable satisfies the invariant.
LEMMA InitIInv == Init => IInv
<1> SUFFICES ASSUME Init PROVE IInv
  OBVIOUS
<1> DEFINE b == newBucket(0, TopKey)
<1>1. /\ b = [low |-> 0, high |-> TopKey, contacts |-> << >>,
              elements |-> [k \in {} |-> NoContact]]
      /\ TopKey \in Nat /\ MaxKey \in Nat /\ TopKey <= MaxKey
  BY TopKeyAssumption DEF newBucket, Keys
<1>2. buckets = <<b>> /\ DOMAIN buckets = {1} /\ buckets[1] = b /\ Range(buckets) = {b}
  BY DEF Init, newRoutingTable, Range
<1>3. BucketOK(b)
  <2> HIDE DEF b
  <2>0. /\ b.elements = [k \in {} |-> NoContact] /\ b.contacts = << >>
        /\ b.low = 0 /\ b.high = TopKey
    BY <1>1
  <2>1. DOMAIN b.elements = {} /\ b.elements \in [DOMAIN b.elements -> Contacts]
    <3>1. DOMAIN b.elements = {}
      BY <2>0
    <3>2. b.elements = [k \in {} |-> b.elements[k]]
      BY <2>0, <3>1
    <3> QED BY <3>1, <3>2
  <2>2. b.contacts \in Seq(Contacts) /\ b.low \in Keys /\ b.high \in Keys
    <3>1. << >> \in Seq(Contacts)
      OBVIOUS
    <3> QED BY <3>1, <2>0, <1>1 DEF Keys
  <2>3. b = [low |-> b.low, high |-> b.high, contacts |-> b.contacts,
             elements |-> b.elements]
    BY <1>1
  <2> QED BY <2>1, <2>2, <2>3 DEF BucketOK
<1>4. IndexedBucket(b)
  BY <1>1 DEF IndexedBucket, Range
<1>5. Good(b)
  BY <1>1, <1>3, <1>4, SizeAssumption DEF Good
<1> HIDE DEF b
<1>6. TypeOK
  <2>1. buckets \in Seq(Range(buckets))
    BY <1>2
  <2> QED BY <2>1, <1>2, <1>3 DEF Init, TypeOK
<1>7. Partition
  <2>1. b.low = 0 /\ b.high = TopKey
    BY <1>1
  <2> QED BY <2>1, <1>1, <1>2 DEF Partition, HasBucket, inRange
<1>8. ForgottenOnlyFromFullFarBucket /\ BucketFound
  BY DEF Init, ForgottenOnlyFromFullFarBucket, BucketFound
<1> QED BY <1>2, <1>5, <1>6, <1>7, <1>8 DEF IInv

\* Every step of the table, of its callers and of the network keeps it.
LEMMA NextIInv == IInv /\ [Next]_vars => IInv'
<1> SUFFICES ASSUME IInv, [Next]_vars PROVE IInv'
  OBVIOUS
<1>1. ASSUME UNCHANGED buckets, UNCHANGED seen, TypeOK', BucketFound'
      PROVE  IInv'
  BY <1>1 DEF IInv, Partition, HasBucket, inRange, Good, BucketOK, IndexedBucket,
              ForgottenOnlyFromFullFarBucket, Known
<1>2. ASSUME NEW c \in Contacts, UpdateContact(c)
      PROVE  IInv'
  BY <1>1, <1>2 DEF UpdateContact, IInv, TypeOK, BucketOK, BucketFound
<1>3. ASSUME NEW c \in Contacts, Toggle(c)
      PROVE  IInv'
  BY <1>1, <1>3 DEF Toggle, IInv, TypeOK, BucketOK, BucketFound
<1>4. CASE NoBucket
  <2>1. pending \in Contacts /\ pending.id \in Keys
    BY <1>4, ContactsAssumption DEF NoBucket, Running, IInv, TypeOK
  <2>2. pending.id > TopKey
    BY <1>4, <2>1, TopKeyAssumption DEF NoBucket, IInv, Partition, Keys
  <2>3. TypeOK' /\ BucketFound'
    BY <1>4, <2>2 DEF NoBucket, IInv, TypeOK, BucketOK, BucketFound
  <2> QED BY <1>1, <1>4, <2>3 DEF NoBucket
<1>5. ASSUME NEW i \in DOMAIN buckets, AtBucket(i)
      PROVE  /\ pending \in Contacts
             /\ inRange(buckets[i], pending.id)
             /\ Good(buckets[i])
             /\ Len(buckets[i].contacts) \in Nat
  <2>1. pending \in Contacts /\ pending.id \in Keys
    BY <1>5, ContactsAssumption DEF AtBucket, Running, IInv, TypeOK
  <2>2. inRange(buckets[i], pending.id)
    BY <1>5, <2>1, BucketIndex DEF AtBucket
  <2> QED BY <2>1, <2>2 DEF IInv, Good, BucketOK
<1>6. ASSUME NEW i \in DOMAIN buckets, Refresh(i)
      PROVE  IInv'
  <2> DEFINE t == MoveToTail(buckets[i], pending)
  <2>1. AtBucket(i) /\ Found(buckets[i], pending) /\ Finish(i, t)
    BY <1>6 DEF Refresh
  <2>2. /\ Good(t) /\ t.low = buckets[i].low /\ t.high = buckets[i].high
        /\ DOMAIN t.elements = DOMAIN buckets[i].elements
        /\ Len(t.contacts) = Len(buckets[i].contacts)
    BY <2>1, <1>5, MoveToTailGood
  <2> HIDE DEF t
  <2> QED BY <2>1, <2>2, FinishStep DEF Found
<1>7. ASSUME NEW i \in DOMAIN buckets, Insert(i)
      PROVE  IInv'
  <2> DEFINE t == PushBack(buckets[i], pending)
  <2>1. /\ AtBucket(i) /\ pending.id \notin DOMAIN buckets[i].elements
        /\ Len(buckets[i].contacts) < K /\ Finish(i, t)
    BY <1>7, <1>5, SizeAssumption DEF Insert, Found, Full
  <2>2. /\ Good(t) /\ t.low = buckets[i].low /\ t.high = buckets[i].high
        /\ DOMAIN t.elements = DOMAIN buckets[i].elements \cup {pending.id}
    BY <2>1, <1>5, PushBackGood
  <2>3. Len(buckets[i].contacts) # K
    BY <2>1, <1>5, SizeAssumption
  <2> HIDE DEF t
  <2> QED BY <2>1, <2>2, <2>3, FinishStep
<1>8. ASSUME NEW i \in DOMAIN buckets, SplitBucket(i)
      PROVE  IInv'
  BY <1>8, SplitStep
<1>9. ASSUME NEW i \in DOMAIN buckets, PingFails(i)
      PROVE  IInv'
  <2> DEFINE t == ReplaceFront(buckets[i], pending)
  <2>1. /\ AtBucket(i) /\ ~Found(buckets[i], pending) /\ Full(buckets[i])
        /\ ~inRange(buckets[i], SelfID) /\ Finish(i, t)
    BY <1>9 DEF PingFails, AtFull
  <2>2. /\ Good(t) /\ t.low = buckets[i].low /\ t.high = buckets[i].high
        /\ Len(t.contacts) = K
    BY <2>1, <1>5, ReplaceFrontGood
  <2> HIDE DEF t
  <2>3. ~inRange(t, SelfID)
    BY <2>1, <2>2 DEF inRange
  <2> QED BY <2>1, <2>2, <2>3, FinishStep
<1>10. ASSUME NEW i \in DOMAIN buckets, PingAnswered(i)
       PROVE  IInv'
  <2> DEFINE t == FrontToTail(buckets[i])
  <2>1. /\ AtBucket(i) /\ Full(buckets[i])
        /\ ~inRange(buckets[i], SelfID) /\ Finish(i, t)
    BY <1>10 DEF PingAnswered, AtFull
  <2>2. /\ Good(t) /\ t.low = buckets[i].low /\ t.high = buckets[i].high
        /\ Len(t.contacts) = K
    BY <2>1, <1>5, FrontToTailGood
  <2> HIDE DEF t
  <2>3. ~inRange(t, SelfID)
    BY <2>1, <2>2 DEF inRange
  <2> QED BY <2>1, <2>2, <2>3, FinishStep
<1>11. CASE UNCHANGED vars
  BY <1>1, <1>11 DEF vars, IInv, TypeOK, BucketOK, BucketFound
<1> QED
  BY <1>2, <1>3, <1>4, <1>6, <1>7, <1>8, <1>9, <1>10, <1>11
     DEF Next, updateContact, Level

\* The invariant holds in every state of every behaviour of the table.
THEOREM Invariance == Spec => []IInv
<1> QED BY InitIInv, NextIInv, PTL DEF Spec

\* Buckets, lock holder and history always have their types.
THEOREM TypeHolds == Spec => []TypeOK
<1>1. IInv => TypeOK
  BY DEF IInv
<1> QED BY <1>1, Invariance, PTL

\* The buckets always partition the keys up to TopKey: each key the table can
\* own has exactly one bucket, whatever was inserted and split before.
THEOREM PartitionHolds == Spec => []Partition
<1>1. IInv => Partition
  BY DEF IInv
<1> QED BY <1>1, Invariance, PTL

\* The list and the map of each bucket never disagree.
THEOREM IndexedHolds == Spec => []Indexed
<1>1. IInv => Indexed
  BY DEF IInv, Good, Indexed
<1> QED BY <1>1, Invariance, PTL

\* No bucket ever holds more than K contacts.
THEOREM BoundedHolds == Spec => []Bounded
<1>1. IInv => Bounded
  BY DEF IInv, Good, Bounded
<1> QED BY <1>1, Invariance, PTL

\* A key that was offered is forgotten only in a full bucket away from the node.
THEOREM NeighboursKept == Spec => []ForgottenOnlyFromFullFarBucket
<1>1. IInv => ForgottenOnlyFromFullFarBucket
  BY DEF IInv
<1> QED BY <1>1, Invariance, PTL

\* bucket() only panics for a key above the bound newRoutingTable computes.
THEOREM BucketFoundHolds == Spec => []BucketFound
<1>1. IInv => BucketFound
  BY DEF IInv
<1> QED BY <1>1, Invariance, PTL

\* No step drops a contact that answers, except for a newer address of it.
THEOREM LiveContactsStay == Spec => LiveContactStays
<1> DEFINE Stays ==
      \A c \in Contacts :
        InTable(c) /\ c \in reachable
            => InTable(c)' \/ (pending # NoContact /\ pending.id = c.id)
<1>1. ASSUME IInv, Next
      PROVE  Stays
  <2> SUFFICES ASSUME NEW c \in Contacts, NEW j \in DOMAIN buckets,
                      c \in Range(buckets[j].contacts), c \in reachable
               PROVE  \/ \E n \in DOMAIN buckets' : c \in Range(buckets'[n].contacts)
                      \/ pending # NoContact /\ pending.id = c.id
    BY DEF InTable
  <2>1. CASE UNCHANGED buckets
    BY <2>1
  <2>2. ASSUME NEW i \in DOMAIN buckets, SplitBucket(i)
        PROVE  \E n \in DOMAIN buckets' : c \in Range(buckets'[n].contacts)
    <3>1. PICK x, y :
            /\ \A d \in Range(buckets[i].contacts) :
                   d \in Range(x.contacts) \cup Range(y.contacts)
            /\ buckets' \in Seq(Range(buckets'))
            /\ Len(buckets') = Len(buckets) + 1
            /\ \A n \in 1 .. i - 1 : buckets'[n] = buckets[n]
            /\ buckets'[i] = x
            /\ buckets'[i + 1] = y
            /\ \A n \in i + 2 .. Len(buckets) + 1 : buckets'[n] = buckets[n - 1]
      BY <1>1, <2>2, SplitShape
    <3>2. /\ Len(buckets) \in Nat /\ i \in 1 .. Len(buckets) /\ j \in 1 .. Len(buckets)
          /\ DOMAIN buckets' = 1 .. Len(buckets) + 1
      BY <1>1, <3>1 DEF IInv, TypeOK
    <3>3. CASE j < i
      BY <3>1, <3>2, <3>3
    <3>4. CASE j = i
      BY <3>1, <3>2, <3>4
    <3>5. CASE j > i
      <4>1. j + 1 \in i + 2 .. Len(buckets) + 1 /\ j + 1 \in DOMAIN buckets'
            /\ (j + 1) - 1 = j
        BY <3>2, <3>5
      <4>2. buckets'[j + 1] = buckets[j]
        BY <3>1, <4>1
      <4> QED BY <4>1, <4>2
    <3> QED BY <3>2, <3>3, <3>4, <3>5
  <2>3. ASSUME NEW i \in DOMAIN buckets, NEW b, AtBucket(i), Finish(i, b),
               \A d \in Range(buckets[i].contacts) :
                   d \in reachable => d \in Range(b.contacts) \/ d.id = pending.id
        PROVE  \/ \E n \in DOMAIN buckets' : c \in Range(buckets'[n].contacts)
               \/ pending # NoContact /\ pending.id = c.id
    BY <2>3 DEF Finish, AtBucket, Running
  <2>4. ASSUME NEW i \in DOMAIN buckets, AtBucket(i)
        PROVE  /\ pending \in Contacts
               /\ inRange(buckets[i], pending.id)
               /\ Good(buckets[i])
               /\ Len(buckets[i].contacts) \in Nat
    <3>1. pending \in Contacts /\ pending.id \in Keys
      BY <1>1, <2>4, ContactsAssumption DEF AtBucket, Running, IInv, TypeOK
    <3>2. inRange(buckets[i], pending.id)
      BY <1>1, <2>4, <3>1, BucketIndex DEF AtBucket
    <3> QED BY <1>1, <3>1, <3>2 DEF IInv, Good, BucketOK
  <2>5. ASSUME NEW i \in DOMAIN buckets, Refresh(i)
        PROVE  \/ \E n \in DOMAIN buckets' : c \in Range(buckets'[n].contacts)
               \/ pending # NoContact /\ pending.id = c.id
    <3>1. /\ AtBucket(i) /\ Found(buckets[i], pending)
          /\ Finish(i, MoveToTail(buckets[i], pending))
      BY <2>5 DEF Refresh
    <3>2. \A d \in Range(buckets[i].contacts) :
              d \in Range(MoveToTail(buckets[i], pending).contacts) \/ d.id = pending.id
      BY <3>1, <2>4, MoveToTailGood
    <3> QED BY <3>1, <3>2, <2>3
  <2>6. ASSUME NEW i \in DOMAIN buckets, Insert(i)
        PROVE  \/ \E n \in DOMAIN buckets' : c \in Range(buckets'[n].contacts)
               \/ pending # NoContact /\ pending.id = c.id
    <3>1. /\ AtBucket(i) /\ pending.id \notin DOMAIN buckets[i].elements
          /\ Finish(i, PushBack(buckets[i], pending))
      BY <2>6 DEF Insert, Found
    <3>2. Len(buckets[i].contacts) < K
      BY <2>6, <3>1, <2>4, SizeAssumption DEF Insert, Full
    <3>3. Range(PushBack(buckets[i], pending).contacts)
              = Range(buckets[i].contacts) \cup {pending}
      BY <3>1, <3>2, <2>4, PushBackGood
    <3> QED BY <3>1, <3>3, <2>3
  <2>7. ASSUME NEW i \in DOMAIN buckets, PingFails(i)
        PROVE  \/ \E n \in DOMAIN buckets' : c \in Range(buckets'[n].contacts)
               \/ pending # NoContact /\ pending.id = c.id
    <3>1. /\ AtBucket(i) /\ ~Found(buckets[i], pending) /\ Full(buckets[i])
          /\ Head(buckets[i].contacts) \notin reachable
          /\ Finish(i, ReplaceFront(buckets[i], pending))
      BY <2>7 DEF PingFails, AtFull
    <3>2. \A d \in Range(buckets[i].contacts) :
              \/ d \in Range(ReplaceFront(buckets[i], pending).contacts)
              \/ d = Head(buckets[i].contacts)
      BY <3>1, <2>4, ReplaceFrontGood
    <3> QED BY <3>1, <3>2, <2>3
  <2>8. ASSUME NEW i \in DOMAIN buckets, PingAnswered(i)
        PROVE  \/ \E n \in DOMAIN buckets' : c \in Range(buckets'[n].contacts)
               \/ pending # NoContact /\ pending.id = c.id
    <3>1. /\ AtBucket(i) /\ Full(buckets[i])
          /\ Finish(i, FrontToTail(buckets[i]))
      BY <2>8 DEF PingAnswered, AtFull
    <3>2. Range(FrontToTail(buckets[i]).contacts) = Range(buckets[i].contacts)
      BY <3>1, <2>4, FrontToTailGood
    <3> QED BY <3>1, <3>2, <2>3
  <2> QED
    BY <1>1, <2>1, <2>2, <2>5, <2>6, <2>7, <2>8
       DEF Next, updateContact, Level, UpdateContact, Toggle, NoBucket
<1>2. IInv /\ [Next]_vars => [Stays]_vars
  BY <1>1
<1> QED BY <1>2, Invariance, PTL DEF Spec, LiveContactStays
=============================================================================

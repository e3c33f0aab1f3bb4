---------------------------- MODULE RoutingTable ----------------------------
(***************************************************************************)
(* The Kademlia routing table of one DHT node (src/dht/routing_table.go).  *)
(*                                                                         *)
(* The table is a sequence of buckets.  A bucket owns a range of keys and  *)
(* keeps at most K contacts, in a list (contacts) that is meant to run     *)
(* from the least to the most recently seen, and in a map (elements) from  *)
(* key to list element.  UpdateContact takes the table's write lock and    *)
(* keeps it over the ping of a full bucket and over every level of the     *)
(* recursion that follows a split: pending is the contact of the call that *)
(* holds the lock, and each level of the recursion is one step.            *)
(*                                                                         *)
(* A key is a number of KeyLen digits in base Base (32 bytes in the code). *)
(* bucket.lastUpdated is left out: only the choice of the buckets to       *)
(* refresh reads it, and here any contact may be offered at any time.      *)
(***************************************************************************)
EXTENDS Integers, Sequences, FiniteSets, Functions

CONSTANTS
    Base,       \* values of one digit of a key: 256 in the code
    KeyLen,     \* digits in a key: 32 in the code
    K,          \* config.K, the size of a bucket
    SelfID,     \* the node's own key
    Contacts,   \* the contacts the node may hear of: [id, addr] records
    NoContact   \* no UpdateContact is running

MaxKey == Base^KeyLen - 1
Keys == 0 .. MaxKey

\* newRoutingTable sets the first K digits of the upper bound, not the
\* first KeyLen, to their maximum.
TopKey == Base^KeyLen - Base^(KeyLen - K)

ASSUME SizeAssumption == K \in Nat \ {0}
ASSUME TopKeyAssumption == MaxKey \in Nat /\ TopKey \in Keys
ASSUME SelfAssumption == SelfID \in Keys
ASSUME ContactsAssumption ==
    \A c \in Contacts : c = [id |-> c.id, addr |-> c.addr] /\ c.id \in Keys
ASSUME NoContactAssumption == NoContact \notin Contacts

VARIABLES
    buckets,    \* routingTable.buckets
    pending,    \* the contact whose UpdateContact holds the write lock
    reachable,  \* the contacts that answer a ping at this moment
    seen,       \* history: the keys whose UpdateContact has completed
    panicked    \* bucket() found no bucket: the process is gone

vars == <<buckets, pending, reachable, seen, panicked>>

-----------------------------------------------------------------------------
(* Buckets *)

newBucket(low, high) ==
    [low |-> low, high |-> high, contacts |-> <<>>,
     elements |-> [k \in {} |-> NoContact]]

\* Bucket b with another list and another map.
Holding(b, list, map) ==
    [low |-> b.low, high |-> b.high, contacts |-> list, elements |-> map]

inRange(b, k) == b.low <= k /\ k <= b.high

\* contacts.Remove(e) for the list element e that holds c.
Remove(list, c) ==
    LET i == CHOOSE j \in DOMAIN list : list[j] = c
    IN  SubSeq(list, 1, i - 1) \o SubSeq(list, i + 1, Len(list))

\* elements[c.ID] = e, for the list element e that holds c.
Point(map, c) ==
    [k \in DOMAIN map \cup {c.id} |-> IF k = c.id THEN c ELSE map[k]]

\* e := contacts.PushBack(c); elements[c.ID] = e
PushBack(b, c) == Holding(b, Append(b.contacts, c), Point(b.elements, c))

Found(b, c) == c.id \in DOMAIN b.elements
\* Mutant of Full: one contact too many.
FullTooLate(b) == Len(b.contacts) > K

Full(b) == Len(b.contacts) >= K

\* The contact exists: it moves to the tail, with the address just heard.
MoveToTail(b, c) ==
    Holding(b, Append(Remove(b.contacts, b.elements[c.id]), c),
               Point(b.elements, c))

\* Mutants of ReplaceFront: the slot is cleared and stays in the list; the map
\* keeps the contact; the sender is not put in its place.
ReplaceFrontHole(b, c) ==
    PushBack(Holding(b, <<NoContact>> \o Tail(b.contacts),
                     Restrict(b.elements,
                              DOMAIN b.elements \ {Head(b.contacts).id})), c)
ReplaceFrontInListOnly(b, c) == PushBack(Holding(b, Tail(b.contacts), b.elements), c)
ReplaceFrontByNobody(b, c) ==
    Holding(b, Tail(b.contacts),
            Restrict(b.elements, DOMAIN b.elements \ {Head(b.contacts).id}))

\* The front contact did not answer: it is dropped, the sender takes the tail.
ReplaceFront(b, c) ==
    PushBack(Holding(b, Tail(b.contacts),
                     Restrict(b.elements,
                              DOMAIN b.elements \ {Head(b.contacts).id})),
             c)

\* Mutants of FrontToTail: the contact that answered is dropped; it stays where
\* it is.
FrontDropped(b) ==
    Holding(b, Tail(b.contacts),
            Restrict(b.elements, DOMAIN b.elements \ {Head(b.contacts).id}))
FrontStays(b) == b

\* The front contact answered: it moves to the tail, the sender is discarded.
FrontToTail(b) ==
    Holding(b, Append(Tail(b.contacts), Head(b.contacts)), b.elements)

\* The lists a loop over the map elements can build from the contacts S:
\* Go leaves the order of the iteration open.
Orders(S) ==
    {s \in UNION {[1 .. n -> S] : n \in 0 .. K} :
        /\ Range(s) = S
        /\ \A i, j \in DOMAIN s : s[i] = s[j] => i = j}

\* The bucket on low .. high that receives the contacts of b in its range.
Half(b, low, high, order) ==
    [low |-> low, high |-> high, contacts |-> order,
     elements |-> Restrict(b.elements, {k \in DOMAIN b.elements :
                                            low <= k /\ k <= high})]

\* The contacts of b that a half on low .. high receives.
Share(b, low, high) ==
    {b.elements[k] : k \in {i \in DOMAIN b.elements : low <= i /\ i <= high}}

Mid(b) == (b.low + b.high) \div 2

\* Mutant of Split: the upper half starts at the middle, not behind it.
SplitOverlap(b) ==
    {<<Half(b, b.low, Mid(b), s), Half(b, Mid(b), b.high, t)>> :
        s \in Orders(Share(b, b.low, Mid(b))),
        t \in Orders(Share(b, Mid(b), b.high))}

\* The pairs of buckets that Split can return.
Split(b) ==
    {<<Half(b, b.low, Mid(b), s), Half(b, Mid(b) + 1, b.high, t)>> :
        s \in Orders(Share(b, b.low, Mid(b))),
        t \in Orders(Share(b, Mid(b) + 1, b.high))}

-----------------------------------------------------------------------------
(* The table *)

newRoutingTable == <<newBucket(0, TopKey)>>

HasBucket(k) == \E i \in DOMAIN buckets : inRange(buckets[i], k)

\* bucket(k): the first bucket in whose range k falls.
bucket(k) ==
    CHOOSE i \in DOMAIN buckets :
        /\ inRange(buckets[i], k)
        /\ \A j \in 1 .. i - 1 : ~inRange(buckets[j], k)

\* Mutants of Splice: the upper half is lost; the table is not updated.
SpliceLower(table, i, p) ==
    SubSeq(table, 1, i - 1) \o <<p[1]>> \o SubSeq(table, i + 1, Len(table))
SpliceNothing(table, i, p) == table

\* The two halves p of bucket i take its place.
Splice(table, i, p) ==
    SubSeq(table, 1, i - 1) \o p \o SubSeq(table, i + 1, Len(table))

Init ==
    /\ buckets = newRoutingTable
    /\ pending = NoContact
    /\ reachable = Contacts
    /\ seen = {}
    /\ panicked = FALSE

\* UpdateContact(c): the call gets the write lock.
UpdateContact(c) ==
    /\ ~panicked
    /\ pending = NoContact
    /\ pending' = c
    /\ UNCHANGED <<buckets, reachable, seen, panicked>>

\* The call returns and releases the lock, bucket i replaced by b.
Finish(i, b) ==
    /\ buckets' = [buckets EXCEPT ![i] = b]
    /\ seen' = seen \cup {pending.id}
    /\ pending' = NoContact
    /\ UNCHANGED <<reachable, panicked>>

\* A level of updateContact that looks for the bucket of pending.
Running == ~panicked /\ pending # NoContact

NoBucket ==
    /\ Running
    /\ ~HasBucket(pending.id)
    /\ panicked' = TRUE
    /\ UNCHANGED <<buckets, pending, reachable, seen>>

\* The conditions under which bucket.UpdateContact takes each of its branches.
AtBucket(i) == Running /\ HasBucket(pending.id) /\ i = bucket(pending.id)
AtFull(i) == AtBucket(i) /\ ~Found(buckets[i], pending) /\ Full(buckets[i])

Refresh(i) ==
    /\ AtBucket(i)
    /\ Found(buckets[i], pending)
    /\ Finish(i, MoveToTail(buckets[i], pending))

Insert(i) ==
    /\ AtBucket(i)
    /\ ~Found(buckets[i], pending)
    /\ ~Full(buckets[i])
    /\ Finish(i, PushBack(buckets[i], pending))

\* The bucket is full and covers the node itself: it is split, and
\* updateContact calls itself again with the lock still held.
SplitBucket(i) ==
    /\ AtFull(i)
    /\ inRange(buckets[i], SelfID)
    /\ \E p \in Split(buckets[i]) :
        buckets' = Splice(buckets, i, p)
    /\ UNCHANGED <<pending, reachable, seen, panicked>>

PingFails(i) ==
    /\ AtFull(i)
    /\ ~inRange(buckets[i], SelfID)
    /\ Head(buckets[i].contacts) \notin reachable
    /\ Finish(i, ReplaceFront(buckets[i], pending))

PingAnswered(i) ==
    /\ AtFull(i)
    /\ ~inRange(buckets[i], SelfID)
    /\ Head(buckets[i].contacts) \in reachable
    /\ Finish(i, FrontToTail(buckets[i]))

\* Environment: a contact stops answering, or answers again.
Toggle(c) ==
    /\ ~panicked
    /\ reachable' = IF c \in reachable THEN reachable \ {c}
                                       ELSE reachable \cup {c}
    /\ UNCHANGED <<buckets, pending, seen, panicked>>

Level(i) ==
    \/ Refresh(i)
    \/ Insert(i)
    \/ SplitBucket(i)
    \/ PingFails(i)
    \/ PingAnswered(i)

updateContact == NoBucket \/ \E i \in DOMAIN buckets : Level(i)

Next ==
    \/ \E c \in Contacts : UpdateContact(c) \/ Toggle(c)
    \/ updateContact

Spec == Init /\ [][Next]_vars

\* The goroutine that holds the lock keeps running: a ping ends, answered or
\* failed, because the RPC client has a timeout.
FairSpec == Spec /\ WF_vars(updateContact)

-----------------------------------------------------------------------------
(* Properties *)

\* A bucket: its range, its list and its map from key to list element.
BucketOK(b) ==
    /\ b = [low |-> b.low, high |-> b.high, contacts |-> b.contacts,
            elements |-> b.elements]
    /\ b.low \in Keys
    /\ b.high \in Keys
    /\ b.contacts \in Seq(Contacts)
    /\ DOMAIN b.elements \subseteq Keys
    /\ b.elements \in [DOMAIN b.elements -> Contacts]

TypeOK ==
    /\ buckets \in Seq(Range(buckets))
    /\ \A i \in DOMAIN buckets : BucketOK(buckets[i])
    /\ pending \in Contacts \cup {NoContact}
    /\ reachable \subseteq Contacts
    /\ seen \subseteq Keys
    /\ panicked \in BOOLEAN

\* Every key from 0 to TopKey has its bucket, and the ranges follow one
\* another in the order of the table without an overlap, through every split.
Partition ==
    /\ \A k \in 0 .. TopKey : HasBucket(k)
    /\ \A i \in DOMAIN buckets :
            buckets[i].low <= buckets[i].high /\ buckets[i].high <= TopKey
    /\ \A i, j \in DOMAIN buckets : i < j => buckets[i].high < buckets[j].low

\* The list and the map of a bucket hold the same contacts, each contact
\* once, under its own key, in the bucket that owns the key: no list element
\* the map has lost, no map entry for a contact that was evicted.
IndexedBucket(b) ==
    /\ \A k \in DOMAIN b.elements : b.elements[k].id = k /\ inRange(b, k)
    /\ Range(b.elements) = Range(b.contacts)
    /\ \A m, n \in DOMAIN b.contacts :
            b.contacts[m].id = b.contacts[n].id => m = n

Indexed == \A i \in DOMAIN buckets : IndexedBucket(buckets[i])

\* No sequence of insertions, splits and evictions puts more than K contacts
\* in a bucket.
Bounded == \A i \in DOMAIN buckets : Len(buckets[i].contacts) <= K

Known(k) == \E i \in DOMAIN buckets : k \in DOMAIN buckets[i].elements

\* A key the node has been told of is forgotten only where Kademlia allows it:
\* the bucket that owns it does not cover the node's own key and holds K other
\* contacts.  So the node never forgets a neighbour because of a split that
\* drops contacts, or of an eviction with nobody put in its place.
ForgottenOnlyFromFullFarBucket ==
    \A k \in seen : Known(k) \/
        \E i \in DOMAIN buckets :
            /\ inRange(buckets[i], k)
            /\ ~inRange(buckets[i], SelfID)
            /\ Len(buckets[i].contacts) = K

\* bucket() finds a bucket for every contact up to TopKey, whatever splits
\* came before: the process only ends for a key above the table's range.
BucketFound == panicked => pending.id > TopKey

\* What panic("bucket not found") asserts of the table: the buckets cover the
\* whole key space, so the lookup of a bucket never fails.
EveryKeyHasBucket == ~panicked

\* A contact that answers is never dropped from the table; it only gives way
\* to a newer address under its own key.
InTable(c) == \E i \in DOMAIN buckets : c \in Range(buckets[i].contacts)
LiveContactStays ==
    [][\A c \in Contacts :
        InTable(c) /\ c \in reachable
            => InTable(c)' \/ (pending # NoContact /\ pending.id = c.id)]_vars

\* updateContact's recursion ends: whoever holds the write lock releases it,
\* unless no bucket takes the contact and the process is gone.
LockReleased == (pending # NoContact) ~> (pending = NoContact \/ panicked)

\* Bucket i is about to ping the contact at the front of its list.
PingDue(i) == AtFull(i) /\ ~inRange(buckets[i], SelfID)

\* Pings reach everybody: a contact that is dead for good, and of which the
\* node hears no more, does not keep a place in a bucket that others are pinged
\* for over and over.  Live contacts that answer must make way at the front,
\* and splits, which refill the lists in any order, must come to an end.
DeadContactEvicted ==
    \A c \in Contacts :
        <>[](c \notin reachable /\ (pending = NoContact \/ pending.id # c.id))
            => <>[](\A i \in DOMAIN buckets :
                        PingDue(i) => c \notin Range(buckets[i].contacts))
=============================================================================

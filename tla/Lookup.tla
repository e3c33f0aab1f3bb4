------------------------------- MODULE Lookup -------------------------------
(***************************************************************************)
(* One iterative lookup of a DHT node (Node.lookup and the shortlist it    *)
(* works on, src/dht/node.go), for find-node and for find-peers.           *)
(*                                                                         *)
(* A lookup runs in rounds.  A round picks contacts of the shortlist that  *)
(* were not asked yet, asks each in a goroutine of its own, and waits for  *)
(* all of them.  The replies come in any order and each one locks the      *)
(* shortlist on its own; a call may also fail or time out.                 *)
(*                                                                         *)
(* The XOR distance to the target is injective in the key, so it enters as *)
(* a number Dist[id] per key.  What a contact replies is any part of       *)
(* Knows[c]: routing tables change while the lookup runs.  The peers a     *)
(* contact returns are identified with the contact that returned them.     *)
(***************************************************************************)
EXTENDS Integers, Sequences, FiniteSets, SequencesExt

CONSTANTS
    K,          \* config.K, the length of the shortlist
    Alpha,      \* config.Alpha, the parallelism of a round
    Contacts,   \* every contact of the network but the node: [id, addr]
    Dist,       \* Dist[id]: the distance from a key to the target
    Local,      \* the contacts of the node's own routing table
    Knows,      \* Knows[c]: the contacts that c may reply with
    Holders,    \* the contacts that may hold peers for the target
    Dead,       \* the contacts at whose address nobody answers
    NoContact

IDs == {c.id : c \in Contacts}

ASSUME SizesAssumption == K \in Nat \ {0} /\ Alpha \in Nat \ {0}
ASSUME DistAssumption ==
    /\ Dist \in [IDs -> Nat]
    /\ \A i, j \in IDs : Dist[i] = Dist[j] => i = j
ASSUME NetworkAssumption ==
    /\ Local \subseteq Contacts
    /\ Holders \subseteq Contacts
    /\ Dead \subseteq Contacts
    /\ Knows \in [Contacts -> SUBSET Contacts]
    /\ NoContact \notin Contacts

VARIABLES
    kind,       \* the lookupKind
    pc,         \* "begin", "pick", "wait" or "done"
    list,       \* shortlist.list
    contacted,  \* shortlist.contacted
    hasPeers,   \* shortlist.hasPeers
    round,      \* toContact, the contacts to ask in this round
    asked,      \* how many of them the loop over the round has asked
    open,       \* the calls of the round that are not over
    late,       \* the open calls that have answered and insert themselves again
    limit,      \* how many contacts the next round may ask
    closestNode,
    peers,      \* the value stored in peers, by the contact it came from
    cached,     \* the contact that is sent the peers for caching
    outcome,    \* what lookup returned
    answered,   \* history: the contacts whose call succeeded
    failures,   \* history: the contacts whose call failed
    learned     \* history: the contacts that were ever offered to the list

shortlist == <<list, contacted, hasPeers>>
history == <<answered, failures, learned>>
vars == <<kind, pc, list, contacted, hasPeers, round, asked, open, late, limit,
          closestNode, peers, cached, outcome, answered, failures, learned>>

calls == <<round, asked, open, late>>

\* math.MaxInt: more than a shortlist can hold.
NoLimit == K + 1

-----------------------------------------------------------------------------
(* The shortlist *)

\* The place of c (sort.Search): the first contact that is not closer than c,
\* or the end.
search(l, c) == Min({i \in DOMAIN l : Dist[l[i].id] >= Dist[c.id]} \cup {Len(l) + 1})

Present(l, c) == search(l, c) <= Len(l) /\ l[search(l, c)] = c

InsertOne(l, c) == IF Present(l, c) THEN l ELSE InsertAt(l, search(l, c), c)

\* Mutants of Shrink: no bound; the farthest contacts are kept.
ShrinkNot(l) == l
ShrinkClosest(l) == IF Len(l) > K THEN SubSeq(l, Len(l) - K + 1, Len(l)) ELSE l

Shrink(l) == IF Len(l) > K THEN SubSeq(l, 1, K) ELSE l

\* The contacts of a reply one after the other, then the list is cut.
Insert(l, cs) ==
    LET into[i \in 0 .. Len(cs)] == IF i = 0 THEN l ELSE InsertOne(into[i - 1], cs[i])
    IN  Shrink(into[Len(cs)])

\* Mutant of RemoveContact: the contact stays in the list.
RemoveNot(l, c) == l

RemoveContact(l, c) == IF Present(l, c) THEN RemoveAt(l, search(l, c)) ELSE l

\* Mutant of AllContacted: only the closest contact counts.
ClosestContacted == Head(list).id \in contacted

AllContacted == \A i \in DOMAIN list : list[i].id \in contacted

FirstN(s, n) == IF Len(s) > n THEN SubSeq(s, 1, n) ELSE s

\* The first n contacts of the list that are not contacted.
PickNotContacted(n) ==
    LET picked[i \in 0 .. Len(list)] ==
            IF i = 0 THEN <<>>
            ELSE IF Len(picked[i - 1]) >= n \/ list[i].id \in contacted
                 THEN picked[i - 1]
                 ELSE Append(picked[i - 1], list[i])
    IN  picked[Len(list)]

\* Mutant of PickClosestWithoutValue: who has the peers does not matter.
PickClosest == IF list = <<>> THEN NoContact ELSE Head(list)

\* The first contact of the list that did not return peers, if there is one.
PickClosestWithoutValue ==
    LET without == {i \in DOMAIN list : list[i].id \notin hasPeers}
    IN  IF without = {} THEN NoContact ELSE list[Min(without)]

\* What FindClosestNodes can return from the contacts S: at most K contacts in
\* the order of their distance, one per key.
Replies(S) ==
    {s \in SeqOf(S, K) : \A i, j \in DOMAIN s : i < j => Dist[s[i].id] < Dist[s[j].id]}

-----------------------------------------------------------------------------
(* The lookup *)

Init ==
    /\ kind \in {"findNode", "findPeers"}
    /\ pc = "begin"
    /\ list = <<>>
    /\ contacted = {}
    /\ hasPeers = {}
    /\ round = <<>>
    /\ asked = 0
    /\ open = {}
    /\ late = {}
    /\ limit = Alpha
    /\ closestNode = NoContact
    /\ peers = NoContact
    /\ cached = NoContact
    /\ outcome = "none"
    /\ answered = {}
    /\ failures = {}
    /\ learned = {}

Return(o) ==
    /\ outcome' = o
    /\ pc' = "done"

\* FindClosestNodes gave nothing.
NoCloseNodes ==
    /\ pc = "begin"
    /\ Return("noCloseNodes")
    /\ UNCHANGED <<kind, shortlist, calls, limit, closestNode, peers,
                   cached, history>>

\* The list starts with the Alpha closest contacts of the routing table.
Begin ==
    /\ pc = "begin"
    /\ \E s \in Replies(Local) \ {<<>>} :
        LET initial == FirstN(s, Alpha) IN
        /\ list' = Insert(<<>>, initial)
        /\ learned' = Range(initial)
    /\ closestNode' = Head(list')
    /\ pc' = "pick"
    /\ UNCHANGED <<kind, contacted, hasPeers, calls, limit, peers, cached,
                   outcome, answered, failures>>

Pick ==
    /\ pc = "pick"
    /\ round' = PickNotContacted(limit)
    /\ asked' = 0
    /\ pc' = "wait"
    /\ UNCHANGED <<kind, shortlist, open, late, limit, closestNode, peers, cached,
                   outcome, history>>

\* The next call of the round starts.
StartCall ==
    /\ pc = "wait"
    /\ asked < Len(round)
    /\ asked' = asked + 1
    /\ open' = open \cup {asked + 1}

\* Mutant of Ask: the contact is not marked.
AskUnmarked ==
    /\ StartCall
    /\ UNCHANGED <<kind, pc, list, contacted, hasPeers, round, late, limit,
                   closestNode, peers, cached, outcome, history>>

\* One turn of the loop over the round: the contact is marked, and then its
\* goroutine starts, while those of the turns before may be at any point.
Ask ==
    /\ StartCall
    /\ contacted' = contacted \cup {round[asked + 1].id}
    /\ UNCHANGED <<kind, pc, list, hasPeers, round, late, limit, closestNode,
                   peers, cached, outcome, history>>

\* Call i is over, and the lookup's own variables are as they were.
Close(i) ==
    /\ open' = open \ {i}
    /\ UNCHANGED <<kind, pc, round, asked, limit, closestNode, cached, outcome>>

\* A call that succeeded is over, unless it finds nobody waiting on its done
\* channel: it then goes on to insert its contact once more.
CloseOrLate(i) ==
    /\ pc = "wait"
    /\ i \in open \ late
    /\ round[i] \notin Dead
    /\ answered' = answered \cup {round[i]}
    /\ \/ Close(i) /\ UNCHANGED late
       \/ /\ late' = late \cup {i}
          /\ UNCHANGED <<kind, pc, round, asked, open, limit, closestNode, cached,
                         outcome>>

ReplyContacts(i) ==
    /\ CloseOrLate(i)
    /\ \E s \in Replies(Knows[round[i]]) :
        /\ list' = Insert(list, s)
        /\ learned' = learned \cup Range(s)
    /\ UNCHANGED <<contacted, hasPeers, peers, failures>>

\* Mutant of ReplyPeers: the peers are not stored.
ReplyPeersUnstored(i) ==
    /\ kind = "findPeers"
    /\ CloseOrLate(i)
    /\ round[i] \in Holders
    /\ hasPeers' = hasPeers \cup {round[i].id}
    /\ UNCHANGED <<list, contacted, peers, failures, learned>>

ReplyPeers(i) ==
    /\ kind = "findPeers"
    /\ CloseOrLate(i)
    /\ round[i] \in Holders
    /\ peers' = round[i]
    /\ hasPeers' = hasPeers \cup {round[i].id}
    /\ UNCHANGED <<list, contacted, failures, learned>>

InsertAgain(i) ==
    /\ i \in late
    /\ Close(i)
    /\ late' = late \ {i}
    /\ list' = Insert(list, <<round[i]>>)
    /\ UNCHANGED <<contacted, hasPeers, peers, history>>

Fail(i) ==
    /\ pc = "wait"
    /\ i \in open \ late
    /\ Close(i)
    /\ list' = RemoveContact(list, round[i])
    /\ contacted' = contacted \ {round[i].id}
    /\ failures' = failures \cup {round[i]}
    /\ UNCHANGED <<late, hasPeers, peers, answered, learned>>

\* wg.Wait() is reached after the last turn of the loop, and returns once every
\* call of the round is over.
RoundOver == pc = "wait" /\ asked = Len(round) /\ open = {}

\* The peers go to the closest contact without them, and are returned.
ReturnPeers ==
    /\ RoundOver
    /\ peers # NoContact
    /\ cached' = PickClosestWithoutValue
    /\ Return("peers")
    /\ UNCHANGED <<kind, shortlist, calls, limit, closestNode, peers, history>>

ReturnUnreachable ==
    /\ RoundOver
    /\ peers = NoContact
    /\ list = <<>>
    /\ Return("unreachable")
    /\ UNCHANGED <<kind, shortlist, calls, limit, closestNode, peers,
                   cached, history>>

NextRound(n) ==
    /\ limit' = n
    /\ pc' = "pick"
    /\ UNCHANGED <<kind, shortlist, calls, peers, cached, outcome, history>>

CloserFound ==
    /\ RoundOver
    /\ peers = NoContact
    /\ list # <<>>
    /\ closestNode # Head(list)
    /\ closestNode' = Head(list)
    /\ NextRound(Alpha)

ReturnContacts ==
    /\ RoundOver
    /\ peers = NoContact
    /\ list # <<>>
    /\ closestNode = Head(list)
    /\ AllContacted
    /\ Return("contacts")
    /\ UNCHANGED <<kind, shortlist, calls, limit, closestNode, peers,
                   cached, history>>

AskTheRest ==
    /\ RoundOver
    /\ peers = NoContact
    /\ list # <<>>
    /\ closestNode = Head(list)
    /\ ~AllContacted
    /\ closestNode' = closestNode
    /\ NextRound(NoLimit)

Call(i) == ReplyContacts(i) \/ ReplyPeers(i) \/ InsertAgain(i) \/ Fail(i)

Next ==
    \/ NoCloseNodes
    \/ Begin
    \/ Pick
    \/ Ask
    \/ \E i \in open : Call(i)
    \/ ReturnPeers
    \/ ReturnUnreachable
    \/ CloserFound
    \/ ReturnContacts
    \/ AskTheRest

Spec == Init /\ [][Next]_vars

\* Every call ends because the RPC client has a timeout, and the goroutine of
\* the lookup goes on when it can.
FairSpec == Spec /\ WF_vars(Next)

-----------------------------------------------------------------------------
(* Properties *)

TypeOK ==
    /\ kind \in {"findNode", "findPeers"}
    /\ pc \in {"begin", "pick", "wait", "done"}
    /\ list \in Seq(Contacts)
    /\ contacted \subseteq IDs
    /\ hasPeers \subseteq IDs
    /\ round \in Seq(Contacts)
    /\ asked \in 0 .. Len(round)
    /\ open \subseteq 1 .. asked
    /\ late \subseteq open
    /\ limit \in {Alpha, NoLimit}
    /\ {closestNode, peers, cached} \subseteq Contacts \cup {NoContact}
    /\ outcome \in {"none", "noCloseNodes", "peers", "unreachable", "contacts"}
    /\ {answered, failures, learned} \subseteq SUBSET Contacts

\* The list is ordered by distance and bounded, and holds a key once, however
\* the replies and failures of a round interleave.
ListOrdered ==
    /\ Len(list) <= K
    /\ \A i, j \in DOMAIN list : i < j => Dist[list[i].id] < Dist[list[j].id]

\* Every key that FindNode returns answered a query of this very lookup: a
\* contact that was never asked, or did not answer, is never returned.
ResultAnswered ==
    outcome = "contacts" =>
        \A i \in DOMAIN list : \E c \in answered : c.id = list[i].id

\* If no call failed, FindNode returns the K closest of all contacts that it
\* was told of: the early end of the rounds and the bound on the list lose none.
ClosestReturned ==
    outcome = "contacts" /\ failures = {} =>
        /\ Range(list) \subseteq learned
        /\ \A c \in learned \ Range(list) :
            Len(list) = K /\ \A i \in DOMAIN list : Dist[list[i].id] < Dist[c.id]

\* Peers that any contact returned are never lost to a later reply or failure
\* of the same round, and never come from a contact that did not answer.
PeersReturned ==
    /\ pc = "done" /\ hasPeers # {} => outcome = "peers"
    /\ outcome = "peers" => peers \in answered /\ peers.id \in hasPeers

\* The peers are cached at a contact that did not return them; if no call
\* failed, no closer contact of those learned lacks them.
CachedAtClosestGap ==
    cached # NoContact =>
        /\ cached.id \notin hasPeers
        /\ failures = {} => \A c \in learned :
                                Dist[c.id] < Dist[cached.id] => c.id \in hasPeers

\* "do not re-contact nodes": no call is started to a contact that has answered,
\* whatever the calls of this round and of the rounds before did to the marks.
AskedOnce == [][StartCall => round[asked + 1] \notin answered]_vars

\* "Unreachable contacts are always removed from consideration".
UnreachableRemoved ==
    [][\A i \in open : Fail(i) => round[i] \notin Range(list')]_vars

\* The rounds come to an end: every contact answers once, and a contact that
\* failed comes back only with an answer of another.
Termination == <>(pc = "done")
=============================================================================

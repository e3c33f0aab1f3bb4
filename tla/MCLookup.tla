------------------------------ MODULE MCLookup ------------------------------
(* Lookup on a network of five contacts with a shortlist of three, and on a  *)
(* network in which one key is known under two addresses.                    *)
EXTENDS Lookup

At(i, a) == [id |-> i, addr |-> a]
A == At("A", "a")
B == At("B", "a")
C == At("C", "a")
D == At("D", "a")
X1 == At("X", "old")
X2 == At("X", "new")

MCDist == [i \in IDs |-> CASE i = "A" -> 4 [] i = "B" -> 3 [] i = "C" -> 2
                           [] i = "D" -> 1 [] i = "X" -> 0]

\* A chain of referrals towards the target, with a way back: a contact that
\* failed can be learned of again.
MCContacts == {A, B, C, D, X1}
MCLocal == {A, B, C}
MCKnows == (A :> {B, C, D}) @@ (B :> {A, C, D}) @@ (C :> {B, D, X1})
               @@ (D :> {B, C}) @@ (X1 :> {A, D})
MCHolders == {B, D}

\* A node that restarted at a new address: the routing table has the old one,
\* A has the new one.
TwoContacts == {A, X1, X2}
TwoLocal == {A, X1}
TwoDead == {X1}
TwoKnows == (A :> {X2}) @@ (X1 :> {}) @@ (X2 :> {})
=============================================================================

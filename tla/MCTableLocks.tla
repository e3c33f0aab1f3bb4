---------------------------- MODULE MCTableLocks ----------------------------
(* TableLocks with two nodes in each half of the key space.                 *)
EXTENDS TableLocks

CONSTANTS n1, n2, n3, n4

\* The first halving separates n1 and n2 from n3 and n4, the second one the rest.
MCDepth ==
    [n \in Nodes |-> [c \in Nodes |->
        IF (n \in {n1, n2}) = (c \in {n1, n2}) THEN 1 ELSE 0]]

\* Tables of one bucket with one contact.
Lists(w, x, y, z) ==
    [n \in Nodes |-> CASE n = n1 -> << <<w>> >> [] n = n2 -> << <<x>> >>
                       [] n = n3 -> << <<y>> >> [] n = n4 -> << <<z>> >>]

\* Two pairs of nodes that know each other, and a ring of all four.
MCTables == {Lists(n3, n4, n1, n2), Lists(n3, n4, n2, n1)}

\* A renaming of the nodes that keeps the tables and the halves takes any node
\* to n1: one find RPC may as well go to n1, from a contact that it has in its
\* list, or from one that does not fit in.
MCRoutes == {<<n3, n1>>, <<n4, n1>>}
=============================================================================

--------------------------- MODULE MCRoutingTable ---------------------------
(* RoutingTable on four-digit binary keys with buckets of two: 0 .. 12 is   *)
(* the range of the table, the node's own key is 1.                          *)
EXTENDS RoutingTable

At(k, a) == [id |-> k, addr |-> a]

\* Keys 4, 5 and 6 share a far bucket after two splits, which one call makes,
\* and compete for its two places, one of them heard of under a second address,
\* as after a restart of that node.  Key 2 is a neighbour, key 9 goes to the
\* first upper half, and key 13 is a valid key above the range of the table.
MCContacts ==
    {At(2, "a"), At(4, "a"), At(4, "b"), At(5, "a"), At(6, "a"), At(9, "a"),
     At(13, "a")}

\* Enough contacts to reach a key above the range of the table.
FewContacts == {At(4, "a"), At(13, "a")}
=============================================================================

--------------------------- MODULE MCReplication ---------------------------
(* Replication on two or three nodes, with one or two announcements.         *)
EXTENDS Replication, TLC

NodeSymmetry == Permutations(Nodes)
=============================================================================

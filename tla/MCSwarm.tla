------------------------------ MODULE MCSwarm ------------------------------
(* Swarm with a DAG of three blocks of which one is shared, and two daemons. *)
EXTENDS Swarm, TLC

MCCIDs == {"top", "left", "leaf"}
MCLinks == ("top" :> <<"left", "leaf">>) @@ ("left" :> <<"leaf">>) @@ ("leaf" :> <<>>)
MCOwner == ("up" :> "d1") @@ ("down" :> "d2")
MCIP == ("d1" :> "ip1") @@ ("d2" :> "ip2")
=============================================================================

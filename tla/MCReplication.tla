---------------------------- MODULE MCReplication ---------------------------
(* Replication for TLC: one follower, one key among others.  A torn read   *)
(* yields an entry whose strings were moved from, or a value that no       *)
(* client wrote.                                                           *)
EXTENDS Replication

CONSTANT k

OnePeer == <<"f1">>
MCTorn ==
    {[index |-> 2, key |-> "other", val |-> 0], [index |-> 1, key |-> k, val |-> 9]}
=============================================================================

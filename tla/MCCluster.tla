----------------------------- MODULE MCCluster -----------------------------
(***************************************************************************)
(* Cluster with one shard A and two replicas of it, whose pings all reach  *)
(* each other.  The names order the nodes, replicas last.                  *)
(***************************************************************************)
EXTENDS Cluster, TLC

CONSTANTS A, a1, a2

OneShard == {A}
TwoReplicas == {a1, a2}
BothOfA == [r \in TwoReplicas |-> A]
Names == (A :> 1) @@ (a1 :> 2) @@ (a2 :> 3)
AllLinks == {<<n, m>> \in Node \X Node : n # m}

=============================================================================

---------------------------- MODULE MCClusterJob ----------------------------
(* Two nodes; the instances of ClusterJob that TLC checks.                 *)
EXTENDS ClusterJob, TLC

CONSTANTS n1, n2, j1, j2

TwoNodes == {n1, n2}
OneJob == {j1}
OneNode == {n1}
TwoJobs == {j1, j2}

(* One job slot on each node.                                              *)
OnePerNode == j1 :> n1 @@ j2 :> n2

(* Both slots in one process: the owner id does not tell them apart.       *)
SameNode == j1 :> n1 @@ j2 :> n1

(* A single slot, for liveness: other owners only reach it through the row. *)
OnlySlot == j1 :> n1
=============================================================================

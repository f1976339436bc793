--------------------------- MODULE MCClusterUpdate ---------------------------
(***************************************************************************)
(* ClusterUpdate for TLC: the keeper of the first master is preferred.          *)
(***************************************************************************)
EXTENDS ClusterUpdate

KeeperPriority == [d \in DBs |-> IF d = 1 THEN 2 ELSE 1]
=============================================================================

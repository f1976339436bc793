------------------------- MODULE MCClusterDataStore -------------------------
(***************************************************************************)
(* ClusterDataStore for TLC: sentinels, and commands of one kind, are      *)
(* interchangeable.                                                        *)
(***************************************************************************)
EXTENDS ClusterDataStore, TLC

WriterSymmetry == Permutations(Sentinels) \cup Permutations(Updates)
=============================================================================

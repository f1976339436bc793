-------------------------- MODULE MCSyncReplication --------------------------
(***************************************************************************)
(* SyncReplication for TLC: databases are interchangeable; the settings of *)
(* the configurations.                                                     *)
(***************************************************************************)
EXTENDS SyncReplication, TLC

DBSymmetry == Permutations(DBs)

With(risk, size, crash, gens) == [risks |-> risk, size |-> size, crashes |-> crash, gens |-> gens]

\* Replacement of a synchronous standby; failover and failback among faults.
SwapAndFailover == {With({}, 3, 0, 3), With({"ReloadFails"}, 2, 2, 4),
                    With({"AutomaticPgRestart", "LateBootCheck"}, 2, 2, 4)}

AutoRestart == {With({"AutomaticPgRestart"}, 2, 2, 3)}
ReloadFailure == {With({"ReloadFails"}, 2, 1, 3)}
KeeperRestarts == {With({"LateBootCheck"}, 2, 2, 3)}
Lagging == {With({"LaggingSync"}, 3, 0, 3)}
Promotion == {With({}, 2, 1, 3)}
Switch == {With({"ManualSwitch"}, 3, 0, 3)}
=============================================================================

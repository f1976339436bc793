--------------------------- MODULE SyncReplication ---------------------------
(***************************************************************************)
(* Synchronous replication: how the sentinel chooses the synchronous       *)
(* standbys of the master, how the keeper of the master configures         *)
(* PostgreSQL with them, and how a synchronous standby replaces a failed    *)
(* master.                                                                 *)
(*                                                                         *)
(* A database is identified with its keeper: a database that is removed    *)
(* and created again on the same keeper has lost every trace of its old    *)
(* UID in the cluster data first.  A log is the set of the transactions it  *)
(* contains; transactions are numbered in commit order, and a standby       *)
(* receives those of its upstream in that order.                           *)
(*                                                                         *)
(* Health is the sentinel's opinion and may be wrong: which standbys are    *)
(* good, and whether the master has failed, is chosen freely.  What is not *)
(* free is convergence: the keeper of the master has reported that it has   *)
(* applied the current generation.                                         *)
(***************************************************************************)
EXTENDS Integers, FiniteSets, FiniteSetsExt

CONSTANTS
    DBs,                    \* the databases
    NoDB,                   \* no upstream
    MinSynchronousStandbys,
    MaxSynchronousStandbys,
    Settings,               \* the settings to consider, see Setting
    MaxTxns                 \* bound: transactions

\* What may happen in a behaviour, and in others not:
\*   AutomaticPgRestart  the cluster specification lets the keeper restart
\*                       PostgreSQL by itself;
\*   ReloadFails         a reload of PostgreSQL fails;
\*   LateBootCheck       the sentinel learns of the restart of a keeper before
\*                       that keeper first reads the cluster data;
\*   LaggingSync         pg_stat_replication calls a standby "sync" that has yet
\*                       to flush what was committed before;
\*   ManualSwitch        an operator asks for a switch of the master, or unsafe
\*                       auto-failback makes one.
Risk == {"AutomaticPgRestart", "ReloadFails", "LateBootCheck", "LaggingSync", "ManualSwitch"}

\* What a behaviour is limited to: its risks, the number of databases, and the bounds
\* on crashes and restarts of PostgreSQL and of keepers and failed reloads, and on
\* the generations of a database.
Setting == [risks : SUBSET Risk, size : Nat, crashes : Nat, gens : Nat]

\* cluster.Validate: maxSynchronousStandbys >= max(1, minSynchronousStandbys).
ASSUME SyncAssumption ==
    /\ MinSynchronousStandbys \in Nat
    /\ MaxSynchronousStandbys \in Nat
    /\ MaxSynchronousStandbys >= 1
    /\ MaxSynchronousStandbys >= MinSynchronousStandbys
    /\ NoDB \notin DBs
    /\ \A s \in Settings : /\ s.risks \subseteq Risk
                            /\ s.size \in Nat /\ s.crashes \in Nat /\ s.gens \in Nat \ {0}
    /\ MaxTxns \in Nat

VARIABLES
    \* cluster data
    master,       \* Cluster.Status.Master
    role,         \* role[d]: Spec.Role, "none" when d is not in the DBs
    spec,         \* spec[d]: Spec.SynchronousStandbys
    fake,         \* fake[d]: fakeStandbyName \in ExternalSynchronousStandbys
    status,       \* status[d]: Status.SynchronousStandbys
    gen,          \* gen[d]: Generation
    follow,       \* follow[d]: Spec.FollowConfig.DBUID
    \* keepers
    applied,      \* applied[d]: DBLocalState.Generation
    resync,       \* resync[d]: the local UID is not the assigned one
    rebooted,     \* rebooted[d]: bootUUID is not the one in the cluster data
    waitSync,     \* waitSync[d]: waitSyncStandbysSynced
    cached,       \* cached[d]: lastPGState
    info,         \* info[d]: the published KeeperInfo.PostgresState
    \* PostgreSQL instances
    up,           \* up[d]: the instance runs
    primary,      \* primary[d]: it is not in recovery
    names,        \* names[d]: standbys in synchronous_standby_names in force
    block,        \* block[d]: so is the fake standby
    open,         \* open[d]: pg_hba lets normal users in
    upstream,     \* upstream[d]: the instance it streams from
    streaming,    \* streaming[d]: it has caught up since it connected
    log,          \* log[d]: transactions in its WAL
    pending,      \* pending[d]: commits waiting for the standbys
    \* clients
    acked,        \* transactions whose commit was acknowledged
    observed,     \* transactions some client knows of, acknowledged or read
    \* bounds
    setting,      \* the setting of this behaviour
    members,      \* the databases whose keepers exist
    txns, crashes

cdVars == <<master, role, spec, fake, status, gen, follow>>
keeperVars == <<applied, resync, rebooted, waitSync>>
reportVars == <<cached, info>>
confVars == <<names, block, open>>
walVars == <<upstream, streaming, log, pending>>
clientVars == <<acked, observed, setting, members>>
vars == <<cdVars, keeperVars, reportVars, up, primary, confVars, walVars,
          clientVars, txns, crashes>>

risks == setting.risks
MaxCrashes == setting.crashes
MaxGen == setting.gens

Report == [gen : 0..MaxGen, sync : SUBSET DBs]
NoReport == [gen |-> 0, sync |-> {}]

\* A cluster in service: master m, with the synchronous standby s in sync, and
\* the other databases following m.
Init ==
    /\ setting \in Settings
    /\ members \in kSubset(setting.size, DBs)
    /\ \E m \in members : \E s \in members \ {m} :
          /\ master = m
          /\ role = [d \in DBs |-> IF d = m THEN "master" ELSE IF d \in members THEN "standby" ELSE "none"]
          /\ spec = [d \in DBs |-> IF d = m THEN {s} ELSE {}]
          /\ gen = [d \in DBs |-> IF d = m THEN 1 ELSE 0]
          /\ follow = [d \in DBs |-> IF d = m \/ d \notin members THEN NoDB ELSE m]
          /\ info = [d \in DBs |-> IF d = m THEN [gen |-> 1, sync |-> {s}] ELSE NoReport]
          /\ primary = [d \in DBs |-> d = m]
          /\ streaming = [d \in DBs |-> d = s]
    /\ fake = [d \in DBs |-> FALSE]
    /\ status = spec
    /\ applied = gen
    /\ resync = [d \in DBs |-> FALSE]
    /\ rebooted = [d \in DBs |-> FALSE]
    /\ waitSync = [d \in DBs |-> FALSE]
    /\ cached = info
    /\ up = [d \in DBs |-> d \in members]
    /\ names = spec
    /\ block = fake
    /\ open = [d \in DBs |-> TRUE]
    /\ upstream = follow
    /\ log = [d \in DBs |-> {}]
    /\ pending = [d \in DBs |-> {}]
    /\ acked = {}
    /\ observed = {}
    /\ txns = 0
    /\ crashes = 0

-----------------------------------------------------------------------------
\* PostgreSQL (external)

Serving(d) == up[d] /\ primary[d] /\ open[d]

\* A client commits: the transaction is in the WAL and waits for its standbys.
Commit(d) ==
    /\ Serving(d)
    /\ txns < MaxTxns
    /\ txns' = txns + 1
    /\ log' = [log EXCEPT ![d] = @ \cup {txns + 1}]
    /\ pending' = [pending EXCEPT ![d] = @ \cup {txns + 1}]
    /\ UNCHANGED <<cdVars, keeperVars, reportVars, up, primary, confVars,
                   upstream, streaming, clientVars, crashes>>

\* Standby d receives and flushes the next record of its upstream.
Replicate(d) ==
    LET u == upstream[d] IN
    /\ u # NoDB /\ up[d] /\ up[u]
    /\ log[d] \subseteq log[u]
    /\ log[d] # log[u]
    /\ log' = [log EXCEPT ![d] = @ \cup {Min(log[u] \ log[d])}]
    /\ UNCHANGED <<cdVars, keeperVars, reportVars, up, primary, confVars,
                   upstream, streaming, pending, clientVars, txns, crashes>>

\* Standby d has caught up with its upstream.
CatchUp(d) ==
    LET u == upstream[d] IN
    /\ u # NoDB /\ up[d] /\ up[u]
    /\ ~streaming[d]
    /\ log[d] = log[u]
    /\ streaming' = [streaming EXCEPT ![d] = TRUE]
    /\ UNCHANGED <<cdVars, keeperVars, reportVars, up, primary, confVars,
                   upstream, log, pending, clientVars, txns, crashes>>

\* The standbys that d's instance reports with sync_state "sync".
InSyncStandbys(d) ==
    {x \in names[d] : /\ up[x] /\ upstream[x] = d /\ streaming[x]
                      /\ "LaggingSync" \in risks \/ log[d] \ pending[d] \subseteq log[x]}

\* Every configured standby has flushed the commit: the client is told.
Acknowledge(d, t) ==
    /\ up[d] /\ primary[d]
    /\ t \in pending[d]
    /\ ~block[d]
    /\ \A x \in names[d] : /\ up[x] /\ upstream[x] = d /\ streaming[x]
                           /\ t \in log[x]
    /\ pending' = [pending EXCEPT ![d] = @ \ {t}]
    /\ acked' = acked \cup {t}
    /\ observed' = observed \cup {t}
    /\ UNCHANGED <<cdVars, keeperVars, reportVars, up, primary, confVars,
                   upstream, streaming, log, setting, members, txns, crashes>>

\* A client reads: it sees what is not waiting for standbys.
Observe(d) ==
    /\ Serving(d)
    /\ ~(log[d] \ pending[d] \subseteq observed)
    /\ observed' = observed \cup (log[d] \ pending[d])
    /\ UNCHANGED <<cdVars, keeperVars, reportVars, up, primary, confVars,
                   walVars, acked, setting, members, txns, crashes>>

\* The replication connections to and from d are gone.
Disconnected(d) == [x \in DBs |-> streaming[x] /\ x # d /\ upstream[x] # d]

\* The instance dies.  Commits that waited are not acknowledged.
Crash(d) ==
    /\ up[d]
    /\ crashes < MaxCrashes
    /\ crashes' = crashes + 1
    /\ up' = [up EXCEPT ![d] = FALSE]
    /\ streaming' = Disconnected(d)
    /\ pending' = [pending EXCEPT ![d] = {}]
    /\ UNCHANGED <<cdVars, keeperVars, reportVars, primary, confVars, upstream,
                   log, clientVars, txns>>

-----------------------------------------------------------------------------
\* The keeper's state machine: postgresKeeperSM

\* The local database is the assigned one, with role r.
Local(d, r) == role[d] = r /\ ~resync[d]

\* So the keeper manages it, unless it has to stop the instance after a restart.
Assigned(d, r) == Local(d, r) /\ ~rebooted[d]

\* Manager.Start: a success means that there is a postmaster.
Start(d) == up' = [up EXCEPT ![d] = TRUE]

\* Manager.Stop: connections end, commits that waited are not acknowledged.
Halt(d) ==
    /\ up' = [up EXCEPT ![d] = FALSE]
    /\ streaming' = Disconnected(d)
    /\ pending' = [pending EXCEPT ![d] = {}]

\* Manager.Restart: a fast stop, which sends the WAL to the standbys that are connected.
Restart(d) ==
    /\ pending' = [pending EXCEPT ![d] = {}]
    /\ log' = [x \in DBs |-> IF upstream[x] = d /\ streaming[x] THEN log[d] ELSE log[x]]
    /\ streaming' = Disconnected(d)

\* The synchronous_standby_names of the specification are in the configuration.
createPGParameters(d) ==
    /\ names' = [names EXCEPT ![d] = spec[d]]
    /\ block' = [block EXCEPT ![d] = fake[d]]

\* pg_hba lets normal users in, not only the superuser and the replication user.
generateHBA(onlyInternal) == ~onlyInternal

\* Mutant: a stopped master is started with its normal pg_hba.
StartMasterOpen(d) ==
    /\ Assigned(d, "master") /\ ~up[d]
    /\ Start(d)
    /\ createPGParameters(d)
    /\ upstream' = [upstream EXCEPT ![d] = NoDB]
    /\ UNCHANGED <<cdVars, keeperVars, reportVars, primary, open, streaming, log,
                   pending, clientVars, txns, crashes>>

\* Target role master, instance stopped: start it with the assigned
\* synchronous_standby_names and normal users locked out.  A stopped standby
\* still has its standby.signal: it comes up in recovery, without an upstream.
StartMaster(d) ==
    /\ Assigned(d, "master") /\ ~up[d]
    /\ Start(d)
    /\ createPGParameters(d)
    /\ waitSync' = [waitSync EXCEPT ![d] = TRUE]
    /\ open' = [open EXCEPT ![d] = generateHBA(TRUE)]
    /\ upstream' = [upstream EXCEPT ![d] = NoDB]
    /\ UNCHANGED <<cdVars, applied, resync, rebooted, reportVars, primary,
                   streaming, log, pending, clientVars, txns, crashes>>

\* Target role master, instance in recovery: promote it.  If it was running it
\* still has the parameters and the pg_hba of a standby.
Promote(d) ==
    /\ Assigned(d, "master") /\ up[d] /\ ~primary[d]
    /\ primary' = [primary EXCEPT ![d] = TRUE]
    /\ upstream' = [upstream EXCEPT ![d] = NoDB]
    /\ streaming' = [streaming EXCEPT ![d] = FALSE]
    /\ UNCHANGED <<cdVars, keeperVars, reportVars, up, confVars, log, pending,
                   clientVars, txns, crashes>>

\* Stop waiting once all standbys are in sync (PostgreSQL is asked before the
\* reload), and save the generation.
SaveGeneration(d) ==
    /\ waitSync' = [waitSync EXCEPT ![d] = @ /\ InSyncStandbys(d) # spec[d]]
    /\ applied' = [applied EXCEPT ![d] = gen[d]]

\* Mutant: the synchronous standbys are not among the parameters reloaded.
ReloadAccess(d) ==
    /\ open' = [open EXCEPT ![d] = generateHBA(waitSync'[d])]
    /\ UNCHANGED <<names, block>>

\* Reload with the assigned parameters; pg_hba lets normal users in unless the
\* keeper waits.
Reload(d) ==
    /\ createPGParameters(d)
    /\ open' = [open EXCEPT ![d] = generateHBA(waitSync'[d])]

\* The rest of the step of a running master.
Reconfigure(d) ==
    /\ Assigned(d, "master") /\ up[d] /\ primary[d]
    /\ SaveGeneration(d)
    /\ Reload(d)
    /\ UNCHANGED <<cdVars, resync, rebooted, reportVars, up, primary, walVars,
                   clientVars, txns, crashes>>

\* The same step when the reload fails: the error is logged, the generation
\* saved all the same, and the next step tries again.
ReconfigureUnloaded(d) ==
    /\ "ReloadFails" \in risks
    /\ Assigned(d, "master") /\ up[d] /\ primary[d]
    /\ crashes < MaxCrashes
    /\ crashes' = crashes + 1
    /\ SaveGeneration(d)
    /\ UNCHANGED <<cdVars, resync, rebooted, reportVars, up, primary, confVars,
                   walVars, clientVars, txns>>

\* The same step when PostgreSQL then reports parameters that need a restart,
\* with the configuration as it is.
ReconfigureAndRestart(d) ==
    /\ "AutomaticPgRestart" \in risks
    /\ Assigned(d, "master") /\ up[d] /\ primary[d]
    /\ crashes < MaxCrashes
    /\ crashes' = crashes + 1
    /\ SaveGeneration(d)
    /\ Reload(d)
    /\ Restart(d)
    /\ UNCHANGED <<cdVars, resync, rebooted, reportVars, up, primary, upstream,
                   clientVars, txns>>

\* Target role standby: start the instance if it is stopped, and point it at
\* the followed database.
Standby(d) ==
    /\ Assigned(d, "standby") /\ ~primary[d]
    /\ ~up[d] \/ upstream[d] # follow[d]
    /\ Start(d)
    /\ upstream' = [upstream EXCEPT ![d] = follow[d]]
    /\ streaming' = [streaming EXCEPT ![d] = FALSE]
    /\ UNCHANGED <<cdVars, keeperVars, reportVars, primary, confVars, log,
                   pending, clientVars, txns, crashes>>

\* No database is assigned, or another than the local one, or the cluster data
\* still have the previous boot UUID of the keeper: stop the instance.
Stop(d) ==
    /\ role[d] = "none" \/ resync[d] \/ rebooted[d]
    /\ up[d]
    /\ Halt(d)
    /\ UNCHANGED <<cdVars, keeperVars, reportVars, primary, confVars, upstream,
                   log, clientVars, txns, crashes>>

\* The assigned database is a new standby: copy the followed one (pg_rewind or
\* pg_basebackup) and start it.
Resync(d) ==
    /\ role[d] = "standby" /\ resync[d] /\ ~rebooted[d] /\ ~up[d]
    /\ up[follow[d]]
    /\ resync' = [resync EXCEPT ![d] = FALSE]
    /\ Start(d)
    /\ primary' = [primary EXCEPT ![d] = FALSE]
    /\ names' = [names EXCEPT ![d] = {}]
    /\ block' = [block EXCEPT ![d] = FALSE]
    /\ open' = [open EXCEPT ![d] = TRUE]
    /\ waitSync' = [waitSync EXCEPT ![d] = FALSE]
    /\ applied' = [applied EXCEPT ![d] = 0]
    /\ upstream' = [upstream EXCEPT ![d] = follow[d]]
    /\ log' = [log EXCEPT ![d] = log[follow[d]]]
    /\ UNCHANGED <<cdVars, rebooted, reportVars, streaming, pending, clientVars,
                   txns, crashes>>

\* The keeper process dies and starts again while the instance runs on.
KeeperRestart(d) ==
    /\ up[d]
    /\ crashes < MaxCrashes
    /\ crashes' = crashes + 1
    /\ rebooted' = [rebooted EXCEPT ![d] = TRUE]
    /\ waitSync' = [waitSync EXCEPT ![d] = FALSE]
    /\ cached' = [cached EXCEPT ![d] = NoReport]
    /\ UNCHANGED <<cdVars, applied, resync, info, up, primary, confVars, walVars,
                   clientVars, txns>>

\* The keeper's other loops: updatePGState and updateKeeperInfo.
UpdatePGState(d) ==
    /\ Local(d, "master")
    /\ cached' = [cached EXCEPT ![d] =
                    [gen |-> applied[d],
                     sync |-> IF up[d] THEN InSyncStandbys(d) ELSE {}]]
    /\ UNCHANGED <<cdVars, keeperVars, info, up, primary, confVars, walVars,
                   clientVars, txns, crashes>>

UpdateKeeperInfo(d) ==
    /\ Local(d, "master")
    /\ info' = [info EXCEPT ![d] = cached[d]]
    /\ UNCHANGED <<cdVars, keeperVars, cached, up, primary, confVars, walVars,
                   clientVars, txns, crashes>>

-----------------------------------------------------------------------------
\* The sentinel: updateCluster

Present == {d \in DBs : role[d] # "none"}

\* The sentinel takes in the new boot UUID of a keeper.
UpdateBootUUID(d) ==
    /\ rebooted[d]
    /\ up[d] => "LateBootCheck" \in risks
    /\ rebooted' = [rebooted EXCEPT ![d] = FALSE]
    /\ UNCHANGED <<cdVars, applied, resync, waitSync, reportVars, up, primary,
                   confVars, walVars, clientVars, txns, crashes>>

\* dbConvergenceState(masterDB) = Converged
Converged(m) == info[m].gen = gen[m]

\* Databases that may be in good state: their keepers have applied their spec.
Settled(d) == ~resync[d] /\ (role[d] = "standby" => upstream[d] = follow[d])

OldMasters(m) == {d \in Present \ {m} : role[d] = "master"}

\* Databases that may be invalid: they have WAL that the master does not have.
Diverged(m) == {d \in Present \ {m} : ~(log[d] \subseteq log[m])}

\* Databases for which dbCanSync may fail: healthy, behind, and making no progress, so
\* that the master may no longer have the WAL they need.
Behind(m) == {d \in Present \ {m} : ~(log[m] \subseteq log[d])}

\* Mutant: a standby that is required but was never seen in sync is elected.
ElectableRequired(m) == spec[m]

\* chooseBestNewMaster: the required standbys that were seen in sync.
Electable(m) == status[m] \cap spec[m]

\* chooseBestNewMaster with synchronous replication, and the election: the new
\* master inherits the synchronous standbys of the old one, itself replaced by
\* the old master.  Whether the master has failed and which standbys are good
\* is the sentinel's opinion.  A manual switch and auto-failback are bound to
\* findBestNewMasters only.
Elect(n) ==
    LET m == master
        sync == (spec[m] \ {n}) \cup {m}
    IN
    /\ n # m /\ n \in Present /\ Settled(n)
    /\ n \in Electable(m) \/ "ManualSwitch" \in risks
    /\ gen[n] < MaxGen
    /\ master' = n
    /\ role' = [role EXCEPT ![n] = "master"]
    /\ follow' = [follow EXCEPT ![n] = NoDB]
    /\ spec' = [spec EXCEPT ![n] = sync]
    /\ fake' = [fake EXCEPT ![n] = sync = {} /\ MinSynchronousStandbys > 0]
    /\ gen' = [gen EXCEPT ![n] = @ + 1]
    /\ UNCHANGED <<status, keeperVars, reportVars, up, primary, confVars,
                   walVars, clientVars, txns, crashes>>

\* Mutant: the required standbys count as in sync without a report.
ReportedStatusBlind(m) == spec[m]

\* Status.SynchronousStandbys after the report of the master is taken in.
ReportedStatus(m) ==
    IF status[m] = spec[m] THEN status[m]
    ELSE (status[m] \cup info[m].sync) \cap spec[m]

\* If a standby that has yet to be in sync is gone or not good, those in sync
\* become the required ones.
RequiredStandbys(m, good) ==
    IF spec[m] \ ReportedStatus(m) \subseteq good THEN spec[m] ELSE ReportedStatus(m)

\* All previous standbys are kept as long as there is a new one.
Merged(s, prev, present) == IF s \subseteq prev THEN s ELSE s \cup (prev \cap present)

\* Too few standbys: a fake one makes the master block.
addFakeStandby(sync) == Cardinality(sync) < MinSynchronousStandbys

\* The new synchronous standbys, once the required ones (prev) are in sync:
\* keep the good ones up to the maximum, add good ones up to the maximum, keep
\* previous ones to reach the minimum, and merge.  Which ones is up to orders
\* this model leaves open (map iteration, WAL position, canBeSynchronousReplica).
NextStandbys(prev, present, good) ==
    LET kept == {s \in SUBSET (prev \cap good) :
                   Cardinality(s) = Min({MaxSynchronousStandbys,
                                         Cardinality(prev \cap good)})}
        grown == {s \in SUBSET good : Cardinality(s) <= MaxSynchronousStandbys
                                      /\ \E k \in kept : k \subseteq s}
        missing(s) == Min({Cardinality((prev \cap present) \ s),
                           Max({0, MinSynchronousStandbys - Cardinality(s)})})
        filled == UNION {{s \cup k : k \in kSubset(missing(s), (prev \cap present) \ s)}
                           : s \in grown}
    IN  {Merged(s, prev, present) : s \in filled}

\* One check of a healthy and converged master: old masters and databases that
\* cannot follow (gone) are removed, the synchronous standbys updated, standbys
\* beyond maxStandbysPerSender removed (excess) or else databases added on free
\* keepers (added), and all standbys told to follow the master.
UpdateStandbys(m, gone, good, excess, added) ==
    LET present == Present \ gone
        standbys == ((present \ excess) \cup added) \ {m}
        required == RequiredStandbys(m, good)
        reported == ReportedStatus(m)
    IN
    /\ good \subseteq {d \in present \ {m} : Settled(d)}
    /\ \/ /\ reported # required
          /\ spec' = [d \in DBs |-> IF d = m THEN required ELSE {}]
          /\ status' = [d \in DBs |-> IF d = m THEN reported ELSE {}]
          /\ fake' = [d \in DBs |-> d = m /\ fake[m]]
       \/ /\ reported = required
          /\ \E sync \in NextStandbys(required, present, good) :
                /\ spec' = [d \in DBs |-> IF d = m THEN sync ELSE {}]
                /\ status' = [d \in DBs |-> IF d = m THEN reported \cap sync ELSE {}]
                /\ fake' = [d \in DBs |-> d = m /\ addFakeStandby(sync)]
    /\ gen' = [gen EXCEPT ![m] = IF spec'[m] # spec[m] \/ fake'[m] # fake[m]
                                 THEN @ + 1 ELSE @]
    /\ gen'[m] <= MaxGen
    /\ (excess \cup added) \cap (spec'[m] \cup status'[m]) = {}
    /\ excess = {} \/ added = {}
    /\ role' = [d \in DBs |-> IF d = m THEN "master"
                              ELSE IF d \in standbys THEN "standby" ELSE "none"]
    /\ follow' = [d \in DBs |-> IF d \in standbys THEN m ELSE NoDB]
    /\ resync' = [d \in DBs |-> resync[d] \/ d \in gone \cup excess \cup added]
    /\ cached' = [d \in DBs |-> IF d \in gone THEN NoReport ELSE cached[d]]
    /\ info' = [d \in DBs |-> IF d \in gone THEN NoReport ELSE info[d]]
    /\ UNCHANGED <<master, applied, rebooted, waitSync, up, primary, confVars,
                   walVars, clientVars, txns, crashes>>

-----------------------------------------------------------------------------
Keeper(d) ==
    \/ StartMaster(d) \/ Promote(d) \/ Reconfigure(d) \/ ReconfigureUnloaded(d)
    \/ ReconfigureAndRestart(d)
    \/ Standby(d) \/ Stop(d) \/ Resync(d) \/ KeeperRestart(d)
    \/ UpdatePGState(d) \/ UpdateKeeperInfo(d)

Postgres(d) ==
    \/ Commit(d) \/ Replicate(d) \/ CatchUp(d) \/ Observe(d) \/ Crash(d)
    \/ \E t \in 1..MaxTxns : Acknowledge(d, t)

Sentinel ==
    \/ \E n \in DBs : Elect(n) \/ UpdateBootUUID(n)
    \/ /\ Converged(master)
       /\ \E unfit \in SUBSET (Diverged(master) \cup Behind(master)) :
             LET gone == OldMasters(master) \cup unfit IN
             \E good \in SUBSET (Present \ (gone \cup {master})) :
             \E excess \in SUBSET (Present \ (gone \cup {master})),
                added \in SUBSET (members \ (Present \ gone)) :
                UpdateStandbys(master, gone, good, excess, added)

Next == Sentinel \/ \E d \in DBs : Keeper(d) \/ Postgres(d)

Spec == Init /\ [][Next]_vars

-----------------------------------------------------------------------------
\* Properties

\* Every variable has the shape of the Go state it stands for.
TypeOK ==
    /\ master \in DBs
    /\ role \in [DBs -> {"master", "standby", "none"}]
    /\ spec \in [DBs -> SUBSET DBs]
    /\ fake \in [DBs -> BOOLEAN]
    /\ status \in [DBs -> SUBSET DBs]
    /\ gen \in [DBs -> 0..MaxGen]
    /\ follow \in [DBs -> DBs \cup {NoDB}]
    /\ applied \in [DBs -> 0..MaxGen]
    /\ resync \in [DBs -> BOOLEAN]
    /\ rebooted \in [DBs -> BOOLEAN]
    /\ waitSync \in [DBs -> BOOLEAN]
    /\ cached \in [DBs -> Report]
    /\ info \in [DBs -> Report]
    /\ up \in [DBs -> BOOLEAN]
    /\ primary \in [DBs -> BOOLEAN]
    /\ names \in [DBs -> SUBSET DBs]
    /\ block \in [DBs -> BOOLEAN]
    /\ open \in [DBs -> BOOLEAN]
    /\ upstream \in [DBs -> DBs \cup {NoDB}]
    /\ streaming \in [DBs -> BOOLEAN]
    /\ log \in [DBs -> SUBSET (1..MaxTxns)]
    /\ pending \in [DBs -> SUBSET (1..MaxTxns)]
    /\ acked \in SUBSET (1..MaxTxns)
    /\ observed \in SUBSET (1..MaxTxns)
    /\ setting \in Settings
    /\ members \subseteq DBs
    /\ txns \in 0..MaxTxns
    /\ crashes \in 0..MaxCrashes

\* With synchronous replication no failover loses a transaction that a client
\* knows to be committed, acknowledged or read: the elected master has it.  A
\* failed reload does not change that.
NoLostCommit == risks \subseteq {"ReloadFails"} => observed \subseteq log[master]

\* What holds even when the keeper restarts PostgreSQL by itself, or opens it too
\* early after a restart of its own: no failover loses a transaction whose
\* commit was acknowledged.
NoLostAck == risks \cap {"LaggingSync", "ManualSwitch"} = {} => acked \subseteq log[master]

\* The same whatever happens ("target keeper must still be currently eligible under
\* sentinel safety rules", doc/management_operations.md, of a manual switch).
CommitsSurvive == observed \subseteq log[master]

\* What makes a standby electable: as long as it is both required and known to
\* have been in sync, it has every transaction that clients know of.
ElectablesComplete ==
    \A x \in status[master] \cap spec[master] : observed \subseteq log[x]

\* ElectablesComplete in the absence of risks.
ElectableIsComplete == risks = {} => ElectablesComplete

\* What a saved generation stands for ("If we are here, then all went well and we
\* can update the db generation"): PostgreSQL runs with the standbys of the
\* generation that the keeper reports as applied.
GenerationsInForce ==
    \A d \in DBs :
        up[d] /\ primary[d] /\ Assigned(d, "master") /\ applied[d] = gen[d]
        => names[d] = spec[d] /\ block[d] = fake[d]

\* GenerationsInForce in the absence of risks.
GenerationInForce == risks = {} => GenerationsInForce

\* An assigned master that normal users can reach has the minimum number of
\* synchronous standbys, or blocks on the fake one (doc/syncrepl.md:4).
MasterIsSynchronous ==
    \A d \in DBs :
        Serving(d) /\ Assigned(d, "master") /\ d = master
        => block[d] \/ Cardinality(names[d]) >= MinSynchronousStandbys
=============================================================================

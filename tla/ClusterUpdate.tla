---------------------------- MODULE ClusterUpdate ----------------------------
(***************************************************************************)
(* updateCluster with asynchronous replication: whom the sentinel elects,   *)
(* which databases it removes, adds and reconfigures, from reports that are  *)
(* old when it uses them.                                                  *)
(*                                                                         *)
(* WAL is the point of this module.  A database has the records it has      *)
(* replayed, each marked with the timeline it was written on and the        *)
(* database that wrote it, and the history of its timelines: the positions  *)
(* at which they end.  The sentinel sees lengths and histories only, and has *)
(* to judge from them who can follow whom.                                  *)
(*                                                                         *)
(* A database is identified with its keeper, numbered in UID order.  A       *)
(* database that is removed and created again on the same keeper has a new   *)
(* UID (fresh), which makes the keeper copy the data of the master.          *)
(***************************************************************************)
EXTENDS Integers, FiniteSets, Sequences, FiniteSetsExt

CONSTANTS
    N,                     \* number of keepers
    Priority,              \* Priority[d]: MasterPriority of d's keeper
    CanBeMaster,           \* the keepers that may be master
    MaxStandbyLag,
    MaxStandbysPerSender,
    UnsafeAutoFailback,
    ReinitRoles,           \* roles of the databases operators reinitialize
    Rounds,                \* switches from keeper 1 to 2 and back before the start
    MaxPos,                \* bound: WAL records of a database
    MaxTimeline,           \* bound: timelines
    MaxFaults,             \* bound: crashes, partitions, false alarms
    MaxRequests            \* bound: operator requests

DBs == 1..N
NoDB == 0

ASSUME UpdateAssumption ==
    /\ N \in Nat \ {0, 1}
    /\ Priority \in [DBs -> Nat]
    /\ CanBeMaster \subseteq DBs
    /\ MaxStandbyLag \in Nat /\ MaxStandbysPerSender \in Nat \ {0}
    /\ UnsafeAutoFailback \in BOOLEAN
    /\ ReinitRoles \subseteq {"master", "standby"}
    /\ Rounds \in Nat
    /\ MaxPos \in Nat /\ MaxTimeline \in Nat /\ 2 * Rounds < MaxTimeline
    /\ MaxFaults \in Nat /\ MaxRequests \in Nat

VARIABLES
    \* cluster data
    master,      \* Cluster.Status.Master
    spec,        \* spec[d]: the DBSpec, role "none" when d's keeper has no DB
    status,      \* status[d]: the DBStatus
    alive,       \* alive[d]: Status.Healthy of the keeper
    request,     \* Status.ManualSwitch, the target
    late,        \* databases whose convergence timeout has expired
    \* keepers and their PostgreSQL instances
    net,         \* net[d]: "up" | "cut" from the store | "down"
    acting,      \* acting[d]: "master" | "standby" | "stopped"
    source,      \* source[d]: the upstream in primary_conninfo
    fresh,       \* fresh[d]: the local UID is not the assigned one
    current,     \* current[d]: the assigned generation is applied
    wal,         \* wal[d]: records, [tl: timeline, by: the writer]
    hist,        \* hist[d][t]: where timeline t ended
    faults, requests

cdVars == <<master, spec, status, alive, request, late>>
pgVars == <<acting, source, fresh, current, wal, hist>>
vars == <<cdVars, net, pgVars, faults, requests>>

NoStatus == [healthy |-> FALSE, gen |-> "none", wal |-> <<>>, hist |-> <<>>]
NoSpec == [role |-> "none", follow |-> NoDB, init |-> "none", followers |-> {}]
MasterSpec(f) == [role |-> "master", follow |-> NoDB, init |-> "none", followers |-> f]
StandbySpec(m) == [role |-> "standby", follow |-> m, init |-> "none", followers |-> {}]

\* The histories when each of the switches so far came before the first record.
StartHistory == [i \in 1..2 * Rounds |-> 0]

\* Keepers that lost the store during the first timeline, before the switches, and
\* were not replaced as there were not enough standbys without them.
MayBeLost(S) ==
    /\ S \subseteq DBs \ {1, 2} /\ Cardinality(S) <= MaxFaults
    /\ S # {} => Rounds > 0 /\ Cardinality(DBs \ S) <= MaxStandbysPerSender

\* What such a keeper has replayed: nothing, or a record that keeper 1 wrote after
\* keeper 2 was promoted for the first time.
LostWAL == {w \in {<<>>, <<[tl |-> 1, by |-> 1]>>} : Len(w) <= MaxPos}

\* A cluster in service after the switches, but for the keepers that were lost.
Init ==
    \E lost \in SUBSET DBs :
    /\ MayBeLost(lost)
    /\ master = 1
    /\ spec = [d \in DBs |-> IF d = 1 THEN MasterSpec(DBs \ {1}) ELSE StandbySpec(1)]
    /\ status = [d \in DBs |->
                    IF d \in lost THEN [NoStatus EXCEPT !.gen = "stale"]
                    ELSE [NoStatus EXCEPT !.healthy = TRUE, !.gen = "current", !.hist = StartHistory]]
    /\ alive = [d \in DBs |-> d \notin lost]
    /\ request = NoDB
    /\ late = {}
    /\ net = [d \in DBs |-> IF d \in lost THEN "cut" ELSE "up"]
    /\ acting = [d \in DBs |-> IF d = 1 THEN "master" ELSE "standby"]
    /\ source = [d \in DBs |-> IF d = 1 THEN NoDB ELSE 1]
    /\ fresh = [d \in DBs |-> FALSE]
    /\ current = [d \in DBs |-> d \notin lost]
    /\ \E w \in LostWAL : wal = [d \in DBs |-> IF d \in lost THEN w ELSE <<>>]
    /\ hist = [d \in DBs |-> IF d \in lost THEN <<>> ELSE StartHistory]
    /\ faults = Cardinality(lost)
    /\ requests = 0

-----------------------------------------------------------------------------
\* PostgreSQL (external) and the environment

\* s is a prefix of t, as WAL is of the WAL it became.
IsPrefix(s, t) == Len(s) <= Len(t) /\ \A i \in 1..Len(s) : s[i] = t[i]

Runs(d) == net[d] # "down" /\ acting[d] # "stopped"
Timeline(h) == Len(h) + 1

\* An instance that is not in recovery writes WAL, wanted or not.
WriteWAL(d) ==
    /\ Runs(d) /\ acting[d] = "master"
    /\ Len(wal[d]) < MaxPos
    /\ wal' = [wal EXCEPT ![d] = Append(@, [tl |-> Timeline(hist[d]), by |-> d])]
    /\ UNCHANGED <<cdVars, net, acting, source, fresh, current, hist, faults, requests>>

\* The standby d can continue with the WAL of s: its timeline is s's, or one that
\* s has left at or after d's position.
Streams(d, s) ==
    /\ IsPrefix(hist[d], hist[s])
    /\ Len(hist[d]) < Len(hist[s]) => Len(wal[d]) <= hist[s][Timeline(hist[d])]
    /\ IsPrefix(wal[d], wal[s])

\* It switches to the next timeline at its end, else receives a record.
Stream(d) ==
    LET s == source[d] IN
    /\ Runs(d) /\ acting[d] = "standby" /\ s # NoDB /\ s # d /\ Runs(s)
    /\ Streams(d, s)
    /\ \/ /\ Len(hist[d]) < Len(hist[s])
          /\ hist[s][Timeline(hist[d])] = Len(wal[d])
          /\ hist' = [hist EXCEPT ![d] = Append(@, Len(wal[d]))]
          /\ UNCHANGED wal
       \/ /\ Len(hist[d]) < Len(hist[s]) => hist[s][Timeline(hist[d])] > Len(wal[d])
          /\ Len(wal[d]) < Len(wal[s])
          /\ wal' = [wal EXCEPT ![d] = Append(@, wal[s][Len(@) + 1])]
          /\ UNCHANGED hist
    /\ UNCHANGED <<cdVars, net, acting, source, fresh, current, faults, requests>>

\* A crash of the machine, or its loss of the store.
Fault(d) ==
    /\ net[d] = "up"
    /\ faults < MaxFaults
    /\ faults' = faults + 1
    /\ \E s \in {"cut", "down"} : net' = [net EXCEPT ![d] = s]
    /\ UNCHANGED <<cdVars, pgVars, requests>>

Recover(d) ==
    /\ net[d] # "up"
    /\ net' = [net EXCEPT ![d] = "up"]
    /\ UNCHANGED <<cdVars, pgVars, faults, requests>>

-----------------------------------------------------------------------------
\* The keepers

\* No database is assigned, or another than the local one: stop the instance.
KeeperStop(d) ==
    /\ net[d] = "up" /\ acting[d] # "stopped"
    /\ spec[d].role = "none" \/ fresh[d]
    /\ acting' = [acting EXCEPT ![d] = "stopped"]
    /\ UNCHANGED <<cdVars, net, source, fresh, current, wal, hist, faults, requests>>

\* A new standby: copy the followed database (pg_rewind or pg_basebackup).
KeeperResync(d) ==
    LET s == spec[d].follow IN
    /\ net[d] = "up" /\ acting[d] = "stopped"
    /\ spec[d].role = "standby" /\ fresh[d] /\ Runs(s)
    /\ acting' = [acting EXCEPT ![d] = "standby"]
    /\ source' = [source EXCEPT ![d] = s]
    /\ fresh' = [fresh EXCEPT ![d] = FALSE]
    /\ current' = [current EXCEPT ![d] = TRUE]
    /\ wal' = [wal EXCEPT ![d] = wal[s]]
    /\ hist' = [hist EXCEPT ![d] = hist[s]]
    /\ UNCHANGED <<cdVars, net, faults, requests>>

\* Target role master: promote the instance if it is a standby.
KeeperMaster(d) ==
    /\ net[d] = "up" /\ spec[d].role = "master" /\ ~current[d]
    /\ acting[d] = "standby" => Timeline(hist[d]) < MaxTimeline
    /\ hist' = [hist EXCEPT ![d] = IF acting[d] = "standby" THEN Append(@, Len(wal[d])) ELSE @]
    /\ acting' = [acting EXCEPT ![d] = "master"]
    /\ source' = [source EXCEPT ![d] = NoDB]
    /\ current' = [current EXCEPT ![d] = TRUE]
    /\ UNCHANGED <<cdVars, net, fresh, wal, faults, requests>>

\* Target role standby, of a standby: follow the assigned database.  A master is
\* refused the transition, nothing is applied then.
KeeperStandby(d) ==
    /\ net[d] = "up" /\ spec[d].role = "standby" /\ ~fresh[d]
    /\ acting[d] = "standby"
    /\ ~current[d] \/ source[d] # spec[d].follow
    /\ source' = [source EXCEPT ![d] = spec[d].follow]
    /\ current' = [current EXCEPT ![d] = TRUE]
    /\ UNCHANGED <<cdVars, net, acting, fresh, wal, hist, faults, requests>>

-----------------------------------------------------------------------------
\* The sentinel: reports, timers

\* updateKeepersStatus takes in a report of d's keeper.  The database is another
\* than the assigned one as long as that is fresh.  Of the history that the database
\* has when it reports, the keeper publishes the entries that HasEntry tells.
Report(d) ==
    /\ net[d] = "up"
    /\ alive' = [alive EXCEPT ![d] = TRUE]
    /\ \/ /\ spec[d].role = "none" \/ fresh[d]
          /\ UNCHANGED <<status, late>>
       \/ /\ spec[d].role # "none" /\ ~fresh[d]
          /\ status' = [status EXCEPT ![d] =
                          [healthy |-> acting[d] # "stopped",
                           gen |-> IF current[d] THEN "current" ELSE "stale",
                           wal |-> wal[d], hist |-> hist[d]]]
          /\ late' = IF current[d] THEN late \ {d} ELSE late
    /\ UNCHANGED <<master, spec, request, net, pgVars, faults, requests>>

\* No report of d for failInterval: for want of one, or because reports are late,
\* or an operator has the keeper regarded as failed (ForceFail).
Fail(d) ==
    /\ alive[d]
    /\ net[d] = "up" => faults < MaxFaults
    /\ faults' = IF net[d] = "up" THEN faults + 1 ELSE faults
    /\ alive' = [alive EXCEPT ![d] = FALSE]
    /\ status' = [status EXCEPT ![d].healthy = FALSE]
    /\ UNCHANGED <<master, spec, request, late, net, pgVars, requests>>

\* The keeper refuses to turn a master into a standby.
Refuses(d) == spec[d].role = "standby" /\ acting[d] = "master" /\ ~fresh[d]

\* d has not reported its current generation for convergenceTimeout.
ConvergenceTimeout(d) ==
    /\ spec[d].role # "none" /\ status[d].gen = "stale" /\ d \notin late
    /\ net[d] = "up" /\ ~Refuses(d) => faults < MaxFaults
    /\ faults' = IF net[d] = "up" /\ ~Refuses(d) THEN faults + 1 ELSE faults
    /\ late' = late \cup {d}
    /\ UNCHANGED <<master, spec, status, alive, request, net, pgVars, requests>>

\* Operators: RequestManualSwitch and ReinitializeReplica.  The latter rewrites
\* the specification but leaves the generation as it is.
RequestManualSwitch(d) ==
    /\ requests < MaxRequests
    /\ requests' = requests + 1
    /\ request' = d
    /\ UNCHANGED <<master, spec, status, alive, late, net, pgVars, faults>>

ReinitializeReplica(d) ==
    /\ requests < MaxRequests
    /\ requests' = requests + 1
    /\ d # master /\ spec[d].role \in ReinitRoles
    /\ spec' = [spec EXCEPT ![d].init = "resync", ![d].role = "standby", ![d].follow = master]
    /\ request' = NoDB
    /\ UNCHANGED <<master, status, alive, late, net, pgVars, faults>>

-----------------------------------------------------------------------------
\* The sentinel: who is valid, good, electable

maxPostgresTimelinesHistory == 2

\* The end of timeline t is among the entries that are published of the history h:
\* getTimeLinesHistory keeps the last ones.
HasEntry(h, t) == t \in 1..Len(h) /\ t > Len(h) - maxPostgresTimelinesHistory

\* Both on one timeline, which they switched to at different points.
OtherSwitchPoint(f, c) ==
    LET t == Timeline(c.hist) IN
    /\ Timeline(f.hist) = t
    /\ HasEntry(f.hist, t - 1) /\ HasEntry(c.hist, t - 1)
    /\ f.hist[t - 1] # c.hist[t - 1]

\* Mutant: a fork at the very position counts as one before it.
DetectForkAtPosition(f, c) ==
    LET t == Timeline(c.hist) IN
    \/ Timeline(f.hist) < t
    \/ OtherSwitchPoint(f, c)
    \/ Timeline(f.hist) > t /\ HasEntry(f.hist, t) /\ f.hist[t] <= Len(c.wal)

\* Mutant: a newer timeline of the followed database is always one to follow.
DetectOlderOnly(f, c) ==
    \/ Timeline(f.hist) < Timeline(c.hist)
    \/ OtherSwitchPoint(f, c)

\* DetectTimelineBranchDivergence, of the reported states f (followed) and c.  An
\* entry that is missing is no difference.
DetectTimelineBranchDivergence(f, c) ==
    LET t == Timeline(c.hist) IN
    \/ Timeline(f.hist) < t
    \/ OtherSwitchPoint(f, c)
    \/ Timeline(f.hist) > t /\ HasEntry(f.hist, t) /\ f.hist[t] < Len(c.wal)

Present == {d \in DBs : spec[d].role # "none"}
IsMaster(d) == spec[d].role = "master"    \* dbTypePrimaryLine

\* Mutant: only the master is ever validated.
InvalidNever(d) == d \notin DBs

\* dbValidity: "valid", "invalid" or "unknown".
Invalid(d) ==
    status[d].gen # "none" /\ DetectTimelineBranchDivergence(status[master], status[d])
Valid(d) ==
    status[d].gen # "none" /\ ~DetectTimelineBranchDivergence(status[master], status[d])

\* dbConvergenceState
Converged(d) == status[d].gen = "current"
ConvergenceFailed(d) == status[d].gen # "current" /\ d \in late

\* dbStatus
Good(d) == Valid(d) /\ alive[d] /\ Converged(d) /\ status[d].healthy
Converging(d) == Valid(d) /\ alive[d] /\ ~Converged(d) /\ d \notin late

Position(d) == Len(status[d].wal)

\* Mutant: the lag is not looked at.
AnyLag(d) == d \in DBs

isLagBelowMax(d) == Max({0, Position(master) - Position(d)}) <= MaxStandbyLag

\* findBestNewMasters: good standbys that may be master, and good old masters.
BestNewMasters ==
    {d \in Present \ {master} :
        /\ Good(d)
        /\ Timeline(status[d].hist) = Timeline(status[master].hist)
        /\ isLagBelowMax(d)
        /\ IsMaster(d) \/ d \in CanBeMaster}

\* sortCandidateMasters: a comes before b.
Before(a, b) ==
    \/ Position(a) < Position(b)
    \/ Position(a) = Position(b) /\ Priority[a] > Priority[b]
    \/ Position(a) = Position(b) /\ Priority[a] = Priority[b] /\ a < b
First(S) == CHOOSE a \in S : \A b \in S \ {a} : Before(a, b)

MasterOK == status[master].healthy /\ ~ConvergenceFailed(master)

\* chooseAutoFailbackTarget: the first of the candidates of the highest priority,
\* if that is above the master's.
FailbackTargets ==
    LET best == {d \in BestNewMasters : \A b \in BestNewMasters : Priority[b] <= Priority[d]} IN
    {d \in DBs : /\ UnsafeAutoFailback /\ best # {} /\ d = First(best)
                 /\ Priority[d] > Priority[master]}

-----------------------------------------------------------------------------
\* The sentinel: updateCluster

\* The new specifications are stored: a database whose specification changed gets
\* a new generation, one that is removed or added has nothing reported.
PutSpecs(specs, removed, added) ==
    /\ spec' = specs
    /\ status' = [d \in DBs |->
                    IF d \in removed \cup added THEN NoStatus
                    ELSE IF specs[d] # spec[d] /\ Converged(d)
                    THEN [status[d] EXCEPT !.gen = "stale"] ELSE status[d]]
    /\ current' = [d \in DBs |-> current[d] /\ specs[d] = spec[d] /\ d \notin removed \cup added]
    /\ fresh' = [d \in DBs |-> fresh[d] \/ d \in removed \cup added]
    /\ late' = {d \in late : specs[d] = spec[d]}
    /\ UNCHANGED <<alive, net, acting, source, wal, hist, faults, requests>>

Followers(specs, m, w) == {d \in DBs \ {m} : specs[d].role = "standby" /\ specs[d].follow = w}

\* Mutant: the new master keeps the specification of a standby.
ElectSilently(w) ==
    /\ master' = w
    /\ PutSpecs([spec EXCEPT ![master].followers = Followers(spec, master, w)], {}, {})

\* w is elected; the old master keeps its role and loses its followers.
Elect(w) ==
    LET elected == [spec EXCEPT ![w].role = "master", ![w].follow = NoDB] IN
    /\ master' = w
    /\ PutSpecs([elected EXCEPT ![master].followers = Followers(elected, master, w)], {}, {})

\* An operator's request for an eligible target is carried out.
ManualSwitch ==
    /\ request \in BestNewMasters
    /\ Elect(request)
    /\ request' = NoDB

\* The master has failed and there is a candidate.  (The check may also put the
\* election off while standbys advance, or find no candidate: Keep.)
Failover ==
    /\ request # master /\ request \notin BestNewMasters
    /\ ~MasterOK /\ BestNewMasters # {}
    /\ Elect(First(BestNewMasters))
    /\ UNCHANGED request

\* A better keeper is back for long enough.
AutoFailback ==
    /\ request # master /\ request \notin BestNewMasters
    /\ MasterOK
    /\ \E d \in FailbackTargets : Elect(d)
    /\ UNCHANGED request

\* The master stays, is healthy and converged: remove the old masters and the
\* databases on another branch (gone), then those that are not good or in excess
\* if enough are good, else add databases on free keepers, and tell all standbys
\* to follow the master.
Keep ==
    LET gone == {d \in Present \ {master} : IsMaster(d) \/ Invalid(d)}
        rest == Present \ (gone \cup {master})
        good == {d \in rest : Good(d)}
        free == {d \in DBs \ (rest \cup {master}) : alive[d]}
        wanted == MaxStandbysPerSender - Cardinality(good) - Cardinality({d \in rest : Converging(d)})
    IN
    /\ request \notin BestNewMasters
    /\ status[master].healthy /\ Converged(master)
    /\ \E excess \in SUBSET rest, added \in SUBSET free :
        /\ \/ /\ Cardinality(good) >= MaxStandbysPerSender
              /\ rest \ good \subseteq excess /\ added = {}
              /\ Cardinality(good \ excess) = MaxStandbysPerSender
           \/ /\ Cardinality(good) < MaxStandbysPerSender
              /\ excess = {}
              /\ Cardinality(added) = Max({0, Min({wanted, Cardinality(free)})})
        /\ LET kept == rest \ excess
               specs == [d \in DBs |->
                           IF d = master THEN MasterSpec(kept \cup added)
                           ELSE IF d \in added
                           THEN [StandbySpec(master) EXCEPT !.init = "resync"]
                           ELSE IF d \in kept
                           THEN [StandbySpec(master) EXCEPT !.init =
                                   IF d \in good THEN "none" ELSE spec[d].init]
                           ELSE NoSpec]
           IN PutSpecs(specs, gone \cup excess, added)
    /\ request' = IF request = master THEN NoDB ELSE request
    /\ UNCHANGED master

\* The master stays but is not healthy and converged: only its followers are
\* brought up to date.
KeepUnconverged ==
    /\ request \notin BestNewMasters
    /\ ~(status[master].healthy /\ Converged(master))
    /\ PutSpecs([spec EXCEPT ![master].followers = Followers(spec, master, master)], {}, {})
    /\ request' = IF request = master THEN NoDB ELSE request
    /\ UNCHANGED master

-----------------------------------------------------------------------------
Sentinel == ManualSwitch \/ Failover \/ AutoFailback \/ Keep \/ KeepUnconverged
Keeper(d) == KeeperStop(d) \/ KeeperResync(d) \/ KeeperMaster(d) \/ KeeperStandby(d)

Next ==
    \/ Sentinel
    \/ \E d \in DBs :
          \/ WriteWAL(d) \/ Stream(d) \/ Fault(d) \/ Recover(d)
          \/ Keeper(d) \/ Report(d) \/ Fail(d) \/ ConvergenceTimeout(d)
          \/ RequestManualSwitch(d) \/ ReinitializeReplica(d)

Spec == Init /\ [][Next]_vars

\* The sentinel checks again and again, keepers run their loop and report,
\* failInterval ends, PostgreSQL replicates.  Faults and requests are bounded, no
\* machine has to come back.  Auto-failback is up to timers of the leader.
FairSpec ==
    /\ Spec
    /\ WF_vars(ManualSwitch \/ Failover \/ Keep) /\ WF_vars(KeepUnconverged)
    /\ \A d \in DBs :
          /\ WF_vars(Stream(d)) /\ WF_vars(Keeper(d)) /\ WF_vars(Report(d))
          /\ WF_vars(net[d] # "up" /\ Fail(d))

-----------------------------------------------------------------------------
\* Properties

\* Every variable has the shape of the Go state it stands for.
TypeOK ==
    /\ master \in DBs
    /\ \A d \in DBs :
          /\ spec[d] \in [role : {"master", "standby", "none"}, follow : DBs \cup {NoDB},
                          init : {"none", "resync"}, followers : SUBSET DBs]
          /\ status[d].healthy \in BOOLEAN
          /\ status[d].gen \in {"none", "stale", "current"}
          /\ \A i \in 1..Len(wal[d]) : wal[d][i] \in [tl : 1..MaxTimeline, by : DBs]
          /\ IsPrefix(status[d].wal, wal[d]) /\ IsPrefix(status[d].hist, hist[d])
          /\ \A t \in 1..Len(hist[d]) : hist[d][t] \in 0..MaxPos
    /\ alive \in [DBs -> BOOLEAN] /\ fresh \in [DBs -> BOOLEAN]
    /\ current \in [DBs -> BOOLEAN]
    /\ request \in DBs \cup {NoDB}
    /\ late \subseteq DBs
    /\ net \in [DBs -> {"up", "cut", "down"}]
    /\ acting \in [DBs -> {"master", "standby", "stopped"}]
    /\ source \in [DBs -> DBs \cup {NoDB}]
    /\ faults \in 0..MaxFaults /\ requests \in 0..MaxRequests

\* The cluster data always have a database for the master, with the role of one.
MasterPresent == IsMaster(master)

\* Both took the same timeline number at the same position, each for its own.
Twins(a, b) ==
    \E t \in 2..MaxTimeline :
        /\ t <= Timeline(a.hist) /\ t <= Timeline(b.hist)
        /\ a.hist[t - 1] = b.hist[t - 1]
        /\ \E i \in 1..Len(a.wal), j \in 1..Len(b.wal) :
              a.wal[i].tl = t /\ b.wal[j].tl = t /\ a.wal[i].by # b.wal[j].by

\* The line of c left that of f earlier than at the one switch point that
\* DetectTimelineBranchDivergence compares.
ForkedEarlier(c, f) ==
    \E t \in 1..Len(c.hist) : t <= Len(f.hist) /\ c.hist[t] # f.hist[t]

\* The line of c left that of f before c's position, at a switch point that is no
\* longer among the entries published of f's history.
ForkedUnseen(c, f) ==
    /\ Len(c.hist) < Len(f.hist) /\ ~HasEntry(f.hist, Timeline(c.hist))
    /\ f.hist[Timeline(c.hist)] < Len(c.wal)

\* With asynchronous replication a failover, a switch or a failback costs at most
\* maxStandbyLag of what the old master had written when it last reported, but for
\* two forks: one that the reports do not show, as both sides took the same timeline
\* number at the same position, and one that the sentinel does not look for.
BoundedLoss ==
    [][master' # master =>
         \/ Twins(status[master], [wal |-> wal[master'], hist |-> hist[master']])
         \/ ForkedEarlier(status[master'], status[master])
         \/ IsPrefix(SubSeq(status[master].wal, 1, Len(status[master].wal) - MaxStandbyLag),
                     wal[master'])]_vars

\* "the leader sentinel tries to find the best standby using a valid standby with
\* the (last reported) nearest xlog location to the master" (doc/faq.md:65): no
\* other candidate reported more WAL than the one that a failover elects.
NearestElected ==
    [][Failover => \A d \in BestNewMasters : Position(d) <= Position(master')]_vars

\* A database with WAL and history c is on the line of one with f: on the same
\* timeline, or on one that f has left after c's position.
OnLine(c, f) ==
    /\ IsPrefix(c.hist, f.hist)
    /\ Len(c.hist) < Len(f.hist) => Len(c.wal) <= f.hist[Timeline(c.hist)]
    /\ IsPrefix(c.wal, f.wal) \/ IsPrefix(f.wal, c.wal)

Actual(d) == [wal |-> wal[d], hist |-> hist[d]]
Replicas == {d \in Present \ {master} : ~IsMaster(d)}
InService == status[master].healthy /\ Converged(master)

\* A standby that the sentinel removes as invalid, with a healthy and converged
\* master, really cannot follow that master: what the reports show is still true.
InvalidIsDiverged ==
    InService => \A d \in Replicas : Invalid(d) => ~OnLine(Actual(d), Actual(master))

\* A database that the sentinel takes for valid was on the master's line when it
\* reported, but for the same two forks, and for a third one with a master three or
\* more timelines ahead: its keeper publishes two entries of its history, and the one
\* that would tell is missing.
ValidIsOnLine ==
    \A d \in Present : Valid(d) =>
        \/ OnLine(status[d], status[master])
        \/ Twins(status[d], status[master])
        \/ ForkedEarlier(status[d], status[master])
        \/ ForkedUnseen(status[d], status[master])

\* "checks whether followed timeline state belongs to a different branch from current
\* timeline state" (internal/cluster/timeline.go:42): a fork that shows in the
\* histories is found, whichever switch point it is at and however long ago.
ForksAreFound ==
    InService => \A d \in Replicas : Valid(d) =>
        ~ForkedEarlier(status[d], status[master]) /\ ~ForkedUnseen(status[d], status[master])

\* The keepers that are left make a cluster: a master that runs as one, and on
\* every other keeper a standby that follows it, on its line.
Whole ==
    /\ net[master] = "up" /\ acting[master] = "master" /\ InService
    /\ \A d \in DBs \ {master} : net[d] = "up" =>
          /\ spec[d].role = "standby" /\ spec[d].follow = master /\ Good(d)
          /\ acting[d] = "standby" /\ source[d] = master
          /\ OnLine(Actual(d), Actual(master))

\* After a single fault, a crash, a partition or a false alarm, the cluster becomes
\* whole and stays so, without the machine that was lost, if every position is within
\* maxStandbyLag; likewise after two switches or reinitializations of standbys.  Of a
\* fault and a switch together it is not true: a new master that fails before any
\* standby has followed it to its timeline has no successor.
SelfHeals == <>[]Whole
=============================================================================

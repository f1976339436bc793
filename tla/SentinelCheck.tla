---------------------------- MODULE SentinelCheck ----------------------------
(***************************************************************************)
(* The periodic check of the sentinels and the failure detector inside it:    *)
(* leadership notices, the history of the master keeper's information, error   *)
(* and backoff timers, the conditional write of the cluster data and the       *)
(* publication of the Kubernetes endpoints.                                   *)
(*                                                                         *)
(* A check is three steps: the reads, the update with its write, and the       *)
(* publication.  Other sentinels, the keeper, elections and time interleave.   *)
(* Leadership is what a sentinel believes: notices may be late or reordered,    *)
(* so two sentinels may believe to lead.  Information UIDs are compared only   *)
(* for equality with the one now in the store ("cur").  Times are ages, kept   *)
(* up to the first value past the longest interval they are compared with.     *)
(* An operator may ask at any time that the keeper be taken for failed.  A     *)
(* standby that can take over is always there.                                *)
(***************************************************************************)
EXTENDS Integers, FiniteSets

CONSTANTS
    Sentinels,
    SleepInterval,
    FailInterval,
    TTL,              \* least lifetime of keeper information in the store
    NoFallback,       \* readOnlyNoFallback
    PublishWorks,     \* FALSE: the endpoint can never be published
    MaxElections,     \* bound: how often a sentinel is told that it leads
    MaxRequests,      \* bound: how often the operator asks for a failover
    LateRequests      \* bound: FALSE if only while the keeper has the master

ASSUME CheckAssumption ==
    /\ SleepInterval \in Nat /\ FailInterval \in Nat \ {0} /\ TTL \in Nat
    /\ PublishWorks \in BOOLEAN /\ NoFallback \in BOOLEAN /\ MaxElections \in Nat /\ MaxRequests \in Nat
    /\ LateRequests \in BOOLEAN

MaxAge == FailInterval + 1
Ages == 0..MaxAge
NoTimer == MaxAge + 1
Older(t) == IF t < MaxAge THEN t + 1 ELSE t
OlderRace(t) == IF t < FailInterval THEN t + 1 ELSE t
OlderSeen(h) == IF h.kind = "seen" /\ h.age <= SleepInterval THEN [h EXCEPT !.age = @ + 1] ELSE h

NoHistory == [kind |-> "none", cur |-> FALSE, age |-> 0]
Histories == [kind : {"none", "unseen", "seen"}, cur : BOOLEAN, age : Ages]

\* Cluster data: the keeper's Healthy and ForceFail, whether a new master was elected,
\* and the database the proxies are sent to.
ClusterData == [healthy : BOOLEAN, forced : BOOLEAN, elected : BOOLEAN, route : 0..2]
Steady == [healthy |-> TRUE, forced |-> FALSE, elected |-> FALSE, route |-> 1]

Idle == [pc |-> "idle", read |-> Steady, present |-> FALSE, same |-> FALSE, cur |-> FALSE,
         valid |-> FALSE, age |-> 0, active |-> FALSE, hist |-> NoHistory, route |-> 0]

VARIABLES
    alive,      \* the keeper of the master database runs
    info,       \* its information is in the store
    age,        \* time since it was last put there (MaxAge once it is gone)
    cd,         \* the cluster data
    converged,  \* the elected database has become a master
    endpoint,   \* the published endpoints: [writable, readOnly]
    elections,
    requests,   \* how often the operator asked for a failover
    leader,     \* per sentinel: what it was last told
    fresh,      \* per sentinel: leadershipCount differs from lastLeadershipCount
    hist,       \* per sentinel: keeperInfoHistories
    err,        \* per sentinel: keeperErrorTimers
    race,       \* per sentinel: leaderRaceBackoffTimers
    check       \* per sentinel: the check under way (read: the cluster data it read,
                \* valid: they are still the ones in the store, age: of the report it read)

keeperVars == <<alive, info, age>>
cdVars == <<cd, converged>>
timers == <<hist, err, race>>
leadVars == <<elections, leader, fresh>>
vars == <<keeperVars, cdVars, endpoint, requests, leadVars, timers, check>>

\* readOnlyEndpoints: the standby while database 1 is the primary; database 2 has no
\* standby, and stands in for one unless readOnlyNoFallback; none without a primary.
readOnlyEndpoints(route) ==
    IF route = 0 THEN {} ELSE IF route = 1 \/ ~NoFallback THEN {2} ELSE {}

Endpoints(route) == [writable |-> route, readOnly |-> readOnlyEndpoints(route)]

Init ==
    /\ alive = TRUE /\ info = TRUE /\ age = 0
    /\ cd = Steady
    /\ converged = FALSE
    /\ endpoint = Endpoints(1)
    /\ elections = 0 /\ requests = 0
    /\ leader = [s \in Sentinels |-> FALSE]
    /\ fresh = [s \in Sentinels |-> FALSE]
    /\ hist = [s \in Sentinels |-> NoHistory]
    /\ err = [s \in Sentinels |-> NoTimer]
    /\ race = [s \in Sentinels |-> NoTimer]
    /\ check = [s \in Sentinels |-> Idle]

-----------------------------------------------------------------------------
\* The keeper, the elected database, time

\* No history names the information that is now in the store.
Outrun ==
    /\ hist' = [s \in Sentinels |-> [hist[s] EXCEPT !.cur = FALSE]]
    /\ check' = [s \in Sentinels |-> [check[s] EXCEPT !.cur = FALSE, !.hist.cur = FALSE]]

\* updateKeeperInfo: a new InfoUID is put into the store.
Report ==
    /\ alive
    /\ info' = TRUE /\ age' = 0
    /\ Outrun
    /\ UNCHANGED <<alive, cdVars, endpoint, leadVars, err, race, requests>>

Die ==
    /\ alive /\ alive' = FALSE
    /\ UNCHANGED <<info, age, cdVars, endpoint, leadVars, timers, check, requests>>

\* The lease of the key runs out, sooner or later; a Kubernetes store keeps it.
Expire ==
    /\ info /\ age > TTL
    /\ info' = FALSE /\ age' = MaxAge
    /\ Outrun
    /\ UNCHANGED <<alive, cdVars, endpoint, leadVars, err, race, requests>>

Converge ==
    /\ cd.elected /\ ~converged /\ converged' = TRUE
    /\ UNCHANGED <<keeperVars, cd, endpoint, leadVars, timers, check, requests>>

Tick ==
    /\ age' = Older(age)
    /\ hist' = [s \in Sentinels |-> OlderSeen(hist[s])]
    /\ check' = [s \in Sentinels |->
        [check[s] EXCEPT !.hist = OlderSeen(@), !.age = IF check[s].pc = "update" THEN Older(@) ELSE @]]
    /\ err' = [s \in Sentinels |-> Older(err[s])]
    /\ race' = [s \in Sentinels |-> OlderRace(race[s])]
    /\ UNCHANGED <<alive, info, cdVars, endpoint, leadVars, requests>>

Invalidated == [t \in Sentinels |-> [check[t] EXCEPT !.valid = FALSE]]

\* FailKeeper and ForceFailover: a conditional write of their own.
FailKeeper ==
    /\ requests < MaxRequests /\ (LateRequests \/ ~cd.elected)
    /\ requests' = requests + 1
    /\ cd' = [cd EXCEPT !.forced = TRUE]
    /\ check' = Invalidated
    /\ UNCHANGED <<keeperVars, converged, endpoint, leadVars, timers>>

-----------------------------------------------------------------------------
\* electionLoop

Elected(s) ==
    /\ elections < MaxElections
    /\ elections' = elections + 1
    /\ leader' = [leader EXCEPT ![s] = TRUE]
    /\ fresh' = [fresh EXCEPT ![s] = TRUE]
    /\ UNCHANGED <<keeperVars, cdVars, endpoint, timers, check, requests>>

\* Someone is elected after it.
Lost(s) ==
    /\ leader[s] /\ elections < MaxElections
    /\ leader' = [leader EXCEPT ![s] = FALSE]
    /\ UNCHANGED <<keeperVars, cdVars, endpoint, elections, fresh, timers, check, requests>>

-----------------------------------------------------------------------------
\* clusterSentinelCheck: the reads

\* Whether candidates advance is asked only of a master that may have to be replaced.
Read(s) ==
    /\ check[s].pc = "idle"
    /\ \E active \in {FALSE, ~cd.elected} : check' = [check EXCEPT ![s] =
        [Idle EXCEPT !.pc = "update", !.read = cd, !.valid = TRUE, !.active = active,
                     !.present = info, !.same = info /\ hist[s].cur, !.cur = info, !.age = age]]
    /\ UNCHANGED <<keeperVars, cdVars, endpoint, leadVars, timers, requests>>

NotLeader(s) ==
    /\ check[s].pc = "update" /\ ~leader[s]
    /\ check' = [check EXCEPT ![s] = Idle]
    /\ UNCHANGED <<keeperVars, cdVars, endpoint, leadVars, timers, requests>>

-----------------------------------------------------------------------------
\* updateKeepersStatus and updateCluster

\* The information read is the one recorded, and it was not recorded just now.
Outdated(s) ==
    /\ hist[s].kind # "none" /\ check[s].same
    /\ hist[s].kind = "seen" => hist[s].age > SleepInterval

Updated(s) == check[s].present /\ ~Outdated(s)

NewHistory(s) ==
    LET seen == [kind |-> "seen", cur |-> check[s].cur, age |-> 0] IN
    CASE ~check[s].present -> IF fresh[s] THEN NoHistory ELSE hist[s]
      [] check[s].present /\ fresh[s] -> [seen EXCEPT !.kind = "unseen"]
      [] check[s].present /\ ~fresh[s] -> IF hist[s].kind # "none" /\ check[s].same THEN hist[s] ELSE seen

\* Mutant: an error is not forgotten when news arrive.
KeeperErrorKept(s) ==
    IF fresh[s] THEN NoTimer ELSE IF err[s] = NoTimer /\ ~Updated(s) THEN 0 ELSE err[s]

\* SetKeeperError, CleanKeeperError; the sanity sweep drops all timers.
KeeperError(s) ==
    IF fresh[s] \/ Updated(s) THEN NoTimer ELSE IF err[s] = NoTimer THEN 0 ELSE err[s]

\* isKeeperHealthy, unless the operator's request is due; the first check of a leader
\* leaves the state alone, the request included.
forceFailRequested(s) == check[s].read.forced /\ ~fresh[s]

Healthy(s) ==
    IF fresh[s] THEN check[s].read.healthy
    ELSE ~forceFailRequested(s) /\ (KeeperError(s) = NoTimer \/ KeeperError(s) <= FailInterval)

\* Candidates have made progress, as far as this leader has seen.
Active(s) == check[s].active /\ ~fresh[s]


\* shouldDelayLeaderRace, for a failed master
shouldDelayLeaderRace(s) ==
    Active(s) /\ (race[s] = NoTimer \/ race[s] < FailInterval)

\* chooseBestNewMaster: the operator's request is not put off.
Delayed(s) == ~forceFailRequested(s) /\ shouldDelayLeaderRace(s)

NewRace(s) ==
    IF check[s].read.elected \/ Healthy(s) \/ ~Delayed(s) THEN NoTimer
    ELSE IF race[s] = NoTimer THEN 0 ELSE race[s]

\* The request is reset by the check that follows it.
updateCluster(s) ==
    LET old == check[s].read
        failover == ~old.elected /\ ~Healthy(s) /\ ~Delayed(s) IN
    [healthy |-> Healthy(s),
     forced |-> old.forced /\ fresh[s],
     elected |-> old.elected \/ failover,
     route |-> IF failover THEN 0 ELSE IF old.elected /\ converged THEN 2 ELSE old.route]

\* The timers are changed in place, whatever becomes of the write.
Timers(s) ==
    /\ err' = [err EXCEPT ![s] = KeeperError(s)]
    /\ race' = [race EXCEPT ![s] = NewRace(s)]
    /\ fresh' = [fresh EXCEPT ![s] = FALSE]
    /\ hist' = IF fresh[s] THEN [hist EXCEPT ![s] = NoHistory] ELSE hist

\* Mutant: the endpoint is published when a check changes it.
toPublishChanged(s) ==
    IF updateCluster(s).route # check[s].read.route THEN updateCluster(s).route ELSE endpoint.writable

\* writableEndpoint of the new cluster data; 0 for none
toPublish(s) == updateCluster(s).route

\* AtomicPutClusterData succeeds.
Put(s) ==
    /\ check[s].pc = "update" /\ leader[s] /\ check[s].valid
    /\ Timers(s)
    /\ cd' = updateCluster(s)
    /\ check' = [Invalidated EXCEPT ![s] =
        [Idle EXCEPT !.pc = "publish", !.hist = NewHistory(s), !.route = toPublish(s)]]
    /\ UNCHANGED <<keeperVars, converged, endpoint, elections, leader, requests>>

\* It fails, or an error hides that it was done.
PutFails(s) ==
    /\ check[s].pc = "update" /\ leader[s]
    /\ \E done \in {FALSE, check[s].valid} :
        /\ Timers(s)
        /\ cd' = IF done THEN updateCluster(s) ELSE cd
        /\ check' = [(IF done THEN Invalidated ELSE check) EXCEPT ![s] = Idle]
    /\ UNCHANGED <<keeperVars, converged, endpoint, elections, leader, requests>>

-----------------------------------------------------------------------------
\* The publication; only then are the histories saved.

Publish(s) ==
    /\ PublishWorks /\ check[s].pc = "publish"
    /\ endpoint' = Endpoints(check[s].route)
    /\ hist' = [hist EXCEPT ![s] = check[s].hist]
    /\ check' = [check EXCEPT ![s] = Idle]
    /\ UNCHANGED <<keeperVars, cdVars, leadVars, err, race, requests>>

\* One of the requests fails: with it, or before it, the read-only slice is not
\* written, or neither; or it was done although it failed.
PublishFails(s) ==
    /\ check[s].pc = "publish"
    /\ endpoint' \in {endpoint} \cup
        IF PublishWorks THEN {[endpoint EXCEPT !.writable = check[s].route], Endpoints(check[s].route)}
        ELSE {}
    /\ check' = [check EXCEPT ![s] = Idle]
    /\ UNCHANGED <<keeperVars, cdVars, leadVars, timers, requests>>

-----------------------------------------------------------------------------
Step(s) == Read(s) \/ NotLeader(s) \/ Put(s) \/ PutFails(s) \/ Publish(s) \/ PublishFails(s)

Next ==
    \/ Report \/ Die \/ Expire \/ Converge \/ Tick \/ FailKeeper
    \/ \E s \in Sentinels : Elected(s) \/ Lost(s) \/ Step(s)

Spec == Init /\ [][Next]_vars

\* Time passes, checks go on, someone comes to lead.  Writes and publications that are
\* tried again and again succeed again and again, those that elect a master included:
\* what a write says is no reason for it to fail.
FairSpec ==
    /\ Spec
    /\ WF_vars(Tick)
    /\ WF_vars((\A s \in Sentinels : ~leader[s]) /\ \E s \in Sentinels : Elected(s))
    /\ \A s \in Sentinels : 
        WF_vars(Step(s)) /\ SF_vars(Put(s)) /\ SF_vars(Put(s) /\ cd'.elected) /\ SF_vars(Publish(s))

-----------------------------------------------------------------------------
\* Properties

\* Every variable has the shape of the Go state it stands for.
TypeOK ==
    /\ alive \in BOOLEAN /\ info \in BOOLEAN /\ age \in Ages
    /\ cd \in ClusterData
    /\ converged \in BOOLEAN /\ endpoint \in [writable : 0..2, readOnly : SUBSET {2}] 
    /\ elections \in 0..MaxElections /\ requests \in 0..MaxRequests
    /\ leader \in [Sentinels -> BOOLEAN] /\ fresh \in [Sentinels -> BOOLEAN]
    /\ hist \in [Sentinels -> Histories]
    /\ err \in [Sentinels -> Ages \cup {NoTimer}] /\ race \in [Sentinels -> Ages \cup {NoTimer}]

\* The check that ends in this step read a report older than failInterval, or none.
OnOldReport ==
    \E s \in Sentinels : /\ check[s].pc = "update" /\ check'[s].pc # "update"
                         /\ check[s].age > FailInterval \/ ~check[s].present

\* A request of the operator is used up in this step.
OnRequest == cd.forced /\ ~cd'.forced

\* A keeper is declared failed only if the last report before the check is older than
\* failInterval or ran out, however slow the sentinel's checks are, whoever leads and
\* whatever writes failed; or because the operator asked for it ("failover keeper"), and
\* then once for each request.
NoHastyFailure == [][cd.healthy /\ ~cd'.healthy => OnOldReport \/ OnRequest]_vars

\* The same of the replacement of its database ("applies a short backoff window before
\* failover", shouldDelayLeaderRace).  A new leader's first check goes by the verdict
\* of its predecessor, without a delay and whatever the keeper reported since.
NoHastyFailover == [][~cd.elected /\ cd'.elected => OnOldReport \/ OnRequest]_vars


\* The published endpoints, writable and read-only, become and stay those of the
\* cluster data, whichever writes and publications failed on the way.
EndpointFollows == <>[](endpoint = Endpoints(cd.route))
=============================================================================

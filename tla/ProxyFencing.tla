---------------------------- MODULE ProxyFencing ----------------------------
(***************************************************************************)
(* The handshake by which the sentinel moves client connections from an    *)
(* old master to a new one.                                                *)
(*                                                                         *)
(* The sentinel writes Proxy.Spec.MasterDBUID = "" with a new generation,  *)
(* waits until every active proxy has published that generation (a proxy   *)
(* clears its destination before it publishes it) or has been silent for   *)
(* so long that it must have closed its connections, and only then         *)
(* publishes the new master.  Proxies that stay alive publish their        *)
(* generation at every check; a check that times out clears the            *)
(* destination.                                                            *)
(*                                                                         *)
(* Time is discrete.  Instead of a clock the model keeps ages (time since  *)
(* an event), capped where the code only compares them with a limit.  An   *)
(* InfoUID is fresh at each publication, so "the InfoUID is the one in the *)
(* history" is the Boolean seen[p], reset by each publication.             *)
(*                                                                         *)
(* Which database the sentinel wants as master is left open here (see the  *)
(* modules on failover); the election itself is the action Elect.          *)
(***************************************************************************)
EXTENDS Integers, FiniteSets

CONSTANTS
    Proxies,             \* proxy processes (a restarted proxy has a new UID)
    DBs,                 \* databases that can be elected
    NoDB,                \* the empty MasterDBUID, and "no destination"
    ProxyTimeout,        \* spec.proxyTimeout
    ProxyCheckInterval,  \* spec.proxyCheckInterval
    SleepInterval,       \* spec.sleepInterval: pause between sentinel checks
    StoreLatency,        \* longest time a successful check takes from its read
                         \* of the cluster data to its end
    StoreErrors,         \* may a store call fail with an error that is not a
                         \* timeout (connection refused, no leader, ...)
    QuickHandover,       \* may a new leader check sooner than sleepInterval
                         \* after the last write of the old one
    MaxElections,        \* bound: number of elections
    MaxFaults            \* bound: number of timeouts, errors, crashes and
                         \* leader changes

\* cluster.Validate: proxyCheckInterval < proxyTimeout.
ASSUME TimingAssumption ==
    /\ ProxyTimeout \in Nat /\ ProxyCheckInterval \in Nat
    /\ SleepInterval \in Nat /\ StoreLatency \in Nat
    /\ ProxyCheckInterval < ProxyTimeout
    /\ StoreLatency <= ProxyTimeout

ASSUME SetAssumption ==
    /\ NoDB \notin DBs
    /\ StoreErrors \in BOOLEAN /\ QuickHandover \in BOOLEAN
    /\ MaxElections \in Nat /\ MaxFaults \in Nat

VARIABLES
    \* cluster data in the store
    master,      \* Cluster.Status.Master
    pxMaster,    \* Proxy.Spec.MasterDBUID
    pxGen,       \* Proxy.Generation
    enabled,     \* Proxy.Spec.EnabledProxies
    \* proxy info keys in the store
    known,       \* proxies that have an info key
    infoGen,     \* infoGen[p]: ProxyInfo.Generation
    infoAge,     \* infoAge[p]: time since the key was written
    \* the leader sentinel
    spc,         \* "sleep" | "decide": between its reads and its write
    sleepAge,    \* time since the end of its last check
    active,      \* activeProxiesInfos of the current check
    unconverged, \* those of another generation than Proxy.Generation
    seen,        \* seen[p]: the history holds the InfoUID of p's key
    seenAge,     \* seenAge[p]: time since the history entry was made
    \* the proxies
    pc,          \* "idle" | "reading" | "putting" | "replying" | "dead"
    route,       \* writable destination
    view,        \* the cluster data a check has read
    idleAge,     \* time since the last check ended
    checkAge,    \* time since the check started
    readAge,     \* time since the check read the cluster data
    \* bounds
    elections, faults

cdVars       == <<master, pxMaster, pxGen, enabled>>
infoVars     == <<known, infoGen, infoAge>>
sentinelVars == <<spc, sleepAge, active, unconverged>>
historyVars  == <<seen, seenAge>>
proxyVars    == <<pc, route, view, idleAge, checkAge, readAge>>
vars == <<cdVars, infoVars, sentinelVars, historyVars, proxyVars,
          elections, faults>>

\* SetProxyInfo publishes with a TTL of twice the timeout; the sentinel
\* ignores a proxy after the same time.
InfoTTL == 2 * ProxyTimeout
AgeCap  == InfoTTL + 1

Checking == {"reading", "putting", "replying"}
HasView  == {"putting", "replying"}

NoView == [gen |-> 0, master |-> NoDB, enabled |-> {}]

View == [gen : Nat, master : DBs \cup {NoDB}, enabled : SUBSET Proxies]

\* The initial cluster data: cluster.NewClusterData makes an empty Proxy.
Init ==
    /\ master \in DBs
    /\ pxMaster = NoDB
    /\ pxGen = 0
    /\ enabled = {}
    /\ known = {}
    /\ infoGen = [p \in Proxies |-> 0]
    /\ infoAge = [p \in Proxies |-> 0]
    /\ spc = "sleep"
    /\ sleepAge = SleepInterval
    /\ active = {}
    /\ unconverged = {}
    /\ seen = [p \in Proxies |-> FALSE]
    /\ seenAge = [p \in Proxies |-> 0]
    /\ pc = [p \in Proxies |-> "idle"]
    /\ route = [p \in Proxies |-> NoDB]
    /\ view = [p \in Proxies |-> NoView]
    /\ idleAge = [p \in Proxies |-> ProxyCheckInterval]
    /\ checkAge = [p \in Proxies |-> 0]
    /\ readAge = [p \in Proxies |-> 0]
    /\ elections = 0
    /\ faults = 0

Fault == faults < MaxFaults /\ faults' = faults + 1

-----------------------------------------------------------------------------
\* The proxy: ClusterChecker.Start and ClusterChecker.Check

\* The check timer fires.
CheckStart(p) ==
    /\ pc[p] = "idle"
    /\ idleAge[p] = ProxyCheckInterval
    /\ pc' = [pc EXCEPT ![p] = "reading"]
    /\ UNCHANGED <<cdVars, infoVars, sentinelVars, historyVars, route, view,
                   idleAge, checkAge, readAge, elections, faults>>

\* Mutant: with no master the destination is left open until the check ends.
CheckReadKeepsRoute(p) ==
    /\ pc[p] = "reading"
    /\ pc' = [pc EXCEPT ![p] = "putting"]
    /\ view' = [view EXCEPT ![p] =
                  [gen |-> pxGen, master |-> pxMaster, enabled |-> enabled]]
    /\ UNCHANGED <<cdVars, infoVars, sentinelVars, historyVars, route, idleAge,
                   checkAge, readAge, elections, faults>>

\* GetClusterData returns.  With no master the destination is cleared at once,
\* before the proxy info is written.
CheckRead(p) ==
    /\ pc[p] = "reading"
    /\ pc' = [pc EXCEPT ![p] = "putting"]
    /\ view' = [view EXCEPT ![p] =
                  [gen |-> pxGen, master |-> pxMaster, enabled |-> enabled]]
    /\ route' = IF pxMaster = NoDB THEN [route EXCEPT ![p] = NoDB] ELSE route
    /\ UNCHANGED <<cdVars, infoVars, sentinelVars, historyVars, idleAge,
                   checkAge, readAge, elections, faults>>

\* SetProxyInfo takes effect in the store: a new InfoUID, a new lease.
PutInfo(p) ==
    /\ pc[p] = "putting"
    /\ pc' = [pc EXCEPT ![p] = "replying"]
    /\ known' = known \cup {p}
    /\ infoGen' = [infoGen EXCEPT ![p] = view[p].gen]
    /\ infoAge' = [infoAge EXCEPT ![p] = 0]
    /\ seen' = [seen EXCEPT ![p] = FALSE]
    /\ seenAge' = [seenAge EXCEPT ![p] = 0]
    /\ UNCHANGED <<cdVars, sentinelVars, route, view, idleAge,
                   checkAge, readAge, elections, faults>>

\* Every way a check of p ends: back to waiting for the timer.
EndCheck(p) ==
    /\ pc' = [pc EXCEPT ![p] = "idle"]
    /\ idleAge' = [idleAge EXCEPT ![p] = 0]
    /\ view' = [view EXCEPT ![p] = NoView]
    /\ checkAge' = [checkAge EXCEPT ![p] = 0]
    /\ readAge' = [readAge EXCEPT ![p] = 0]
    /\ UNCHANGED <<cdVars, infoVars, sentinelVars, historyVars, elections>>

\* SetProxyInfo has returned: start proxying, only if enabled.
CheckEnd(p) ==
    /\ pc[p] = "replying"
    /\ route' = [route EXCEPT ![p] =
                   IF p \in view[p].enabled THEN view[p].master ELSE NoDB]
    /\ EndCheck(p)
    /\ UNCHANGED faults

\* Mutant: a timeout is only logged.
CheckTimeoutKeepsRoute(p) ==
    /\ pc[p] \in Checking
    /\ Fault
    /\ UNCHANGED route
    /\ EndCheck(p)

\* The context of the check or of one of its store requests expires: Start
\* clears the destination.  (With no master in the view the error of
\* SetProxyInfo is ignored, and the destination is already clear.)
CheckTimeout(p) ==
    /\ pc[p] \in Checking
    /\ Fault
    /\ route' = [route EXCEPT ![p] = NoDB]
    /\ EndCheck(p)

\* A store call fails with another error: Start only logs it, and the
\* destination stays what it was.  The call may have had its effect.
CheckError(p) ==
    /\ StoreErrors
    /\ pc[p] \in Checking
    /\ Fault
    /\ UNCHANGED route
    /\ EndCheck(p)

\* The proxy process dies, and its connections with it.
Crash(p) ==
    /\ pc[p] # "dead"
    /\ Fault
    /\ pc' = [pc EXCEPT ![p] = "dead"]
    /\ route' = [route EXCEPT ![p] = NoDB]
    /\ view' = [view EXCEPT ![p] = NoView]
    /\ checkAge' = [checkAge EXCEPT ![p] = 0]
    /\ readAge' = [readAge EXCEPT ![p] = 0]
    /\ idleAge' = [idleAge EXCEPT ![p] = 0]
    /\ UNCHANGED <<cdVars, infoVars, sentinelVars, historyVars, elections>>

-----------------------------------------------------------------------------
\* The store: the lease of a proxy info key runs out.

Expire(p) ==
    /\ p \in known
    /\ infoAge[p] >= InfoTTL
    /\ known' = known \ {p}
    /\ infoGen' = [infoGen EXCEPT ![p] = 0]
    /\ infoAge' = [infoAge EXCEPT ![p] = 0]
    /\ UNCHANGED <<cdVars, sentinelVars, historyVars,
                   proxyVars, elections, faults>>

-----------------------------------------------------------------------------
\* The leader sentinel: clusterSentinelCheck

\* Mutants: half the waiting time; no limit on the waiting time.
ActiveProxiesHalf == {p \in known : seen[p] => seenAge[p] <= ProxyTimeout}
ActiveProxiesForever == known

\* Sentinel.activeProxiesInfos: a proxy is active unless the InfoUID in the
\* history has not changed for more than twice the proxy timeout.
ActiveProxies == {p \in known : seen[p] => seenAge[p] <= InfoTTL}

\* GetClusterData and GetProxiesInfo, and activeProxiesInfos on the result.
SentinelRead ==
    /\ spc = "sleep"
    /\ sleepAge = SleepInterval
    /\ spc' = "decide"
    /\ active' = ActiveProxies
    /\ unconverged' = {p \in ActiveProxies : infoGen[p] # pxGen}
    /\ seen' = [p \in Proxies |-> p \in known]
    /\ seenAge' = [p \in Proxies |-> IF p \in known /\ seen[p]
                                     THEN seenAge[p] ELSE 0]
    /\ UNCHANGED <<cdVars, infoVars, sleepAge, proxyVars, elections, faults>>

\* The end of a check: sleep for sleepInterval.
EndSentinelCheck ==
    /\ spc' = "sleep"
    /\ sleepAge' = 0
    /\ active' = {}
    /\ unconverged' = {}
    /\ UNCHANGED <<infoVars, historyVars, proxyVars>>

\* Mutant: the generation is not incremented.
ElectSameGeneration(m) ==
    /\ spc = "decide"
    /\ m # master
    /\ elections < MaxElections
    /\ elections' = elections + 1
    /\ master' = m
    /\ pxMaster' = NoDB
    /\ EndSentinelCheck
    /\ UNCHANGED <<pxGen, enabled, faults>>

\* A new master is elected: tell the proxies that there is no active master.
Elect(m) ==
    /\ spc = "decide"
    /\ m # master
    /\ elections < MaxElections
    /\ elections' = elections + 1
    /\ master' = m
    /\ pxMaster' = NoDB
    /\ pxGen' = IF pxMaster # NoDB THEN pxGen + 1 ELSE pxGen
    /\ EndSentinelCheck
    /\ UNCHANGED <<enabled, faults>>

\* Mutant: the sentinel does not wait for the proxies.
PublishAtOnce ==
    /\ spc = "decide"
    /\ pxMaster = NoDB
    /\ pxMaster' = master
    /\ pxGen' = pxGen + 1
    /\ EndSentinelCheck
    /\ UNCHANGED <<master, enabled, elections, faults>>

\* The master stays and proxies have none: publish it once they converged.
Publish ==
    /\ spc = "decide"
    /\ pxMaster = NoDB
    /\ unconverged = {}
    /\ pxMaster' = master
    /\ pxGen' = pxGen + 1
    /\ EndSentinelCheck
    /\ UNCHANGED <<master, enabled, elections, faults>>

\* Waiting for unconverged proxies changes nothing; neither does an enabled
\* set that is already the active one.
KeepProxies ==
    /\ spc = "decide"
    /\ IF pxMaster = NoDB THEN unconverged # {} ELSE enabled = active
    /\ EndSentinelCheck
    /\ UNCHANGED <<cdVars, elections, faults>>

\* Mutant: proxies that disappeared are disabled, new ones never enabled.
EnableProxiesPrunes ==
    /\ spc = "decide"
    /\ pxMaster # NoDB
    /\ enabled # active
    /\ enabled' = enabled \cap active
    /\ EndSentinelCheck
    /\ UNCHANGED <<master, pxMaster, pxGen, elections, faults>>

\* The master stays and is published: enable the proxies known to be active.
EnableProxies ==
    /\ spc = "decide"
    /\ pxMaster # NoDB
    /\ enabled # active
    /\ enabled' = active
    /\ pxGen' = pxGen + 1
    /\ EndSentinelCheck
    /\ UNCHANGED <<master, pxMaster, elections, faults>>

\* The check ends without a write: an error, a modified key, a paused cluster.
SentinelSkip ==
    /\ spc = "decide"
    /\ Fault
    /\ EndSentinelCheck
    /\ UNCHANGED <<cdVars, elections>>

\* Another sentinel takes over with an empty history: runLeadershipSanitySweep.
\* The lease of a leader that crashed outlasts sleepInterval; one that resigns,
\* or that has lost its lease without noticing yet, leaves no such pause.
LeaderChange ==
    /\ Fault
    /\ spc' = "sleep"
    /\ sleepAge' \in {sleepAge} \cup (IF QuickHandover THEN {SleepInterval} ELSE {})
    /\ active' = {}
    /\ unconverged' = {}
    /\ seen' = [p \in Proxies |-> FALSE]
    /\ seenAge' = [p \in Proxies |-> 0]
    /\ UNCHANGED <<cdVars, infoVars, proxyVars, elections>>

-----------------------------------------------------------------------------
\* Time

Older(age, cap) == IF age < cap THEN age + 1 ELSE age

\* One unit of time passes.  Timers fire and contexts expire on time: no check
\* lasts longer than its context, no timer fires late.
Tick ==
    /\ \A p \in Proxies :
          /\ pc[p] = "idle" => idleAge[p] < ProxyCheckInterval
          /\ pc[p] \in Checking => checkAge[p] < ProxyTimeout
          /\ pc[p] \in HasView => readAge[p] < StoreLatency
    /\ idleAge' = [p \in Proxies |-> IF pc[p] = "idle" THEN idleAge[p] + 1
                                                       ELSE idleAge[p]]
    /\ checkAge' = [p \in Proxies |-> IF pc[p] \in Checking
                                      THEN checkAge[p] + 1 ELSE checkAge[p]]
    /\ readAge' = [p \in Proxies |-> IF pc[p] \in HasView
                                     THEN readAge[p] + 1 ELSE readAge[p]]
    /\ infoAge' = [p \in Proxies |-> IF p \in known THEN Older(infoAge[p], AgeCap)
                                                    ELSE infoAge[p]]
    /\ seenAge' = [p \in Proxies |-> IF seen[p] THEN Older(seenAge[p], AgeCap)
                                               ELSE seenAge[p]]
    /\ sleepAge' = IF spc = "sleep" THEN Older(sleepAge, SleepInterval)
                                    ELSE sleepAge
    /\ UNCHANGED <<cdVars, known, infoGen, spc, active, unconverged, seen,
                   pc, route, view, elections, faults>>

-----------------------------------------------------------------------------
Check(p) == CheckStart(p) \/ CheckRead(p) \/ PutInfo(p) \/ CheckEnd(p)

Sentinel ==
    \/ SentinelRead
    \/ Publish
    \/ KeepProxies
    \/ EnableProxies

Next ==
    \/ \E p \in Proxies : \/ Check(p)
                          \/ CheckTimeout(p)
                          \/ CheckError(p)
                          \/ Crash(p)
                          \/ Expire(p)
    \/ Sentinel
    \/ \E m \in DBs : Elect(m)
    \/ SentinelSkip
    \/ LeaderChange
    \/ Tick

Spec == Init /\ [][Next]_vars

\* Fairness: the timers of the proxies and of the sentinel fire, store calls
\* return, time passes.  Elections, timeouts, errors and crashes are not fair.
Fairness ==
    /\ \A p \in Proxies : WF_vars(Check(p))
    /\ WF_vars(Sentinel)
    /\ WF_vars(Tick)

FairSpec == Spec /\ Fairness

-----------------------------------------------------------------------------
\* Properties

\* Every variable has its type: generations are naturals, ages stay within the
\* bounds that the timers of Start and clusterSentinelCheck enforce.
TypeOK ==
    /\ master \in DBs
    /\ pxMaster \in DBs \cup {NoDB}
    /\ pxGen \in Nat
    /\ enabled \in SUBSET Proxies
    /\ known \in SUBSET Proxies
    /\ infoGen \in [Proxies -> Nat]
    /\ infoAge \in [Proxies -> 0..AgeCap]
    /\ spc \in {"sleep", "decide"}
    /\ sleepAge \in 0..SleepInterval
    /\ active \in SUBSET Proxies
    /\ unconverged \in SUBSET Proxies
    /\ seen \in [Proxies -> BOOLEAN]
    /\ seenAge \in [Proxies -> 0..AgeCap]
    /\ pc \in [Proxies -> Checking \cup {"idle", "dead"}]
    /\ route \in [Proxies -> DBs \cup {NoDB}]
    /\ view \in [Proxies -> View]
    /\ idleAge \in [Proxies -> 0..ProxyCheckInterval]
    /\ checkAge \in [Proxies -> 0..ProxyTimeout]
    /\ readAge \in [Proxies -> 0..StoreLatency]
    /\ elections \in 0..MaxElections
    /\ faults \in 0..MaxFaults

\* updateCluster publishes a master only when every proxy has closed its
\* connections to the previous one ("we have to wait for all the proxies to
\* have converged to be sure they closed connections to previous master or
\* disappear"): while a master is published no proxy routes anywhere else.
FencedBeforePublish ==
    pxMaster # NoDB => \A p \in Proxies : route[p] \in {NoDB, pxMaster}

\* No two proxies ever send clients to different databases, during a failover
\* (old destinations still open, none published) or after it.
OneWritableTarget ==
    \A p, q \in Proxies : NoDB \notin {route[p], route[q]} => route[p] = route[q]

\* What a published generation stands for: while no master is published, a
\* proxy whose info carries the current generation has cleared its destination
\* and has no check under way that could set it again.
AckMeansClosed ==
    pxMaster = NoDB =>
        \A p \in known : infoGen[p] = pxGen =>
            /\ route[p] = NoDB
            /\ pc[p] \in HasView => view[p].gen = pxGen

-----------------------------------------------------------------------------
\* The inductive invariant behind the properties above

\* The timing under which the handshake is safe: a check publishes its info and
\* routes soon enough after its read, compared with the proxy timeout and with
\* the pause of the sentinel, and only a timeout can make it fail.
TimingSafe ==
    /\ ~StoreErrors
    /\ ~QuickHandover
    /\ StoreLatency + ProxyCheckInterval < ProxyTimeout
    /\ StoreLatency < SleepInterval

\* Ages start from zero; a proxy without destinations has none of the view's.
ChecksWellFormed ==
    \A p \in Proxies :
        /\ pc[p] = "idle" => checkAge[p] = 0
        /\ pc[p] \notin HasView => readAge[p] = 0
        /\ pc[p] = "dead" => route[p] = NoDB
        /\ pc[p] \in HasView /\ view[p].master = NoDB => route[p] = NoDB

\* A generation identifies the published master.
GenerationsAgree ==
    \A p \in Proxies :
        /\ infoGen[p] <= pxGen
        /\ pc[p] \in HasView =>
              /\ view[p].gen <= pxGen
              /\ view[p].gen = pxGen => view[p].master = pxMaster

\* A proxy that routes has published its info recently.
RoutingIsRecent ==
    \A p \in Proxies :
        /\ pc[p] = "replying" => p \in known /\ infoAge[p] <= readAge[p]
        /\ route[p] # NoDB =>
              /\ p \in known
              /\ pc[p] = "idle" => infoAge[p] <= StoreLatency + idleAge[p]
              /\ pc[p] \in {"reading", "putting"} =>
                    infoAge[p] <= StoreLatency + ProxyCheckInterval + checkAge[p]
        /\ p \in known /\ seen[p] => seenAge[p] <= infoAge[p]

\* A view older than the cluster data is older than the sentinel's last write.
StaleViewsAreOld ==
    /\ spc = "decide" => sleepAge = SleepInterval
    /\ \A p \in Proxies : pc[p] \in HasView /\ view[p].gen # pxGen =>
          spc = "sleep" /\ readAge[p] >= sleepAge

\* Proxies that still route are among those the sentinel waits for.
RoutingIsUnconverged ==
    spc = "decide" /\ pxMaster = NoDB =>
        \A p \in Proxies : route[p] # NoDB => p \in unconverged

\* All destinations, present and prospective, are one database.
Destinations(p) ==
    {route[p]} \cup (IF pc[p] \in HasView THEN {view[p].master} ELSE {})

OneTarget ==
    \E t \in DBs : /\ pxMaster \in {NoDB, t}
                  /\ \A p \in Proxies : Destinations(p) \subseteq {NoDB, t}

\* A generation published while no master is set, and a view taken in it, agree
\* on what the proxy may do (AckMeansClosed); a destination in use is one that
\* the sentinel knows of, waits for, and shares with every other proxy.
HandshakeInv ==
    /\ ChecksWellFormed
    /\ GenerationsAgree
    /\ AckMeansClosed
    /\ RoutingIsRecent
    /\ StaleViewsAreOld
    /\ RoutingIsUnconverged
    /\ OneTarget

-----------------------------------------------------------------------------
\* The writable listeners together implement the abstract specification.
Abstract == INSTANCE WritableRouting WITH route <- route
RoutingSpec == Abstract!Spec

\* An election is completed: proxies are not left without a master forever.
MasterGetsPublished == [](pxMaster = NoDB => <>(pxMaster # NoDB))

\* Once failures and elections stop, every live proxy comes to route to the
\* elected master and stays there.
ProxiesFollow ==
    <>[](\A p \in Proxies : pc[p] # "dead" => route[p] = master)
=============================================================================

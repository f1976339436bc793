----------------------- MODULE SyncReplication_proofs -------------------------
EXTENDS SyncReplication, WellFoundedInduction, TLAPS

(***************************************************************************)
(* What clients were told is committed is never lost by a failover, for    *)
(* every set of databases, every bound and every setting in which the      *)
(* sentinel elects only standbys it knows to be in sync and the in-sync    *)
(* report does not lag (Covered).                                          *)
(*                                                                         *)
(* The argument: the databases the sentinel may elect are Trusted; the     *)
(* current master waits for all of them (Durable) and a former master      *)
(* that still runs waits for the current one, or for a standby it will     *)
(* never hear of again (Others).  So whatever becomes Known is on the      *)
(* master and on every Trusted standby.  Assignments and Instances say     *)
(* what the cluster data and the instances are like.                       *)
(*                                                                         *)
(* Most steps are first-order; those that need arithmetic or records say   *)
(* so by citing SMTT.                                                      *)
(***************************************************************************)
USE ZenonT(30)

\* A standby follows a database.
Types == TypeOK /\ \A d \in DBs : role[d] = "standby" => follow[d] \in DBs

\* Clients of d read what is in its log, or will after a reload.
Shows(d) == up[d] /\ primary[d] /\ (open[d] \/ (~waitSync[d] /\ ~rebooted[d]))

\* What clients know, or may learn without another commit.
Known ==
    {t \in 1..MaxTxns :
        \/ t \in acked
        \/ /\ risks \subseteq {"ReloadFails"}
           /\ \/ t \in observed
              \/ \E d \in DBs : Shows(d) /\ t \in log[d] \ pending[d]}

\* The standbys of the master that are known to be in sync, or will be once a report that
\* is under way has been taken in.
Promised(r) == IF r.gen = gen[master] THEN r.sync \cap spec[master] ELSE {}
Trusted == status[master] \cup Promised(cached[master]) \cup Promised(info[master])

\* A former master still on record: it waits for the new one, which has yet to be seen in
\* sync with any standby.
OldMaster(d) ==
    /\ role[d] = "master" /\ primary[d]
    /\ master \in spec[d]
    /\ up[d] => master \in names[d]
    /\ status[master] = {}

\* A former master no longer on record: it waits for a standby that it has lost.
Abandoned(d) ==
    /\ resync[d]
    /\ \E x \in names[d] : upstream[x] # d /\ follow[x] # d

Assignments ==
    /\ role[master] = "master"
    /\ \A d \in DBs :
          /\ role[d] = "master" => ~resync[d] /\ gen[d] > 0
          /\ role[d] = "standby" /\ ~resync[d] => ~primary[d]
          /\ role[d] # "master" => cached[d] = NoReport /\ info[d] = NoReport /\ status[d] = {}
          /\ applied[d] <= gen[d] /\ cached[d].gen <= gen[d] /\ info[d].gen <= gen[d]
          /\ role[d] = "master" /\ ~primary[d] =>
                applied[d] < gen[d] /\ cached[d].gen < gen[d] /\ info[d].gen < gen[d]
    /\ status[master] \subseteq spec[master]
    /\ status[master] # {} => primary[master]
    /\ \A x \in spec[master] : resync[x] => role[x] = "none"

\* What Instances says of one database.
Instance(d) ==
    /\ primary[d] => upstream[d] = NoDB
    /\ ~(up[d] /\ primary[d] /\ open[d]) => pending[d] = {}
    /\ waitSync[d] => ~open[d]
    /\ log[d] \subseteq 1..txns /\ pending[d] \subseteq log[d]
    /\ streaming[d] => /\ upstream[d] \in DBs /\ up[d] /\ up[upstream[d]]
                       /\ log[d] \subseteq log[upstream[d]]

Instances == \A d \in DBs : Instance(d)

Others ==
    \A d \in DBs \ {master} :
        /\ role[d] = "master" => OldMaster(d)
        /\ up[d] /\ primary[d] => OldMaster(d) \/ Abandoned(d)

Durable ==
    /\ Known \subseteq log[master] \ pending[master]
    /\ \A x \in Trusted : Known \subseteq log[x]
    /\ up[master] /\ primary[master] => Trusted \subseteq names[master]

SyncInv == Assignments /\ Instances /\ Others /\ Durable /\ GenerationInForce

\* The risks under which acknowledged commits survive.
Covered == risks \cap {"LaggingSync", "ManualSwitch"} = {}

\* The least of a set of naturals is one of them: the next transaction that a standby
\* replays is one that it lacks.
LEMMA MinIn ==
    ASSUME NEW S \in SUBSET Nat, S # {}
    PROVE  Min(S) \in S
<1> DEFINE R == {ss \in Nat \X Nat : ss[1] < ss[2]}
<1>0. OpToRel(<, Nat) = R
  BY DEF OpToRel
<1>1. IsWellFoundedOn(R, Nat)
  BY <1>0, NatLessThanWellFounded
<1> HIDE DEF R
<1>2. PICK x \in S : \A y \in S : ~(<<y, x>> \in R)
  BY <1>1, WFMin
<1>3. \A y \in S : x =< y
  <2> SUFFICES ASSUME NEW y \in S, y < x
               PROVE  FALSE
    BY SMTT(30)
  <2>1. <<y, x>> \in Nat \X Nat /\ <<y, x>>[1] < <<y, x>>[2]
    OBVIOUS
  <2> QED
    BY <1>2, <2>1 DEF R
<1> QED
  BY <1>3 DEF Min

\* What the setting of a behaviour gives.
LEMMA SettingTypes ==
    ASSUME TypeOK
    PROVE  risks \subseteq Risk /\ MaxGen \in Nat /\ MaxCrashes \in Nat
BY SyncAssumption DEF TypeOK, risks, MaxGen, MaxCrashes

\* Generations start at 0 and grow.
LEMMA Zero ==
    ASSUME NEW i \in Nat
    PROVE  0 <= i /\ 0 < i + 1 /\ 0 <= i + 1 /\ 0 # i + 1 /\ i + 1 > 0 /\ (i > 0 => 0 < i)
BY SMTT(30)

\* A generation and its successor.
LEMMA Succ ==
    ASSUME NEW i \in Nat
    PROVE  i <= i /\ i <= i + 1 /\ i + 1 \in Nat
BY SMTT(30)

\* A generation that is not above another is below its successor, and differs from it.
LEMMA Below ==
    ASSUME NEW i \in Nat, NEW j \in Nat
    PROVE  /\ i < j => i # j
           /\ i <= j => i < j + 1 /\ i <= j + 1 /\ i # j + 1
BY SMTT(30)

\* The order of generations is transitive.
LEMMA Between ==
    ASSUME NEW i \in Nat, NEW j \in Nat, NEW k \in Nat, i <= j, j <= k
    PROVE  i <= k
BY SMTT(30)

\* A counter below its bound may grow by one.
LEMMA UpTo ==
    ASSUME NEW b \in Nat
    PROVE  /\ 0 \in 0..b
           /\ \A i \in 0..b : i < b => i + 1 \in 0..b
           /\ \A i \in 0..b : i + 1 <= b => i + 1 \in 0..b
BY SMTT(30)

\* A commit has a new number.
LEMMA NextTxn ==
    ASSUME NEW n \in Nat
    PROVE  1..n \subseteq 1..(n + 1) /\ n + 1 \in 1..(n + 1) /\ n + 1 \notin 1..n
BY SMTT(30)

\* The fields of the report that is none.
LEMMA NoReportGen == NoReport.gen = 0 /\ NoReport.sync = {}
BY SMTT(30) DEF NoReport

\* Generations and transactions are natural numbers.
LEMMA Counters ==
    ASSUME Types
    PROVE  /\ txns \in Nat
           /\ \A d \in DBs : /\ gen[d] \in Nat /\ applied[d] \in Nat
                             /\ cached[d].gen \in Nat /\ info[d].gen \in Nat
                             /\ log[d] \subseteq Nat
BY SettingTypes, SyncAssumption, SMTT(30) DEF Types, TypeOK, Report

\* getSyncStandbysToSet: only former standbys and good ones become synchronous.
LEMMA NextStandbysIn ==
    ASSUME NEW prev, NEW present, NEW good, NEW sync \in NextStandbys(prev, present, good)
    PROVE  sync \subseteq prev \cup good
<1> DEFINE kept == {s \in SUBSET (prev \cap good) :
                      Cardinality(s) = Min({MaxSynchronousStandbys,
                                            Cardinality(prev \cap good)})}
           grown == {s \in SUBSET good : Cardinality(s) <= MaxSynchronousStandbys
                                          /\ \E k \in kept : k \subseteq s}
           missing(s) == Min({Cardinality((prev \cap present) \ s),
                              Max({0, MinSynchronousStandbys - Cardinality(s)})})
           filled == UNION {{s \cup k : k \in kSubset(missing(s), (prev \cap present) \ s)}
                              : s \in grown}
<1>1. PICK f \in filled : sync = Merged(f, prev, present)
  BY DEF NextStandbys
<1>2. PICK s \in grown : f \in {s \cup k : k \in kSubset(missing(s), (prev \cap present) \ s)}
  BY ZenonT(30)
<1>3. PICK k \in kSubset(missing(s), (prev \cap present) \ s) : f = s \cup k
  BY <1>2
<1>4. k \subseteq prev /\ s \subseteq good
  BY DEF kSubset
<1> HIDE DEF kept, grown, missing, filled
<1> QED
  BY <1>1, <1>3, <1>4 DEF Merged

\* A check of the master by the sentinel.
Update(gone, good, excess, added) ==
    /\ Converged(master)
    /\ OldMasters(master) \subseteq gone /\ gone \subseteq Present \ {master}
    /\ good \subseteq Present \ (gone \cup {master})
    /\ excess \subseteq Present \ (gone \cup {master})
    /\ added \subseteq members \ (Present \ gone)
    /\ UpdateStandbys(master, gone, good, excess, added)

\* A step of the sentinel elects, records a boot UUID or checks the master.
LEMMA SentinelSteps ==
    ASSUME Sentinel
    PROVE  \/ \E n \in DBs : Elect(n) \/ UpdateBootUUID(n)
           \/ \E gone, good, excess, added : Update(gone, good, excess, added)
<1> SUFFICES ASSUME Converged(master),
                    NEW unfit \in SUBSET (Diverged(master) \cup Behind(master)),
                    NEW gone, gone = OldMasters(master) \cup unfit,
                    NEW good \in SUBSET (Present \ (gone \cup {master})),
                    NEW excess \in SUBSET (Present \ (gone \cup {master})),
                    NEW added \in SUBSET (members \ (Present \ gone)),
                    UpdateStandbys(master, gone, good, excess, added)
             PROVE  Update(gone, good, excess, added)
  BY DEF Sentinel
<1>1. OldMasters(master) \subseteq gone /\ gone \subseteq Present \ {master}
  BY DEF OldMasters, Diverged, Behind
<1> QED
  BY <1>1 DEF Update

\* No step changes the setting or the members.
LEMMA SettingKept ==
    ASSUME Next
    PROVE  setting' = setting /\ members' = members
<1>1. ASSUME Sentinel
      PROVE  setting' = setting /\ members' = members
  <2>1. ASSUME NEW n \in DBs, Elect(n) \/ UpdateBootUUID(n)
        PROVE  setting' = setting /\ members' = members
    BY <2>1 DEF Elect, UpdateBootUUID, clientVars
  <2>2. ASSUME NEW gone, NEW good, NEW excess, NEW added,
               Update(gone, good, excess, added)
        PROVE  setting' = setting /\ members' = members
    BY <2>2 DEF Update, UpdateStandbys, clientVars
  <2> QED
    BY <1>1, <2>1, <2>2, SentinelSteps
<1>2. ASSUME NEW d \in DBs, Keeper(d)
      PROVE  setting' = setting /\ members' = members
  BY <1>2 DEF Keeper, StartMaster, Promote, Reconfigure, ReconfigureUnloaded,
     ReconfigureAndRestart, Standby, Stop, Resync, KeeperRestart, UpdatePGState,
     UpdateKeeperInfo, clientVars
<1>3. ASSUME NEW d \in DBs, Postgres(d)
      PROVE  setting' = setting /\ members' = members
  BY <1>3 DEF Postgres, Commit, Replicate, CatchUp, Observe, Crash, Acknowledge, clientVars
<1> QED
  BY <1>1, <1>2, <1>3 DEF Next

\* A check of the master records databases as standbys.
LEMMA UpdateTypes ==
    ASSUME TypeOK, NEW gone, NEW good, NEW excess, NEW added,
           Update(gone, good, excess, added)
    PROVE  /\ spec' \in [DBs -> SUBSET DBs]
           /\ status' \in [DBs -> SUBSET DBs]
           /\ fake' \in [DBs -> BOOLEAN]
<1>1. /\ ReportedStatus(master) \subseteq DBs
      /\ RequiredStandbys(master, good) \subseteq DBs
      /\ good \subseteq DBs
  BY DEF TypeOK, ReportedStatus, RequiredStandbys, Update, Present
<1> DEFINE required == RequiredStandbys(master, good)
           reported == ReportedStatus(master)
<1> HIDE DEF required, reported
<1>2. CASE /\ spec' = [d \in DBs |-> IF d = master THEN required ELSE {}]
           /\ status' = [d \in DBs |-> IF d = master THEN reported ELSE {}]
           /\ fake' = [d \in DBs |-> d = master /\ fake[master]]
  BY <1>1, <1>2 DEF TypeOK, required, reported
<1>3. ASSUME NEW sync \in NextStandbys(required, Present \ gone, good),
             spec' = [d \in DBs |-> IF d = master THEN sync ELSE {}],
             status' = [d \in DBs |-> IF d = master THEN reported \cap sync ELSE {}],
             fake' = [d \in DBs |-> d = master /\ addFakeStandby(sync)]
      PROVE  /\ spec' \in [DBs -> SUBSET DBs]
             /\ status' \in [DBs -> SUBSET DBs]
             /\ fake' \in [DBs -> BOOLEAN]
  <2>1. sync \subseteq DBs
    BY <1>1, NextStandbysIn DEF required
  <2> QED
    BY <1>1, <1>3, <2>1 DEF addFakeStandby, reported
<1> QED
  BY <1>2, <1>3 DEF Update, UpdateStandbys, required, reported

\* Every step keeps the types.
THEOREM StepTypes ==
    ASSUME Types, [Next]_vars
    PROVE  Types'
<1>0. CASE UNCHANGED vars
  BY <1>0 DEF TypeOK, Types, vars, cdVars, keeperVars, reportVars, confVars, walVars,
     clientVars, Report, MaxGen, MaxCrashes
<1> SUFFICES ASSUME Next PROVE  Types'
  BY <1>0
<1>s. /\ setting' = setting /\ members' = members /\ Report' = Report /\ MaxGen' = MaxGen
      /\ MaxCrashes' = MaxCrashes
  BY SettingKept DEF Report, MaxGen, MaxCrashes
<1> TypeOK BY DEF Types
<1>n. MaxGen \in Nat /\ MaxCrashes \in Nat /\ MaxTxns \in Nat /\ MinSynchronousStandbys \in Nat
  BY SettingTypes, SyncAssumption
<1>r. /\ NoReport \in Report
      /\ \A g \in 0..MaxGen, x \in SUBSET DBs : [gen |-> g, sync |-> x] \in Report
  BY <1>n, SMTT(30) DEF NoReport, Report
<1> HIDE DEF Report, MaxGen, MaxCrashes, NoReport
<1>Commit. ASSUME NEW d \in DBs, Commit(d) PROVE Types'
  <2>1. txns' \in 0..MaxTxns /\ txns + 1 \in 1..MaxTxns
    BY <1>Commit, <1>n, SMTT(30) DEF Commit, TypeOK
  <2> QED
    BY <1>Commit, <1>s, <2>1 DEF Commit, TypeOK, Types, cdVars, keeperVars, reportVars,
       confVars, clientVars
<1>CatchUp. ASSUME NEW d \in DBs, CatchUp(d) PROVE Types'
  BY <1>CatchUp, <1>s, <1>n, <1>r DEF CatchUp, TypeOK, Types, cdVars, keeperVars, reportVars,
     confVars, walVars, clientVars
<1>Observe. ASSUME NEW d \in DBs, Observe(d) PROVE Types'
  BY <1>Observe, <1>s, <1>n, <1>r DEF Observe, TypeOK, Types, cdVars, keeperVars, reportVars,
     confVars, walVars, clientVars, Serving
<1>Crash. ASSUME NEW d \in DBs, Crash(d) PROVE Types'
  <2>1. crashes' \in 0..MaxCrashes
    BY <1>Crash, <1>n, UpTo DEF Crash, TypeOK
  <2> QED
    BY <1>Crash, <1>s, <2>1 DEF Crash, TypeOK, Types, cdVars, keeperVars, reportVars,
       confVars, clientVars, Disconnected
<1>StartMaster. ASSUME NEW d \in DBs, StartMaster(d) PROVE Types'
  BY <1>StartMaster, <1>s, <1>n, <1>r DEF StartMaster, TypeOK, Types, cdVars, keeperVars,
     reportVars, confVars, walVars, clientVars, Start, createPGParameters, generateHBA
<1>Promote. ASSUME NEW d \in DBs, Promote(d) PROVE Types'
  BY <1>Promote, <1>s, <1>n, <1>r DEF Promote, TypeOK, Types, cdVars, keeperVars, reportVars,
     confVars, walVars, clientVars
<1>Reconfigure. ASSUME NEW d \in DBs, Reconfigure(d) PROVE Types'
  BY <1>Reconfigure, <1>s, <1>n, <1>r DEF Reconfigure, TypeOK, Types, cdVars, keeperVars,
     reportVars, confVars, walVars, clientVars, SaveGeneration, Reload, createPGParameters,
     generateHBA
<1>ReconfigureUnloaded. ASSUME NEW d \in DBs, ReconfigureUnloaded(d) PROVE Types'
  <2>1. crashes' \in 0..MaxCrashes
    BY <1>ReconfigureUnloaded, <1>n, UpTo DEF ReconfigureUnloaded, TypeOK
  <2> QED
    BY <1>ReconfigureUnloaded, <1>s, <2>1 DEF ReconfigureUnloaded, TypeOK, Types, cdVars,
       keeperVars, reportVars, confVars, walVars, clientVars, SaveGeneration
<1>ReconfigureAndRestart. ASSUME NEW d \in DBs, ReconfigureAndRestart(d) PROVE Types'
  <2>1. crashes' \in 0..MaxCrashes
    BY <1>ReconfigureAndRestart, <1>n, UpTo DEF ReconfigureAndRestart, TypeOK
  <2>2. /\ waitSync' \in [DBs -> BOOLEAN] /\ applied' \in [DBs -> 0..MaxGen]
        /\ names' \in [DBs -> SUBSET DBs] /\ block' \in [DBs -> BOOLEAN]
        /\ open' \in [DBs -> BOOLEAN]
    BY <1>ReconfigureAndRestart DEF ReconfigureAndRestart, SaveGeneration, Reload,
       createPGParameters, generateHBA, TypeOK
  <2>3. /\ pending' \in [DBs -> SUBSET (1..MaxTxns)] /\ log' \in [DBs -> SUBSET (1..MaxTxns)]
        /\ streaming' \in [DBs -> BOOLEAN]
    BY <1>ReconfigureAndRestart DEF ReconfigureAndRestart, Restart, Disconnected, TypeOK
  <2> QED
    BY <1>ReconfigureAndRestart, <1>s, <2>1, <2>2, <2>3 DEF ReconfigureAndRestart, TypeOK,
       Types, cdVars, reportVars, clientVars
<1>Standby. ASSUME NEW d \in DBs, Standby(d) PROVE Types'
  BY <1>Standby, <1>s, <1>n, <1>r DEF Standby, TypeOK, Types, cdVars, keeperVars, reportVars,
     confVars, walVars, clientVars, Start
<1>Stop. ASSUME NEW d \in DBs, Stop(d) PROVE Types'
  BY <1>Stop, <1>s, <1>n, <1>r DEF Stop, TypeOK, Types, cdVars, keeperVars, reportVars,
     confVars, walVars, clientVars, Halt, Disconnected
<1>Resync. ASSUME NEW d \in DBs, Resync(d) PROVE Types'
  <2>1. applied' \in [DBs -> 0..MaxGen]
    BY <1>Resync, <1>n, UpTo DEF Resync, TypeOK
  <2>2. /\ resync' \in [DBs -> BOOLEAN] /\ waitSync' \in [DBs -> BOOLEAN]
        /\ up' \in [DBs -> BOOLEAN] /\ primary' \in [DBs -> BOOLEAN]
    BY <1>Resync DEF Resync, Start, TypeOK
  <2>3. /\ names' \in [DBs -> SUBSET DBs] /\ block' \in [DBs -> BOOLEAN]
        /\ open' \in [DBs -> BOOLEAN]
    BY <1>Resync DEF Resync, TypeOK
  <2>4. /\ upstream' \in [DBs -> DBs \cup {NoDB}]
        /\ log' \in [DBs -> SUBSET (1..MaxTxns)]
    BY <1>Resync DEF Resync, TypeOK, Types
  <2>5. UNCHANGED <<cdVars, rebooted, reportVars, streaming, pending, clientVars, txns,
                   crashes>>
    BY <1>Resync DEF Resync
  <2> QED
    BY <1>s, <2>1, <2>2, <2>3, <2>4, <2>5 DEF TypeOK, Types, cdVars, reportVars, clientVars
<1>KeeperRestart. ASSUME NEW d \in DBs, KeeperRestart(d) PROVE Types'
  <2>1. crashes' \in 0..MaxCrashes
    BY <1>KeeperRestart, <1>n, UpTo DEF KeeperRestart, TypeOK
  <2> QED
    BY <1>KeeperRestart, <1>s, <1>r, <2>1 DEF KeeperRestart, TypeOK, Types, cdVars, confVars,
       walVars, clientVars
<1>UpdatePGState. ASSUME NEW d \in DBs, UpdatePGState(d) PROVE Types'
  BY <1>UpdatePGState, <1>s, <1>n, <1>r DEF UpdatePGState, TypeOK, Types, cdVars, keeperVars,
     reportVars, confVars, walVars, clientVars, InSyncStandbys
<1>UpdateKeeperInfo. ASSUME NEW d \in DBs, UpdateKeeperInfo(d) PROVE Types'
  BY <1>UpdateKeeperInfo, <1>s, <1>n, <1>r DEF UpdateKeeperInfo, TypeOK, Types, cdVars,
     keeperVars, reportVars, confVars, walVars, clientVars
<1>UpdateBootUUID. ASSUME NEW d \in DBs, UpdateBootUUID(d) PROVE Types'
  BY <1>UpdateBootUUID, <1>s, <1>n, <1>r DEF UpdateBootUUID, TypeOK, Types, cdVars,
     keeperVars, reportVars, confVars, walVars, clientVars
<1>Elect. ASSUME NEW d \in DBs, Elect(d) PROVE Types'
  <2>1. gen' \in [DBs -> 0..MaxGen]
    BY <1>Elect, <1>n, UpTo DEF Elect, TypeOK
  <2>2. spec' \in [DBs -> SUBSET DBs]
    <3>1. PICK s \in SUBSET DBs : spec' = [spec EXCEPT ![d] = s]
      <4>1. spec' = [spec EXCEPT ![d] = (spec[master] \ {d}) \cup {master}]
        BY <1>Elect DEF Elect
      <4>2. (spec[master] \ {d}) \cup {master} \in SUBSET DBs
        BY DEF TypeOK
      <4> QED
        BY <4>1, <4>2
    <3> QED
      BY <3>1 DEF TypeOK
  <2>3. fake' \in [DBs -> BOOLEAN]
    <3>1. PICK f \in BOOLEAN : fake' = [fake EXCEPT ![d] = f]
      BY <1>Elect DEF Elect
    <3> QED
      BY <3>1 DEF TypeOK
  <2>4. /\ master' \in DBs
        /\ role' \in [DBs -> {"master", "standby", "none"}]
        /\ follow' \in [DBs -> DBs \cup {NoDB}]
        /\ \A e \in DBs : role'[e] = "standby" => follow'[e] \in DBs
    BY <1>Elect DEF Elect, TypeOK, Types
  <2>5. UNCHANGED <<status, keeperVars, reportVars, up, primary, confVars, walVars,
                   clientVars, txns, crashes>>
    BY <1>Elect DEF Elect
  <2> QED
    BY <1>s, <2>1, <2>2, <2>3, <2>4, <2>5 DEF TypeOK, Types, keeperVars, reportVars,
       confVars, walVars, clientVars
<1>Replicate. ASSUME NEW d \in DBs, Replicate(d) PROVE Types'
  <2> DEFINE u == upstream[d]
             t == Min(log[u] \ log[d])
  <2>1. u \in DBs /\ log[u] \subseteq 1..MaxTxns /\ log[d] \subseteq 1..MaxTxns
    BY <1>Replicate DEF Replicate, TypeOK
  <2>a. log[u] \ log[d] # {}
    BY <1>Replicate DEF Replicate
  <2>b. log[u] \ log[d] \in SUBSET Nat
    BY <1>n, <2>1, SMTT(30)
  <2>2. log[u] \ log[d] # {} /\ log[u] \ log[d] \in SUBSET Nat
    BY <2>a, <2>b
  <2>3. t \in 1..MaxTxns
    BY <2>1, <2>2, MinIn
  <2>4. log' = [log EXCEPT ![d] = @ \cup {t}]
    BY <1>Replicate DEF Replicate
  <2> HIDE DEF t, u
  <2>5. log' \in [DBs -> SUBSET (1..MaxTxns)]
    BY <2>3, <2>4 DEF TypeOK
  <2> QED
    BY <1>Replicate, <2>5, <1>s DEF Replicate, TypeOK, Types, cdVars, keeperVars, reportVars,
       confVars, clientVars
<1>Acknowledge. ASSUME NEW d \in DBs, NEW t \in 1..MaxTxns, Acknowledge(d, t) PROVE Types'
  BY <1>Acknowledge, <1>s, <1>n, <1>r DEF Acknowledge, TypeOK, Types, cdVars, keeperVars,
     reportVars, confVars, walVars, clientVars
<1>Update. ASSUME NEW gone, NEW good, NEW excess, NEW added,
                  Update(gone, good, excess, added)
           PROVE  Types'
  <2>1. gen' \in [DBs -> 0..MaxGen]
    <3>1. PICK g : /\ gen' = [gen EXCEPT ![master] = g] /\ g \in {gen[master], gen[master] + 1}
                   /\ gen'[master] <= MaxGen
      BY <1>Update DEF Update, UpdateStandbys
    <3>2. master \in DBs /\ gen \in [DBs -> 0..MaxGen] /\ gen[master] \in 0..MaxGen
      BY DEF TypeOK
    <3>3. g \in 0..MaxGen
      BY <3>1, <3>2, <1>n, UpTo
    <3> QED
      BY <3>1, <3>2, <3>3
  <2>2. /\ role' \in [DBs -> {"master", "standby", "none"}] 
        /\ follow' \in [DBs -> DBs \cup {NoDB}]
        /\ \A d \in DBs : role'[d] = "standby" => follow'[d] \in DBs
    BY <1>Update DEF Update, UpdateStandbys, TypeOK
  <2>3. resync' \in [DBs -> BOOLEAN] /\ cached' \in [DBs -> Report] /\ info' \in [DBs -> Report]
    BY <1>Update, <1>r DEF Update, UpdateStandbys, TypeOK
  <2>4. UNCHANGED <<master, applied, rebooted, waitSync, up, primary, confVars,
                   walVars, clientVars, txns, crashes>>
    BY <1>Update DEF Update, UpdateStandbys
  <2>5. /\ spec' \in [DBs -> SUBSET DBs]
        /\ status' \in [DBs -> SUBSET DBs]
        /\ fake' \in [DBs -> BOOLEAN]
    BY <1>Update, UpdateTypes
  <2> QED
    BY <2>1, <2>2, <2>3, <2>4, <2>5, <1>s DEF TypeOK, Types, confVars, walVars, clientVars
<1> QED
  BY SentinelSteps, <1>Commit, <1>CatchUp, <1>Observe, <1>Crash, <1>StartMaster, <1>Promote,
     <1>Reconfigure, <1>ReconfigureUnloaded, <1>ReconfigureAndRestart, <1>Standby, <1>Stop,
     <1>Resync, <1>KeeperRestart, <1>UpdatePGState, <1>UpdateKeeperInfo, <1>UpdateBootUUID,
     <1>Elect, <1>Replicate, <1>Acknowledge, <1>Update DEF Next, Keeper, Postgres


\* Only synchronous standbys on record are trusted.
LEMMA TrustedIn ==
    ASSUME Types, SyncInv
    PROVE  Trusted \subseteq spec[master] /\ Trusted \subseteq DBs /\ master \in DBs
BY DEF Types, TypeOK, SyncInv, Assignments, Trusted, Promised

\* While the new master follows a former one it has not been promoted: nothing waits on it,
\* and no standby of it is trusted yet.
LEMMA NewMasterWaits ==
    ASSUME Types, SyncInv, NEW d \in DBs, OldMaster(d), upstream[master] = d
    PROVE  ~primary[master] /\ pending[master] = {} /\ Trusted = {}
<1>1. ~primary[master] /\ master \in DBs /\ Assignments /\ Instances
  BY SyncAssumption DEF SyncInv, Types, TypeOK, Instances, Instance
<1>2. pending[master] = {}
  BY <1>1 DEF Instances, Instance
<1>3. cached[master].gen # gen[master] /\ info[master].gen # gen[master]
  BY <1>1, Counters, Below DEF Assignments
<1> QED
  BY <1>1, <1>2, <1>3 DEF OldMaster, Trusted, Promised

\* A master whose standbys are all in sync shows clients only what the current master and
\* the trusted standbys have: the keeper opens it to them then.
LEMMA InSyncShown ==
    ASSUME Types, Covered, SyncInv, NEW d \in DBs, role[d] = "master", up[d], primary[d],
           InSyncStandbys(d) = spec[d]
    PROVE  /\ log[d] \ pending[d] \subseteq log[master] \ pending[master]
           /\ \A x \in Trusted : log[d] \ pending[d] \subseteq log[x]
<1>1. \A x \in spec[d] : upstream[x] = d /\ log[d] \ pending[d] \subseteq log[x]
  BY DEF InSyncStandbys, Covered
<1>2. CASE d = master
  BY <1>1, <1>2, TrustedIn
<1>3. CASE d # master
  <2>1. OldMaster(d)
    BY <1>3 DEF SyncInv, Others
  <2>2. master \in spec[d]
    BY <2>1 DEF OldMaster
  <2> QED
    BY <1>1, <2>1, <2>2, NewMasterWaits
<1> QED
  BY <1>2, <1>3

\* A step of d that leaves the cluster data alone, and of the other databases what
\* matters to Others.  Starting an assigned master puts its standbys in force, a master
\* in recovery is promoted only when it is the current one, and only a database that
\* is resynchronised stops being a former master.
Quiet(d) ==
    /\ UNCHANGED <<master, role, spec, status, gen, follow>>
    /\ \A e \in DBs \ {d} :
          /\ up'[e] = up[e] /\ primary'[e] = primary[e] /\ names'[e] = names[e]
          /\ resync'[e] = resync[e] /\ upstream'[e] = upstream[e]
    /\ role[d] = "master" /\ primary[d] => primary'[d]
    /\ primary'[d] => resync'[d] = resync[d]
    /\ upstream'[d] \in {upstream[d], follow[d], NoDB}
    /\ up'[d] /\ primary'[d] =>
          \/ role[d] = "master" /\ names'[d] = spec[d]
          \/ up[d] /\ primary[d] /\ names'[d] = names[d]
          \/ d = master /\ Trusted = {}

\* In a step clients learn of the transactions S at most, which the master and every
\* trusted standby have; what these had, they keep.
Learned(S) ==
    /\ Known' \subseteq Known \cup S
    /\ Trusted' \subseteq Trusted
    /\ S \cup (log[master] \ pending[master]) \subseteq log'[master] \ pending'[master]
    /\ \A x \in Trusted : S \cup log[x] \subseteq log'[x]

\* A quiet step keeps former masters waiting.
LEMMA OthersKept ==
    ASSUME Types, SyncInv, NEW d \in DBs, Quiet(d)
    PROVE  Others'
<1>0. Assignments /\ Others /\ master' = master /\ role' = role
  BY DEF SyncInv, Quiet
<1>1. ASSUME NEW e \in DBs \ {master}, OldMaster(e)
      PROVE  OldMaster(e)'
  BY <1>1 DEF Quiet, OldMaster
<1>2. ASSUME NEW e \in DBs \ {master}, Abandoned(e), up'[e], primary'[e]
      PROVE  Abandoned(e)'
  <2>1. PICK x \in names[e] : upstream[x] # e /\ follow[x] # e
    BY <1>2 DEF Abandoned
  <2>2. x \in DBs /\ role[e] # "master" /\ resync[e]
    BY <1>0, <1>2 DEF Types, TypeOK, Assignments, Abandoned
  <2>3. names'[e] = names[e] /\ resync'[e] /\ upstream'[x] # e /\ follow'[x] # e
    BY <1>2, <2>1, <2>2, SyncAssumption DEF Quiet
  <2> QED
    BY <2>1, <2>3 DEF Abandoned
<1>3. ASSUME NEW e \in DBs \ {master}, up'[e], primary'[e]
      PROVE  (up[e] /\ primary[e]) \/ role[e] = "master"
  BY <1>3 DEF Quiet
<1> QED
  BY <1>0, <1>1, <1>2, <1>3 DEF Others

\* A quiet step that teaches clients only what the master and the trusted standbys have
\* keeps the invariant.
LEMMA QuietStep ==
    ASSUME Types, SyncInv, NEW d \in DBs, NEW S, Quiet(d), Learned(S),
           Assignments', Instances', GenerationInForce'
    PROVE  SyncInv'
<1>1. Durable /\ master' = master
  BY DEF SyncInv, Quiet
<1>2. up'[master] /\ primary'[master] => Trusted \subseteq names'[master]
  BY <1>1, TrustedIn DEF Quiet, Durable
<1>3. Durable'
  BY <1>1, <1>2 DEF Learned, Durable
<1> QED
  BY <1>3, OthersKept DEF SyncInv

\* An instance that is down has no commits under way and no connection either way.
LEMMA DownInstance ==
    ASSUME Instances, NEW d \in DBs, ~up[d]
    PROVE  /\ pending[d] = {} /\ ~streaming[d]
           /\ \A e \in DBs : streaming[e] => e # d /\ upstream[e] \in DBs \ {d}
BY DEF Instances, Instance

\* A step that changes the instance of d alone, and takes nothing from the logs that
\* connected standbys follow, keeps Instances when d is as it should be after it.
LEMMA OneInstance ==
    ASSUME Instances, NEW d \in DBs, Instance(d)', txns' = txns,
           \A e \in DBs \ {d} :
              /\ up'[e] = up[e] /\ primary'[e] = primary[e] /\ open'[e] = open[e]
              /\ waitSync'[e] = waitSync[e] /\ upstream'[e] = upstream[e]
              /\ log'[e] = log[e] /\ pending'[e] = pending[e]
              /\ streaming'[e] => streaming[e]
              /\ streaming'[e] /\ upstream[e] = d => up'[d] /\ log[d] \subseteq log'[d]
    PROVE  Instances'
<1> SUFFICES ASSUME NEW e \in DBs, e # d
             PROVE  Instance(e)'
  BY DEF Instances
<1>1. Instance(e)
  BY DEF Instances
<1>2. ASSUME streaming'[e]
      PROVE  up'[upstream[e]] /\ log[e] \subseteq log'[upstream[e]]
  <2>1. upstream[e] \in DBs /\ up[upstream[e]] /\ log[e] \subseteq log[upstream[e]]
    BY <1>1, <1>2 DEF Instance
  <2> QED
    BY <1>2, <2>1
<1> QED
  BY <1>1, <1>2 DEF Instance

\* A step that changes the instance of d alone leaves the generations of the others in force.
LEMMA OneGeneration ==
    ASSUME GenerationInForce, NEW d \in DBs, UNCHANGED <<role, gen, spec, fake, setting>>,
           \A e \in DBs \ {d} :
              /\ up'[e] = up[e] /\ primary'[e] = primary[e] /\ resync'[e] = resync[e]
              /\ rebooted'[e] = rebooted[e] /\ applied'[e] = applied[e]
              /\ names'[e] = names[e] /\ block'[e] = block[e],
           \/ ~primary'[d] \/ applied'[d] # gen[d]
           \/ names'[d] = spec[d] /\ block'[d] = fake[d]
    PROVE  GenerationInForce'
<1> SUFFICES ASSUME GenerationsInForce, NEW e \in DBs, up'[e], primary'[e],
                    Assigned(e, "master")', applied'[e] = gen[e]
             PROVE  names'[e] = spec[e] /\ block'[e] = fake[e]
  BY DEF GenerationInForce, GenerationsInForce, risks
<1> QED
  BY DEF GenerationsInForce, Assigned, Local

\* A step by which no database is given another role keeps Assignments when it lets no
\* standby become a primary and applies no generation that is not on record.
LEMMA AssignmentsKept ==
    ASSUME Assignments, spec[master] \subseteq DBs,
           UNCHANGED <<master, role, spec, status, gen, cached, info>>,
           primary'[master] = primary[master],
           \A e \in DBs :
              /\ resync'[e] => resync[e]
              /\ role[e] = "standby" /\ ~resync'[e] => ~primary'[e]
              /\ role[e] = "master" /\ ~primary'[e] => ~primary[e]
              /\ applied'[e] <= gen[e]
              /\ role[e] = "master" /\ ~primary'[e] => applied'[e] < gen[e]
    PROVE  Assignments'
<1>1. ASSUME NEW e \in DBs
      PROVE  /\ role[e] = "master" => ~resync'[e] /\ gen[e] > 0
             /\ role[e] # "master" => cached[e] = NoReport /\ info[e] = NoReport /\ status[e] = {}
             /\ applied'[e] <= gen[e] /\ cached[e].gen <= gen[e] /\ info[e].gen <= gen[e]
             /\ role[e] = "master" /\ ~primary'[e] =>
                   applied'[e] < gen[e] /\ cached[e].gen < gen[e] /\ info[e].gen < gen[e]
  BY DEF Assignments
<1>2. /\ role[master] = "master"
      /\ status[master] \subseteq spec[master]
      /\ status[master] # {} => primary'[master]
      /\ \A x \in spec[master] : resync'[x] => role[x] = "none"
  BY DEF Assignments
<1> QED
  BY <1>1, <1>2 DEF Assignments

\* A commit is not visible before it is acknowledged.
LEMMA CommitKeeps ==
    ASSUME Types, Covered, SyncInv, NEW d \in DBs, Commit(d)
    PROVE  SyncInv'
<1> Assignments /\ Instances /\ Others /\ Durable /\ GenerationInForce /\ master \in DBs
  BY DEF SyncInv, Types, TypeOK
<1> UNCHANGED <<master, role, spec, fake, status, gen, follow, applied, resync, rebooted,
               waitSync, cached, info, up, primary, names, block, open, upstream,
               streaming, acked, observed, setting, members, crashes>>
  BY DEF Commit, cdVars, keeperVars, reportVars, confVars, walVars, clientVars
<1> /\ up[d] /\ primary[d] /\ open[d] /\ txns' = txns + 1
    /\ log'[d] = log[d] \cup {txns + 1}
    /\ pending'[d] = pending[d] \cup {txns + 1}
    /\ \A e \in DBs \ {d} : log'[e] = log[e] /\ pending'[e] = pending[e]
  BY DEF Commit, Serving, Types, TypeOK
<1>3. 1..txns \subseteq 1..txns' /\ txns + 1 \in 1..txns' /\ txns + 1 \notin 1..txns
  BY NextTxn, Counters
<1>A. Assignments'
  BY DEF Assignments
<1>I. Instances'
  <2>1. \A e \in DBs : log'[e] \subseteq 1..txns' /\ pending'[e] \subseteq log'[e]
    BY <1>3, SMTT(30) DEF Instances, Instance
  <2>2. ~streaming[d]
    BY SyncAssumption DEF Instances, Instance
  <2>3. \A e \in DBs \ {d} : streaming[e] => log'[e] \subseteq log'[upstream[e]]
    BY DEF Instances, Instance
  <2>4. ASSUME NEW e \in DBs
        PROVE  Instance(e)'
    <3>1. Instance(e)
      BY DEF Instances
    <3>2. CASE e = d
      BY <2>1, <2>2, <3>1, <3>2 DEF Instance
    <3>3. CASE e # d
      BY <2>1, <2>3, <3>1, <3>3 DEF Instance
    <3> QED
      BY <3>2, <3>3
  <2> QED
    BY <2>4 DEF Instances
<1>Q. Quiet(d)
  BY DEF Quiet
<1>K. Known' \subseteq Known
  <2>1. \A e \in DBs :
           Shows(e)' => Shows(e) /\ log'[e] \ pending'[e] \subseteq log[e] \ pending[e]
    BY <1>3 DEF Shows, Instances, Instance
  <2> QED
    BY <2>1 DEF Known, risks
<1>T. Trusted' \subseteq Trusted
  BY DEF Trusted, Promised
<1>L. /\ \A x \in Trusted : log[x] \subseteq log'[x]
      /\ log[master] \ pending[master] \subseteq log'[master] \ pending'[master]
  BY TrustedIn, <1>3, SMTT(30) DEF Instances, Instance
<1>D. Learned({})
  BY <1>K, <1>L, <1>T DEF Learned
<1>G. GenerationInForce'
  BY DEF GenerationInForce, GenerationsInForce, Assigned, Local, Assignments,
    risks
<1> QED
  BY <1>A, <1>I, <1>Q, <1>D, <1>G, QuietStep

\* Replay adds to the log of a standby.
LEMMA ReplicateKeeps ==
    ASSUME Types, Covered, SyncInv, NEW d \in DBs, Replicate(d)
    PROVE  SyncInv'
<1> Assignments /\ Instances /\ Others /\ Durable /\ GenerationInForce /\ master \in DBs
  BY DEF SyncInv, Types, TypeOK
<1> UNCHANGED <<master, role, spec, fake, status, gen, follow, applied, resync, rebooted,
               waitSync, cached, info, up, primary, names, block, open, upstream,
               streaming, pending, acked, observed, setting, members, txns,
               crashes>>
  BY DEF Replicate, cdVars, keeperVars, reportVars, confVars, walVars, clientVars
<1> /\ up[d] /\ upstream[d] \in DBs /\ upstream[d] # NoDB /\ up[upstream[d]]
    /\ log[d] \subseteq log[upstream[d]]
  BY DEF Replicate, Types, TypeOK
<1>3. PICK t \in log[upstream[d]] \ log[d] : log' = [log EXCEPT ![d] = @ \cup {t}]
  <2>1. log[upstream[d]] \ log[d] # {}
    BY DEF Replicate
  <2>2. log[upstream[d]] \ log[d] \in SUBSET Nat
    BY Counters
  <2> QED
    BY <2>1, <2>2, MinIn DEF Replicate
<1>4. log'[d] = log[d] \cup {t} /\ \A e \in DBs \ {d} : log'[e] = log[e]
  BY <1>3 DEF Types, TypeOK
<1>A. Assignments'
  BY DEF Assignments
<1>I. Instances'
  BY <1>3, <1>4, SMTT(30) DEF Instances, Instance
<1>Q. Quiet(d)
  BY DEF Quiet
<1>K. Known' \subseteq Known
  <2>1. \A e \in DBs :
           Shows(e)' => Shows(e) /\ log'[e] \ pending'[e] \subseteq log[e] \ pending[e]
    BY <1>4 DEF Shows, Instances, Instance
  <2> QED
    BY <2>1 DEF Known, risks
<1>T. Trusted' \subseteq Trusted
  BY DEF Trusted, Promised
<1>L. /\ \A x \in Trusted : log[x] \subseteq log'[x]
      /\ log[master] \ pending[master] \subseteq log'[master] \ pending'[master]
  BY TrustedIn, <1>4 DEF Instances, Instance
<1>D. Learned({})
  BY <1>K, <1>L, <1>T DEF Learned
<1>G. GenerationInForce'
  BY DEF GenerationInForce, GenerationsInForce, Assigned, Local, Assignments,
    risks
<1> QED
  BY <1>A, <1>I, <1>Q, <1>D, <1>G, QuietStep

\* A standby that has caught up streams.
LEMMA CatchUpKeeps ==
    ASSUME Types, Covered, SyncInv, NEW d \in DBs, CatchUp(d)
    PROVE  SyncInv'
<1> Assignments /\ Instances /\ Others /\ Durable /\ GenerationInForce /\ master \in DBs
  BY DEF SyncInv, Types, TypeOK
<1> UNCHANGED <<master, role, spec, fake, status, gen, follow, applied, resync, rebooted,
               waitSync, cached, info, up, primary, names, block, open, upstream,
               log, pending, acked, observed, setting, members, txns, crashes>>
  BY DEF CatchUp, cdVars, keeperVars, reportVars, confVars, walVars, clientVars
<1> /\ up[d] /\ upstream[d] \in DBs /\ up[upstream[d]] /\ log[d] = log[upstream[d]]
    /\ streaming'[d] = TRUE
    /\ \A e \in DBs \ {d} : streaming'[e] = streaming[e]
  BY DEF CatchUp, Types, TypeOK
<1>A. Assignments'
  BY DEF Assignments
<1>I. Instances'
  BY DEF Instances, Instance
<1>Q. Quiet(d)
  BY DEF Quiet
<1>K. Known' \subseteq Known
  <2>1. \A e \in DBs :
           Shows(e)' => Shows(e) /\ log'[e] \ pending'[e] \subseteq log[e] \ pending[e]
    BY DEF Shows, Instances, Instance
  <2> QED
    BY <2>1 DEF Known, risks
<1>T. Trusted' \subseteq Trusted
  BY DEF Trusted, Promised
<1>L. /\ \A x \in Trusted : log[x] \subseteq log'[x]
      /\ log[master] \ pending[master] \subseteq log'[master] \ pending'[master]
  BY TrustedIn DEF Instances, Instance
<1>D. Learned({})
  BY <1>K, <1>L, <1>T DEF Learned
<1>G. GenerationInForce'
  BY DEF GenerationInForce, GenerationsInForce, Assigned, Local, Assignments,
    risks
<1> QED
  BY <1>A, <1>I, <1>Q, <1>D, <1>G, QuietStep

\* An instance that dies or is stopped keeps its log, and acknowledges nothing more.
LEMMA HaltKeeps ==
    ASSUME Types, Covered, SyncInv, NEW d \in DBs, Crash(d) \/ Stop(d)
    PROVE  SyncInv'
<1> Assignments /\ Instances /\ Others /\ Durable /\ GenerationInForce /\ master \in DBs
  BY DEF SyncInv, Types, TypeOK
<1> UNCHANGED <<master, role, spec, fake, status, gen, follow, applied, resync, rebooted,
               waitSync, cached, info, primary, names, block, open, upstream, log,
               acked, observed, setting, members, txns>>
  BY DEF Crash, Stop, cdVars, keeperVars, reportVars, confVars, walVars, clientVars
<1> \A e \in DBs : streaming'[e] => streaming[e] /\ e # d /\ upstream[e] # d
  BY DEF Crash, Stop, Halt, Disconnected
<1>2. up' = [up EXCEPT ![d] = FALSE] /\ pending' = [pending EXCEPT ![d] = {}]
  BY DEF Crash, Stop, Halt
<1> /\ up'[d] = FALSE
    /\ pending'[d] = {}
    /\ \A e \in DBs \ {d} : up'[e] = up[e] /\ pending'[e] = pending[e]
  BY <1>2 DEF Types, TypeOK
<1>A. Assignments'
  BY DEF Assignments
<1>I. Instances'
  <2>1. Instance(d)'
    BY DEF Instances, Instance
  <2> QED
    BY <2>1, OneInstance
<1>Q. Quiet(d)
  BY DEF Quiet
<1>K. Known' \subseteq Known
  <2>1. \A e \in DBs :
           Shows(e)' => Shows(e) /\ log'[e] \ pending'[e] \subseteq log[e] \ pending[e]
    BY DEF Shows, Instances, Instance
  <2> QED
    BY <2>1 DEF Known, risks
<1>T. Trusted' \subseteq Trusted
  BY DEF Trusted, Promised
<1>L. /\ \A x \in Trusted : log[x] \subseteq log'[x]
      /\ log[master] \ pending[master] \subseteq log'[master] \ pending'[master]
  BY TrustedIn DEF Instances, Instance
<1>D. Learned({})
  BY <1>K, <1>L, <1>T DEF Learned
<1>G. GenerationInForce'
  BY DEF GenerationInForce, GenerationsInForce, Assigned, Local,
    Assignments, risks
<1> QED
  BY <1>A, <1>I, <1>Q, <1>D, <1>G, QuietStep

\* A master starts with the standbys on record and closed to clients.
LEMMA StartMasterKeeps ==
    ASSUME Types, Covered, SyncInv, NEW d \in DBs, StartMaster(d)
    PROVE  SyncInv'
<1> Assignments /\ Instances /\ Others /\ Durable /\ GenerationInForce /\ master \in DBs
  BY DEF SyncInv, Types, TypeOK
<1> UNCHANGED <<master, role, spec, fake, status, gen, follow, applied, resync, rebooted,
               cached, info, primary, streaming, log, pending, acked, observed,
               setting, members, txns, crashes>>
  BY DEF StartMaster, cdVars, keeperVars, reportVars, confVars, walVars, clientVars
<1> /\ role[d] = "master" /\ ~up[d]
    /\ up'[d] = TRUE
    /\ names'[d] = spec[d]
    /\ block'[d] = fake[d]
    /\ waitSync'[d] = TRUE
    /\ open'[d] = FALSE
    /\ upstream'[d] = NoDB
    /\ \A e \in DBs \ {d} :
          /\ up'[e] = up[e] /\ names'[e] = names[e] /\ block'[e] = block[e]
          /\ waitSync'[e] = waitSync[e] /\ open'[e] = open[e]
          /\ upstream'[e] = upstream[e]
  BY DEF StartMaster, Start, createPGParameters, generateHBA, Assigned, Local, Types, TypeOK
<1>A. Assignments'
  BY DEF Assignments
<1>I. Instances'
  BY SMTT(30) DEF Instances, Instance
<1>Q. Quiet(d)
  BY DEF Quiet
<1>K. Known' \subseteq Known
  <2>1. \A e \in DBs :
           Shows(e)' => Shows(e) /\ log'[e] \ pending'[e] \subseteq log[e] \ pending[e]
    BY DEF Shows, Instances, Instance
  <2> QED
    BY <2>1 DEF Known, risks
<1>T. Trusted' \subseteq Trusted
  BY DEF Trusted, Promised
<1>L. /\ \A x \in Trusted : log[x] \subseteq log'[x]
      /\ log[master] \ pending[master] \subseteq log'[master] \ pending'[master]
  BY TrustedIn DEF Instances, Instance
<1>D. Learned({})
  BY <1>K, <1>L, <1>T DEF Learned
<1>G. GenerationInForce'
  <2>1. \A e \in DBs \ {d} :
           /\ up'[e] = up[e] /\ primary'[e] = primary[e] /\ resync'[e] = resync[e]
           /\ rebooted'[e] = rebooted[e] /\ applied'[e] = applied[e]
           /\ names'[e] = names[e] /\ block'[e] = block[e]
    OBVIOUS
  <2>2. /\ GenerationInForce /\ UNCHANGED <<role, gen, spec, fake, setting>>
        /\ names'[d] = spec[d] /\ block'[d] = fake[d]
    OBVIOUS
  <2> QED
    BY ONLY d \in DBs, <2>1, <2>2, OneGeneration
<1> QED
  BY <1>A, <1>I, <1>Q, <1>D, <1>G, QuietStep

\* A standby starts and follows the database on record.
LEMMA StandbyKeeps ==
    ASSUME Types, Covered, SyncInv, NEW d \in DBs, Standby(d)
    PROVE  SyncInv'
<1> Assignments /\ Instances /\ Others /\ Durable /\ GenerationInForce /\ master \in DBs
  BY DEF SyncInv, Types, TypeOK
<1> UNCHANGED <<master, role, spec, fake, status, gen, follow, applied, resync, rebooted,
               waitSync, cached, info, primary, names, block, open, log, pending,
               acked, observed, setting, members, txns, crashes>>
  BY DEF Standby, cdVars, keeperVars, reportVars, confVars, walVars, clientVars
<1> /\ role[d] = "standby" /\ follow[d] \in DBs /\ ~primary[d]
    /\ up'[d] = TRUE
    /\ upstream'[d] = follow[d]
    /\ streaming'[d] = FALSE
    /\ \A e \in DBs \ {d} :
          /\ up'[e] = up[e] /\ upstream'[e] = upstream[e]
          /\ streaming'[e] = streaming[e]
  BY DEF Standby, Start, Assigned, Local, Types, TypeOK
<1>A. Assignments'
  BY DEF Assignments
<1>I. Instances'
  <2>1. Instance(d)'
    BY DEF Instances, Instance
  <2>2. \A e \in DBs : streaming'[e] => streaming[e]
    OBVIOUS
  <2>3. \A e \in DBs : upstream[e] = d => up'[d] /\ log[d] \subseteq log'[d]
    OBVIOUS
  <2> QED
    BY <2>1, <2>2, <2>3, OneInstance
<1>Q. Quiet(d)
  BY DEF Quiet
<1>K. Known' \subseteq Known
  <2>1. \A e \in DBs :
           Shows(e)' => Shows(e) /\ log'[e] \ pending'[e] \subseteq log[e] \ pending[e]
    BY DEF Shows, Instances, Instance
  <2> QED
    BY <2>1 DEF Known, risks
<1>T. Trusted' \subseteq Trusted
  BY DEF Trusted, Promised
<1>L. /\ \A x \in Trusted : log[x] \subseteq log'[x]
      /\ log[master] \ pending[master] \subseteq log'[master] \ pending'[master]
  BY TrustedIn DEF Instances, Instance
<1>D. Learned({})
  BY <1>K, <1>L, <1>T DEF Learned
<1>G. GenerationInForce'
  BY DEF GenerationInForce, GenerationsInForce, Assigned, Local,
    Assignments, risks
<1> QED
  BY <1>A, <1>I, <1>Q, <1>D, <1>G, QuietStep

\* A database is resynchronised only when it is no synchronous standby on record.
LEMMA ResyncKeeps ==
    ASSUME Types, Covered, SyncInv, NEW d \in DBs, Resync(d)
    PROVE  SyncInv'
<1> Assignments /\ Instances /\ Others /\ Durable /\ GenerationInForce /\ master \in DBs
  BY DEF SyncInv, Types, TypeOK
<1> UNCHANGED <<master, role, spec, fake, status, gen, follow, rebooted, cached, info,
               streaming, pending, acked, observed, setting, members, txns,
               crashes>>
  BY DEF Resync, cdVars, keeperVars, reportVars, confVars, walVars, clientVars
<1> role[d] = "standby" /\ follow[d] \in DBs /\ resync[d] /\ ~up[d]
  BY DEF Resync, Types
<1> /\ resync'[d] = FALSE /\ up'[d] = TRUE /\ primary'[d] = FALSE /\ names'[d] = {}
    /\ block'[d] = FALSE /\ open'[d] = TRUE /\ waitSync'[d] = FALSE /\ applied'[d] = 0
    /\ upstream'[d] = follow[d] /\ log'[d] = log[follow[d]]
    /\ \A e \in DBs \ {d} :
          /\ resync'[e] = resync[e] /\ up'[e] = up[e] /\ primary'[e] = primary[e]
          /\ names'[e] = names[e] /\ block'[e] = block[e] /\ open'[e] = open[e]
          /\ waitSync'[e] = waitSync[e] /\ applied'[e] = applied[e]
          /\ upstream'[e] = upstream[e] /\ log'[e] = log[e]
  <2>1. /\ resync'[d] = FALSE /\ up'[d] = TRUE /\ primary'[d] = FALSE
        /\ \A e \in DBs \ {d} :
              resync'[e] = resync[e] /\ up'[e] = up[e] /\ primary'[e] = primary[e]
    BY DEF Resync, Start, Types, TypeOK
  <2>2. /\ names'[d] = {} /\ block'[d] = FALSE /\ open'[d] = TRUE
        /\ \A e \in DBs \ {d} :
              names'[e] = names[e] /\ block'[e] = block[e] /\ open'[e] = open[e]
    BY DEF Resync, Types, TypeOK
  <2>3. /\ waitSync'[d] = FALSE /\ applied'[d] = 0
        /\ \A e \in DBs \ {d} : waitSync'[e] = waitSync[e] /\ applied'[e] = applied[e]
    BY DEF Resync, Types, TypeOK
  <2>4. /\ upstream'[d] = follow[d] /\ log'[d] = log[follow[d]]
        /\ \A e \in DBs \ {d} : upstream'[e] = upstream[e] /\ log'[e] = log[e]
    BY DEF Resync, Types, TypeOK
  <2> QED
    BY <2>1, <2>2, <2>3, <2>4
<1>3. gen[d] \in Nat
  BY Counters
<1>4. d # master /\ d \notin spec[master]
  BY DEF Assignments
<1>A. Assignments'
  <2>1. \A e \in DBs :
           applied'[e] <= gen[e] /\ (role[e] = "master" /\ ~primary'[e] => applied'[e] < gen[e])
    BY <1>3, Zero DEF Assignments
  <2>2. \A e \in DBs : role[e] = "standby" /\ ~resync'[e] => ~primary'[e]
    <3> TAKE e \in DBs
    <3>1. CASE e = d
      BY <3>1
    <3>2. CASE e # d
      BY <3>2 DEF Assignments
    <3> QED
      BY <3>1, <3>2
  <2>3. primary'[master] = primary[master] /\ \A e \in DBs : resync'[e] => resync[e]
    BY DEF Assignments
  <2>4. \A e \in DBs : role[e] = "master" => primary'[e] = primary[e]
    OBVIOUS
  <2>5. spec[master] \subseteq DBs
    BY DEF Types, TypeOK
  <2> QED
    BY <2>1, <2>2, <2>3, <2>4, <2>5, AssignmentsKept
<1>I. Instances'
  <2>1. /\ pending[d] = {} /\ ~streaming[d]
        /\ \A e \in DBs : streaming[e] => e # d /\ upstream[e] \in DBs \ {d}
    BY DownInstance
  <2>2. log[follow[d]] \subseteq 1..txns
    BY DEF Instances, Instance
  <2>3. Instance(d)'
    BY <2>1, <2>2 DEF Instance
  <2> QED
    BY <2>1, <2>3, OneInstance
<1>Q. Quiet(d)
  BY DEF Quiet
<1>K. Known' \subseteq Known
  <2>1. \A e \in DBs :
           Shows(e)' => Shows(e) /\ log'[e] \ pending'[e] \subseteq log[e] \ pending[e]
    <3> TAKE e \in DBs
    <3>1. CASE e = d
      BY <3>1 DEF Shows
    <3>2. CASE e # d
      BY <3>2 DEF Shows
    <3> QED
      BY <3>1, <3>2
  <2> QED
    BY <2>1 DEF Known, risks
<1>T. Trusted' \subseteq Trusted
  BY DEF Trusted, Promised
<1>L. /\ \A x \in Trusted : log[x] \subseteq log'[x]
      /\ log[master] \ pending[master] \subseteq log'[master] \ pending'[master]
  <2>1. \A x \in Trusted \cup {master} : x \in DBs \ {d}
    BY TrustedIn, <1>4
  <2> QED
    BY <2>1
<1>D. Learned({})
  BY <1>K, <1>L, <1>T DEF Learned
<1>G. GenerationInForce'
  <2>1. \A e \in DBs \ {d} :
           /\ up'[e] = up[e] /\ primary'[e] = primary[e] /\ resync'[e] = resync[e]
           /\ rebooted'[e] = rebooted[e] /\ applied'[e] = applied[e]
           /\ names'[e] = names[e] /\ block'[e] = block[e]
    OBVIOUS
  <2>2. GenerationInForce /\ ~primary'[d] /\ UNCHANGED <<role, gen, spec, fake, setting>>
    OBVIOUS
  <2> QED
    BY ONLY d \in DBs, <2>1, <2>2, OneGeneration
<1> QED
  BY <1>A, <1>I, <1>Q, <1>D, <1>G, QuietStep

\* A keeper that restarts forgets its cached report.
LEMMA KeeperRestartKeeps ==
    ASSUME Types, Covered, SyncInv, NEW d \in DBs, KeeperRestart(d)
    PROVE  SyncInv'
<1> Assignments /\ Instances /\ Others /\ Durable /\ GenerationInForce /\ master \in DBs
  BY DEF SyncInv, Types, TypeOK
<1> UNCHANGED <<master, role, spec, fake, status, gen, follow, applied, resync, info, up,
               primary, names, block, open, upstream, streaming, log, pending,
               acked, observed, setting, members, txns>>
  BY DEF KeeperRestart, cdVars, keeperVars, reportVars, confVars, walVars, clientVars
<1> /\ up[d] /\ NoReport.gen = 0 /\ NoReport.sync = {}
    /\ rebooted'[d] = TRUE
    /\ waitSync'[d] = FALSE
    /\ cached'[d] = NoReport
    /\ \A e \in DBs \ {d} :
          /\ rebooted'[e] = rebooted[e] /\ waitSync'[e] = waitSync[e]
          /\ cached'[e] = cached[e]
  BY DEF KeeperRestart, NoReport, Report, Types, TypeOK
<1>3. gen[d] \in Nat
  BY Counters
<1>A. Assignments'
  <2>1. \A e \in DBs : /\ cached'[e].gen <= gen[e]
                       /\ role[e] = "master" /\ ~primary[e] => cached'[e].gen < gen[e]
    <3> TAKE e \in DBs
    <3>1. CASE e = d
      BY <1>3, <3>1, Zero DEF Assignments
    <3>2. CASE e # d
      BY <3>2 DEF Assignments
    <3> QED
      BY <3>1, <3>2
  <2>2. \A e \in DBs : role[e] # "master" => cached'[e] = NoReport
    BY DEF Assignments
  <2> QED
    BY <2>1, <2>2 DEF Assignments
<1>I. Instances'
  BY DEF Instances, Instance
<1>Q. Quiet(d)
  BY DEF Quiet
<1>K. Known' \subseteq Known
  <2>1. \A e \in DBs :
           Shows(e)' => Shows(e) /\ log'[e] \ pending'[e] \subseteq log[e] \ pending[e]
    BY DEF Shows, Instances, Instance
  <2> QED
    BY <2>1 DEF Known, risks
<1>T. Trusted' \subseteq Trusted
  <2>1. CASE d = master
    <3>1. Promised(cached[master])' = {}
      BY <2>1 DEF Promised
    <3>2. Promised(info[master])' = Promised(info[master])
      BY DEF Promised
    <3> QED
      BY <3>1, <3>2 DEF Trusted
  <2>2. CASE d # master
    <3>1. cached'[master] = cached[master]
      BY <2>2
    <3> QED
      BY <3>1 DEF Trusted, Promised
  <2> QED
    BY <2>1, <2>2
<1>L. /\ \A x \in Trusted : log[x] \subseteq log'[x]
      /\ log[master] \ pending[master] \subseteq log'[master] \ pending'[master]
  BY TrustedIn DEF Instances, Instance
<1>D. Learned({})
  BY <1>K, <1>L, <1>T DEF Learned
<1>G. GenerationInForce'
  BY DEF GenerationInForce, GenerationsInForce, Assigned, Local,
    Assignments, risks
<1> QED
  BY <1>A, <1>I, <1>Q, <1>D, <1>G, QuietStep

\* A report that is published was promised when it was cached.
LEMMA UpdateKeeperInfoKeeps ==
    ASSUME Types, Covered, SyncInv, NEW d \in DBs, UpdateKeeperInfo(d)
    PROVE  SyncInv'
<1> Assignments /\ Instances /\ Others /\ Durable /\ GenerationInForce /\ master \in DBs
  BY DEF SyncInv, Types, TypeOK
<1> UNCHANGED <<master, role, spec, fake, status, gen, follow, applied, resync, rebooted,
               waitSync, cached, up, primary, names, block, open, upstream,
               streaming, log, pending, acked, observed, setting, members, txns,
               crashes>>
  BY DEF UpdateKeeperInfo, cdVars, keeperVars, reportVars, confVars, walVars, clientVars
<1> /\ role[d] = "master"
    /\ info'[d] = cached[d]
    /\ \A e \in DBs \ {d} : info'[e] = info[e]
  BY DEF UpdateKeeperInfo, Local, Types, TypeOK
<1>A. Assignments'
  BY DEF Assignments
<1>I. Instances'
  BY DEF Instances, Instance
<1>Q. Quiet(d)
  BY DEF Quiet
<1>K. Known' \subseteq Known
  <2>1. \A e \in DBs :
           Shows(e)' => Shows(e) /\ log'[e] \ pending'[e] \subseteq log[e] \ pending[e]
    BY DEF Shows, Instances, Instance
  <2> QED
    BY <2>1 DEF Known, risks
<1>T. Trusted' \subseteq Trusted
  BY DEF Trusted, Promised
<1>L. /\ \A x \in Trusted : log[x] \subseteq log'[x]
      /\ log[master] \ pending[master] \subseteq log'[master] \ pending'[master]
  BY TrustedIn DEF Instances, Instance
<1>D. Learned({})
  BY <1>K, <1>L, <1>T DEF Learned
<1>G. GenerationInForce'
  BY DEF GenerationInForce, GenerationsInForce, Assigned, Local, Assignments,
    risks
<1> QED
  BY <1>A, <1>I, <1>Q, <1>D, <1>G, QuietStep

\* The sentinel clears the mark of a restart.
LEMMA UpdateBootUUIDKeeps ==
    ASSUME Types, Covered, SyncInv, NEW d \in DBs, UpdateBootUUID(d)
    PROVE  SyncInv'
<1> Assignments /\ Instances /\ Others /\ Durable /\ GenerationInForce /\ master \in DBs
  BY DEF SyncInv, Types, TypeOK
<1> UNCHANGED <<master, role, spec, fake, status, gen, follow, applied, resync, waitSync,
               cached, info, up, primary, names, block, open, upstream, streaming,
               log, pending, acked, observed, setting, members, txns, crashes>>
  BY DEF UpdateBootUUID, cdVars, keeperVars, reportVars, confVars, walVars, clientVars
<1> /\ up[d] => "LateBootCheck" \in risks
    /\ rebooted'[d] = FALSE
    /\ \A e \in DBs \ {d} : rebooted'[e] = rebooted[e]
  BY DEF UpdateBootUUID, Types, TypeOK
<1>A. Assignments'
  BY DEF Assignments
<1>I. Instances'
  BY DEF Instances, Instance
<1>Q. Quiet(d)
  BY DEF Quiet
<1>K. Known' \subseteq Known
  <2>1. CASE ~up[d]
    <3>1. \A e \in DBs : Shows(e)' => Shows(e)
      BY <2>1 DEF Shows
    <3> QED
      BY <3>1 DEF Known, risks
  <2>2. CASE up[d]
    BY <2>2 DEF Known, risks
  <2> QED
    BY <2>1, <2>2
<1>T. Trusted' \subseteq Trusted
  BY DEF Trusted, Promised
<1>L. /\ \A x \in Trusted : log[x] \subseteq log'[x]
      /\ log[master] \ pending[master] \subseteq log'[master] \ pending'[master]
  BY TrustedIn DEF Instances, Instance
<1>D. Learned({})
  BY <1>K, <1>L, <1>T DEF Learned
<1>G. GenerationInForce'
  BY DEF GenerationInForce, GenerationsInForce, Assigned, Local,
    Assignments, risks
<1> QED
  BY <1>A, <1>I, <1>Q, <1>D, <1>G, QuietStep

\* A client reads what was visible already.
LEMMA ObserveKeeps ==
    ASSUME Types, Covered, SyncInv, NEW d \in DBs, Observe(d)
    PROVE  SyncInv'
<1> Assignments /\ Instances /\ Others /\ Durable /\ GenerationInForce /\ master \in DBs
  BY DEF SyncInv, Types, TypeOK
<1> UNCHANGED <<master, role, spec, fake, status, gen, follow, applied, resync, rebooted,
               waitSync, cached, info, up, primary, names, block, open, upstream,
               streaming, log, pending, acked, setting, members, txns, crashes>>
  BY DEF Observe, cdVars, keeperVars, reportVars, confVars, walVars, clientVars
<1> /\ up[d] /\ primary[d] /\ open[d] /\ observed' = observed \cup (log[d] \ pending[d])
  BY DEF Observe, Serving, Types, TypeOK
<1>A. Assignments'
  BY DEF Assignments
<1>I. Instances'
  BY DEF Instances, Instance
<1>Q. Quiet(d)
  BY DEF Quiet
<1>K. Known' \subseteq Known
  BY DEF Known, Shows, risks
<1>T. Trusted' \subseteq Trusted
  BY DEF Trusted, Promised
<1>L. /\ \A x \in Trusted : log[x] \subseteq log'[x]
      /\ log[master] \ pending[master] \subseteq log'[master] \ pending'[master]
  BY TrustedIn DEF Instances, Instance
<1>D. Learned({})
  BY <1>K, <1>L, <1>T DEF Learned
<1>G. GenerationInForce'
  BY DEF GenerationInForce, GenerationsInForce, Assigned, Local, Assignments,
    risks
<1> QED
  BY <1>A, <1>I, <1>Q, <1>D, <1>G, QuietStep

\* A commit is acknowledged once all the synchronous standbys have it.
LEMMA AcknowledgeKeeps ==
    ASSUME Types, Covered, SyncInv, NEW d \in DBs, NEW t \in 1..MaxTxns, Acknowledge(d, t)
    PROVE  SyncInv'
<1> Assignments /\ Instances /\ Others /\ Durable /\ GenerationInForce /\ master \in DBs
  BY DEF SyncInv, Types, TypeOK
<1> UNCHANGED <<master, role, spec, fake, status, gen, follow, applied, resync, rebooted,
               waitSync, cached, info, up, primary, names, block, open, upstream,
               streaming, log, setting, members, txns, crashes>>
  BY DEF Acknowledge, cdVars, keeperVars, reportVars, confVars, walVars, clientVars
<1> /\ /\ up[d] /\ primary[d] /\ t \in pending[d]
       /\ \A x \in names[d] : upstream[x] = d /\ t \in log[x]
       /\ acked' = acked \cup {t} /\ observed' = observed \cup {t}
    /\ pending'[d] = pending[d] \ {t}
    /\ \A e \in DBs \ {d} : pending'[e] = pending[e]
  BY DEF Acknowledge, Types, TypeOK
<1>A. Assignments'
  BY DEF Assignments
<1>I. Instances'
  BY DEF Instances, Instance
<1>Q. Quiet(d)
  BY DEF Quiet
<1>K. Known' \subseteq Known \cup {t}
  BY DEF Known, Shows, risks
<1>S. /\ {t} \subseteq log'[master] \ pending'[master]
      /\ \A x \in Trusted : t \in log[x]
  <2>1. CASE d = master
    <3>1. t \in log[master]
      BY <2>1 DEF Instances, Instance
    <3>2. Trusted \subseteq names[master]
      BY <2>1 DEF Durable
    <3> QED
      BY <2>1, <3>1, <3>2
  <2>2. CASE d # master
    <3>1. OldMaster(d)
      BY <2>2 DEF Others, Abandoned
    <3>2. upstream[master] = d /\ t \in log[master]
      BY <3>1 DEF OldMaster
    <3>3. pending'[master] = {} /\ Trusted = {}
      BY <2>2, <3>1, <3>2, NewMasterWaits
    <3> QED
      BY <3>2, <3>3
  <2> QED
    BY <2>1, <2>2
<1>T. Trusted' \subseteq Trusted
  BY DEF Trusted, Promised
<1>L. /\ \A x \in Trusted : log[x] \subseteq log'[x]
      /\ log[master] \ pending[master] \subseteq log'[master] \ pending'[master]
  BY TrustedIn DEF Instances, Instance
<1>D. Learned({t})
  BY <1>K, <1>L, <1>T, <1>S DEF Learned
<1>G. GenerationInForce'
  BY DEF GenerationInForce, GenerationsInForce, Assigned, Local, Assignments,
    risks
<1> QED
  BY <1>A, <1>I, <1>Q, <1>D, <1>G, QuietStep

\* Only the current master is promoted, and it has what the former one made known.
LEMMA PromoteKeeps ==
    ASSUME Types, Covered, SyncInv, NEW d \in DBs, Promote(d)
    PROVE  SyncInv'
<1> Assignments /\ Instances /\ Others /\ Durable /\ GenerationInForce /\ master \in DBs
  BY DEF SyncInv, Types, TypeOK
<1> UNCHANGED <<master, role, spec, fake, status, gen, follow, applied, resync, rebooted,
               waitSync, cached, info, up, names, block, open, log, pending, acked,
               observed, setting, members, txns, crashes>>
  BY DEF Promote, cdVars, keeperVars, reportVars, confVars, walVars, clientVars
<1> /\ role[d] = "master" /\ up[d] /\ ~primary[d]
    /\ primary'[d] = TRUE
    /\ upstream'[d] = NoDB
    /\ streaming'[d] = FALSE
    /\ \A e \in DBs \ {d} :
          /\ primary'[e] = primary[e] /\ upstream'[e] = upstream[e]
          /\ streaming'[e] = streaming[e]
  BY DEF Promote, Assigned, Local, Types, TypeOK
<1>3. d = master
  BY DEF Others, OldMaster
<1>4. cached[d].gen # gen[d] /\ info[d].gen # gen[d] /\ applied[d] # gen[d]
  BY Counters, Below DEF Assignments
<1>5. Trusted = {} /\ Trusted' = {} /\ pending[master] = {}
  <2>1. status[master] = {} /\ pending[master] = {}
    BY <1>3 DEF Assignments, Instances, Instance
  <2>2. cached[master].gen # gen[master] /\ info[master].gen # gen[master]
    BY <1>3, <1>4
  <2> QED
    BY <2>1, <2>2 DEF Trusted, Promised
<1>A. Assignments'
  BY DEF Assignments
<1>I. Instances'
  BY DEF Instances, Instance
<1>Q. Quiet(d)
  BY <1>3, <1>5 DEF Quiet
<1>K. Known' \subseteq Known \cup (log[master] \ pending[master])
  <2>1. \A e \in DBs : Shows(e)' => Shows(e) \/ e = master
    BY <1>3 DEF Shows
  <2> QED
    BY <2>1 DEF Known, risks
<1>T. Trusted' \subseteq Trusted
  BY <1>5
<1>L. /\ \A x \in Trusted : log[x] \subseteq log'[x]
      /\ log[master] \ pending[master] \subseteq log'[master] \ pending'[master]
  BY TrustedIn, <1>5 DEF Instances, Instance
<1>D. Learned(log[master] \ pending[master])
  BY <1>K, <1>L, <1>T, <1>5 DEF Learned
<1>G. GenerationInForce'
  <2>1. \A e \in DBs \ {d} :
           /\ up'[e] = up[e] /\ primary'[e] = primary[e] /\ resync'[e] = resync[e]
           /\ rebooted'[e] = rebooted[e] /\ applied'[e] = applied[e]
           /\ names'[e] = names[e] /\ block'[e] = block[e]
    OBVIOUS
  <2>2. /\ GenerationInForce /\ UNCHANGED <<role, gen, spec, fake, setting>>
        /\ applied'[d] # gen[d]
    BY <1>4
  <2> QED
    BY ONLY d \in DBs, <2>1, <2>2, OneGeneration
<1> QED
  BY <1>A, <1>I, <1>Q, <1>D, <1>G, QuietStep

\* A reload puts the standbys on record in force, and opens a master in sync.
LEMMA ReconfigureKeeps ==
    ASSUME Types, Covered, SyncInv, NEW d \in DBs, Reconfigure(d)
    PROVE  SyncInv'
<1> Assignments /\ Instances /\ Others /\ Durable /\ GenerationInForce /\ master \in DBs
  BY DEF SyncInv, Types, TypeOK
<1> UNCHANGED <<master, role, spec, fake, status, gen, follow, resync, rebooted, cached,
               info, up, primary, upstream, streaming, log, pending, acked,
               observed, setting, members, txns, crashes>>
  BY DEF Reconfigure, cdVars, keeperVars, reportVars, confVars, walVars, clientVars
<1> /\ role[d] = "master" /\ ~resync[d] /\ ~rebooted[d] /\ up[d] /\ primary[d]
    /\ waitSync'[d] = (waitSync[d] /\ InSyncStandbys(d) # spec[d])
    /\ applied'[d] = gen[d]
    /\ names'[d] = spec[d]
    /\ block'[d] = fake[d]
    /\ open'[d] = (~waitSync'[d])
    /\ \A e \in DBs \ {d} :
          /\ waitSync'[e] = waitSync[e] /\ applied'[e] = applied[e]
          /\ names'[e] = names[e] /\ block'[e] = block[e] /\ open'[e] = open[e]
  BY DEF Reconfigure, SaveGeneration, Reload, createPGParameters, generateHBA, Assigned,
    Local, Types, TypeOK
<1>3. gen[d] \in Nat
  BY Counters
<1> DEFINE S == IF InSyncStandbys(d) = spec[d] THEN log[d] \ pending[d] ELSE {}
<1>4. S \subseteq log[master] \ pending[master] /\ \A x \in Trusted : S \subseteq log[x]
  BY InSyncShown
<1>A. Assignments'
  <2>1. \A e \in DBs :
           applied'[e] <= gen[e] /\ (role[e] = "master" /\ ~primary[e] => applied'[e] < gen[e])
    BY <1>3, Succ DEF Assignments
  <2> QED
    BY <2>1 DEF Assignments
<1>I. Instances'
  <2>1. Instance(d)'
    BY DEF Instances, Instance
  <2> QED
    BY <2>1, OneInstance
<1>Q. Quiet(d)
  BY DEF Quiet
<1>K. Known' \subseteq Known \cup S
  <2>1. \A e \in DBs : Shows(e)' => Shows(e) \/ (e = d /\ S = log[d] \ pending[d])
    BY DEF Shows, Instances, Instance
  <2> HIDE DEF S
  <2> QED
    BY <2>1 DEF Known, risks
<1>T. Trusted' \subseteq Trusted
  BY DEF Trusted, Promised
<1>L. /\ \A x \in Trusted : log[x] \subseteq log'[x]
      /\ log[master] \ pending[master] \subseteq log'[master] \ pending'[master]
  BY TrustedIn DEF Instances, Instance
<1>D. Learned(S)
  BY <1>K, <1>L, <1>T, <1>4 DEF Learned
<1>G. GenerationInForce'
  <2>1. \A e \in DBs \ {d} :
           /\ up'[e] = up[e] /\ primary'[e] = primary[e] /\ resync'[e] = resync[e]
           /\ rebooted'[e] = rebooted[e] /\ applied'[e] = applied[e]
           /\ names'[e] = names[e] /\ block'[e] = block[e]
    OBVIOUS
  <2>2. /\ GenerationInForce /\ UNCHANGED <<role, gen, spec, fake, setting>>
        /\ names'[d] = spec[d] /\ block'[d] = fake[d]
    OBVIOUS
  <2> QED
    BY ONLY d \in DBs, <2>1, <2>2, OneGeneration
<1> QED
  BY <1>A, <1>I, <1>Q, <1>D, <1>G, QuietStep

\* A reload that fails leaves the standbys that were in force.
LEMMA ReconfigureUnloadedKeeps ==
    ASSUME Types, Covered, SyncInv, NEW d \in DBs, ReconfigureUnloaded(d)
    PROVE  SyncInv'
<1> Assignments /\ Instances /\ Others /\ Durable /\ GenerationInForce /\ master \in DBs
  BY DEF SyncInv, Types, TypeOK
<1> UNCHANGED <<master, role, spec, fake, status, gen, follow, resync, rebooted, cached,
               info, up, primary, names, block, open, upstream, streaming, log,
               pending, acked, observed, setting, members, txns>>
  BY DEF ReconfigureUnloaded, cdVars, keeperVars, reportVars, confVars, walVars, clientVars
<1> /\ role[d] = "master" /\ ~resync[d] /\ ~rebooted[d] /\ up[d] /\ primary[d]
    /\ "ReloadFails" \in risks
    /\ waitSync'[d] = (waitSync[d] /\ InSyncStandbys(d) # spec[d])
    /\ applied'[d] = gen[d]
    /\ \A e \in DBs \ {d} : waitSync'[e] = waitSync[e] /\ applied'[e] = applied[e]
  BY DEF ReconfigureUnloaded, SaveGeneration, Assigned, Local, Types, TypeOK
<1>3. gen[d] \in Nat
  BY Counters
<1> DEFINE S == IF InSyncStandbys(d) = spec[d] THEN log[d] \ pending[d] ELSE {}
<1>4. S \subseteq log[master] \ pending[master] /\ \A x \in Trusted : S \subseteq log[x]
  BY InSyncShown
<1>A. Assignments'
  <2>1. \A e \in DBs :
           applied'[e] <= gen[e] /\ (role[e] = "master" /\ ~primary[e] => applied'[e] < gen[e])
    BY <1>3, Succ DEF Assignments
  <2> QED
    BY <2>1 DEF Assignments
<1>I. Instances'
  BY DEF Instances, Instance
<1>Q. Quiet(d)
  BY DEF Quiet
<1>K. Known' \subseteq Known \cup S
  <2>1. \A e \in DBs : Shows(e)' => Shows(e) \/ (e = d /\ S = log[d] \ pending[d])
    BY DEF Shows, Instances, Instance
  <2> HIDE DEF S
  <2> QED
    BY <2>1 DEF Known, risks
<1>T. Trusted' \subseteq Trusted
  BY DEF Trusted, Promised
<1>L. /\ \A x \in Trusted : log[x] \subseteq log'[x]
      /\ log[master] \ pending[master] \subseteq log'[master] \ pending'[master]
  BY TrustedIn DEF Instances, Instance
<1>D. Learned(S)
  BY <1>K, <1>L, <1>T, <1>4 DEF Learned
<1>G. GenerationInForce'
  BY DEF GenerationInForce, risks
<1> QED
  BY <1>A, <1>I, <1>Q, <1>D, <1>G, QuietStep

\* A restart sends the rest of the log to the connected standbys.
LEMMA ReconfigureAndRestartKeeps ==
    ASSUME Types, Covered, SyncInv, NEW d \in DBs, ReconfigureAndRestart(d)
    PROVE  SyncInv'
<1> Assignments /\ Instances /\ Others /\ Durable /\ GenerationInForce /\ master \in DBs
  BY DEF SyncInv, Types, TypeOK
<1> UNCHANGED <<master, role, spec, fake, status, gen, follow, resync, rebooted, cached,
               info, up, primary, upstream, acked, observed, setting, members,
               txns>>
  BY DEF ReconfigureAndRestart, cdVars, keeperVars, reportVars, confVars, walVars,
    clientVars
<1> /\ role[d] = "master" /\ ~resync[d] /\ ~rebooted[d] /\ up[d] /\ primary[d]
    /\ "AutomaticPgRestart" \in risks
    /\ \A e \in DBs : streaming'[e] => streaming[e] /\ e # d /\ upstream[e] # d
    /\ \A e \in DBs : log'[e] = IF upstream[e] = d /\ streaming[e] THEN log[d] ELSE log[e]
    /\ waitSync'[d] = (waitSync[d] /\ InSyncStandbys(d) # spec[d])
    /\ applied'[d] = gen[d]
    /\ names'[d] = spec[d]
    /\ block'[d] = fake[d]
    /\ open'[d] = (~waitSync'[d])
    /\ pending'[d] = {}
    /\ \A e \in DBs \ {d} :
          /\ waitSync'[e] = waitSync[e] /\ applied'[e] = applied[e]
          /\ names'[e] = names[e] /\ block'[e] = block[e] /\ open'[e] = open[e]
          /\ pending'[e] = pending[e]
  BY DEF ReconfigureAndRestart, SaveGeneration, Reload, createPGParameters, generateHBA,
    Assigned, Local, Restart, Disconnected, Types, TypeOK
<1>3. gen[d] \in Nat
  BY Counters
<1>5. log'[d] = log[d]
  BY SyncAssumption DEF Instances, Instance
<1>4. \A e \in DBs : /\ log[e] \subseteq log'[e] /\ log'[e] \subseteq 1..txns
                     /\ log'[e] = log[e] \/ upstream[e] = d
  <2> TAKE e \in DBs
  <2>1. log[e] \subseteq 1..txns /\ log[d] \subseteq 1..txns
    BY DEF Instances, Instance
  <2>2. CASE upstream[e] = d /\ streaming[e]
    <3>1. log'[e] = log[d] /\ log[e] \subseteq log[d]
      BY <2>2 DEF Instances, Instance
    <3> QED
      BY <2>1, <2>2, <3>1
  <2>3. CASE ~(upstream[e] = d /\ streaming[e])
    BY <2>1, <2>3
  <2> QED
    BY <2>2, <2>3
<1>A. Assignments'
  <2>1. \A e \in DBs :
           applied'[e] <= gen[e] /\ (role[e] = "master" /\ ~primary'[e] => applied'[e] < gen[e])
    <3> TAKE e \in DBs
    <3>1. CASE e = d
      BY <1>3, <3>1, Succ
    <3>2. CASE e # d
      <4>1. applied[e] <= gen[e] /\ (role[e] = "master" /\ ~primary[e] => applied[e] < gen[e])
        BY DEF Assignments
      <4>2. applied'[e] = applied[e]
        BY <3>2
      <4> QED
        BY <4>1, <4>2
    <3> QED
      BY <3>1, <3>2
  <2>2. \A e \in DBs : role[e] = "standby" /\ ~resync[e] => ~primary[e]
    BY DEF Assignments
  <2>3. spec[master] \subseteq DBs
    BY DEF Types, TypeOK
  <2> QED
    BY <2>1, <2>2, <2>3, AssignmentsKept
<1>I. Instances'
  <2>1. \A e \in DBs : /\ ~(up[e] /\ primary[e] /\ open'[e]) => pending'[e] = {}
                       /\ waitSync'[e] => ~open'[e]
                       /\ pending'[e] \subseteq log'[e]
    <3> TAKE e \in DBs
    <3>1. CASE e = d
      BY <3>1
    <3>2. CASE e # d
      <4>1. /\ open'[e] = open[e] /\ waitSync'[e] = waitSync[e] /\ pending'[e] = pending[e]
            /\ pending[e] \subseteq log[e] /\ log[e] \subseteq log'[e]
        BY <1>4, <3>2 DEF Instances, Instance
      <4>2. (~(up[e] /\ primary[e] /\ open[e]) => pending[e] = {}) /\ (waitSync[e] => ~open[e])
        BY DEF Instances, Instance
      <4> QED
        BY <4>1, <4>2
    <3> QED
      BY <3>1, <3>2
  <2>2. ASSUME NEW e \in DBs, streaming'[e]
        PROVE  /\ upstream[e] \in DBs /\ up[e] /\ up[upstream[e]]
               /\ log'[e] \subseteq log'[upstream[e]]
    <3>1. streaming[e] /\ upstream[e] # d
      BY <2>2
    <3>2. /\ upstream[e] \in DBs /\ up[e] /\ up[upstream[e]]
          /\ log[e] \subseteq log[upstream[e]]
      BY <3>1 DEF Instances, Instance
    <3> QED
      BY <1>4, <3>1, <3>2
  <2>3. \A e \in DBs : primary[e] => upstream[e] = NoDB
    BY DEF Instances, Instance
  <2> QED
    BY <1>4, <2>1, <2>2, <2>3 DEF Instances, Instance
<1>Q. Quiet(d)
  BY DEF Quiet
<1>K. Known' \subseteq Known
  BY DEF Known, risks
<1>T. Trusted' \subseteq Trusted
  BY DEF Trusted, Promised
<1>L. /\ \A x \in Trusted : log[x] \subseteq log'[x]
      /\ log[master] \ pending[master] \subseteq log'[master] \ pending'[master]
  BY TrustedIn, <1>4 DEF Instances, Instance
<1>D. Learned({})
  BY <1>K, <1>L, <1>T DEF Learned
<1>G. GenerationInForce'
  BY DEF GenerationInForce, risks
<1> QED
  BY <1>A, <1>I, <1>Q, <1>D, <1>G, QuietStep

\* The report that the keeper caches.
LEMMA Reported ==
    ASSUME Types, NEW d \in DBs, UpdatePGState(d)
    PROVE  /\ cached'[d].gen = applied[d]
           /\ cached'[d].sync = IF up[d] THEN InSyncStandbys(d) ELSE {}
<1>1. cached'[d] = [gen |-> applied[d], sync |-> IF up[d] THEN InSyncStandbys(d) ELSE {}]
  BY DEF UpdatePGState, Types, TypeOK
<1> QED
  BY <1>1, SMTT(30)

\* A standby is reported in sync only when it has all that is visible on the master.
LEMMA UpdatePGStateKeeps ==
    ASSUME Types, Covered, SyncInv, NEW d \in DBs, UpdatePGState(d)
    PROVE  SyncInv'
<1> Assignments /\ Instances /\ Others /\ Durable /\ GenerationInForce /\ master \in DBs
  BY DEF SyncInv, Types, TypeOK
<1> UNCHANGED <<master, role, spec, fake, status, gen, follow, applied, resync, rebooted,
               waitSync, info, up, primary, names, block, open, upstream, streaming,
               log, pending, acked, observed, setting, members, txns, crashes>>
  BY DEF UpdatePGState, cdVars, keeperVars, reportVars, confVars, walVars, clientVars
<1> /\ role[d] = "master"
    /\ cached'[d] = [gen |-> applied[d], sync |-> IF up[d] THEN InSyncStandbys(d) ELSE {}]
    /\ \A e \in DBs \ {d} : cached'[e] = cached[e]
  BY DEF UpdatePGState, Local, Types, TypeOK
<1>3. cached'[d].gen = applied[d] /\ cached'[d].sync = IF up[d] THEN InSyncStandbys(d) ELSE {}
  BY Reported
<1>5. \A x \in Trusted' \ Trusted :
         d = master /\ up[d] /\ x \in InSyncStandbys(d) /\ applied[d] = gen[d]
  <2>1. CASE d # master
    <3>1. cached'[master] = cached[master]
      BY <2>1
    <3>2. Trusted' = Trusted
      BY <3>1 DEF Trusted, Promised
    <3> QED
      BY <3>2
  <2>2. CASE d = master
    <3>1. Promised(cached[master])' =
             IF applied[d] = gen[d] THEN cached'[d].sync \cap spec[d] ELSE {}
      BY <1>3, <2>2 DEF Promised
    <3>2. Trusted' \ Trusted \subseteq Promised(cached[master])'
      BY DEF Trusted, Promised
    <3> QED
      BY <1>3, <2>2, <3>1, <3>2
  <2> QED
    BY <2>1, <2>2
<1>A. Assignments'
  BY <1>3 DEF Assignments
<1>I. Instances'
  BY DEF Instances, Instance
<1>Q. Quiet(d)
  BY DEF Quiet
<1>K. Known' \subseteq Known
  <2>1. \A e \in DBs :
           Shows(e)' => Shows(e) /\ log'[e] \ pending'[e] \subseteq log[e] \ pending[e]
    BY DEF Shows, Instances, Instance
  <2> QED
    BY <2>1 DEF Known, risks
<1>D. Durable'
  <2>1. Known \subseteq log[master] \ pending[master]
    BY DEF Durable
  <2>2. \A x \in Trusted' \ Trusted :
           x \in names[master] /\ log[master] \ pending[master] \subseteq log[x]
    BY <1>5 DEF InSyncStandbys, Covered
  <2> QED
    BY <1>K, <2>1, <2>2 DEF Durable
<1>G. GenerationInForce'
  BY DEF GenerationInForce, GenerationsInForce, Assigned, Local, Assignments,
    risks
<1> QED
  BY <1>A, <1>I, <1>Q, <1>D, <1>G, OthersKept DEF SyncInv

\* The sentinel elects a standby that has all that is known.
LEMMA ElectKeeps ==
    ASSUME Types, Covered, SyncInv, NEW n \in DBs, Elect(n)
    PROVE  SyncInv'
<1> Assignments /\ Instances /\ Others /\ Durable /\ GenerationInForce /\ master \in DBs
  BY DEF SyncInv, Types, TypeOK
<1> UNCHANGED <<status, applied, resync, rebooted, waitSync, cached, info, up, primary,
                names, block, open, upstream, streaming, log, pending, acked, observed,
                setting, members, txns, crashes>>
  BY DEF Elect, cdVars, keeperVars, reportVars, confVars, walVars, clientVars
<1> /\ n # master /\ role[n] # "none" /\ ~resync[n]
    /\ n \in status[master] /\ n \in spec[master]
    /\ master' = n
    /\ role'[n] = "master" /\ follow'[n] = NoDB /\ gen'[n] = gen[n] + 1
    /\ spec'[n] = (spec[master] \ {n}) \cup {master}
    /\ \A e \in DBs \ {n} : role'[e] = role[e] /\ follow'[e] = follow[e]
          /\ gen'[e] = gen[e] /\ spec'[e] = spec[e] /\ fake'[e] = fake[e]
  BY DEF Elect, Present, Settled, Electable, Covered, Types, TypeOK
<1>3. /\ role[n] = "standby" /\ ~primary[n] /\ primary[master]
      /\ \A e \in DBs \ {master} : role[e] # "master"
  <2>1. \A e \in DBs \ {master} : role[e] # "master"
    BY DEF Others, OldMaster
  <2>2. role[n] = "standby"
    BY <2>1 DEF Types, TypeOK
  <2> QED
    BY <2>1, <2>2 DEF Assignments
<1>4. gen[n] \in Nat /\ applied[n] \in Nat /\ spec[master] \subseteq DBs
  BY Counters DEF Types, TypeOK
<1>5. cached[n].gen = 0 /\ info[n].gen = 0 /\ status[n] = {} /\ pending[n] = {}
  BY <1>3, NoReportGen DEF Assignments, Instances, Instance
<1>A. Assignments'
  <2>1. \A e \in DBs : /\ applied[e] <= gen'[e] /\ cached[e].gen <= gen'[e] /\ info[e].gen <= gen'[e]
                       /\ role'[e] = "master" /\ ~primary[e] =>
                             applied[e] < gen'[e] /\ cached[e].gen < gen'[e] /\ info[e].gen < gen'[e]
    <3> TAKE e \in DBs
    <3>1. CASE e = n
      <4>1. applied[n] <= gen[n]
        BY DEF Assignments
      <4>2. applied[n] < gen[n] + 1 /\ applied[n] <= gen[n] + 1
        BY <1>4, <4>1, Below
      <4>3. 0 < gen[n] + 1 /\ 0 <= gen[n] + 1
        BY <1>4, Zero
      <4> QED
        BY <1>4, <1>5, <3>1, <4>2, <4>3
    <3>2. CASE e # n
      BY <3>2 DEF Assignments
    <3> QED
      BY <3>1, <3>2
  <2>2. \A e \in DBs : /\ role'[e] = "master" => ~resync[e] /\ gen'[e] > 0
                       /\ role'[e] = "standby" /\ ~resync[e] => ~primary[e]
                       /\ role'[e] # "master" => cached[e] = NoReport /\ info[e] = NoReport /\ status[e] = {}
    <3> TAKE e \in DBs
    <3>1. CASE e = n
      <4>1. gen'[n] > 0
        BY <1>4, Zero
      <4> QED
        BY <3>1, <4>1
    <3>2. CASE e # n
      BY <3>2 DEF Assignments
    <3> QED
      BY <3>1, <3>2
  <2>3. \A x \in spec'[n] : resync[x] => role'[x] = "none"
    BY <1>4 DEF Assignments
  <2>4. status'[n] = {} /\ primary' = primary
    BY <1>5
  <2> QED
    BY <2>1, <2>2, <2>3, <2>4 DEF Assignments
<1>I. Instances'
  BY DEF Instances, Instance
<1>O. Others'
  <2>m. PICK m \in DBs : m = master
    OBVIOUS
  <2>1. OldMaster(m)'
    <3>1. up[m] => n \in names[m]
      BY <1>3, <2>m DEF Durable, Trusted
    <3>2. role'[m] = "master" /\ n \in spec'[m] /\ status'[n] = {} /\ primary'[m]
      BY <1>3, <1>5, <2>m DEF Assignments
    <3> QED
      BY <3>1, <3>2 DEF OldMaster
  <2>2. ASSUME NEW e \in DBs \ {n, m}, up[e], primary[e]
        PROVE  Abandoned(e)'
    <3>1. Abandoned(e)
      BY <1>3, <2>m, <2>2 DEF Others, OldMaster
    <3>2. PICK x \in names[e] : upstream[x] # e /\ follow[x] # e
      BY <3>1 DEF Abandoned
    <3>3. x \in DBs
      BY DEF Types, TypeOK
    <3>4. follow'[x] # e
      BY <3>2, <3>3, SyncAssumption
    <3> QED
      BY <3>1, <3>2, <3>4 DEF Abandoned
  <2>3. \A e \in DBs \ {n, m} : role'[e] # "master"
    <3> TAKE e \in DBs \ {n, m}
    <3>1. e \in DBs \ {master} /\ e \in DBs \ {n}
      BY <2>m
    <3> QED
      BY <1>3, <3>1
  <2>4. \A e \in DBs \ {n} : (/\ role[e] = "master" => OldMaster(e)
                              /\ up[e] /\ primary[e] => OldMaster(e) \/ Abandoned(e))'
    BY <2>1, <2>2, <2>3
  <2> QED
    BY <2>4 DEF Others
<1>D. Durable'
  <2>1. Known' = Known
    BY DEF Known, Shows, risks
  <2>2. Trusted' = {}
    <3>1. gen'[n] # 0
      BY <1>4, Zero
    <3>2. Promised(cached[master])' = {} /\ Promised(info[master])' = {}
      BY <1>5, <3>1 DEF Promised
    <3> QED
      BY <1>5, <3>2 DEF Trusted
  <2>3. Known \subseteq log[n]
    BY DEF Durable, Trusted
  <2> QED
    BY <1>5, <2>1, <2>2, <2>3 DEF Durable
<1>G. GenerationInForce'
  <2>1. applied'[n] # gen'[n]
    <3>1. applied[n] <= gen[n]
      BY DEF Assignments
    <3> QED
      BY <1>4, <3>1, Below
  <2>2. ASSUME GenerationsInForce PROVE GenerationsInForce'
    <3> SUFFICES ASSUME NEW e \in DBs, up[e], primary[e], Assigned(e, "master")',
                        applied[e] = gen'[e]
                 PROVE  names[e] = spec'[e] /\ block[e] = fake'[e]
      BY DEF GenerationsInForce
    <3>1. e # n
      BY <2>1
    <3> QED
      BY <2>2, <3>1 DEF GenerationsInForce, Assigned, Local
  <2> QED
    BY <2>2 DEF GenerationInForce, risks
<1> QED
  BY <1>A, <1>I, <1>O, <1>D, <1>G DEF SyncInv

\* The standbys that a check of the master puts on record.
LEMMA UpdatedStandbys ==
    ASSUME Types, SyncInv, NEW gone, NEW good, NEW excess, NEW added,
           Update(gone, good, excess, added)
    PROVE  /\ status'[master] \subseteq Trusted /\ status'[master] \subseteq spec'[master]
           /\ spec'[master] \subseteq spec[master] \cup good
           /\ \A d \in DBs \ {master} : status'[d] = {}
<1> DEFINE required == RequiredStandbys(master, good)
           reported == ReportedStatus(master)
<1>1. Assignments /\ master \in DBs /\ info[master].gen = gen[master]
  BY DEF SyncInv, Types, TypeOK, Update, Converged
<1>2. /\ reported \subseteq Trusted /\ reported \subseteq spec[master]
      /\ required = spec[master] \/ required = reported
  BY <1>1 DEF ReportedStatus, RequiredStandbys, Trusted, Promised, Assignments
<1> HIDE DEF required, reported
<1>3. CASE /\ spec' = [d \in DBs |-> IF d = master THEN required ELSE {}]
           /\ status' = [d \in DBs |-> IF d = master THEN reported ELSE {}]
  BY <1>1, <1>2, <1>3
<1>4. ASSUME NEW sync \in NextStandbys(required, Present \ gone, good),
             spec' = [d \in DBs |-> IF d = master THEN sync ELSE {}],
             status' = [d \in DBs |-> IF d = master THEN reported \cap sync ELSE {}]
      PROVE  /\ status'[master] \subseteq Trusted /\ status'[master] \subseteq spec'[master]
             /\ spec'[master] \subseteq spec[master] \cup good
             /\ \A d \in DBs \ {master} : status'[d] = {}
  <2>1. sync \subseteq required \cup good
    BY NextStandbysIn
  <2> QED
    BY <1>1, <1>2, <1>4, <2>1
<1> QED
  BY <1>3, <1>4 DEF Update, UpdateStandbys, required, reported

\* A check of the master trusts no standby that was not trusted before.
LEMMA UpdateKeeps ==
    ASSUME Types, Covered, SyncInv, NEW gone, NEW good, NEW excess, NEW added,
           Update(gone, good, excess, added)
    PROVE  SyncInv'
<1> Assignments /\ Instances /\ Others /\ Durable /\ GenerationInForce /\ master \in DBs
  BY DEF SyncInv, Types, TypeOK
<1> UNCHANGED <<master, applied, rebooted, waitSync, up, primary, names, block, open,
                upstream, streaming, log, pending, acked, observed, setting, members,
                txns, crashes>>
  BY DEF Update, UpdateStandbys, confVars, walVars, clientVars
<1> /\ status'[master] \subseteq Trusted /\ status'[master] \subseteq spec'[master]
    /\ spec'[master] \subseteq spec[master] \cup good
    /\ \A d \in DBs \ {master} : status'[d] = {}
  BY UpdatedStandbys
<1>t. /\ spec'[master] \subseteq DBs /\ spec[master] \subseteq DBs
      /\ \A d \in DBs : gen[d] \in Nat /\ applied[d] \in Nat /\ cached[d].gen \in Nat /\ info[d].gen \in Nat
  BY UpdateTypes, Counters DEF Types, TypeOK
<1>3. /\ info[master].gen = gen[master]
      /\ \A d \in gone : role[d] # "none" /\ d # master
      /\ \A d \in DBs \ {master} : role[d] = "master" => d \in gone
      /\ \A d \in good : d \in DBs /\ role[d] # "none" /\ d \notin gone /\ d # master /\ ~resync[d]
      /\ \A d \in excess : role[d] # "none" /\ d \notin gone /\ d # master
      /\ \A d \in added : d \in DBs => role[d] = "none" \/ d \in gone
      /\ \A d \in excess \cup added : d \notin spec'[master]
  BY DEF Update, UpdateStandbys, Converged, OldMasters, Present, Settled
<1>4. /\ master \notin gone \cup excess \cup added
      /\ role'[master] = "master" /\ follow'[master] = NoDB
      /\ ~resync'[master] /\ cached'[master] = cached[master] /\ info'[master] = info[master]
  <2>1. master \notin gone \cup excess \cup added /\ ~resync[master]
    BY <1>3 DEF Assignments
  <2> QED
    BY <2>1 DEF Update, UpdateStandbys
<1>g. gen' = [gen EXCEPT ![master] = IF spec'[master] # spec[master] \/ fake'[master] # fake[master]
                                     THEN @ + 1 ELSE @]
  BY DEF Update, UpdateStandbys
<1>5. \A d \in DBs \ {master} :
         /\ role'[d] = (IF (role[d] # "none" /\ d \notin gone /\ d \notin excess) \/ d \in added
                        THEN "standby" ELSE "none")
         /\ follow'[d] \in {master, NoDB}
         /\ resync'[d] <=> (resync[d] \/ d \in gone \cup excess \cup added)
         /\ cached'[d] = (IF d \in gone THEN NoReport ELSE cached[d])
         /\ info'[d] = (IF d \in gone THEN NoReport ELSE info[d])
         /\ gen'[d] = gen[d]
  <2> TAKE d \in DBs \ {master}
  <2>1. role'[d] = (IF (role[d] # "none" /\ d \notin gone /\ d \notin excess) \/ d \in added
                    THEN "standby" ELSE "none")
    BY DEF Update, UpdateStandbys, Present
  <2>2. follow'[d] \in {master, NoDB} /\ gen'[d] = gen[d]
    <3>1. follow'[d] \in {master, NoDB}
      BY DEF Update, UpdateStandbys
    <3>2. gen'[d] = gen[d]
      BY <1>g DEF Types, TypeOK
    <3> QED
      BY <3>1, <3>2
  <2>3. resync'[d] <=> (resync[d] \/ d \in gone \cup excess \cup added)
    BY DEF Update, UpdateStandbys
  <2>4. /\ cached'[d] = (IF d \in gone THEN NoReport ELSE cached[d])
        /\ info'[d] = (IF d \in gone THEN NoReport ELSE info[d])
    BY DEF Update, UpdateStandbys
  <2> QED
    BY <2>1, <2>2, <2>3, <2>4
<1>6. \/ gen'[master] = gen[master] /\ spec'[master] = spec[master] /\ fake'[master] = fake[master]
      \/ gen'[master] = gen[master] + 1
  BY <1>g DEF Types, TypeOK
<1>7. primary[master]
  <2>1. ~primary[master] => info[master].gen < gen[master]
    BY DEF Assignments
  <2> QED
    BY <1>3, <1>t, <2>1, Below
<1>A. Assignments'
  <2>1. \A d \in DBs : /\ applied[d] <= gen'[d] /\ cached'[d].gen <= gen'[d] /\ info'[d].gen <= gen'[d]
                       /\ role'[d] = "master" => d = master
    <3>1. \A d \in DBs : gen[d] <= gen'[d] /\ gen'[d] \in Nat
      <4>1. gen[master] <= gen'[master] /\ gen'[master] \in Nat
        BY <1>6, <1>t, Succ
      <4>2. \A d \in DBs \ {master} : gen[d] <= gen'[d] /\ gen'[d] \in Nat
        BY <1>5, <1>t, Succ
      <4> QED
        BY <4>1, <4>2
    <3>2. \A d \in DBs : /\ cached'[d] = cached[d] \/ cached'[d].gen = 0
                         /\ info'[d] = info[d] \/ info'[d].gen = 0
      BY <1>4, <1>5, NoReportGen
    <3>3. \A d \in DBs : role'[d] = "master" => d = master
      BY <1>5
    <3>5. \A d \in DBs :
             applied[d] <= gen[d] /\ cached[d].gen <= gen[d] /\ info[d].gen <= gen[d]
      BY DEF Assignments
    <3> SUFFICES ASSUME NEW d \in DBs
                 PROVE  /\ applied[d] <= gen'[d]
                        /\ cached'[d].gen <= gen'[d] /\ info'[d].gen <= gen'[d]
      BY <3>3
    <3>6. /\ gen[d] <= gen'[d] /\ gen'[d] \in Nat /\ gen[d] \in Nat
          /\ applied[d] \in Nat /\ cached[d].gen \in Nat /\ info[d].gen \in Nat
          /\ applied[d] <= gen[d] /\ cached[d].gen <= gen[d] /\ info[d].gen <= gen[d]
      BY <1>t, <3>1, <3>5
    <3>7. applied[d] <= gen'[d] /\ cached[d].gen <= gen'[d] /\ info[d].gen <= gen'[d]
      BY <3>6, Between
    <3>8. 0 <= gen'[d]
      BY <3>6, Zero
    <3>9. /\ cached'[d] = cached[d] \/ cached'[d].gen = 0
          /\ info'[d] = info[d] \/ info'[d].gen = 0
      BY <3>2
    <3> QED
      BY <3>7, <3>8, <3>9
  <2>2. gen'[master] > 0
    <3>1. gen[master] > 0
      BY DEF Assignments
    <3>2. gen[master] + 1 > 0
      BY <1>t, Zero
    <3> QED
      BY <1>6, <3>1, <3>2
  <2>3. \A d \in DBs : role'[d] = "standby" /\ ~resync'[d] => ~primary[d]
    <3> SUFFICES ASSUME NEW d \in DBs \ {master}, role'[d] = "standby", ~resync'[d]
                 PROVE  ~primary[d]
      BY <1>4
    <3>1. role[d] # "none" /\ d \notin gone /\ ~resync[d]
      BY <1>5
    <3>2. role[d] = "standby"
      BY <1>3, <3>1 DEF Types, TypeOK
    <3> QED
      BY <3>1, <3>2 DEF Assignments
  <2>4. \A d \in DBs : role'[d] # "master" =>
           cached'[d] = NoReport /\ info'[d] = NoReport /\ status'[d] = {}
    <3> SUFFICES ASSUME NEW d \in DBs \ {master}
                 PROVE  cached'[d] = NoReport /\ info'[d] = NoReport /\ status'[d] = {}
      BY <1>4
    <3>1. d \notin gone => cached[d] = NoReport /\ info[d] = NoReport
      BY <1>3 DEF Assignments
    <3> QED
      BY <1>5, <3>1
  <2>5. \A x \in spec'[master] : resync'[x] => role'[x] = "none"
    <3> SUFFICES ASSUME NEW x \in spec'[master], x # master, resync'[x]
                 PROVE  role'[x] = "none"
      BY <1>4
    <3>1. x \in DBs /\ x \notin excess /\ x \notin added
      BY <1>3, <1>t
    <3>2. CASE x \in gone
      BY <1>5, <3>1, <3>2
    <3>3. CASE x \notin gone
      <4>1. resync[x] /\ x \in spec[master]
        BY <1>3, <1>5, <3>1, <3>3
      <4>2. role[x] = "none"
        BY <4>1 DEF Assignments
      <4> QED
        BY <1>5, <3>1, <4>2
    <3> QED
      BY <3>2, <3>3
  <2> QED
    BY <1>4, <1>7, <2>1, <2>2, <2>3, <2>4, <2>5 DEF Assignments
<1>I. Instances'
  BY DEF Instances, Instance
<1>O. Others'
  <2>1. \A e \in DBs \ {master} : role'[e] # "master"
    BY <1>5
  <2>2. ASSUME NEW e \in DBs \ {master}, up[e], primary[e]
        PROVE  Abandoned(e)'
    <3>1. CASE OldMaster(e)
      <4>1. resync'[e] /\ master \in names[e]
        BY <1>3, <1>5, <2>2, <3>1 DEF OldMaster
      <4>2. upstream[master] # e /\ follow'[master] # e
        BY <1>4, <1>7, SyncAssumption DEF Instances, Instance
      <4> QED
        BY <4>1, <4>2 DEF Abandoned
    <3>2. CASE Abandoned(e)
      <4>1. PICK x \in names[e] : upstream[x] # e
        BY <3>2 DEF Abandoned
      <4>2. x \in DBs
        BY DEF Types, TypeOK
      <4>3. follow'[x] # e
        <5>1. follow'[x] \in {master, NoDB}
          BY <1>4, <1>5, <4>2
        <5> QED
          BY <2>2, <5>1, SyncAssumption
      <4>4. resync'[e]
        BY <1>5, <3>2 DEF Abandoned
      <4> QED
        BY <4>1, <4>3, <4>4 DEF Abandoned
    <3> QED
      BY <2>2, <3>1, <3>2 DEF Others
  <2> QED
    BY <2>1, <2>2 DEF Others
<1>D. Durable'
  <2>1. Known' = Known
    BY DEF Known, Shows, risks
  <2>2. Trusted' \subseteq Trusted
    <3>1. cached[master].gen <= gen[master]
      BY DEF Assignments
    <3>2. cached[master].gen = gen'[master] =>
             gen'[master] = gen[master] /\ spec'[master] = spec[master]
      BY <1>6, <1>t, <3>1, Below
    <3>3. info[master].gen = gen'[master] =>
             gen'[master] = gen[master] /\ spec'[master] = spec[master]
      BY <1>3, <1>6, <1>t, Succ, Below
    <3> QED
      BY <1>4, <3>2, <3>3 DEF Trusted, Promised
  <2> QED
    BY <2>1, <2>2 DEF Durable
<1>G. GenerationInForce'
  <2>1. \A d \in DBs : role'[d] = "master" => d = master
    BY <1>5
  <2>2. applied[master] = gen'[master] =>
           /\ gen'[master] = gen[master] /\ spec'[master] = spec[master]
           /\ fake'[master] = fake[master]
    <3>1. applied[master] <= gen[master]
      BY DEF Assignments
    <3> QED
      BY <1>6, <1>t, <3>1, Below
  <2>3. role[master] = "master" /\ ~resync[master]
    BY DEF Assignments
  <2>4. ASSUME GenerationsInForce PROVE GenerationsInForce'
    <3> SUFFICES ASSUME up[master], primary[master], ~rebooted[master],
                        applied[master] = gen'[master]
                 PROVE  names[master] = spec'[master] /\ block[master] = fake'[master]
      BY <2>1 DEF GenerationsInForce, Assigned, Local
    <3> QED
      BY <2>2, <2>3, <2>4 DEF GenerationsInForce, Assigned, Local
  <2> QED
    BY <2>4 DEF GenerationInForce, risks
<1> QED
  BY <1>A, <1>I, <1>O, <1>D, <1>G DEF SyncInv

\* Every step keeps the invariant.
LEMMA StepKeeps ==
    ASSUME Types, Covered, SyncInv, [Next]_vars
    PROVE  SyncInv'
<1>1. CASE UNCHANGED vars
  <2>1. UNCHANGED <<master, role, spec, fake, status, gen, follow, applied, resync, rebooted,
                    waitSync, cached, info, up, primary, names, block, open, upstream,
                    streaming, log, pending, acked, observed, setting, txns>>
    BY <1>1 DEF vars, cdVars, keeperVars, reportVars, confVars, walVars, clientVars
  <2>2. Assignments' /\ Instances'
    BY <2>1 DEF SyncInv, Assignments, Instances, Instance
  <2>3. Others'
    BY <2>1 DEF SyncInv, Others, OldMaster, Abandoned
  <2>4. Known' = Known /\ Trusted' = Trusted
    BY <2>1 DEF Known, Shows, risks, Trusted, Promised
  <2>5. Durable'
    BY <2>1, <2>4 DEF SyncInv, Durable
  <2>6. GenerationInForce'
    BY <2>1 DEF SyncInv, GenerationInForce, GenerationsInForce, Assigned, Local, risks
  <2> QED
    BY <2>2, <2>3, <2>5, <2>6 DEF SyncInv
<1>2. ASSUME Sentinel PROVE SyncInv'
  BY <1>2, SentinelSteps, ElectKeeps, UpdateBootUUIDKeeps, UpdateKeeps
<1>3. ASSUME NEW d \in DBs, Keeper(d) PROVE SyncInv'
  BY <1>3, StartMasterKeeps, PromoteKeeps, ReconfigureKeeps, ReconfigureUnloadedKeeps,
     ReconfigureAndRestartKeeps, StandbyKeeps, HaltKeeps, ResyncKeeps, KeeperRestartKeeps,
     UpdatePGStateKeeps, UpdateKeeperInfoKeeps DEF Keeper
<1>4. ASSUME NEW d \in DBs, Postgres(d) PROVE SyncInv'
  BY <1>4, CommitKeeps, ReplicateKeeps, CatchUpKeeps, ObserveKeeps, HaltKeeps,
     AcknowledgeKeeps DEF Postgres
<1> QED
  BY <1>1, <1>2, <1>3, <1>4 DEF Next

\* Init with master m and synchronous standby s.
InitWith(m, s) ==
    /\ m # s /\ m \in members /\ s \in members /\ master = m
    /\ role = [d \in DBs |-> IF d = m THEN "master" ELSE IF d \in members THEN "standby" ELSE "none"]
    /\ spec = [d \in DBs |-> IF d = m THEN {s} ELSE {}]
    /\ gen = [d \in DBs |-> IF d = m THEN 1 ELSE 0]
    /\ follow = [d \in DBs |-> IF d = m \/ d \notin members THEN NoDB ELSE m]
    /\ info = [d \in DBs |-> IF d = m THEN [gen |-> 1, sync |-> {s}] ELSE NoReport]
    /\ primary = [d \in DBs |-> d = m]
    /\ streaming = [d \in DBs |-> d = s]

\* The initial states, for one master and one synchronous standby.
LEMMA InitStates ==
    ASSUME Init
    PROVE  members \subseteq DBs /\ \E m, s \in DBs : InitWith(m, s)
<1>1. members \subseteq DBs
  BY DEF Init, kSubset
<1>2. PICK m \in members : \E s \in members \ {m} :
         /\ master = m
         /\ role = [d \in DBs |-> IF d = m THEN "master" ELSE IF d \in members THEN "standby" ELSE "none"]
         /\ spec = [d \in DBs |-> IF d = m THEN {s} ELSE {}]
         /\ gen = [d \in DBs |-> IF d = m THEN 1 ELSE 0]
         /\ follow = [d \in DBs |-> IF d = m \/ d \notin members THEN NoDB ELSE m]
         /\ info = [d \in DBs |-> IF d = m THEN [gen |-> 1, sync |-> {s}] ELSE NoReport]
         /\ primary = [d \in DBs |-> d = m]
         /\ streaming = [d \in DBs |-> d = s]
  BY DEF Init
<1>3. \E s \in members \ {m} : InitWith(m, s)
  BY <1>2 DEF InitWith
<1> QED
  BY <1>1, <1>3

\* The initial states have the types.
LEMMA InitTypes ==
    ASSUME Init
    PROVE  Types
<1>1. /\ setting \in Settings /\ MaxGen \in Nat \ {0} /\ MaxCrashes \in Nat /\ members \subseteq DBs
      /\ MaxTxns \in Nat
  BY SyncAssumption DEF Init, MaxGen, MaxCrashes, kSubset
<1>2. PICK m, s \in DBs : InitWith(m, s)
  BY InitStates
<1>3. /\ role \in [DBs -> {"master", "standby", "none"}]
      /\ spec \in [DBs -> SUBSET DBs] /\ gen \in [DBs -> 0..MaxGen]
      /\ follow \in [DBs -> DBs \cup {NoDB}]
      /\ \A d \in DBs : role[d] = "standby" => follow[d] \in DBs
  BY <1>1, <1>2, SMTT(30) DEF InitWith
<1>4. info \in [DBs -> Report]
  <2>1. [gen |-> 1, sync |-> {s}] \in Report /\ NoReport \in Report
    BY <1>1, SMTT(30) DEF Report, NoReport
  <2> QED
    BY <1>2, <2>1 DEF InitWith
<1>5. primary \in [DBs -> BOOLEAN] /\ streaming \in [DBs -> BOOLEAN]
  BY <1>2 DEF InitWith
<1>6. /\ fake = [d \in DBs |-> FALSE] /\ status = spec /\ applied = gen
      /\ resync = [d \in DBs |-> FALSE] /\ rebooted = [d \in DBs |-> FALSE]
      /\ waitSync = [d \in DBs |-> FALSE] /\ cached = info
      /\ up = [d \in DBs |-> d \in members] /\ names = spec /\ block = fake
      /\ open = [d \in DBs |-> TRUE] /\ upstream = follow /\ log = [d \in DBs |-> {}]
      /\ pending = [d \in DBs |-> {}] /\ acked = {} /\ observed = {} /\ txns = 0 /\ crashes = 0
  BY DEF Init
<1>7. /\ fake \in [DBs -> BOOLEAN] /\ resync \in [DBs -> BOOLEAN] /\ rebooted \in [DBs -> BOOLEAN]
      /\ waitSync \in [DBs -> BOOLEAN] /\ up \in [DBs -> BOOLEAN] /\ open \in [DBs -> BOOLEAN]
      /\ log \in [DBs -> SUBSET (1..MaxTxns)] /\ pending \in [DBs -> SUBSET (1..MaxTxns)]
  BY <1>6, SMTT(30)
<1>8. master \in DBs /\ txns \in 0..MaxTxns /\ crashes \in 0..MaxCrashes
  BY <1>1, <1>2, <1>6, SMTT(30) DEF InitWith
<1> HIDE DEF Report
<1> QED
  BY <1>1, <1>3, <1>4, <1>5, <1>6, <1>7, <1>8 DEF Types, TypeOK

\* The initial states satisfy the invariant.
LEMMA InitInv ==
    ASSUME Init
    PROVE  SyncInv
<1>1. PICK m, s \in DBs : InitWith(m, s)
  BY InitStates
<1>2. /\ fake = [d \in DBs |-> FALSE] /\ status = spec /\ applied = gen
      /\ resync = [d \in DBs |-> FALSE] /\ rebooted = [d \in DBs |-> FALSE]
      /\ waitSync = [d \in DBs |-> FALSE] /\ cached = info
      /\ up = [d \in DBs |-> d \in members] /\ names = spec /\ block = fake
      /\ open = [d \in DBs |-> TRUE] /\ upstream = follow /\ log = [d \in DBs |-> {}]
      /\ pending = [d \in DBs |-> {}] /\ acked = {} /\ observed = {} /\ txns = 0
  BY DEF Init
<1>3. /\ master = m /\ role[m] = "master" /\ spec[m] = {s} /\ gen[m] = 1 /\ primary[m]
      /\ info[m].gen = 1
      /\ \A d \in DBs \ {m} : /\ role[d] # "master" /\ spec[d] = {} /\ gen[d] = 0 /\ ~primary[d]
                              /\ info[d] = NoReport /\ NoReport.gen = 0
      /\ \A d \in DBs : ~resync[d]
  BY <1>1, <1>2 DEF InitWith, NoReport
<1>A. Assignments
  BY <1>2, <1>3, SMTT(30) DEF Assignments
<1>I. Instances
  BY <1>1, <1>2 DEF InitWith, Instances, Instance
<1>O. Others
  BY <1>1, <1>2 DEF InitWith, Others
<1>D. Durable
  <2>1. Known = {}
    BY <1>2 DEF Known
  <2>2. Trusted \subseteq spec[m]
    BY <1>1, <1>2 DEF InitWith, Trusted, Promised
  <2> QED
    BY <1>1, <1>2, <2>1, <2>2 DEF InitWith, Durable
<1>G. GenerationInForce
  BY <1>2 DEF GenerationInForce, GenerationsInForce
<1> QED
  BY <1>A, <1>I, <1>O, <1>D, <1>G DEF SyncInv

\* The variables have their types in every behaviour.
THEOREM TypesHold == Spec => []TypeOK
<1>1. Init => Types
  BY InitTypes
<1>2. Types /\ [Next]_vars => Types'
  BY StepTypes
<1>3. Types => TypeOK
  BY DEF Types
<1> QED
  BY <1>1, <1>2, <1>3, PTL DEF Spec

\* The invariant holds in every behaviour in which the risks are covered.
THEOREM SyncInvHolds == Spec => [](Types /\ (Covered => SyncInv))
<1>1. Init => Types /\ (Covered => SyncInv)
  BY InitTypes, InitInv
<1>2. Types /\ (Covered => SyncInv) /\ [Next]_vars => (Types /\ (Covered => SyncInv))'
  <2>1. ASSUME [Next]_vars PROVE Covered' => Covered
    <3>1. setting' = setting
      BY <2>1, SettingKept DEF vars, clientVars
    <3> QED
      BY <3>1 DEF Covered, risks
  <2> QED
    BY <2>1, StepTypes, StepKeeps
<1> QED
  BY <1>1, <1>2, PTL DEF Spec

\* Every commit that PostgreSQL acknowledged to a client is in the log of the master on
\* record (updateCluster with synchronous replication, internal/sentinel): also after
\* crashes, elections and resynchronisations, whatever the generations, the members and
\* the numbers of standbys.
THEOREM AcknowledgedCommitsSurvive == Spec => []NoLostAck
<1>1. Types /\ (Covered => SyncInv) => NoLostAck
  <2> SUFFICES ASSUME Types, Covered, SyncInv PROVE acked \subseteq log[master]
    BY DEF NoLostAck, Covered
  <2>1. acked \subseteq Known
    BY DEF Known, Types, TypeOK
  <2> QED
    BY <2>1 DEF SyncInv, Durable
<1> QED
  BY <1>1, SyncInvHolds, PTL

\* What a client has read on a master that it can reach is in the log of the master on
\* record, when the only failure is that of a reload (createPGParameters and the reload
\* of postgresKeeperSM).
THEOREM KnownCommitsSurvive == Spec => []NoLostCommit
<1>1. Types /\ (Covered => SyncInv) => NoLostCommit
  <2> SUFFICES ASSUME Types, Covered => SyncInv, risks \subseteq {"ReloadFails"}
               PROVE  observed \subseteq log[master]
    BY DEF NoLostCommit
  <2>1. SyncInv
    BY DEF Covered
  <2>2. observed \subseteq Known
    BY DEF Known, Types, TypeOK
  <2> QED
    BY <2>1, <2>2 DEF SyncInv, Durable
<1> QED
  BY <1>1, SyncInvHolds, PTL

\* Every standby that findBestNewMasters may choose under synchronous replication has all
\* that clients have read.
THEOREM ElectablesAreComplete == Spec => []ElectableIsComplete
<1>1. Types /\ (Covered => SyncInv) => ElectableIsComplete
  <2> SUFFICES ASSUME Types, Covered => SyncInv, risks = {}
               PROVE  ElectablesComplete
    BY DEF ElectableIsComplete
  <2>1. SyncInv
    BY DEF Covered
  <2>2. observed \subseteq Known
    BY DEF Known, Types, TypeOK
  <2> QED
    BY <2>1, <2>2 DEF SyncInv, Durable, Trusted, ElectablesComplete
<1> QED
  BY <1>1, SyncInvHolds, PTL

\* A master whose keeper reports the current generation as applied runs with the
\* synchronous standbys of that generation (dbLocalState in postgresKeeperSM).
THEOREM GenerationsAreInForce == Spec => []GenerationInForce
<1>1. Types /\ (Covered => SyncInv) => GenerationInForce
  BY DEF Covered, SyncInv, GenerationInForce
<1> QED
  BY <1>1, SyncInvHolds, PTL

=============================================================================

------------------------- MODULE SentinelCheck_proofs -------------------------
(***************************************************************************)
(* NoHastyFailure for any number of sentinels, any intervals and any          *)
(* succession of leaders.                                                    *)
(*                                                                         *)
(* A check judges the keeper by a timer of its own, and the timer is started  *)
(* and stopped by comparing the information read with a history that is saved  *)
(* two steps later, if at all.  DetectorInv relates the three: as long as the  *)
(* history, saved or to be saved, names the information in the store, a timer  *)
(* that runs is no older than that information; and when a check has found     *)
(* the two the same, it is no older than the report the check read.  A write   *)
(* that succeeds was computed from the cluster data it replaces, so that a     *)
(* request of the operator is used up by the very write that acts on it.       *)
(***************************************************************************)
EXTENDS SentinelCheck, TLAPS

\* Time enough for every step, however busy the machine is.
USE SMTT(30), ZenonT(30)

HistoryType == [kind : {"none", "unseen", "seen"}, cur : BOOLEAN, age : Nat]
CheckType ==
    [pc : {"idle", "update", "publish"}, read : ClusterData, present : BOOLEAN, same : BOOLEAN,
     cur : BOOLEAN, valid : BOOLEAN, age : Ages, active : BOOLEAN, hist : HistoryType,
     route : 0..2]

Types ==
    /\ info \in BOOLEAN /\ age \in Ages
    /\ err \in [Sentinels -> Ages \cup {NoTimer}]
    /\ hist \in [Sentinels -> HistoryType]
    /\ check \in [Sentinels -> CheckType]
    /\ cd \in ClusterData

\* The write of s succeeds only on the cluster data it was computed from.
ReadCurrent(s) == check[s].pc = "update" /\ check[s].valid => check[s].read = cd

\* What a running timer of s is bounded by.
TimerBounded(s) ==
    err[s] # NoTimer =>
        /\ hist[s].cur => err[s] <= age
        /\ check[s].pc = "publish" /\ check[s].hist.cur => err[s] <= age
        /\ check[s].pc = "update" /\ check[s].same => err[s] <= check[s].age

DetectorInv == Types /\ \A s \in Sentinels : TimerBounded(s) /\ ReadCurrent(s)

-----------------------------------------------------------------------------
\* The timer a check leaves behind: started now, left alone, or dropped.
LEMMA TimerAfterCheck ==
    ASSUME Types, NEW s \in Sentinels
    PROVE  /\ KeeperError(s) \in Ages \cup {NoTimer}
           /\ KeeperError(s) \in {0, err[s], NoTimer}
<1>1. 0 \in Ages /\ err[s] \in Ages \cup {NoTimer}
  BY CheckAssumption DEF Types, Ages, MaxAge
<1> QED
  BY <1>1 DEF KeeperError

\* A check that leaves a timer running leaves the history as it was.
LEMMA HistoryAfterCheck ==
    ASSUME Types, NEW s \in Sentinels
    PROVE  /\ NewHistory(s) \in HistoryType
           /\ KeeperError(s) # NoTimer => ~fresh[s] /\ ~Updated(s) /\ NewHistory(s) = hist[s]
<1>1. hist[s] \in HistoryType /\ check[s] \in CheckType
  BY DEF Types
<1>2. NewHistory(s) \in HistoryType
  BY <1>1 DEF NewHistory, NoHistory, HistoryType, CheckType
<1>3. ASSUME KeeperError(s) # NoTimer
      PROVE  ~fresh[s] /\ ~Updated(s)
  BY <1>3 DEF KeeperError
<1>4. ASSUME ~fresh[s], ~Updated(s)
      PROVE  NewHistory(s) = hist[s]
  BY <1>1, <1>4 DEF NewHistory, Updated, Outdated, CheckType
<1> QED
  BY <1>2, <1>3, <1>4

\* No timer runs at first.
LEMMA InitDetector == Init => DetectorInv
<1> SUFFICES ASSUME Init
             PROVE  DetectorInv
  OBVIOUS
<1>1. age \in Ages /\ err \in [Sentinels -> Ages \cup {NoTimer}]
  BY CheckAssumption DEF Init, Ages, MaxAge
<1>2. hist \in [Sentinels -> HistoryType]
  BY DEF Init, NoHistory, HistoryType
<1>3. 0 \in Ages
  BY CheckAssumption DEF Ages, MaxAge
<1>4. check \in [Sentinels -> CheckType]
  <2>1. Idle \in CheckType
    BY <1>3 DEF Idle, Steady, ClusterData, NoHistory, HistoryType, CheckType
  <2>2. check = [s \in Sentinels |-> Idle]
    BY DEF Init
  <2>. QED  BY ONLY <2>1, <2>2, ZenonT(30)
<1>5. cd \in ClusterData /\ info \in BOOLEAN
  BY DEF Init, Steady, ClusterData
<1>6. \A s \in Sentinels : TimerBounded(s) /\ ReadCurrent(s)
  <2>1. Idle.pc = "idle"
    BY DEF Idle
  <2>. QED  BY <2>1 DEF Init, TimerBounded, ReadCurrent
<1> QED
  BY <1>1, <1>2, <1>4, <1>5, <1>6 DEF DetectorInv, Types

\* Ages: time passes for all of them alike, and stands still at MaxAge.
LEMMA OlderAges ==
    /\ 0 \in Ages
    /\ \A t \in Ages : Older(t) \in Ages /\ t # NoTimer
    /\ MaxAge \in Ages /\ Older(NoTimer) = NoTimer
    /\ \A t, u \in Ages : t <= u => Older(t) <= Older(u)
BY CheckAssumption DEF Older, Ages, MaxAge, NoTimer

\* What a report does to a check under way leaves it a check.
LEMMA CheckOutrun ==
    ASSUME NEW c \in CheckType
    PROVE  LET d == [c EXCEPT !.cur = FALSE, !.hist.cur = FALSE] IN
           /\ d \in CheckType /\ ~d.hist.cur
           /\ d.pc = c.pc /\ d.same = c.same /\ d.age = c.age
           /\ d.valid = c.valid /\ d.read = c.read
<1> DEFINE h == [c.hist EXCEPT !.cur = FALSE]
           d == [c EXCEPT !.cur = FALSE, !.hist.cur = FALSE]
<1>1. c.hist \in HistoryType
  BY DEF CheckType
<1>2. h \in HistoryType /\ ~h.cur
  BY <1>1, ZenonT(30) DEF HistoryType
<1>3. d = [c EXCEPT !.cur = FALSE, !.hist = h]
  BY DEF CheckType
<1> HIDE DEF h, d
<1> QED
  BY <1>2, <1>3, ZenonT(30) DEF CheckType, d

\* A report, and its end: no history names the information that is now in the store.
LEMMA OutrunKeepsInv ==
    ASSUME DetectorInv, Report \/ Expire
    PROVE  DetectorInv'
<1>1. info' \in BOOLEAN /\ age' \in Ages /\ err' = err /\ cd' = cd /\ Outrun
  BY OlderAges, ZenonT(30) DEF Report, Expire, cdVars
<1>2. /\ hist' \in [Sentinels -> HistoryType]
      /\ \A s \in Sentinels : ~hist'[s].cur
  BY <1>1, ZenonT(30) DEF Outrun, DetectorInv, Types, HistoryType
<1>3. \A s \in Sentinels : /\ check'[s] = [check[s] EXCEPT !.cur = FALSE, !.hist.cur = FALSE]
                           /\ check[s] \in CheckType
  BY <1>1, ZenonT(30) DEF Outrun, DetectorInv, Types
<1>4. \A s \in Sentinels :
         /\ check'[s] \in CheckType /\ ~check'[s].hist.cur
         /\ check'[s].pc = check[s].pc /\ check'[s].same = check[s].same /\ check'[s].age = check[s].age
         /\ check'[s].valid = check[s].valid /\ check'[s].read = check[s].read
  <2> SUFFICES ASSUME NEW s \in Sentinels
               PROVE  /\ check'[s] \in CheckType /\ ~check'[s].hist.cur
                      /\ check'[s].pc = check[s].pc /\ check'[s].same = check[s].same
                      /\ check'[s].age = check[s].age
                      /\ check'[s].valid = check[s].valid /\ check'[s].read = check[s].read
    OBVIOUS
  <2> DEFINE d == [check[s] EXCEPT !.cur = FALSE, !.hist.cur = FALSE]
  <2>1. /\ d \in CheckType /\ ~d.hist.cur
        /\ d.pc = check[s].pc /\ d.same = check[s].same /\ d.age = check[s].age
        /\ d.valid = check[s].valid /\ d.read = check[s].read
    BY ONLY <1>3, CheckOutrun, ZenonT(30)
  <2>2. check'[s] = d
    BY ONLY <1>3, ZenonT(30)
  <2> HIDE DEF d
  <2> QED
    BY ONLY <2>1, <2>2, ZenonT(30)
<1>5. check' \in [Sentinels -> CheckType]
  BY <1>1, <1>4, ZenonT(30) DEF Outrun
<1>6. Types'
  BY <1>1, <1>2, <1>5, ZenonT(30) DEF DetectorInv, Types
<1>7. ASSUME NEW s \in Sentinels
      PROVE  TimerBounded(s)' /\ ReadCurrent(s)'
  <2>1. TimerBounded(s) /\ ReadCurrent(s)
    BY ZenonT(30) DEF DetectorInv
  <2>2. TimerBounded(s)'
    BY <1>1, <1>2, <1>4, <2>1, ZenonT(30) DEF TimerBounded
  <2>3. ReadCurrent(s)'
    BY <1>1, <1>4, <2>1, ZenonT(30) DEF ReadCurrent
  <2>. QED  BY <2>2, <2>3
<1> QED
  BY <1>6, <1>7, ZenonT(30) DEF DetectorInv

\* Time passes for the information and for the timers alike.
LEMMA TickKeepsInv ==
    ASSUME DetectorInv, Tick
    PROVE  DetectorInv'
<1>1. age' \in Ages /\ age' = Older(age) /\ cd' = cd /\ info' = info
  BY OlderAges, ZenonT(30) DEF Tick, cdVars, DetectorInv, Types
<1>2. /\ err' \in [Sentinels -> Ages \cup {NoTimer}]
      /\ \A s \in Sentinels : err'[s] = Older(err[s])
  BY OlderAges, ZenonT(30) DEF Tick, DetectorInv, Types
<1>3. \A h \in HistoryType : OlderSeen(h) \in HistoryType /\ OlderSeen(h).cur = h.cur
  BY DEF OlderSeen, HistoryType
<1>4. /\ hist' \in [Sentinels -> HistoryType]
      /\ \A s \in Sentinels : hist'[s].cur = hist[s].cur
  BY <1>3, ZenonT(30) DEF Tick, DetectorInv, Types
<1>5. \A s \in Sentinels :
         /\ check'[s] = [check[s] EXCEPT !.hist = OlderSeen(check[s].hist),
                           !.age = IF check[s].pc = "update" THEN Older(check[s].age) ELSE check[s].age]
         /\ check[s] \in CheckType
  BY ZenonT(30) DEF Tick, DetectorInv, Types
<1>6. \A s \in Sentinels :
         /\ check'[s] \in CheckType
         /\ check'[s].hist.cur = check[s].hist.cur
         /\ check'[s].pc = check[s].pc /\ check'[s].same = check[s].same
         /\ check'[s].valid = check[s].valid /\ check'[s].read = check[s].read
         /\ check[s].pc = "update" => check'[s].age = Older(check[s].age)
  <2> SUFFICES ASSUME NEW s \in Sentinels
               PROVE  /\ check'[s] \in CheckType
                      /\ check'[s].hist.cur = check[s].hist.cur
                      /\ check'[s].pc = check[s].pc /\ check'[s].same = check[s].same
                      /\ check'[s].valid = check[s].valid /\ check'[s].read = check[s].read
                      /\ check[s].pc = "update" => check'[s].age = Older(check[s].age)
    OBVIOUS
  <2> DEFINE h == OlderSeen(check[s].hist)
             a == IF check[s].pc = "update" THEN Older(check[s].age) ELSE check[s].age
  <2>1. check[s].hist \in HistoryType /\ check[s].age \in Ages
    BY <1>5, ZenonT(30) DEF CheckType
  <2>2. h \in HistoryType /\ h.cur = check[s].hist.cur
    BY <1>3, <2>1
  <2>3. a \in Ages
    BY <2>1, OlderAges
  <2>4. check'[s] = [check[s] EXCEPT !.hist = h, !.age = a]
    BY <1>5, ZenonT(30)
  <2>5. check[s].pc = "update" => a = Older(check[s].age)
    OBVIOUS
  <2> HIDE DEF h, a
  <2>6. check[s] \in CheckType
    BY <1>5, ZenonT(30)
  <2>7. /\ check'[s] \in CheckType /\ check'[s].hist = h /\ check'[s].age = a
        /\ check'[s].pc = check[s].pc /\ check'[s].same = check[s].same
        /\ check'[s].valid = check[s].valid /\ check'[s].read = check[s].read
    BY <2>2, <2>3, <2>4, <2>6, ZenonT(30) DEF CheckType
  <2> QED
    BY <2>2, <2>5, <2>7
<1>7. check' \in [Sentinels -> CheckType]
  BY <1>6, ZenonT(30) DEF Tick
<1>8. ASSUME NEW s \in Sentinels
      PROVE  TimerBounded(s)' /\ ReadCurrent(s)'
  <2>1. err[s] \in Ages \cup {NoTimer} /\ age \in Ages /\ check[s].age \in Ages
    BY <1>5, ZenonT(30) DEF DetectorInv, Types, CheckType
  <2>2. err'[s] # NoTimer => err[s] # NoTimer /\ err[s] \in Ages
    BY <1>2, <2>1, OlderAges
  <2>3. TimerBounded(s) /\ ReadCurrent(s)
    BY ZenonT(30) DEF DetectorInv
  <2>4. TimerBounded(s)'
    BY <1>1, <1>2, <1>4, <1>6, OlderAges, <2>1, <2>2, <2>3 DEF TimerBounded
  <2>5. ReadCurrent(s)'
    BY <1>1, <1>6, <2>3, ZenonT(30) DEF ReadCurrent
  <2> QED
    BY <2>4, <2>5
<1> QED
  BY <1>1, <1>2, <1>4, <1>7, <1>8 DEF DetectorInv, Types

LEMMA IdleTyped == Idle \in CheckType /\ Idle.pc = "idle"
<1>1. NoHistory \in HistoryType /\ 0 \in Ages
  BY OlderAges DEF NoHistory, HistoryType
<1> QED
  BY <1>1 DEF Idle, Steady, ClusterData, CheckType

\* A step that changes nothing but the check of s.
LEMMA CheckStep ==
    ASSUME DetectorInv, NEW s \in Sentinels, NEW c \in CheckType,
           check' = [check EXCEPT ![s] = c], UNCHANGED <<info, age, err, hist, cd>>,
           c.pc = "publish" => FALSE,
           c.pc = "update" /\ c.valid => c.read = cd,
           c.pc = "update" /\ c.same /\ err[s] # NoTimer => err[s] <= c.age
    PROVE  DetectorInv'
<1>1. Types'
  BY DEF DetectorInv, Types
<1>2. ASSUME NEW t \in Sentinels
      PROVE  TimerBounded(t)' /\ ReadCurrent(t)'
  <2>1. check'[t] = IF t = s THEN c ELSE check[t]
    BY DEF DetectorInv, Types
  <2>2. TimerBounded(t) /\ ReadCurrent(t)
    BY ZenonT(30) DEF DetectorInv
  <2>3. TimerBounded(t)'
    BY <2>1, <2>2 DEF TimerBounded
  <2>4. ReadCurrent(t)'
    BY <2>1, <2>2, ZenonT(30) DEF ReadCurrent
  <2> QED
    BY <2>3, <2>4
<1> QED
  BY <1>1, <1>2 DEF DetectorInv

\* A check begins: it finds the information of the history, or other, or none.
LEMMA ReadKeepsInv ==
    ASSUME DetectorInv, NEW s \in Sentinels, Read(s)
    PROVE  DetectorInv'
<1>1. info \in BOOLEAN /\ (info /\ hist[s].cur) \in BOOLEAN /\ age \in Ages /\ cd \in ClusterData
  BY DEF DetectorInv, Types
<1>2. PICK active \in BOOLEAN :
         check' = [check EXCEPT ![s] =
            [Idle EXCEPT !.pc = "update", !.read = cd, !.valid = TRUE, !.active = active,
                         !.present = info, !.same = info /\ hist[s].cur, !.cur = info, !.age = age]]
  BY ZenonT(30) DEF Read
<1> DEFINE c == [Idle EXCEPT !.pc = "update", !.read = cd, !.valid = TRUE, !.active = active,
                         !.present = info, !.same = info /\ hist[s].cur, !.cur = info, !.age = age]
<1>3. Idle \in CheckType
  BY IdleTyped
<1>4. /\ c \in CheckType /\ c.pc = "update" /\ c.same = (info /\ hist[s].cur) /\ c.age = age
      /\ c.read = cd
  BY <1>1, <1>3, ZenonT(30) DEF CheckType
<1>5. TimerBounded(s) /\ check' = [check EXCEPT ![s] = c]
  BY <1>2 DEF DetectorInv
<1>6. UNCHANGED <<info, age, err, hist, cd>>
  BY DEF Read, keeperVars, cdVars, timers
<1> HIDE DEF c
<1>7. c.same /\ err[s] # NoTimer => err[s] <= c.age
  BY <1>4, <1>5, ZenonT(30) DEF TimerBounded
<1> QED
  BY <1>4, <1>5, <1>6, <1>7, CheckStep, ZenonT(30)

\* What a check writes is cluster data, and it leaves no request but one its leader's
\* first check met.
LEMMA UpdateTyped ==
    ASSUME Types, NEW s \in Sentinels
    PROVE  /\ updateCluster(s) \in ClusterData
           /\ updateCluster(s).healthy = Healthy(s)
           /\ updateCluster(s).forced = (check[s].read.forced /\ fresh[s])
<1> DEFINE old == check[s].read
<1>1. old \in ClusterData
  BY DEF Types, CheckType
<1>a. old.healthy \in BOOLEAN /\ old.forced \in BOOLEAN /\ old.elected \in BOOLEAN /\ old.route \in 0..2
  BY <1>1 DEF ClusterData
<1>2. Healthy(s) \in BOOLEAN
  BY <1>a, ZenonT(30) DEF Healthy
<1> DEFINE failover == ~old.elected /\ ~Healthy(s) /\ ~Delayed(s)
           route == IF failover THEN 0 ELSE IF old.elected /\ converged THEN 2 ELSE old.route
           forced == old.forced /\ fresh[s]
           elected == old.elected \/ failover
<1>3. route \in 0..2
  BY <1>a
<1>4. updateCluster(s) = [healthy |-> Healthy(s), forced |-> forced, elected |-> elected, route |-> route]
  BY DEF updateCluster
<1>5. elected \in BOOLEAN /\ forced \in BOOLEAN
  OBVIOUS
<1> HIDE DEF failover, route, forced, elected
<1>6. /\ updateCluster(s) \in ClusterData
      /\ updateCluster(s).healthy = Healthy(s) /\ updateCluster(s).forced = forced
  BY <1>2, <1>3, <1>4, <1>5 DEF ClusterData
<1> QED
  BY <1>6 DEF forced

\* The update of a check: the timer and the history of s as the check leaves them.
LEMMA TimersStep ==
    ASSUME DetectorInv, NEW s \in Sentinels, Timers(s), UNCHANGED <<info, age>>,
           cd' \in ClusterData,
           check' \in [Sentinels -> CheckType],
           \A t \in Sentinels \ {s} :
              /\ check'[t].pc = check[t].pc /\ check'[t].same = check[t].same
              /\ check'[t].age = check[t].age /\ check'[t].hist = check[t].hist
              /\ check'[t].read = check[t].read
              /\ check'[t].valid => check[t].valid /\ cd' = cd,
           check'[s].pc # "update",
           check'[s].pc = "publish" => check'[s].hist = NewHistory(s)
    PROVE  DetectorInv'
<1>0. Types
  BY DEF DetectorInv
<1>1. NoHistory \in HistoryType /\ ~NoHistory.cur
  BY DEF NoHistory, HistoryType
<1>2. /\ hist' \in [Sentinels -> HistoryType]
      /\ \A t \in Sentinels \ {s} : hist'[t] = hist[t]
      /\ hist'[s] = IF fresh[s] THEN NoHistory ELSE hist[s]
  BY <1>0, <1>1 DEF Timers, Types
<1>3. /\ err' \in [Sentinels -> Ages \cup {NoTimer}]
      /\ \A t \in Sentinels \ {s} : err'[t] = err[t]
      /\ err'[s] = KeeperError(s)
  BY <1>0, TimerAfterCheck DEF Timers, Types
<1>4. Types'
  BY <1>0, <1>2, <1>3 DEF Types
<1>5. ASSUME NEW t \in Sentinels \ {s}
      PROVE  TimerBounded(t)' /\ ReadCurrent(t)'
  <2>1. TimerBounded(t)'
    BY <1>2, <1>3 DEF DetectorInv, TimerBounded
  <2>2. ReadCurrent(t)'
    BY ZenonT(30) DEF DetectorInv, ReadCurrent
  <2> QED
    BY <2>1, <2>2
<1>a. ReadCurrent(s)'
  BY DEF ReadCurrent
<1>6. TimerBounded(s)'
  <2>1. CASE KeeperError(s) = NoTimer
    BY <1>3, <2>1 DEF TimerBounded
  <2>2. CASE KeeperError(s) # NoTimer
    <3>1. NewHistory(s) = hist[s] /\ hist'[s] = hist[s]
      BY <1>0, <1>2, <2>2, HistoryAfterCheck
    <3>2. hist[s].cur => KeeperError(s) <= age
      <4>1. KeeperError(s) = 0 \/ (KeeperError(s) = err[s] /\ err[s] # NoTimer)
        BY <1>0, <2>2, TimerAfterCheck
      <4>2. age \in Ages /\ 0 <= age
        BY <1>0 DEF Types, Ages
      <4>3. TimerBounded(s)
        BY DEF DetectorInv
      <4> QED
        BY <4>1, <4>2, <4>3 DEF TimerBounded
    <3> QED
      BY <1>3, <3>1, <3>2 DEF TimerBounded
  <2> QED
    BY <2>1, <2>2
<1> QED
  BY <1>4, <1>5, <1>6, <1>a DEF DetectorInv

\* Every check is told by its revision that the cluster data were written.
LEMMA InvalidatedTyped ==
    ASSUME Types
    PROVE  /\ Invalidated \in [Sentinels -> CheckType]
           /\ \A t \in Sentinels :
                /\ Invalidated[t].pc = check[t].pc /\ Invalidated[t].same = check[t].same
                /\ Invalidated[t].age = check[t].age /\ Invalidated[t].hist = check[t].hist
                /\ Invalidated[t].read = check[t].read /\ ~Invalidated[t].valid
<1>1. check \in [Sentinels -> CheckType]
  BY ZenonT(30) DEF Types
<1>2. ASSUME NEW c \in CheckType
      PROVE  LET d == [c EXCEPT !.valid = FALSE] IN
             /\ d \in CheckType /\ ~d.valid
             /\ d.pc = c.pc /\ d.same = c.same /\ d.age = c.age /\ d.hist = c.hist /\ d.read = c.read
  BY ZenonT(30) DEF CheckType
<1>3. \A t \in Sentinels : check[t] \in CheckType /\ Invalidated[t] = [check[t] EXCEPT !.valid = FALSE]
  BY <1>1, ZenonT(30) DEF Invalidated
<1>4. \A t \in Sentinels :
         /\ Invalidated[t] \in CheckType
         /\ Invalidated[t].pc = check[t].pc /\ Invalidated[t].same = check[t].same
         /\ Invalidated[t].age = check[t].age /\ Invalidated[t].hist = check[t].hist
         /\ Invalidated[t].read = check[t].read /\ ~Invalidated[t].valid
  <2> SUFFICES ASSUME NEW t \in Sentinels
               PROVE  /\ Invalidated[t] \in CheckType
                      /\ Invalidated[t].pc = check[t].pc /\ Invalidated[t].same = check[t].same
                      /\ Invalidated[t].age = check[t].age /\ Invalidated[t].hist = check[t].hist
                      /\ Invalidated[t].read = check[t].read /\ ~Invalidated[t].valid
    OBVIOUS
  <2> DEFINE d == [check[t] EXCEPT !.valid = FALSE]
  <2>1. /\ d \in CheckType /\ ~d.valid
        /\ d.pc = check[t].pc /\ d.same = check[t].same /\ d.age = check[t].age
        /\ d.hist = check[t].hist /\ d.read = check[t].read
    BY ONLY <1>2, <1>3, ZenonT(30)
  <2>2. Invalidated[t] = d
    BY ONLY <1>3, ZenonT(30)
  <2> HIDE DEF d
  <2> QED
    BY ONLY <2>1, <2>2, ZenonT(30)
<1> QED
  BY <1>4, ZenonT(30) DEF Invalidated

\* The operator's request.
LEMMA FailKeeperKeepsInv ==
    ASSUME DetectorInv, FailKeeper
    PROVE  DetectorInv'
<1>0. Types
  BY DEF DetectorInv
<1>1. UNCHANGED <<info, age, err, hist>> /\ check' = Invalidated /\ cd' = [cd EXCEPT !.forced = TRUE]
  BY ZenonT(30) DEF FailKeeper, keeperVars, timers
<1>2. cd' \in ClusterData
  BY <1>0, <1>1, ZenonT(30) DEF Types, ClusterData
<1>3. Types'
  BY <1>0, <1>1, <1>2, InvalidatedTyped, ZenonT(30) DEF Types
<1>4. ASSUME NEW s \in Sentinels
      PROVE  TimerBounded(s)' /\ ReadCurrent(s)'
  <2>1. TimerBounded(s)
    BY ZenonT(30) DEF DetectorInv
  <2>2. TimerBounded(s)'
    BY <1>0, <1>1, <2>1, InvalidatedTyped, ZenonT(30) DEF TimerBounded
  <2>3. ReadCurrent(s)'
    BY <1>0, <1>1, InvalidatedTyped, ZenonT(30) DEF ReadCurrent
  <2> QED
    BY <2>2, <2>3
<1> QED
  BY <1>3, <1>4, ZenonT(30) DEF DetectorInv

\* The write of the cluster data, and a write that fails or seems to.
LEMMA PutKeepsInv ==
    ASSUME DetectorInv, NEW s \in Sentinels, Put(s) \/ PutFails(s)
    PROVE  DetectorInv'
<1>0. Types /\ check \in [Sentinels -> CheckType]
  BY DEF DetectorInv, Types
<1>1. CASE Put(s)
  <2> DEFINE c == [Idle EXCEPT !.pc = "publish", !.hist = NewHistory(s), !.route = toPublish(s)]
  <2>1. NewHistory(s) \in HistoryType /\ toPublish(s) \in 0..2
    BY <1>0, HistoryAfterCheck, UpdateTyped DEF toPublish, ClusterData
  <2>2. c \in CheckType /\ c.pc = "publish" /\ c.hist = NewHistory(s)
    BY <2>1, IdleTyped, ZenonT(30) DEF CheckType
  <2>3. check' = [Invalidated EXCEPT ![s] = c] /\ Timers(s) /\ UNCHANGED <<info, age>>
    BY <1>1 DEF Put, keeperVars
  <2>4. cd' \in ClusterData
    BY <1>0, <1>1, UpdateTyped, ZenonT(30) DEF Put
  <2> HIDE DEF c
  <2>5. /\ check' \in [Sentinels -> CheckType] /\ check'[s] = c
        /\ \A t \in Sentinels \ {s} : check'[t] = Invalidated[t]
    BY <1>0, <2>2, <2>3, InvalidatedTyped
  <2> QED
    BY <1>0, <2>2, <2>3, <2>4, <2>5, InvalidatedTyped, TimersStep
<1>2. CASE PutFails(s)
  <2>1. /\ Timers(s) /\ UNCHANGED <<info, age>>
        /\ \/ cd' = updateCluster(s) /\ check' = [Invalidated EXCEPT ![s] = Idle]
           \/ cd' = cd /\ check' = [check EXCEPT ![s] = Idle]
    BY <1>2 DEF PutFails, keeperVars
  <2>2. Idle \in CheckType /\ Idle.pc = "idle"
    BY IdleTyped
  <2>3. CASE cd' = updateCluster(s) /\ check' = [Invalidated EXCEPT ![s] = Idle]
    <3>1. cd' \in ClusterData
      BY <1>0, <2>3, UpdateTyped, ZenonT(30)
    <3>2. /\ check' \in [Sentinels -> CheckType] /\ check'[s] = Idle
          /\ \A t \in Sentinels \ {s} : check'[t] = Invalidated[t]
      BY <1>0, <2>2, <2>3, InvalidatedTyped
    <3> QED
      BY <1>0, <2>1, <2>2, <3>1, <3>2, InvalidatedTyped, TimersStep
  <2>4. CASE cd' = cd /\ check' = [check EXCEPT ![s] = Idle]
    <3>1. cd' \in ClusterData
      BY <1>0, <2>4, ZenonT(30) DEF Types
    <3>2. /\ check' \in [Sentinels -> CheckType] /\ check'[s] = Idle
          /\ \A t \in Sentinels \ {s} : check'[t] = check[t]
      BY <1>0, <2>2, <2>4
    <3> QED
      BY <2>1, <2>2, <2>4, <3>1, <3>2, TimersStep
  <2> QED
    BY <2>1, <2>3, <2>4
<1> QED
  BY <1>1, <1>2

\* A check ends early, or with the publication; then its history is saved.
LEMMA EndKeepsInv ==
    ASSUME DetectorInv, NEW s \in Sentinels, NotLeader(s) \/ PublishFails(s) \/ Publish(s)
    PROVE  DetectorInv'
<1>1. Idle \in CheckType /\ Idle.pc = "idle" /\ check' = [check EXCEPT ![s] = Idle]
  BY IdleTyped DEF NotLeader, PublishFails, Publish
<1>2. CASE NotLeader(s) \/ PublishFails(s)
  <2>1. UNCHANGED <<info, age, err, hist, cd>>
    BY <1>2 DEF NotLeader, PublishFails, keeperVars, cdVars, timers
  <2> QED
    BY <1>1, <2>1, CheckStep, ZenonT(30)
<1>3. CASE Publish(s)
  <2>1. UNCHANGED <<info, age, err, cd>> /\ hist' = [hist EXCEPT ![s] = check[s].hist]
    BY <1>3 DEF Publish, keeperVars, cdVars
  <2>2. check[s] \in CheckType /\ check[s].pc = "publish"
    BY <1>3 DEF Publish, DetectorInv, Types
  <2>3. check[s].hist \in HistoryType
    BY <2>2 DEF CheckType
  <2>4. Types'
    BY <1>1, <2>1, <2>3 DEF DetectorInv, Types
  <2>5. ASSUME NEW t \in Sentinels
        PROVE  TimerBounded(t)' /\ ReadCurrent(t)'
    <3>1. /\ hist'[t] = IF t = s THEN check[s].hist ELSE hist[t]
          /\ check'[t] = IF t = s THEN Idle ELSE check[t]
      BY <1>1, <2>1 DEF DetectorInv, Types
    <3>2. TimerBounded(t) /\ ReadCurrent(t)
      BY ZenonT(30) DEF DetectorInv
    <3>3. TimerBounded(t)'
      BY <1>1, <2>1, <2>2, <3>1, <3>2 DEF TimerBounded
    <3>4. ReadCurrent(t)'
      BY <1>1, <2>1, <3>1, <3>2 DEF ReadCurrent
    <3> QED
      BY <3>3, <3>4
  <2> QED
    BY <2>4, <2>5 DEF DetectorInv
<1> QED
  BY <1>2, <1>3

LEMMA NextKeepsDetectorInv == DetectorInv /\ [Next]_vars => DetectorInv'
<1> SUFFICES ASSUME DetectorInv, [Next]_vars
             PROVE  DetectorInv'
  OBVIOUS
<1>1. CASE \E s \in Sentinels : Step(s)
  BY <1>1, ReadKeepsInv, PutKeepsInv, EndKeepsInv DEF Step
<1>2. CASE Die \/ Converge \/ UNCHANGED vars
           \/ \E s \in Sentinels : Elected(s) \/ Lost(s)
  <2>1. UNCHANGED <<info, age, err, hist, check, cd>>
    BY <1>2, ZenonT(30) DEF Die, Converge, Elected, Lost, vars, keeperVars, cdVars, timers
  <2> QED
    BY <2>1 DEF DetectorInv, Types, TimerBounded, ReadCurrent
<1> QED
  BY <1>1, <1>2, OutrunKeepsInv, TickKeepsInv, FailKeeperKeepsInv DEF Next

\* The verdict changes only in a check whose report is old or missing, or that uses a
\* request of the operator up.
LEMMA VerdictHasReason ==
    ASSUME DetectorInv, [Next]_vars, cd.healthy, ~cd'.healthy
    PROVE  OnOldReport \/ OnRequest
<1>0. Types
  BY DEF DetectorInv
<1>a. ~FailKeeper
  <2>1. FailKeeper => cd'.healthy = cd.healthy
    BY <1>0, ZenonT(30) DEF FailKeeper, Types, ClusterData
  <2> QED
    BY <2>1, ZenonT(30)
<1>1. PICK s \in Sentinels : /\ Put(s) \/ PutFails(s)
                            /\ cd' = updateCluster(s) /\ check[s].valid
  BY <1>a, ZenonT(30) DEF Next, vars, Report, Die, Expire, Converge, Tick, Elected, Lost, Step,
         Read, NotLeader, Put, PutFails, Publish, PublishFails, cdVars
<1>2. check[s].pc = "update" /\ check'[s].pc # "update"
  <2>1. Idle.pc = "idle"
    BY IdleTyped
  <2>2. CASE Put(s)
    BY <1>0, <2>1, <2>2, ZenonT(30) DEF Put, Types, Invalidated, Idle
  <2>3. CASE PutFails(s)
    BY <1>0, <2>1, <2>3 DEF PutFails, Types, Invalidated
  <2> QED
    BY <1>1, <2>2, <2>3
<1>3. /\ check[s].read = cd /\ ~Healthy(s)
      /\ cd'.forced = (check[s].read.forced /\ fresh[s])
  BY <1>0, <1>1, <1>2, UpdateTyped, ZenonT(30) DEF DetectorInv, ReadCurrent
<1>4. ~fresh[s] /\ (check[s].read.forced \/ ~(KeeperError(s) = NoTimer \/ KeeperError(s) <= FailInterval))
  BY <1>3, ZenonT(30) DEF Healthy, forceFailRequested
<1>5. CASE check[s].read.forced
  BY <1>3, <1>4, <1>5, ZenonT(30) DEF OnRequest
<1>6. CASE KeeperError(s) # NoTimer /\ ~(KeeperError(s) <= FailInterval)
  <2>1. ~Updated(s) /\ err[s] # NoTimer /\ ~(err[s] <= FailInterval)
    BY <1>4, <1>6, CheckAssumption DEF KeeperError
  <2>2. CASE ~check[s].present
    BY <1>2, <2>2 DEF OnOldReport
  <2>3. CASE check[s].present
    <3>1. check[s].same
      BY <2>1, <2>3 DEF Updated, Outdated
    <3>2. err[s] <= check[s].age
      BY <1>2, <2>1, <3>1 DEF DetectorInv, TimerBounded
    <3>3. err[s] \in Ages /\ check[s].age \in Ages
      BY <1>0, <2>1 DEF Types, CheckType
    <3>4. check[s].age > FailInterval
      BY <2>1, <3>2, <3>3, CheckAssumption DEF Ages, MaxAge
    <3> QED
      BY <1>2, <3>4 DEF OnOldReport
  <2> QED
    BY <2>2, <2>3
<1> QED
  BY <1>4, <1>5, <1>6

\* For any number of sentinels that believe to lead, any intervals, any delays and
\* failures of writes and publications, and requests of the operator at any time: the
\* keeper of the master is declared failed (updateKeepersStatus) only by a check that
\* read no report of the last failInterval, or by one that uses a request up.
THEOREM NoFailureInHaste == Spec => NoHastyFailure
<1>1. DetectorInv /\ [Next]_vars => [cd.healthy /\ ~cd'.healthy => OnOldReport \/ OnRequest]_vars
  BY VerdictHasReason
<1> QED
  BY <1>1, InitDetector, NextKeepsDetectorInv, PTL DEF Spec, NoHastyFailure
=============================================================================

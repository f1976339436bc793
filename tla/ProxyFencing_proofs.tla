------------------------ MODULE ProxyFencing_proofs ------------------------
(***************************************************************************)
(* Proofs about the failover handshake of ProxyFencing, for any set of     *)
(* proxies and databases and any timing.                                   *)
(***************************************************************************)
EXTENDS ProxyFencing, TLAPS

\* Time enough for every step, however busy the machine is.
USE SMTT(30), ZenonT(30)

\* Every step keeps the types.
LEMMA TypeStep ==
    ASSUME TypeOK, [Next]_vars
    PROVE  TypeOK'
<1> USE TimingAssumption, SetAssumption DEF TypeOK, vars, cdVars, infoVars,
     sentinelVars, historyVars, proxyVars, InfoTTL, AgeCap, Checking, HasView, View,
     NoView
<1>1. ASSUME NEW p \in Proxies, CheckStart(p)
      PROVE  TypeOK'
  BY <1>1 DEF CheckStart
<1>2. ASSUME NEW p \in Proxies, CheckRead(p)
      PROVE  TypeOK'
  BY <1>2 DEF CheckRead
<1>3. ASSUME NEW p \in Proxies, PutInfo(p)
      PROVE  TypeOK'
  BY <1>3 DEF PutInfo
<1>4. ASSUME NEW p \in Proxies, CheckEnd(p)
      PROVE  TypeOK'
  BY <1>4 DEF CheckEnd, EndCheck
<1>5. ASSUME NEW p \in Proxies, CheckTimeout(p)
      PROVE  TypeOK'
  BY <1>5 DEF CheckTimeout, EndCheck, Fault, Checking
<1>6. ASSUME NEW p \in Proxies, CheckError(p)
      PROVE  TypeOK'
  BY <1>6 DEF CheckError, EndCheck, Fault, Checking
<1>7. ASSUME NEW p \in Proxies, Crash(p)
      PROVE  TypeOK'
  BY <1>7 DEF Crash, Fault
<1>8. ASSUME NEW p \in Proxies, Expire(p)
      PROVE  TypeOK'
  BY <1>8 DEF Expire
<1>9. ASSUME NEW m \in DBs, Elect(m)
      PROVE  TypeOK'
  BY <1>9 DEF Elect, EndSentinelCheck
<1>10. CASE SentinelRead
  BY <1>10 DEF SentinelRead, ActiveProxies
<1>11. CASE Publish
  BY <1>11 DEF Publish, EndSentinelCheck
<1>12. CASE KeepProxies
  BY <1>12 DEF KeepProxies, EndSentinelCheck
<1>13. CASE EnableProxies
  BY <1>13 DEF EnableProxies, EndSentinelCheck
<1>14. CASE SentinelSkip
  BY <1>14 DEF SentinelSkip, EndSentinelCheck, Fault
<1>15. CASE LeaderChange
  BY <1>15 DEF LeaderChange, Fault
<1>16. CASE Tick
  BY <1>16 DEF Tick, Older, Checking
<1>17. CASE UNCHANGED vars
  BY <1>17
<1>18. QED
  BY <1>1, <1>2, <1>3, <1>4, <1>5, <1>6, <1>7, <1>8, <1>9, <1>10, <1>11, <1>12, <1>13,
       <1>14, <1>15, <1>16, <1>17, ZenonT(30) DEF Next, Check, Sentinel

\* A check starts from zero ages and clears the destination with an empty view.
LEMMA ChecksStep ==
    ASSUME TypeOK, ChecksWellFormed, [Next]_vars
    PROVE  ChecksWellFormed'
<1> USE TimingAssumption, SetAssumption DEF TypeOK, vars, cdVars, infoVars,
     sentinelVars, historyVars, proxyVars, Checking, HasView, View, NoView,
     ChecksWellFormed
<1>1. ASSUME NEW p \in Proxies, CheckStart(p)
      PROVE  ChecksWellFormed'
  BY <1>1 DEF CheckStart
<1>2. ASSUME NEW p \in Proxies, CheckRead(p)
      PROVE  ChecksWellFormed'
  BY <1>2 DEF CheckRead
<1>3. ASSUME NEW p \in Proxies, PutInfo(p)
      PROVE  ChecksWellFormed'
  BY <1>3 DEF PutInfo
<1>4. ASSUME NEW p \in Proxies, CheckEnd(p)
      PROVE  ChecksWellFormed'
  BY <1>4 DEF CheckEnd, EndCheck
<1>5. ASSUME NEW p \in Proxies, CheckTimeout(p)
      PROVE  ChecksWellFormed'
  BY <1>5 DEF CheckTimeout, EndCheck, Fault, Checking
<1>6. ASSUME NEW p \in Proxies, CheckError(p)
      PROVE  ChecksWellFormed'
  BY <1>6 DEF CheckError, EndCheck, Fault, Checking
<1>7. ASSUME NEW p \in Proxies, Crash(p)
      PROVE  ChecksWellFormed'
  BY <1>7 DEF Crash, Fault
<1>8. ASSUME NEW p \in Proxies, Expire(p)
      PROVE  ChecksWellFormed'
  BY <1>8 DEF Expire
<1>9. ASSUME NEW m \in DBs, Elect(m)
      PROVE  ChecksWellFormed'
  BY <1>9 DEF Elect, EndSentinelCheck
<1>10. CASE SentinelRead
  BY <1>10 DEF SentinelRead, ActiveProxies
<1>11. CASE Publish
  BY <1>11 DEF Publish, EndSentinelCheck
<1>12. CASE KeepProxies
  BY <1>12 DEF KeepProxies, EndSentinelCheck
<1>13. CASE EnableProxies
  BY <1>13 DEF EnableProxies, EndSentinelCheck
<1>14. CASE SentinelSkip
  BY <1>14 DEF SentinelSkip, EndSentinelCheck, Fault
<1>15. CASE LeaderChange
  BY <1>15 DEF LeaderChange, Fault
<1>16. CASE Tick
  BY <1>16 DEF Tick, Older, Checking
<1>17. CASE UNCHANGED vars
  BY <1>17
<1>18. QED
  BY <1>1, <1>2, <1>3, <1>4, <1>5, <1>6, <1>7, <1>8, <1>9, <1>10, <1>11, <1>12, <1>13,
       <1>14, <1>15, <1>16, <1>17, ZenonT(30) DEF Next, Check, Sentinel

\* Generations only grow, and each identifies one published master.
LEMMA GenerationsStep ==
    ASSUME TypeOK, GenerationsAgree, [Next]_vars
    PROVE  GenerationsAgree'
<1> USE TimingAssumption, SetAssumption DEF TypeOK, vars, cdVars, infoVars,
     sentinelVars, historyVars, proxyVars, Checking, HasView, View, NoView,
     GenerationsAgree
<1>1. ASSUME NEW p \in Proxies, CheckStart(p)
      PROVE  GenerationsAgree'
  BY <1>1 DEF CheckStart
<1>2. ASSUME NEW p \in Proxies, CheckRead(p)
      PROVE  GenerationsAgree'
  BY <1>2 DEF CheckRead
<1>3. ASSUME NEW p \in Proxies, PutInfo(p)
      PROVE  GenerationsAgree'
  BY <1>3 DEF PutInfo
<1>4. ASSUME NEW p \in Proxies, CheckEnd(p)
      PROVE  GenerationsAgree'
  BY <1>4 DEF CheckEnd, EndCheck
<1>5. ASSUME NEW p \in Proxies, CheckTimeout(p)
      PROVE  GenerationsAgree'
  BY <1>5 DEF CheckTimeout, EndCheck, Fault, Checking
<1>6. ASSUME NEW p \in Proxies, CheckError(p)
      PROVE  GenerationsAgree'
  BY <1>6 DEF CheckError, EndCheck, Fault, Checking
<1>7. ASSUME NEW p \in Proxies, Crash(p)
      PROVE  GenerationsAgree'
  BY <1>7 DEF Crash, Fault
<1>8. ASSUME NEW p \in Proxies, Expire(p)
      PROVE  GenerationsAgree'
  BY <1>8 DEF Expire
<1>9. ASSUME NEW m \in DBs, Elect(m)
      PROVE  GenerationsAgree'
  BY <1>9 DEF Elect, EndSentinelCheck
<1>10. CASE SentinelRead
  BY <1>10 DEF SentinelRead, ActiveProxies
<1>11. CASE Publish
  BY <1>11 DEF Publish, EndSentinelCheck
<1>12. CASE KeepProxies
  BY <1>12 DEF KeepProxies, EndSentinelCheck
<1>13. CASE EnableProxies
  BY <1>13 DEF EnableProxies, EndSentinelCheck
<1>14. CASE SentinelSkip
  BY <1>14 DEF SentinelSkip, EndSentinelCheck, Fault
<1>15. CASE LeaderChange
  BY <1>15 DEF LeaderChange, Fault
<1>16. CASE Tick
  BY <1>16 DEF Tick, Older, Checking
<1>17. CASE UNCHANGED vars
  BY <1>17
<1>18. QED
  BY <1>1, <1>2, <1>3, <1>4, <1>5, <1>6, <1>7, <1>8, <1>9, <1>10, <1>11, <1>12, <1>13,
       <1>14, <1>15, <1>16, <1>17, ZenonT(30) DEF Next, Check, Sentinel

\* A current generation in an info key keeps meaning that nothing is routed.
LEMMA AckStep ==
    ASSUME TypeOK, ChecksWellFormed, GenerationsAgree, AckMeansClosed, [Next]_vars
    PROVE  AckMeansClosed'
<1> USE TimingAssumption, SetAssumption DEF TypeOK, vars, cdVars, infoVars,
     sentinelVars, historyVars, proxyVars, Checking, HasView, View, NoView,
     ChecksWellFormed, GenerationsAgree, AckMeansClosed
<1>1. ASSUME NEW p \in Proxies, CheckStart(p)
      PROVE  AckMeansClosed'
  BY <1>1 DEF CheckStart
<1>2. ASSUME NEW p \in Proxies, CheckRead(p)
      PROVE  AckMeansClosed'
  BY <1>2 DEF CheckRead
<1>3. ASSUME NEW p \in Proxies, PutInfo(p)
      PROVE  AckMeansClosed'
  BY <1>3 DEF PutInfo
<1>4. ASSUME NEW p \in Proxies, CheckEnd(p)
      PROVE  AckMeansClosed'
  BY <1>4 DEF CheckEnd, EndCheck
<1>5. ASSUME NEW p \in Proxies, CheckTimeout(p)
      PROVE  AckMeansClosed'
  BY <1>5 DEF CheckTimeout, EndCheck, Fault, Checking
<1>6. ASSUME NEW p \in Proxies, CheckError(p)
      PROVE  AckMeansClosed'
  BY <1>6 DEF CheckError, EndCheck, Fault, Checking
<1>7. ASSUME NEW p \in Proxies, Crash(p)
      PROVE  AckMeansClosed'
  BY <1>7 DEF Crash, Fault
<1>8. ASSUME NEW p \in Proxies, Expire(p)
      PROVE  AckMeansClosed'
  BY <1>8 DEF Expire
<1>9. ASSUME NEW m \in DBs, Elect(m)
      PROVE  AckMeansClosed'
  BY <1>9 DEF Elect, EndSentinelCheck
<1>10. CASE SentinelRead
  BY <1>10 DEF SentinelRead, ActiveProxies
<1>11. CASE Publish
  BY <1>11 DEF Publish, EndSentinelCheck
<1>12. CASE KeepProxies
  BY <1>12 DEF KeepProxies, EndSentinelCheck
<1>13. CASE EnableProxies
  BY <1>13 DEF EnableProxies, EndSentinelCheck
<1>14. CASE SentinelSkip
  BY <1>14 DEF SentinelSkip, EndSentinelCheck, Fault
<1>15. CASE LeaderChange
  BY <1>15 DEF LeaderChange, Fault
<1>16. CASE Tick
  BY <1>16 DEF Tick, Older, Checking
<1>17. CASE UNCHANGED vars
  BY <1>17
<1>18. QED
  BY <1>1, <1>2, <1>3, <1>4, <1>5, <1>6, <1>7, <1>8, <1>9, <1>10, <1>11, <1>12, <1>13,
       <1>14, <1>15, <1>16, <1>17, ZenonT(30) DEF Next, Check, Sentinel

\* While a proxy routes, its info is younger than what makes it inactive.
LEMMA RecentStep ==
    ASSUME TimingSafe, TypeOK, ChecksWellFormed, RoutingIsRecent, [Next]_vars
    PROVE  RoutingIsRecent'
<1> USE TimingAssumption, SetAssumption DEF TypeOK, vars, cdVars, infoVars,
     sentinelVars, historyVars, proxyVars, Checking, HasView, View, NoView, TimingSafe,
     InfoTTL, AgeCap, ChecksWellFormed, RoutingIsRecent
<1>1. ASSUME NEW p \in Proxies, CheckStart(p)
      PROVE  RoutingIsRecent'
  BY <1>1 DEF CheckStart
<1>2. ASSUME NEW p \in Proxies, CheckRead(p)
      PROVE  RoutingIsRecent'
  BY <1>2 DEF CheckRead
<1>3. ASSUME NEW p \in Proxies, PutInfo(p)
      PROVE  RoutingIsRecent'
  BY <1>3 DEF PutInfo
<1>4. ASSUME NEW p \in Proxies, CheckEnd(p)
      PROVE  RoutingIsRecent'
  <2>1. /\ pc[p] = "replying" /\ pc' = [pc EXCEPT ![p] = "idle"]
        /\ idleAge' = [idleAge EXCEPT ![p] = 0]
        /\ \E r : route' = [route EXCEPT ![p] = r]
        /\ checkAge' = [checkAge EXCEPT ![p] = 0]
        /\ readAge' = [readAge EXCEPT ![p] = 0]
        /\ UNCHANGED <<known, infoAge, seen, seenAge>>
    BY <1>4, ZenonT(30) DEF CheckEnd, EndCheck
  <2>2. pc'[p] = "idle" /\ idleAge'[p] = 0
    BY <2>1
  <2>3. p \in known /\ infoAge[p] <= StoreLatency
    BY <2>1
  <2>4. \A q \in Proxies \ {p} : /\ pc'[q] = pc[q] /\ idleAge'[q] = idleAge[q]
                                  /\ route'[q] = route[q] /\ checkAge'[q] = checkAge[q]
                                  /\ readAge'[q] = readAge[q]
    BY <2>1
  <2>5. QED
    BY <2>1, <2>2, <2>3, <2>4
<1>5. ASSUME NEW p \in Proxies, CheckTimeout(p)
      PROVE  RoutingIsRecent'
  BY <1>5 DEF CheckTimeout, EndCheck, Fault, Checking
<1>6. ASSUME NEW p \in Proxies, CheckError(p)
      PROVE  RoutingIsRecent'
  BY <1>6 DEF CheckError, EndCheck, Fault, Checking
<1>7. ASSUME NEW p \in Proxies, Crash(p)
      PROVE  RoutingIsRecent'
  BY <1>7 DEF Crash, Fault
<1>8. ASSUME NEW p \in Proxies, Expire(p)
      PROVE  RoutingIsRecent'
  BY <1>8 DEF Expire
<1>e. ASSUME EndSentinelCheck
      PROVE  RoutingIsRecent'
  BY <1>e, ZenonT(30) DEF EndSentinelCheck
<1>9. ASSUME NEW m \in DBs, Elect(m)
      PROVE  RoutingIsRecent'
  BY <1>e, <1>9, ZenonT(30) DEF Elect
<1>10. CASE SentinelRead
  BY <1>10 DEF SentinelRead, ActiveProxies
<1>11. CASE Publish
  BY <1>e, <1>11, ZenonT(30) DEF Publish
<1>12. CASE KeepProxies
  BY <1>e, <1>12, ZenonT(30) DEF KeepProxies
<1>13. CASE EnableProxies
  BY <1>e, <1>13, ZenonT(30) DEF EnableProxies
<1>14. CASE SentinelSkip
  BY <1>e, <1>14, ZenonT(30) DEF SentinelSkip
<1>15. CASE LeaderChange
  BY <1>15 DEF LeaderChange, Fault
<1>16. CASE Tick
  BY <1>16 DEF Tick, Older, Checking
<1>17. CASE UNCHANGED vars
  BY <1>17
<1>18. QED
  BY <1>1, <1>2, <1>3, <1>4, <1>5, <1>6, <1>7, <1>8, <1>9, <1>10, <1>11, <1>12, <1>13,
       <1>14, <1>15, <1>16, <1>17, ZenonT(30) DEF Next, Check, Sentinel

\* A check that overlaps a write of the sentinel is over before its next read.
LEMMA StaleStep ==
    ASSUME TimingSafe, TypeOK, ChecksWellFormed, GenerationsAgree, StaleViewsAreOld,
         [Next]_vars
    PROVE  StaleViewsAreOld'
<1> USE TimingAssumption, SetAssumption DEF TypeOK, vars, cdVars, infoVars,
     sentinelVars, historyVars, proxyVars, Checking, HasView, View, NoView, TimingSafe,
     ChecksWellFormed, GenerationsAgree, StaleViewsAreOld
<1>1. ASSUME NEW p \in Proxies, CheckStart(p)
      PROVE  StaleViewsAreOld'
  BY <1>1 DEF CheckStart
<1>2. ASSUME NEW p \in Proxies, CheckRead(p)
      PROVE  StaleViewsAreOld'
  BY <1>2 DEF CheckRead
<1>3. ASSUME NEW p \in Proxies, PutInfo(p)
      PROVE  StaleViewsAreOld'
  BY <1>3 DEF PutInfo
<1>4. ASSUME NEW p \in Proxies, CheckEnd(p)
      PROVE  StaleViewsAreOld'
  BY <1>4 DEF CheckEnd, EndCheck
<1>5. ASSUME NEW p \in Proxies, CheckTimeout(p)
      PROVE  StaleViewsAreOld'
  BY <1>5 DEF CheckTimeout, EndCheck, Fault, Checking
<1>6. ASSUME NEW p \in Proxies, CheckError(p)
      PROVE  StaleViewsAreOld'
  BY <1>6 DEF CheckError, EndCheck, Fault, Checking
<1>7. ASSUME NEW p \in Proxies, Crash(p)
      PROVE  StaleViewsAreOld'
  BY <1>7 DEF Crash, Fault
<1>8. ASSUME NEW p \in Proxies, Expire(p)
      PROVE  StaleViewsAreOld'
  BY <1>8 DEF Expire
<1>e. ASSUME EndSentinelCheck
      PROVE  StaleViewsAreOld'
  <2>1. \A p \in Proxies : readAge[p] >= 0
    OBVIOUS
  <2>2. spc' = "sleep" /\ sleepAge' = 0 /\ UNCHANGED <<pc, view, readAge>>
    BY <1>e, ZenonT(30) DEF EndSentinelCheck
  <2>3. QED
    BY <2>1, <2>2, ZenonT(30)
<1>9. ASSUME NEW m \in DBs, Elect(m)
      PROVE  StaleViewsAreOld'
  BY <1>e, <1>9, ZenonT(30) DEF Elect
<1>10. CASE SentinelRead
  BY <1>10 DEF SentinelRead, ActiveProxies
<1>11. CASE Publish
  BY <1>e, <1>11, ZenonT(30) DEF Publish
<1>12. CASE KeepProxies
  BY <1>e, <1>12, ZenonT(30) DEF KeepProxies
<1>13. CASE EnableProxies
  BY <1>e, <1>13, ZenonT(30) DEF EnableProxies
<1>14. CASE SentinelSkip
  BY <1>e, <1>14, ZenonT(30) DEF SentinelSkip
<1>15. CASE LeaderChange
  BY <1>15 DEF LeaderChange, Fault
<1>16. CASE Tick
  BY <1>16 DEF Tick, Older, Checking
<1>17. CASE UNCHANGED vars
  BY <1>17
<1>18. QED
  BY <1>1, <1>2, <1>3, <1>4, <1>5, <1>6, <1>7, <1>8, <1>9, <1>10, <1>11, <1>12, <1>13,
       <1>14, <1>15, <1>16, <1>17, ZenonT(30) DEF Next, Check, Sentinel

\* The sentinel's snapshot of unconverged proxies covers all that route.
LEMMA UnconvergedStep ==
    ASSUME TimingSafe, TypeOK, ChecksWellFormed, GenerationsAgree, AckMeansClosed,
         RoutingIsRecent,
           StaleViewsAreOld, RoutingIsUnconverged, [Next]_vars
    PROVE  RoutingIsUnconverged'
<1> USE TimingAssumption, SetAssumption DEF TypeOK, vars, cdVars, infoVars,
     sentinelVars, historyVars, proxyVars, Checking, HasView, View, NoView, TimingSafe,
     InfoTTL, ChecksWellFormed, GenerationsAgree, AckMeansClosed, RoutingIsRecent,
     StaleViewsAreOld, RoutingIsUnconverged
<1>1. ASSUME NEW p \in Proxies, CheckStart(p)
      PROVE  RoutingIsUnconverged'
  BY <1>1 DEF CheckStart
<1>2. ASSUME NEW p \in Proxies, CheckRead(p)
      PROVE  RoutingIsUnconverged'
  BY <1>2 DEF CheckRead
<1>3. ASSUME NEW p \in Proxies, PutInfo(p)
      PROVE  RoutingIsUnconverged'
  BY <1>3 DEF PutInfo
<1>4. ASSUME NEW p \in Proxies, CheckEnd(p)
      PROVE  RoutingIsUnconverged'
  BY <1>4, ZenonT(30) DEF CheckEnd, EndCheck
<1>5. ASSUME NEW p \in Proxies, CheckTimeout(p)
      PROVE  RoutingIsUnconverged'
  BY <1>5, ZenonT(30) DEF CheckTimeout, EndCheck, Fault, Checking
<1>6. ASSUME NEW p \in Proxies, CheckError(p)
      PROVE  RoutingIsUnconverged'
  BY <1>6, ZenonT(30) DEF CheckError, EndCheck, Fault, Checking
<1>7. ASSUME NEW p \in Proxies, Crash(p)
      PROVE  RoutingIsUnconverged'
  BY <1>7 DEF Crash, Fault
<1>8. ASSUME NEW p \in Proxies, Expire(p)
      PROVE  RoutingIsUnconverged'
  BY <1>8 DEF Expire
<1>9. ASSUME NEW m \in DBs, Elect(m)
      PROVE  RoutingIsUnconverged'
  BY <1>9 DEF Elect, EndSentinelCheck
<1>10. CASE SentinelRead
  <2>1. /\ unconverged' = {p \in ActiveProxies : infoGen[p] # pxGen}
        /\ UNCHANGED <<pxMaster, route>>
    BY <1>10 DEF SentinelRead
  <2>2. ASSUME pxMaster = NoDB, NEW p \in Proxies, route[p] # NoDB
        PROVE  p \in ActiveProxies /\ infoGen[p] # pxGen
    BY <2>2 DEF ActiveProxies
  <2>. QED  BY <2>1, <2>2
<1>11. CASE Publish
  BY <1>11 DEF Publish, EndSentinelCheck
<1>12. CASE KeepProxies
  BY <1>12 DEF KeepProxies, EndSentinelCheck
<1>13. CASE EnableProxies
  BY <1>13 DEF EnableProxies, EndSentinelCheck
<1>14. CASE SentinelSkip
  BY <1>14 DEF SentinelSkip, EndSentinelCheck, Fault
<1>15. CASE LeaderChange
  BY <1>15 DEF LeaderChange, Fault
<1>16. CASE Tick
  BY <1>16 DEF Tick, Older, Checking
<1>17. CASE UNCHANGED vars
  BY <1>17
<1>18. QED
  BY <1>1, <1>2, <1>3, <1>4, <1>5, <1>6, <1>7, <1>8, <1>9, <1>10, <1>11, <1>12, <1>13,
       <1>14, <1>15, <1>16, <1>17, ZenonT(30) DEF Next, Check, Sentinel

\* The common destination changes only when there is none.
LEMMA TargetStep ==
    ASSUME TypeOK, GenerationsAgree, StaleViewsAreOld,
           RoutingIsUnconverged, OneTarget, [Next]_vars
    PROVE  OneTarget'
<1> USE TimingAssumption, SetAssumption DEF TypeOK, vars, cdVars, infoVars,
     sentinelVars, historyVars, proxyVars, Checking, HasView, View, NoView,
     GenerationsAgree, StaleViewsAreOld, RoutingIsUnconverged, OneTarget, Destinations
<1>1. ASSUME NEW p \in Proxies, CheckStart(p)
      PROVE  OneTarget'
  BY <1>1, ZenonT(30) DEF CheckStart
<1>2. ASSUME NEW p \in Proxies, CheckRead(p)
      PROVE  OneTarget'
  BY <1>2, ZenonT(30) DEF CheckRead
<1>3. ASSUME NEW p \in Proxies, PutInfo(p)
      PROVE  OneTarget'
  BY <1>3, ZenonT(30) DEF PutInfo
<1>4. ASSUME NEW p \in Proxies, CheckEnd(p)
      PROVE  OneTarget'
  BY <1>4, ZenonT(60) DEF CheckEnd, EndCheck
<1>5. ASSUME NEW p \in Proxies, CheckTimeout(p)
      PROVE  OneTarget'
  BY <1>5, ZenonT(30) DEF CheckTimeout, EndCheck, Fault, Checking
<1>6. ASSUME NEW p \in Proxies, CheckError(p)
      PROVE  OneTarget'
  BY <1>6, ZenonT(30) DEF CheckError, EndCheck, Fault, Checking
<1>7. ASSUME NEW p \in Proxies, Crash(p)
      PROVE  OneTarget'
  BY <1>7, ZenonT(30) DEF Crash, Fault
<1>8. ASSUME NEW p \in Proxies, Expire(p)
      PROVE  OneTarget'
  BY <1>8, ZenonT(30) DEF Expire
<1>9. ASSUME NEW m \in DBs, Elect(m)
      PROVE  OneTarget'
  BY <1>9, ZenonT(30) DEF Elect, EndSentinelCheck
<1>10. CASE SentinelRead
  BY <1>10, ZenonT(30) DEF SentinelRead, ActiveProxies
<1>11. CASE Publish
  <2>1. /\ spc = "decide" /\ pxMaster = NoDB /\ unconverged = {}
        /\ pxMaster' = master /\ master \in DBs
        /\ UNCHANGED <<pc, route, view>>
    BY <1>11, ZenonT(30) DEF Publish, EndSentinelCheck
  <2>2. ASSUME NEW p \in Proxies
        PROVE  Destinations(p) \subseteq {NoDB}
    <3>1. route[p] = NoDB
      BY <2>1, <2>2, ZenonT(30)
    <3>2. pc[p] \in HasView => view[p].gen = pxGen
      BY <2>1, <2>2, ZenonT(30)
    <3>3. pc[p] \in HasView => view[p].master = pxMaster
      BY <3>2
    <3>4. QED
      BY <2>1, <3>1, <3>3, ZenonT(30)
  <2>3. \A p \in Proxies : Destinations(p)' = Destinations(p)
    BY <2>1, ZenonT(30)
  <2>4. \A p \in Proxies : Destinations(p)' \subseteq {NoDB, master}
    BY <2>2, <2>3, ZenonT(30)
  <2>5. QED
    BY <2>1, <2>4, ZenonT(30)
<1>12. CASE KeepProxies
  BY <1>12, ZenonT(30) DEF KeepProxies, EndSentinelCheck
<1>13. CASE EnableProxies
  BY <1>13, ZenonT(30) DEF EnableProxies, EndSentinelCheck
<1>14. CASE SentinelSkip
  BY <1>14, ZenonT(30) DEF SentinelSkip, EndSentinelCheck, Fault
<1>15. CASE LeaderChange
  BY <1>15, ZenonT(30) DEF LeaderChange, Fault
<1>16. CASE Tick
  BY <1>16, ZenonT(30) DEF Tick, Older, Checking
<1>17. CASE UNCHANGED vars
  BY <1>17, ZenonT(30)
<1>18. QED
  BY <1>1, <1>2, <1>3, <1>4, <1>5, <1>6, <1>7, <1>8, <1>9, <1>10, <1>11, <1>12, <1>13,
       <1>14, <1>15, <1>16, <1>17, ZenonT(30) DEF Next, Check, Sentinel
-----------------------------------------------------------------------------
\* Theorems

\* Every reachable state is well typed: timers and contexts keep the ages of
\* checks within proxyCheckInterval, proxyTimeout and the store latency.
THEOREM TypeCorrect == Spec => []TypeOK
<1>1. ASSUME Init
      PROVE  TypeOK
  <2>1. NoView \in View
    BY SetAssumption DEF View, NoView
  <2>2. seen \in [Proxies -> BOOLEAN] /\ view \in [Proxies -> View]
    BY <1>1, <2>1, ZenonT(30) DEF Init
  <2>3. /\ infoAge \in [Proxies -> 0..AgeCap] /\ seenAge \in [Proxies -> 0..AgeCap]
        /\ sleepAge \in 0..SleepInterval
        /\ idleAge \in [Proxies -> 0..ProxyCheckInterval]
        /\ checkAge \in [Proxies -> 0..ProxyTimeout]
        /\ readAge \in [Proxies -> 0..StoreLatency]
        /\ elections \in 0..MaxElections /\ faults \in 0..MaxFaults
    BY <1>1, TimingAssumption, SetAssumption DEF Init, InfoTTL, AgeCap
  <2>4. /\ infoGen \in [Proxies -> Nat] /\ pxGen \in Nat
        /\ pc \in [Proxies -> Checking \cup {"idle", "dead"}]
        /\ route \in [Proxies -> DBs \cup {NoDB}]
    BY <1>1 DEF Init
  <2>. QED  BY <1>1, <2>2, <2>3, <2>4, ZenonT(30) DEF Init, TypeOK
<1>2. TypeOK /\ [Next]_vars => TypeOK'
  BY TypeStep
<1>3. QED
  BY <1>1, <1>2, PTL DEF Spec

\* Whatever the timing and the errors of the store: while no master is
\* published, a proxy info with the current generation means that the proxy has
\* closed its connections and will not reopen them to the old master.
THEOREM Acknowledged == Spec => []AckMeansClosed
<1> DEFINE Inv == ChecksWellFormed /\ GenerationsAgree /\ AckMeansClosed
<1>1. Init => Inv
  BY DEF Init, ChecksWellFormed, GenerationsAgree, AckMeansClosed, HasView
<1>2. TypeOK /\ Inv /\ [Next]_vars => Inv'
  BY ChecksStep, GenerationsStep, AckStep
<1>3. QED
  BY <1>1, <1>2, TypeCorrect, PTL DEF Spec

\* The inductive invariant of the handshake holds under TimingSafe.
THEOREM Handshake == TimingSafe => (Spec => []HandshakeInv)
<1> SUFFICES ASSUME TimingSafe PROVE Spec => []HandshakeInv
  OBVIOUS
<1>1. ASSUME Init PROVE HandshakeInv
  <2>1. ChecksWellFormed /\ GenerationsAgree /\ AckMeansClosed /\ RoutingIsUnconverged
    BY <1>1, SMTT(60) DEF Init, ChecksWellFormed, GenerationsAgree, AckMeansClosed,
       HasView, RoutingIsUnconverged
  <2>2. RoutingIsRecent /\ StaleViewsAreOld
    BY <1>1 DEF Init, RoutingIsRecent, StaleViewsAreOld, HasView
  <2>3. OneTarget
    BY <1>1 DEF Init, OneTarget, Destinations, HasView
  <2>4. QED
    BY <2>1, <2>2, <2>3 DEF HandshakeInv
<1>2. TypeOK /\ HandshakeInv /\ [Next]_vars => HandshakeInv'
  BY ChecksStep, GenerationsStep, AckStep, RecentStep, StaleStep,
     UnconvergedStep, TargetStep DEF HandshakeInv
<1>3. QED
  BY <1>1, <1>2, TypeCorrect, PTL DEF Spec

\* updateCluster publishes a new master only when no proxy routes to the old
\* one: for any number of proxies, elections, timeouts, crashes and leader
\* changes, under TimingSafe.
THEOREM Fenced == TimingSafe => (Spec => []FencedBeforePublish)
<1> SUFFICES ASSUME TimingSafe PROVE Spec => []FencedBeforePublish
  OBVIOUS
<1>1. HandshakeInv => FencedBeforePublish
  BY DEF HandshakeInv, OneTarget, Destinations, FencedBeforePublish
<1>2. QED
  BY <1>1, Handshake, PTL

\* No two proxies ever route clients to different databases.
THEOREM NoSplitRouting == TimingSafe => (Spec => []OneWritableTarget)
<1> SUFFICES ASSUME TimingSafe PROVE Spec => []OneWritableTarget
  OBVIOUS
<1>1. HandshakeInv => OneWritableTarget
  BY DEF HandshakeInv, OneTarget, Destinations, OneWritableTarget
<1>2. QED
  BY <1>1, Handshake, PTL

\* The proxies and the sentinel together implement WritableRouting: a step
\* either leaves the destinations alone, closes one, or opens one to the
\* database every other open destination has.
THEOREM ImplementsRouting == TimingSafe => (Spec => RoutingSpec)
<1> SUFFICES ASSUME TimingSafe PROVE Spec => RoutingSpec
  OBVIOUS
<1>1. Init => Abstract!Init
  BY DEF Init, Abstract!Init
<1>2. ASSUME TypeOK, HandshakeInv, [Next]_vars
      PROVE  [Abstract!Next]_route
  <2> USE DEF TypeOK, proxyVars, Abstract!Next, Abstract!Disconnect
  <2>1. ASSUME NEW p \in Proxies, CheckRead(p) PROVE [Abstract!Next]_route
    <3>1. route' = route \/ route' = [route EXCEPT ![p] = NoDB]
      BY <2>1, ZenonT(30) DEF CheckRead
    <3>. QED  BY <3>1
  <2>2. ASSUME NEW p \in Proxies, CheckEnd(p) PROVE [Abstract!Next]_route
    <3> DEFINE m == IF p \in view[p].enabled THEN view[p].master ELSE NoDB
    <3>1. route' = [route EXCEPT ![p] = m] /\ pc[p] \in HasView
      BY <2>2, ZenonT(30) DEF CheckEnd, HasView
    <3>2. m \in DBs \cup {NoDB}
      BY <1>2 DEF View
    <3>3. CASE m = NoDB
      BY <3>1, <3>3, ZenonT(30)
    <3>4. CASE m # NoDB
      <4>1. PICK t \in DBs : \A q \in Proxies : Destinations(q) \subseteq {NoDB, t}
        BY <1>2 DEF HandshakeInv, OneTarget
      <4>2. m = t /\ \A q \in Proxies : route[q] \in {NoDB, t}
        BY <3>1, <3>4, <4>1, ZenonT(30) DEF Destinations
      <4>3. Abstract!Connect(p, m)
        BY <3>1, <4>2, ZenonT(30) DEF Abstract!Connect
      <4>4. QED
        BY <3>2, <3>4, <4>3, ZenonT(30)
    <3>5. QED
      BY <3>3, <3>4
  <2>3. ASSUME NEW p \in Proxies, CheckTimeout(p) \/ Crash(p)
        PROVE  [Abstract!Next]_route
    BY <2>3 DEF CheckTimeout, Crash
  <2>4. ASSUME NEW p \in Proxies,
               CheckStart(p) \/ PutInfo(p) \/ CheckError(p) \/ Expire(p)
        PROVE  [Abstract!Next]_route
    BY <2>4, ZenonT(30) DEF CheckStart, PutInfo, CheckError, Expire
  <2>5. CASE \/ Sentinel \/ SentinelSkip \/ LeaderChange \/ Tick
             \/ \E m \in DBs : Elect(m)
    BY <2>5, ZenonT(30) DEF Sentinel, SentinelRead, Publish, KeepProxies, EnableProxies,
       SentinelSkip, LeaderChange, Tick, Elect, EndSentinelCheck
  <2>6. CASE UNCHANGED vars
    BY <2>6 DEF vars
  <2>7. QED
    BY <1>2, <2>1, <2>2, <2>3, <2>4, <2>5, <2>6 DEF Next, Check
<1>3. QED
  BY <1>1, <1>2, TypeCorrect, Handshake, PTL DEF Spec, RoutingSpec, Abstract!Spec
=============================================================================

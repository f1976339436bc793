---------------------- MODULE KeeperStateMachine_proofs ----------------------
(***************************************************************************)
(* The local state of a keeper can be trusted, and so can the sentinel's   *)
(* decisions that rest on it, for any number of databases and generations. *)
(*                                                                         *)
(* The argument: UIDs grow, so once the last database is there no step     *)
(* initialises over it; the points of a step that touch the directory are  *)
(* passed under a local state that says "initializing"; and a report that  *)
(* carries a generation was made when the database was there.              *)
(***************************************************************************)
EXTENDS KeeperStateMachine, TLAPS

\* Time enough for every step, however busy the machine is.
USE SMTT(30), ZenonT(30)

USE DEF NoUID, NoGeneration

LocalState == [uid: UIDs, gen: Gens, initializing: BOOLEAN, params: BOOLEAN]

\* The empty values are values of their types.
LEMMA NoneTypes ==
    /\ NoAssignment \in Assignment
    /\ NoReport \in Report
    /\ NoStatus \in Status
    /\ NoLocal \in LocalState
  BY KeeperAssumption
  DEF NoAssignment, Assignment, NoReport, Report, NoStatus, Status, NoLocal,
      LocalState, UIDs, Gens

\* The end of a step resets its variables to values of their types.
LEMMA ReturnType ==
    ASSUME Return
    PROVE  /\ pc' \in PC
           /\ cur' \in Assignment
           /\ rewound' \in BOOLEAN
           /\ again' \in BOOLEAN
<1>1. pc' \in PC /\ cur' \in Assignment
  BY NoneTypes DEF Return, PC
<1>2. rewound' \in BOOLEAN /\ again' \in BOOLEAN
  BY ZenonT(30) DEF Return
<1>. QED  BY <1>1, <1>2

\* What createPGParameters says of the initial parameters is a truth value.
LEMMA ParametersType == Parameters \in BOOLEAN
  BY ZenonT(30) DEF Parameters

\* Every action of the state machine step keeps the types.
LEMMA StepKeepsType ==
    ASSUME TypeOK, Step
    PROVE  TypeOK'
<1>. USE DEF TypeOK, cdVars, stepVars, dirVars, GoTo
<1>1. CASE StopAndWait /\ UNCHANGED <<cdVars, info, calm>>
  BY KeeperAssumption, ParametersType, <1>1 DEF StopAndWait
<1>2. CASE BeginStep /\ UNCHANGED <<cdVars, info, calm>>
  BY KeeperAssumption, ParametersType, <1>2 DEF BeginStep, PC, StopPoint
<1>3. CASE StopPostgres /\ UNCHANGED <<cdVars, info, calm>>
  BY KeeperAssumption, ParametersType, <1>3 DEF StopPostgres, PC, StopPoint, RemovePoint
<1>4. CASE RemoveAll /\ UNCHANGED <<cdVars, info, calm>>
  <2>1. signal' \in BOOLEAN /\ conf' \in BOOLEAN
    BY <1>4, ZenonT(30) DEF RemoveAll
  <2>. QED  BY <1>4, ParametersType, <2>1 DEF RemoveAll, PC, RemovePoint
<1>5. CASE ResetLocalState /\ UNCHANGED <<cdVars, info, calm>>
  BY KeeperAssumption, ParametersType, <1>5 DEF ResetLocalState, PC, NoLocal, UIDs, Gens
<1>6. CASE SameUID /\ UNCHANGED <<cdVars, info, calm>>
  BY KeeperAssumption, ParametersType, <1>6 DEF SameUID, PC
<1>7. CASE BeginInitialization /\ UNCHANGED <<cdVars, info, calm>>
  <2>1. rewound' \in BOOLEAN /\ again' \in BOOLEAN
    BY <1>7, ZenonT(30) DEF BeginInitialization
  <2>2. local' \in LocalState
    BY <1>7, KeeperAssumption DEF BeginInitialization, Assignment, LocalState, Gens
  <2>. QED  BY <1>7, ParametersType, <2>1, <2>2 DEF BeginInitialization, PC,
       StopPoint, LocalState, Assignment
<1>8. CASE InvariantBroken /\ UNCHANGED <<cdVars, info, calm>>
  BY <1>8, ReturnType DEF InvariantBroken
<1>9. CASE BeginFill /\ UNCHANGED <<cdVars, info, calm>>
  BY KeeperAssumption, ParametersType, <1>9 DEF BeginFill, PC
<1>10. CASE EndFill /\ UNCHANGED <<cdVars, info, calm>>
  BY KeeperAssumption, ParametersType, <1>10 DEF EndFill, PC, Assignment
<1>11. CASE StartTmpMerged /\ UNCHANGED <<cdVars, info, calm>>
  BY KeeperAssumption, ParametersType, <1>11 DEF StartTmpMerged, PC, WriteSignal
<1>12. CASE SaveInitParameters /\ UNCHANGED <<cdVars, info, calm>>
  BY KeeperAssumption, ParametersType, <1>12 DEF SaveInitParameters, PC, StopPoint,
       Assignment
<1>13. CASE BeginResync /\ UNCHANGED <<cdVars, info, calm>>
  <2>1. rewound' \in BOOLEAN
    BY <1>13, ZenonT(30) DEF BeginResync
  <2>2. pc' \in PC /\ dir' \in {"none", "partial", "full"}
    BY <1>13, ZenonT(30) DEF BeginResync, PC, RemovePoint
  <2>3. UNCHANGED <<cur, recovery, again, local, owner, signal, conf, pg>>
    BY <1>13 DEF BeginResync
  <2>. QED  BY <1>13, <2>1, <2>2, <2>3
<1>14. CASE EndRewind /\ UNCHANGED <<cdVars, info, calm>>
  BY KeeperAssumption, ParametersType, <1>14 DEF EndRewind, PC, RemovePoint, Assignment
<1>15. CASE BeginCopy /\ UNCHANGED <<cdVars, info, calm>>
  BY KeeperAssumption, ParametersType, <1>15 DEF BeginCopy, PC
<1>16. CASE EndCopy /\ UNCHANGED <<cdVars, info, calm>>
  BY KeeperAssumption, ParametersType, <1>16 DEF EndCopy, PC, Assignment
<1>17. CASE StartResynced /\ UNCHANGED <<cdVars, info, calm>>
  BY KeeperAssumption, ParametersType, <1>17 DEF StartResynced, PC, WriteSignal
<1>18. CASE CheckRewound /\ UNCHANGED <<cdVars, info, calm>>
  <2>1. again' \in BOOLEAN
    BY <1>18, ZenonT(30) DEF CheckRewound
  <2>. QED  BY <1>18, ParametersType, <2>1 DEF CheckRewound, PC, StopPoint
<1>19. CASE StartMaster /\ UNCHANGED <<cdVars, info, calm>>
  BY KeeperAssumption, ParametersType, <1>19 DEF StartMaster
<1>20. CASE Promote /\ UNCHANGED <<cdVars, info, calm>>
  <2>1. signal' \in BOOLEAN
    BY <1>20, ZenonT(30) DEF Promote
  <2>. QED  BY <1>20, ParametersType, <2>1 DEF Promote, PC
<1>21. CASE AlreadyMaster /\ UNCHANGED <<cdVars, info, calm>>
  BY KeeperAssumption, ParametersType, <1>21 DEF AlreadyMaster, PC
<1>22. CASE StartStandby /\ UNCHANGED <<cdVars, info, calm>>
  BY KeeperAssumption, ParametersType, <1>22 DEF StartStandby, PC
<1>23. CASE RoleRefused /\ UNCHANGED <<cdVars, info, calm>>
  BY <1>23, ReturnType DEF RoleRefused
<1>24. CASE Reload /\ UNCHANGED <<cdVars, info, calm>>
  BY KeeperAssumption, ParametersType, <1>24 DEF Reload, PC
<1>25. CASE SaveGeneration /\ UNCHANGED <<cdVars, info, calm>>
  <2>1. local' \in LocalState
    BY <1>25, KeeperAssumption, ZenonT(30) DEF SaveGeneration, Assignment, LocalState, Gens
  <2>. QED  BY <1>25, ParametersType, <2>1, ReturnType DEF SaveGeneration, LocalState
<1>. QED
  BY <1>1, <1>2, <1>3, <1>4, <1>5, <1>6, <1>7, <1>8, <1>9, <1>10, <1>11, <1>12, <1>13,
     <1>14, <1>15, <1>16, <1>17, <1>18, <1>19, <1>20, <1>21, <1>22, <1>23, <1>24,
          <1>25, ZenonT(30) DEF Step

\* What the sentinel assigns to a keeper is an assignment, with an empty status.
LEMMA AssignType ==
    ASSUME TypeOK, NEW mode \in InitMode \cup {"resync"},
           NEW role \in {"master", "standby"}, NEW includeConfig \in BOOLEAN,
           Assign(mode, role, includeConfig)
    PROVE  lastUID' \in UIDs /\ cd' \in Assignment /\ status' \in Status
<1>1. lastUID + 1 \in UIDs /\ 1 \in Gens
  BY KeeperAssumption DEF TypeOK, Assign, UIDs, Gens
<1>. QED
  BY <1>1, NoneTypes DEF TypeOK, Assign, Assignment, InitMode

\* So is what is left when it takes the database away.
LEMMA UnassignType ==
    ASSUME TypeOK, Unassign
    PROVE  cd' \in Assignment /\ status' \in Status
  BY NoneTypes DEF TypeOK, Unassign, Assignment

\* So is a changed assignment: the generations are bounded by MaxGen.
LEMMA ChangeType ==
    ASSUME TypeOK, NEW newcd \in Assignment, Change(newcd)
    PROVE  cd' \in Assignment
<1>1. cd.gen + 1 \in Gens
  BY KeeperAssumption DEF TypeOK, Change, Assignment, Gens
<1>. QED  BY <1>1 DEF Change, Assignment

\* The sentinel's decisions keep the types.
LEMMA UpdateClusterKeepsType ==
    ASSUME TypeOK, UpdateCluster
    PROVE  TypeOK'
<1>. USE DEF TypeOK, stepVars, dirVars
<1>a. UNCHANGED <<stepVars, local, dirVars, pg, info, calm>>
  BY DEF UpdateCluster
<1>1. CASE ChooseInitial
  <2>1. lastUID' \in UIDs /\ cd' \in Assignment /\ status' \in Status
    <3>1. PICK role \in {"master", "standby"} : Assign(initMode, role, TRUE)
      BY <1>1, ZenonT(30) DEF ChooseInitial
    <3>2. initMode \in InitMode \cup {"resync"}
      BY KeeperAssumption
    <3>. HIDE DEF TypeOK
    <3>. QED  BY <3>1, <3>2, AssignType, ZenonT(30)
  <2>. QED  BY <1>a, <1>1, <2>1 DEF ChooseInitial
<1>2. CASE InitialFailed
  BY <1>a, <1>2, UnassignType DEF InitialFailed
<1>3. CASE InitialConverged
  <2>1. [cd EXCEPT !.mode = "none", !.includeConfig = FALSE,
                   !.merged = status.params] \in Assignment
    BY ZenonT(30) DEF Assignment, Status
  <2>. QED  BY <1>a, <1>3, <2>1, ChangeType DEF InitialConverged
<1>4. CASE InitializedElsewhere
  <2>1. [cd EXCEPT !.merged = TRUE] \in Assignment
    BY ZenonT(30) DEF Assignment
  <2>. QED  BY <1>a, <1>4, <2>1 DEF InitializedElsewhere
<1>5. CASE AddStandby
  <2>1. lastUID' \in UIDs /\ cd' \in Assignment /\ status' \in Status
    BY <1>5, AssignType, ZenonT(30) DEF AddStandby
  <2>. QED  BY <1>a, <1>5, <2>1 DEF AddStandby
<1>6. CASE RemoveDB
  BY <1>a, <1>6, UnassignType DEF RemoveDB
<1>7. CASE CleanInitMode
  <2>1. [cd EXCEPT !.mode = "none"] \in Assignment
    BY DEF Assignment
  <2>. QED  BY <1>a, <1>7, <2>1, ChangeType DEF CleanInitMode
<1>8. CASE Elect
  <2>1. [cd EXCEPT !.role = "master"] \in Assignment
    BY DEF Assignment
  <2>. QED  BY <1>a, <1>8, <2>1, ChangeType DEF Elect
<1>9. CASE ChangeSpec
  BY <1>a, <1>9, ChangeType DEF ChangeSpec
<1>. QED
  BY <1>1, <1>2, <1>3, <1>4, <1>5, <1>6, <1>7, <1>8, <1>9 DEF UpdateCluster

\* Every step keeps the types.
LEMMA NextKeepsType ==
    ASSUME TypeOK, [Next]_vars
    PROVE  TypeOK'
<1>. USE DEF TypeOK, cdVars, stepVars, dirVars
<1>1. CASE UpdateKeepersStatus
  <2>1. (IF info.state.healthy THEN info.state.params ELSE status.params) \in BOOLEAN
    BY DEF Report, Status
  <2>2. status' \in Status
    BY <1>1, <2>1 DEF UpdateKeepersStatus, Report, Status, Assignment
  <2>. QED  BY <1>1, <2>2 DEF UpdateKeepersStatus
<1>2. CASE UpdateKeeperInfo
  <2>1. PICK healthy \in {FALSE, pg # "down"} :
           info' \in {[boot |-> TRUE, state |-> PGState(healthy)],
                      [boot |-> TRUE, state |-> NoReport]}
    BY <1>2, ZenonT(30) DEF UpdateKeeperInfo
  <2>2. healthy \in BOOLEAN /\ (healthy /\ conf) \in BOOLEAN
    BY ZenonT(30)
  <2>3. PGState(healthy) \in Report
    BY <2>2 DEF PGState, Report
  <2>5. \A r \in Report : [boot |-> TRUE, state |-> r] \in [boot: BOOLEAN, state: Report]
    OBVIOUS
  <2>4. info' \in [boot: BOOLEAN, state: Report]
    BY <2>1, <2>3, <2>5, NoneTypes, ZenonT(30)
  <2>. QED  BY <1>2, <2>4 DEF UpdateKeeperInfo
<1>3. CASE Fail
  <2>1. dir' \in {"none", "partial", "full"}
    BY <1>3, ZenonT(30) DEF Fail
  <2>4. pg' \in {"down", "tmp", "run"}
    BY <1>3, ZenonT(30) DEF Fail
  <2>2. signal' \in BOOLEAN
    BY <1>3, ZenonT(30) DEF Fail
  <2>3. conf' \in BOOLEAN
    BY <1>3, ParametersType, ZenonT(30) DEF Fail
  <2>. QED  BY <1>3, <2>1, <2>2, <2>3, ReturnType DEF Fail
<1>4. CASE KeeperRestart
  <2>1. info' \in [boot: BOOLEAN, state: Report]
    BY <1>4, ZenonT(30) DEF KeeperRestart
  <2>2. bootKnown' \in BOOLEAN
    BY <1>4, ZenonT(30) DEF KeeperRestart
  <2>. QED  BY <1>4, <2>1, <2>2, ReturnType DEF KeeperRestart
<1>5. CASE PostgresDies
  BY <1>5 DEF PostgresDies
<1>6. CASE CalmDown
  BY <1>6 DEF CalmDown
<1>7. CASE UNCHANGED vars
  BY <1>7 DEF vars
<1>. QED
  BY <1>1, <1>2, <1>3, <1>4, <1>5, <1>6, <1>7,
     StepKeepsType, UpdateClusterKeepsType DEF Next

\* What the invariant needs of the types: UIDs and generations are numbers.
Numbers ==
    /\ lastUID \in Nat
    /\ cd.uid \in Nat /\ cd.gen \in Nat
    /\ cur.uid \in Nat /\ cur.gen \in Nat
    /\ local.uid \in Nat /\ local.gen \in Nat
    /\ status.uid \in Nat /\ status.gen \in Nat
    /\ info.state.uid \in Nat /\ info.state.gen \in Nat

\* They are, in well typed states.
LEMMA TypeNumbers ==
    ASSUME TypeOK
    PROVE  Numbers
  BY KeeperAssumption
  DEF TypeOK, Numbers, Assignment, Report, Status, UIDs, Gens

\* A step of the keeper works on an assignment that is not older than the
\* database it has, under a local state that says what it does.
LEMMA StepKeepsMarks ==
    ASSUME Numbers, UIDOrder, StepMarked, ExistingFirst, Step
    PROVE  UIDOrder' /\ StepMarked'
<1>. USE DEF UIDOrder, StepMarked, Cleaning, Touching, Adopting, Applying, GoTo
<1>a. UNCHANGED <<lastUID, cd>>
  BY DEF Step, cdVars
<1>1. CASE pc' = "idle" /\ UNCHANGED local
  BY <1>a, <1>1
<1>2. CASE /\ UNCHANGED <<cur, local>>
           /\ \/ pc \in Touching /\ pc' \in Touching
              \/ pc \in Touching \cup Adopting \cup Applying /\ pc' \in Applying
  BY <1>a, <1>2
<1>3. CASE StopAndWait \/ InvariantBroken \/ RoleRefused
  BY <1>1, <1>3 DEF StopAndWait, InvariantBroken, RoleRefused, Return, stepVars
<1>4. CASE BeginStep
  BY <1>a, <1>4 DEF BeginStep, Numbers, ExistingFirst
<1>5. CASE StopPostgres
  BY <1>a, <1>5 DEF StopPostgres, StopPoint
<1>6. CASE RemoveAll
  BY <1>a, <1>6 DEF RemoveAll, RemovePoint
<1>7. CASE ResetLocalState
  BY <1>a, <1>7 DEF ResetLocalState, NoLocal, NoUID, NoGeneration, Numbers
<1>8. CASE SameUID
  BY <1>a, <1>8 DEF SameUID
<1>9. CASE BeginInitialization
  <2>1. /\ pc = "uid" /\ pc' = "initStop" /\ cur' = cur
        /\ local'.uid = cur.uid /\ local'.gen = NoGeneration
    BY <1>9 DEF BeginInitialization
  <2>2. local'.initializing <=> cur.mode # "existing"
    BY <1>9, ZenonT(30) DEF BeginInitialization
  <2>. QED  BY <1>a, <2>1, <2>2 DEF Numbers
<1>10. CASE BeginFill \/ BeginCopy
  BY <1>2, <1>10 DEF BeginFill, BeginCopy
<1>11. CASE EndFill
  BY <1>a, <1>11 DEF EndFill
<1>12. CASE StartTmpMerged
  BY <1>a, <1>12 DEF StartTmpMerged
<1>13. CASE SaveInitParameters
  BY <1>a, <1>13 DEF SaveInitParameters
<1>14. CASE BeginResync \/ EndRewind
  BY <1>2, <1>14, ZenonT(30) DEF BeginResync, EndRewind
<1>15. CASE EndCopy \/ StartResynced \/ CheckRewound
  BY <1>2, <1>15 DEF EndCopy, StartResynced, CheckRewound
<1>16. CASE StartMaster \/ Promote \/ AlreadyMaster \/ StartStandby \/ Reload
  BY <1>2, <1>16 DEF StartMaster, Promote, AlreadyMaster, StartStandby, Reload
<1>17. CASE SaveGeneration
  BY <1>a, <1>17 DEF SaveGeneration, Return, NoUID
<1>. QED
  BY <1>3, <1>4, <1>5, <1>6, <1>7, <1>8, <1>9, <1>10, <1>11, <1>12, <1>13, <1>14,
     <1>15, <1>16, <1>17, ZenonT(30) DEF Step

\* It knows what the data directory is at each point.
LEMMA StepKeepsData ==
    ASSUME Numbers, UIDOrder, StepMarked, StepData, ExistingFirst, LocalStateTruthful, Step
    PROVE  StepData'
<1>. USE DEF StepData, Applying, GoTo
<1>1. CASE StopAndWait \/ InvariantBroken \/ RoleRefused
  BY <1>1 DEF StopAndWait, InvariantBroken, RoleRefused, Return, stepVars
<1>2. CASE BeginStep
  BY <1>2 DEF BeginStep
<1>3. CASE StopPostgres
  BY <1>3 DEF StopPostgres, StopPoint, StepMarked, Adopting, LocalStateTruthful,
     UIDOrder, dirVars
<1>4. CASE RemoveAll
  BY <1>4 DEF RemoveAll, RemovePoint
<1>5. CASE ResetLocalState
  BY <1>5 DEF ResetLocalState
<1>6. CASE SameUID
  BY <1>6 DEF SameUID, StepMarked, LocalStateTruthful, UIDOrder, dirVars
<1>7. CASE BeginInitialization
  BY <1>7 DEF BeginInitialization
<1>8. CASE BeginFill \/ BeginCopy
  BY <1>8 DEF BeginFill, BeginCopy
<1>9. CASE EndFill
  BY <1>9 DEF EndFill
<1>10. CASE StartTmpMerged
  BY <1>10 DEF StartTmpMerged
<1>11. CASE SaveInitParameters
  BY <1>11 DEF SaveInitParameters
<1>12. CASE BeginResync
  BY <1>12, ZenonT(30) DEF BeginResync
<1>13. CASE EndRewind
  BY <1>13 DEF EndRewind
<1>14. CASE EndCopy
  BY <1>14 DEF EndCopy
<1>15. CASE StartResynced
  BY <1>15 DEF StartResynced
<1>16. CASE CheckRewound
  BY <1>16 DEF CheckRewound, dirVars
<1>17. CASE StartMaster \/ Promote \/ AlreadyMaster \/ StartStandby \/ Reload
  BY <1>17 DEF StartMaster, Promote, AlreadyMaster, StartStandby, Reload, dirVars
<1>18. CASE SaveGeneration
  BY <1>18 DEF SaveGeneration, Return
<1>. QED
  BY <1>1, <1>2, <1>3, <1>4, <1>5, <1>6, <1>7, <1>8, <1>9, <1>10, <1>11, <1>12, <1>13,
     <1>14, <1>15, <1>16, <1>17, <1>18, ZenonT(30) DEF Step

\* The steps of the state machine that write the local state or the directory.
LEMMA StepWrites ==
    ASSUME Step
    PROVE  \/ /\ UNCHANGED <<local, dir, owner>>
              /\ pc' = "idle" \/ (UNCHANGED cur /\ pc # "idle") \/ BeginStep
           \/ RemoveAll \/ ResetLocalState \/ BeginInitialization \/ BeginFill
           \/ EndFill \/ SaveInitParameters \/ BeginResync \/ EndRewind \/ BeginCopy
           \/ EndCopy \/ SaveGeneration
<1>. DEFINE Spares == /\ UNCHANGED <<local, dir, owner>>
                      /\ pc' = "idle" \/ (UNCHANGED cur /\ pc # "idle") \/ BeginStep
<1>1. StopAndWait \/ InvariantBroken \/ RoleRefused => Spares
  BY DEF StopAndWait, InvariantBroken, RoleRefused, Return, dirVars, stepVars
<1>4. BeginStep => Spares
  BY DEF BeginStep, dirVars
<1>2. StopPostgres \/ SameUID \/ StartTmpMerged \/ StartResynced \/ CheckRewound => Spares
  BY DEF StopPostgres, StopPoint, SameUID, StartTmpMerged, StartResynced, CheckRewound,
     dirVars
<1>3. StartMaster \/ Promote \/ AlreadyMaster \/ StartStandby \/ Reload => Spares
  BY DEF StartMaster, Promote, AlreadyMaster, StartStandby, Reload, dirVars
<1>. QED  BY <1>1, <1>2, <1>3, <1>4, ZenonT(30) DEF Step

\* It never leaves a local state that claims more than the directory has.
LEMMA StepKeepsTruth ==
    ASSUME UIDOrder, StepMarked, StepData, ExistingFirst, LocalStateTruthful, Step
    PROVE  LocalStateTruthful'
<1>. USE DEF LocalStateTruthful
<1>1. CASE UNCHANGED <<local, dir, owner>>
  BY <1>1
<1>2. CASE RemoveAll
  BY <1>2 DEF RemoveAll, RemovePoint, StepMarked, Cleaning, Touching
<1>3. CASE ResetLocalState
  BY <1>3 DEF ResetLocalState, NoLocal
<1>4. CASE BeginInitialization
  <2>1. /\ pc = "uid" /\ local.uid # cur.uid /\ dir' = dir
        /\ local'.uid = cur.uid
        /\ cur.mode = "existing" => owner' = cur.uid
    BY <1>4 DEF BeginInitialization
  <2>2. local'.initializing <=> cur.mode # "existing"
    BY <1>4, ZenonT(30) DEF BeginInitialization
  <2>. QED  BY <2>1, <2>2 DEF ExistingFirst
<1>5. CASE BeginFill
  BY <1>5 DEF BeginFill, StepMarked, Touching
<1>6. CASE EndFill
  BY <1>6 DEF EndFill, StepMarked, Touching
<1>7. CASE SaveInitParameters
  BY <1>7 DEF SaveInitParameters
<1>8. CASE BeginResync
  BY <1>8 DEF BeginResync, StepMarked, Touching
<1>9. CASE EndRewind
  BY <1>9 DEF EndRewind, StepMarked, Touching
<1>10. CASE BeginCopy
  BY <1>10 DEF BeginCopy, StepMarked, Touching
<1>11. CASE EndCopy
  BY <1>11 DEF EndCopy, StepMarked, Touching
<1>12. CASE SaveGeneration
  BY <1>12 DEF SaveGeneration, StepMarked, StepData, Applying, dirVars
<1>. QED
  BY <1>1, <1>2, <1>3, <1>4, <1>5, <1>6, <1>7, <1>8, <1>9, <1>10, <1>11, <1>12,
     StepWrites, ZenonT(30)

\* It does not touch the directory an existing cluster is built on.
LEMMA StepKeepsExisting ==
    ASSUME UIDOrder, StepMarked, StepData, ExistingFirst, Step
    PROVE  ExistingFirst'
<1>. USE DEF ExistingFirst, GoTo
<1>a. UNCHANGED <<initMode, phase, cd>>
  BY DEF Step, cdVars
<1>1. CASE /\ UNCHANGED <<local, dir, owner>>
           /\ pc' = "idle" \/ (UNCHANGED cur /\ pc # "idle")
  BY <1>a, <1>1
<1>13. CASE BeginStep
  BY <1>a, <1>13 DEF BeginStep, dirVars
<1>2. CASE RemoveAll
  BY <1>a, <1>2 DEF RemoveAll, RemovePoint, StepMarked, Cleaning, Touching
<1>3. CASE ResetLocalState
  BY <1>a, <1>3 DEF ResetLocalState, NoLocal, StepMarked, Cleaning, dirVars
<1>4. CASE BeginInitialization
  BY <1>a, <1>4, ZenonT(30) DEF BeginInitialization
<1>5. CASE BeginFill
  BY <1>a, <1>5 DEF BeginFill, StepMarked, Touching
<1>6. CASE EndFill
  BY <1>a, <1>6 DEF EndFill, StepMarked, Touching
<1>7. CASE SaveInitParameters
  BY <1>a, <1>7 DEF SaveInitParameters
<1>8. CASE BeginResync
  BY <1>a, <1>8, ZenonT(30) DEF BeginResync, StepMarked, Touching
<1>9. CASE EndRewind
  BY <1>a, <1>9 DEF EndRewind, StepMarked, Touching
<1>10. CASE BeginCopy
  BY <1>a, <1>10 DEF BeginCopy, StepMarked, Touching
<1>11. CASE EndCopy
  BY <1>a, <1>11 DEF EndCopy, StepMarked, Touching
<1>12. CASE SaveGeneration
  BY <1>a, <1>12 DEF SaveGeneration, Return, dirVars
<1>. QED
  BY <1>1, <1>13, <1>2, <1>3, <1>4, <1>5, <1>6, <1>7, <1>8, <1>9, <1>10, <1>11, <1>12,
     StepWrites, ZenonT(30)

\* Generations and roles are applied in the order they are assigned in.
LEMMA StepKeepsGenerations ==
    ASSUME Numbers, UIDOrder, StepMarked, GenerationOrder, RoleApplied, Step
    PROVE  GenerationOrder' /\ RoleApplied'
<1>. USE DEF GenerationOrder, RoleApplied, GoTo, Adopting
<1>a. UNCHANGED cd
  BY DEF Step, cdVars
<1>b. cd.uid # NoUID => cd.gen # NoGeneration
  BY ONLY Numbers, UIDOrder, SMTT(30) DEF Numbers, UIDOrder, NoGeneration
<1>1. CASE /\ UNCHANGED <<local, signal>>
           /\ \/ pc' = "idle"
              \/ UNCHANGED cur /\ pc # "idle" /\ pc' \notin Adopting \cup {"reload", "save"}
  BY <1>a, <1>1
<1>2. CASE BeginStep
  BY <1>a, <1>2 DEF BeginStep, dirVars, Numbers
<1>3. CASE StopPostgres
  BY <1>a, <1>3 DEF StopPostgres, StopPoint, dirVars
<1>4. CASE RemoveAll
  <2>1. local.gen = NoGeneration /\ (cd.uid # NoUID => cd.gen # NoGeneration)
    BY <1>4 DEF RemoveAll, RemovePoint, StepMarked, Cleaning, Touching, UIDOrder,
       NoGeneration
  <2>2. pc' \in {"cleanSave", "fill", "copy"} /\ pc # "idle"
    BY <1>4 DEF RemoveAll, RemovePoint
  <2>3. UNCHANGED <<cur, local>>
    BY <1>4 DEF RemoveAll
  <2>. QED  BY <1>a, <2>1, <2>2, <2>3
<1>5. CASE ResetLocalState
  BY <1>a, <1>5 DEF ResetLocalState, NoLocal, Numbers, NoGeneration, UIDOrder, NoUID,
     dirVars
<1>6. CASE BeginInitialization
  <2>1. /\ pc = "uid" /\ pc' = "initStop" /\ UNCHANGED <<cur, signal>>
        /\ local'.gen = NoGeneration
    BY <1>6 DEF BeginInitialization
  <2>2. NoGeneration <= cur.gen /\ NoGeneration <= cd.gen
    BY ONLY Numbers, SMTT(30) DEF Numbers, NoGeneration
  <2>. QED  BY <1>a, <1>b, <2>1, <2>2, ZenonT(30)
<1>7. CASE EndFill
  BY <1>a, <1>7 DEF EndFill, StepMarked, Touching
<1>8. CASE StartTmpMerged
  <2>1. pc = "tmp" /\ pc' = "tmpReady" /\ UNCHANGED <<cur, local>>
    BY <1>8, ZenonT(30) DEF StartTmpMerged
  <2>2. local.gen = NoGeneration
    BY <2>1, ZenonT(30)
  <2>. QED  BY <1>a, <1>b, <2>1, <2>2, ZenonT(30)
<1>9. CASE SaveInitParameters
  BY <1>a, <1>9 DEF SaveInitParameters
<1>10. CASE EndCopy \/ StartResynced
  <2>1. /\ pc \in Touching /\ UNCHANGED <<cur, local>>
        /\ pc' \in {"role", "syncStart", "syncWait"}
    BY <1>10, ZenonT(30) DEF EndCopy, StartResynced, Touching
  <2>2. local.gen = NoGeneration /\ pc # "idle"
    BY <2>1, ZenonT(30) DEF StepMarked, Touching
  <2>. QED  BY <1>a, <1>b, <2>1, <2>2, ZenonT(30)
<1>11. CASE Promote \/ AlreadyMaster \/ StartStandby
  <2>1. pc = "role" /\ pc' = "reload" /\ UNCHANGED <<cur, local>>
    BY <1>11, ZenonT(30) DEF Promote, AlreadyMaster, StartStandby
  <2>2. signal' <=> cur.role = "standby"
    <3>1. CASE Promote
      BY <3>1, ZenonT(30) DEF Promote
    <3>2. CASE AlreadyMaster
      <4>1. signal' = signal /\ ~signal /\ cur.role = "master"
        BY <3>2, ZenonT(30) DEF AlreadyMaster, dirVars
      <4>. QED  BY <4>1, ZenonT(30)
    <3>3. CASE StartStandby
      <4>1. signal' = signal /\ signal /\ cur.role = "standby"
        BY <3>3, ZenonT(30) DEF StartStandby
      <4>. QED  BY <4>1, ZenonT(30)
    <3>. QED  BY <1>11, <3>1, <3>2, <3>3, ZenonT(30)
  <2>3. /\ local.uid = cur.uid /\ local.gen <= cur.gen
        /\ cur.uid = cd.uid => cur.gen <= cd.gen /\ (cur.gen = cd.gen => cur.role = cd.role)
    BY <2>1, ZenonT(30) DEF StepMarked, Applying
  <2>4. local.uid = cd.uid /\ local.gen = cd.gen => cur.role = cd.role
    BY ONLY <2>3, Numbers, SMTT(30) DEF Numbers
  <2>. QED  BY <1>a, <2>1, <2>2, <2>3, <2>4, ZenonT(30)
<1>12. CASE Reload
  BY <1>a, <1>12 DEF Reload
<1>13. CASE SaveGeneration
  BY <1>a, <1>13 DEF SaveGeneration, Return, StepMarked, Applying, dirVars, Numbers
<1>14. CASE StopAndWait \/ InvariantBroken \/ RoleRefused
  BY <1>1, <1>14 DEF StopAndWait, InvariantBroken, RoleRefused, Return, dirVars, stepVars
<1>15. CASE SameUID \/ BeginFill \/ BeginCopy \/ StartMaster
  BY <1>1, <1>15 DEF SameUID, BeginFill, BeginCopy, StartMaster, dirVars
<1>16. CASE BeginResync \/ EndRewind \/ CheckRewound
  BY <1>1, <1>16, ZenonT(30) DEF BeginResync, EndRewind, CheckRewound, dirVars
<1>. QED
  BY <1>1, <1>2, <1>3, <1>4, <1>5, <1>6, <1>7, <1>8, <1>9, <1>10, <1>11, <1>12, <1>13,
     <1>14, <1>15, <1>16, ZenonT(30) DEF Step

\* What the sentinel was told, and concluded, stays true.
LEMMA StepKeepsReports ==
    ASSUME Numbers, UIDOrder, StepMarked, ReportsTrue, Step
    PROVE  ReportsTrue'
<1>. USE DEF ReportsTrue, LocalStateInvariant, ReportTruthful, Holds
<1>a. UNCHANGED <<phase, lastUID, cd, status, info>>
  BY DEF Step, cdVars
<1>1. CASE UNCHANGED <<local.uid, local.initializing>>
  BY <1>a, <1>1
<1>2. CASE ResetLocalState
  BY <1>a, <1>2 DEF ResetLocalState, StepMarked, Cleaning
<1>3. CASE BeginInitialization
  <2>1. local.uid # lastUID
    <3>1. local.uid # cur.uid /\ local.uid <= cur.uid /\ cur.uid <= lastUID
      BY <1>3, ZenonT(30) DEF BeginInitialization, UIDOrder
    <3>. QED  BY ONLY <3>1, Numbers, SMTT(30) DEF Numbers
  <2>2. cd.uid = NoUID \/ cd.uid = lastUID
    BY DEF UIDOrder
  <2>. QED  BY <1>a, <2>1, <2>2
<1>4. CASE \/ RemoveAll \/ BeginFill \/ EndFill \/ BeginResync
           \/ EndRewind \/ BeginCopy \/ EndCopy
  <2>1. UNCHANGED local
    BY <1>4, ZenonT(30)
    DEF RemoveAll, BeginFill, EndFill, BeginResync, EndRewind, BeginCopy, EndCopy
  <2>. QED  BY <1>1, <2>1
<1>6. CASE SaveInitParameters
  BY <1>a, <1>6 DEF SaveInitParameters
<1>5. CASE SaveGeneration
  BY <1>a, <1>5 DEF SaveGeneration, StepMarked, Applying
<1>. QED
  BY <1>1, <1>2, <1>3, <1>4, <1>5, <1>6, StepWrites, ZenonT(30)

\* Every action of the state machine step keeps the invariant.
LEMMA StepKeepsInv ==
    ASSUME TypeOK, LocalInv, Step
    PROVE  LocalInv'
  BY TypeNumbers, StepKeepsMarks, StepKeepsData, StepKeepsTruth,
     StepKeepsExisting, StepKeepsGenerations, StepKeepsReports, ZenonT(30)
  DEF LocalInv

\* A changed assignment is the same database in its next generation.
LEMMA ChangeFacts ==
    ASSUME TypeOK, NEW newcd \in Assignment, Change(newcd)
    PROVE  /\ cd'.gen = cd.gen + 1
           /\ cd'.uid = newcd.uid /\ cd'.mode = newcd.mode /\ cd'.role = newcd.role
  BY DEF Change, Assignment

\* A decision that concerns the assignment alone keeps what is said of the step,
\* the directory and the local state.
LEMMA DirectoryFrame ==
    ASSUME LocalInv, UNCHANGED <<pc, cur, rewound, local, dir, owner, pg>>
    PROVE  StepMarked' /\ StepData' /\ LocalStateTruthful'
  BY DEF LocalInv, StepMarked, StepData, LocalStateTruthful, Cleaning, Touching,
         Adopting, Applying

\* The invariant of a keeper that gets a new database.
LEMMA AssignKeepsInv ==
    ASSUME Numbers, LocalInv,
           UNCHANGED <<initMode, phase, stepVars, local, dirVars, pg, info>>,
           NEW mode, NEW role, NEW includeConfig, Assign(mode, role, includeConfig),
           mode # "none", cd.uid = NoUID,
           mode = "existing" <=> initMode = "existing" /\ phase = "initializing",
           phase = "normal" => role = "standby"
    PROVE  LocalInv'
<1>1. /\ lastUID' = lastUID + 1 /\ cd'.uid = lastUID + 1 /\ cd'.gen = 1
      /\ cd'.mode = mode /\ cd'.role = role
      /\ status'.uid = NoUID /\ status'.gen = NoGeneration
  BY DEF Assign, NoStatus
<1>2. UNCHANGED <<initMode, phase, pc, cur, rewound, local, dir, owner, signal,
                  pg, info>>
  BY DEF stepVars, dirVars
<1>3. StepMarked' /\ StepData' /\ LocalStateTruthful'
  BY <1>2, DirectoryFrame
<1>4. UIDOrder'
  <2>1. /\ local.uid <= lastUID
        /\ pc # "idle" => cur.uid # NoUID /\ local.uid <= cur.uid /\ cur.uid <= lastUID
    BY ZenonT(30) DEF LocalInv, UIDOrder
  <2>2. 1 >= 1 /\ (local.uid <= lastUID => local.uid <= lastUID')
        /\ (cur.uid <= lastUID => cur.uid <= lastUID')
    BY ONLY <1>1, Numbers, SMTT(30) DEF Numbers
  <2>. QED  BY <1>1, <1>2, <2>1, <2>2, ZenonT(30) DEF UIDOrder
<1>5. ExistingFirst'
  BY <1>1, <1>2 DEF LocalInv, ExistingFirst
<1>6. GenerationOrder' /\ RoleApplied'
  <2>1. local.uid <= lastUID /\ (pc # "idle" => cur.uid <= lastUID)
    BY ZenonT(30) DEF LocalInv, UIDOrder
  <2>2. local.uid # cd'.uid /\ (pc # "idle" => cur.uid # cd'.uid)
    BY ONLY <1>1, <2>1, Numbers, SMTT(30) DEF Numbers
  <2>. QED  BY <1>2, <2>2, ZenonT(30) DEF LocalInv, GenerationOrder, RoleApplied, Adopting
<1>7. ReportsTrue'
  <2>1. info.state.uid <= lastUID /\ (info.state.gen # NoGeneration => info.state.uid # NoUID)
    BY ZenonT(30) DEF LocalInv, ReportsTrue, ReportTruthful
  <2>2. info.state.uid <= lastUID' /\ info.state.uid # lastUID' /\ NoUID <= lastUID'
    BY ONLY <1>1, <2>1, Numbers, SMTT(30) DEF Numbers, NoUID
  <2>3. ReportTruthful(info.state)'
    BY <1>2, <2>1, <2>2, ZenonT(30) DEF ReportTruthful
  <2>4. ReportTruthful(status)'
    BY <1>1, <2>2, ZenonT(30) DEF ReportTruthful
  <2>. QED  BY <1>1, <1>2, <2>3, <2>4, ZenonT(30) DEF ReportsTrue, LocalStateInvariant
<1>. QED  BY <1>3, <1>4, <1>5, <1>6, <1>7 DEF LocalInv

\* The invariant of a keeper whose database is taken away.
LEMMA UnassignKeepsInv ==
    ASSUME Numbers, LocalInv, Unassign,
           UNCHANGED <<initMode, phase, lastUID, stepVars, local, dirVars, pg, info>>
    PROVE  LocalInv'
<1>1. /\ cd'.uid = NoUID /\ cd'.gen = NoGeneration /\ cd'.mode = "none"
      /\ status'.uid = NoUID /\ status'.gen = NoGeneration
  BY DEF Unassign, NoAssignment, NoStatus
<1>2. UNCHANGED <<initMode, phase, lastUID, pc, cur, rewound, local, dir, owner,
                  signal, pg, info>>
  BY DEF stepVars, dirVars
<1>3. StepMarked' /\ StepData' /\ LocalStateTruthful'
  BY <1>2, DirectoryFrame
<1>4. UIDOrder'
  BY <1>1, <1>2 DEF Numbers, LocalInv, UIDOrder
<1>5. ExistingFirst'
  BY <1>1, <1>2 DEF LocalInv, ExistingFirst
<1>6. GenerationOrder' /\ RoleApplied'
  BY <1>1, <1>2 DEF LocalInv, UIDOrder, GenerationOrder, RoleApplied, Adopting
<1>7. ReportsTrue'
  <2>1. ReportTruthful(info.state)'
    BY <1>2, ZenonT(30) DEF LocalInv, ReportsTrue, ReportTruthful, Holds
  <2>2. NoUID <= lastUID
    BY ONLY Numbers, SMTT(30) DEF Numbers, NoUID
  <2>3. ReportTruthful(status)'
    BY <1>1, <1>2, <2>2, ZenonT(30) DEF ReportTruthful
  <2>. QED  BY <1>1, <2>1, <2>3, ZenonT(30) DEF ReportsTrue, LocalStateInvariant
<1>. QED  BY <1>3, <1>4, <1>5, <1>6, <1>7 DEF LocalInv

\* The invariant of a keeper whose database gets a new generation.
LEMMA NewGenerationKeepsInv ==
    ASSUME Numbers, Numbers', LocalInv,
           UNCHANGED <<initMode, lastUID, status, stepVars, local, dirVars, pg, info>>,
           cd.uid # NoUID, cd'.uid = cd.uid, cd'.gen = cd.gen + 1,
           cd'.mode \in {cd.mode, "none"},
           phase' # phase => phase' = "normal" /\ cd'.mode = "none",
           phase' = phase => (cd'.mode = "existing" <=> cd.mode = "existing"),
           \/ cd'.mode = cd.mode /\ cd'.role = cd.role /\ phase' = phase
           \/ Holds(cd.uid)
    PROVE  LocalInv'
<1>2. UNCHANGED <<initMode, lastUID, status, pc, cur, rewound, local, dir, owner,
                  signal, pg, info>>
  BY DEF stepVars, dirVars
<1>3. StepMarked' /\ StepData' /\ LocalStateTruthful'
  BY <1>2, DirectoryFrame
<1>0. UIDOrder /\ ExistingFirst /\ GenerationOrder /\ RoleApplied /\ ReportsTrue
  BY DEF LocalInv
<1>9. cd'.gen >= 1 /\ cd'.gen > cd.gen
  BY ONLY Numbers, cd'.gen = cd.gen + 1, SMTT(30) DEF Numbers
<1>4. UIDOrder'
  <2>1. cd'.uid # NoUID => cd'.uid = lastUID' /\ cd'.gen >= 1
    BY <1>0, <1>2, <1>9, ZenonT(30) DEF UIDOrder
  <2>2. /\ local'.uid <= lastUID'
        /\ pc' # "idle" => cur'.uid # NoUID /\ local'.uid <= cur'.uid /\ cur'.uid <= lastUID'
    BY <1>0, <1>2, ZenonT(30) DEF UIDOrder
  <2>. QED  BY <2>1, <2>2 DEF UIDOrder
<1>5. ExistingFirst'
  <2>1. CASE phase' = phase
    BY <1>0, <1>2, <2>1, ZenonT(30) DEF ExistingFirst
  <2>2. CASE phase' # phase
    <3>1. phase' = "normal" /\ cd'.mode = "none" /\ Holds(cd.uid)
      BY <2>2, ZenonT(30)
    <3>2. cd.uid = lastUID /\ local.uid = cd.uid
      BY <1>0, <3>1, ZenonT(30) DEF UIDOrder, Holds
    <3>3. pc # "idle" => local.uid <= cur.uid /\ cur.uid <= lastUID
      BY <1>0, ZenonT(30) DEF UIDOrder
    <3>4. pc # "idle" => local.uid = cur.uid
      BY ONLY <3>2, <3>3, Numbers, SMTT(30) DEF Numbers
    <3>5. phase' # "initializing" /\ cd'.mode # "existing"
      BY <3>1
    <3>. QED  BY ONLY <1>2, <3>4, <3>5, ZenonT(30) DEF ExistingFirst
  <2>. QED  BY <2>1, <2>2, ZenonT(30)
<1>6. GenerationOrder'
  <2>1. \A g \in Nat : g <= cd.gen => g <= cd'.gen /\ g # cd'.gen
    BY ONLY Numbers, cd'.gen = cd.gen + 1, SMTT(30) DEF Numbers
  <2>2. cur.gen \in Nat /\ local.gen \in Nat
    BY ZenonT(30) DEF Numbers
  <2>. QED  BY <1>0, <1>2, <2>1, <2>2, ZenonT(30) DEF GenerationOrder, Adopting
<1>8. RoleApplied'
  <2>1. local.uid = cd.uid => local.gen <= cd.gen
    BY <1>0, ZenonT(30) DEF GenerationOrder
  <2>2. local.gen \in Nat /\ cd.gen \in Nat
    BY DEF Numbers
  <2>3. local.uid = cd.uid => local.gen # cd'.gen
    BY <2>1, <2>2
  <2>. QED  BY <1>2, <2>3, ZenonT(30) DEF RoleApplied
<1>7. ReportsTrue'
  <2>1. ReportTruthful(info.state)' /\ ReportTruthful(status)'
    BY <1>0, <1>2 DEF ReportsTrue, ReportTruthful, Holds
  <2>2. /\ status'.gen # NoGeneration => status'.uid = cd'.uid
        /\ LocalStateInvariant'
    BY <1>0, <1>2 DEF ReportsTrue, LocalStateInvariant, Holds
  <2>3. cd'.role = "master" /\ phase' = "normal" => Holds(cd.uid)
    BY <1>0 DEF ReportsTrue
  <2>. QED  BY <1>2, <2>1, <2>2, <2>3 DEF ReportsTrue, Holds
<1>. QED  BY <1>3, <1>4, <1>5, <1>6, <1>7, <1>8 DEF LocalInv

\* A database that has converged is there.
LEMMA ConvergedHolds ==
    ASSUME Numbers, LocalInv, Converged
    PROVE  Holds(cd.uid)
<1>1. cd.uid # NoUID /\ status.gen = cd.gen /\ cd.uid = lastUID /\ cd.gen >= 1
  BY ZenonT(30) DEF LocalInv, UIDOrder, Converged
<1>2. cd.gen # NoGeneration
  BY ONLY <1>1, Numbers, SMTT(30) DEF Numbers, NoGeneration
<1>3. /\ status.gen # NoGeneration => status.uid = cd.uid
      /\ status.gen # NoGeneration /\ status.uid = lastUID => Holds(lastUID)
  BY ZenonT(30) DEF LocalInv, ReportsTrue, ReportTruthful
<1>. QED  BY <1>1, <1>2, <1>3, ZenonT(30)

\* The sentinel's decisions keep the invariant.
LEMMA UpdateClusterKeepsInv ==
    ASSUME TypeOK, TypeOK', LocalInv, UpdateCluster
    PROVE  LocalInv'
<1>n. Numbers /\ Numbers'
  BY TypeNumbers, PTL
<1>a. UNCHANGED <<stepVars, local, dirVars, pg, info, calm>>
  BY DEF UpdateCluster
<1>c. cd \in Assignment /\ status.params \in BOOLEAN
  BY DEF TypeOK, Status
<1>1. CASE ChooseInitial
  <2>1. PICK role \in {"master", "standby"} : Assign(initMode, role, TRUE)
    BY <1>1, ZenonT(30) DEF ChooseInitial
  <2>2. /\ cd.uid = NoUID /\ initMode # "none" /\ phase = "initializing"
        /\ UNCHANGED <<initMode, phase>>
    BY <1>1, KeeperAssumption DEF ChooseInitial, TypeOK, InitMode
  <2>. QED  BY <1>n, <1>a, <2>1, <2>2, AssignKeepsInv, ZenonT(30)
<1>2. CASE InitialFailed
  BY <1>n, <1>a, <1>2, UnassignKeepsInv DEF InitialFailed
<1>3. CASE InitialConverged
  <2>. DEFINE newcd == [cd EXCEPT !.mode = "none", !.includeConfig = FALSE,
                                  !.merged = status.params]
  <2>1. newcd \in Assignment
    BY <1>c, ZenonT(30) DEF Assignment
  <2>2. newcd.uid = cd.uid /\ newcd.mode = "none" /\ newcd.role = cd.role
    BY <1>c DEF Assignment
  <2>3. /\ Change(newcd) /\ Converged /\ phase = "initializing" /\ phase' = "normal"
        /\ UNCHANGED <<initMode, lastUID, status>>
    BY <1>3 DEF InitialConverged
  <2>. HIDE DEF newcd
  <2>4. /\ cd'.gen = cd.gen + 1 /\ cd'.uid = cd.uid
        /\ cd'.mode = "none" /\ cd'.role = cd.role
    BY <2>1, <2>2, <2>3, ChangeFacts
  <2>. QED
    BY <1>n, <1>a, <2>3, <2>4, ConvergedHolds, NewGenerationKeepsInv DEF Converged
<1>4. CASE InitializedElsewhere
  <2>1. UNCHANGED <<initMode, lastUID, status, pc, cur, rewound, local, dir, owner,
                    signal, pg, info>>
    BY <1>a, <1>4 DEF InitializedElsewhere, stepVars, dirVars
  <2>2. /\ cd'.uid = cd.uid /\ cd'.gen = cd.gen /\ cd'.mode = cd.mode
        /\ cd'.role = cd.role
    BY <1>c, <1>4 DEF InitializedElsewhere, Assignment
  <2>3. /\ cd.uid = NoUID /\ initMode # "existing"
        /\ phase = "initializing" /\ phase' = "normal"
    BY <1>4 DEF InitializedElsewhere
  <2>4. StepMarked' /\ StepData' /\ LocalStateTruthful'
    BY <2>1, DirectoryFrame
  <2>5. UIDOrder' /\ ExistingFirst'
    BY <2>1, <2>2, <2>3 DEF LocalInv, UIDOrder, ExistingFirst
  <2>6. GenerationOrder' /\ RoleApplied'
    BY <2>1, <2>2 DEF LocalInv, GenerationOrder, RoleApplied, Adopting
  <2>7. ReportsTrue'
    BY <2>1, <2>2, <2>3
    DEF LocalInv, ReportsTrue, ReportTruthful, LocalStateInvariant, Holds
  <2>. QED  BY <2>4, <2>5, <2>6, <2>7 DEF LocalInv
<1>5. CASE AddStandby
  BY <1>n, <1>a, <1>5, AssignKeepsInv, ZenonT(30) DEF AddStandby
<1>6. CASE RemoveDB
  BY <1>n, <1>a, <1>6, UnassignKeepsInv DEF RemoveDB
<1>7. CASE CleanInitMode
  <2>. DEFINE newcd == [cd EXCEPT !.mode = "none"]
  <2>1. newcd \in Assignment
    BY <1>c DEF Assignment
  <2>2. newcd.uid = cd.uid /\ newcd.mode = "none" /\ newcd.role = cd.role
    BY <1>c DEF Assignment
  <2>3. /\ Change(newcd) /\ Converged /\ phase = "normal"
        /\ UNCHANGED <<initMode, phase, lastUID, status>>
    BY <1>7 DEF CleanInitMode
  <2>. HIDE DEF newcd
  <2>4. /\ cd'.gen = cd.gen + 1 /\ cd'.uid = cd.uid
        /\ cd'.mode = "none" /\ cd'.role = cd.role
    BY <2>1, <2>2, <2>3, ChangeFacts
  <2>5. cd.mode # "existing"
    BY <2>3 DEF LocalInv, ExistingFirst
  <2>. QED
    BY <1>n, <1>a, <2>3, <2>4, <2>5, ConvergedHolds, NewGenerationKeepsInv
    DEF Converged
<1>8. CASE Elect
  <2>. DEFINE newcd == [cd EXCEPT !.role = "master"]
  <2>1. newcd \in Assignment
    BY <1>c DEF Assignment
  <2>2. newcd.uid = cd.uid /\ newcd.mode = cd.mode
    BY <1>c DEF Assignment
  <2>3. /\ Change(newcd) /\ cd.uid # NoUID /\ phase = "normal"
        /\ Converged \/ cd.mode = "none"
        /\ UNCHANGED <<initMode, phase, lastUID, status>>
    BY <1>8 DEF Elect
  <2>. HIDE DEF newcd
  <2>4. cd'.gen = cd.gen + 1 /\ cd'.uid = cd.uid /\ cd'.mode = cd.mode
    BY <2>1, <2>2, <2>3, ChangeFacts
  <2>5. Holds(cd.uid)
    BY <1>n, <2>3, ConvergedHolds DEF LocalInv, ReportsTrue, LocalStateInvariant, Holds
  <2>. QED
    BY <1>n, <1>a, <2>3, <2>4, <2>5, NewGenerationKeepsInv
<1>9. CASE ChangeSpec
  <2>1. /\ Change(cd) /\ cd.uid # NoUID
        /\ UNCHANGED <<initMode, phase, lastUID, status>>
    BY <1>9 DEF ChangeSpec
  <2>2. /\ cd'.gen = cd.gen + 1 /\ cd'.uid = cd.uid
        /\ cd'.mode = cd.mode /\ cd'.role = cd.role
    BY <1>c, <2>1, ChangeFacts
  <2>. QED
    BY <1>n, <1>a, <2>1, <2>2, NewGenerationKeepsInv
<1>. QED
  BY <1>1, <1>2, <1>3, <1>4, <1>5, <1>6, <1>7, <1>8, <1>9, ZenonT(30) DEF UpdateCluster

\* What a return from the step leaves is between two steps.
LEMMA ReturnKeepsInv ==
    ASSUME Numbers, LocalInv, pc' = "idle",
           UNCHANGED <<initMode, phase, lastUID, cd, status, local, owner, info.state>>,
           dir' = dir \/ local.initializing,
           signal' = signal \/ local.gen = NoGeneration
    PROVE  LocalInv'
<1>1. UIDOrder' /\ StepMarked' /\ StepData'
  BY DEF LocalInv, UIDOrder, StepMarked, StepData, Cleaning, Touching, Adopting, Applying
<1>2. ExistingFirst' /\ LocalStateTruthful'
  BY DEF LocalInv, ExistingFirst, LocalStateTruthful
<1>3. GenerationOrder' /\ RoleApplied'
  <2>1. cd.uid # NoUID => cd.gen >= 1
    BY ZenonT(30) DEF LocalInv, UIDOrder
  <2>2. cd.uid # NoUID => cd.gen # NoGeneration
    BY ONLY <2>1, Numbers, SMTT(30) DEF Numbers, NoGeneration
  <2>3. GenerationOrder'
    BY ZenonT(30) DEF LocalInv, GenerationOrder, Adopting
  <2>4. RoleApplied'
    <3>1. CASE signal' = signal
      BY <3>1, ZenonT(30) DEF LocalInv, RoleApplied
    <3>2. CASE local.gen = NoGeneration
      BY <2>2, <3>2, ZenonT(30) DEF RoleApplied
    <3>. QED  BY <3>1, <3>2
  <2>. QED  BY <2>3, <2>4
<1>4. ReportsTrue'
  BY ZenonT(30) DEF LocalInv, ReportsTrue, ReportTruthful, LocalStateInvariant, Holds
<1>. QED  BY <1>1, <1>2, <1>3, <1>4 DEF LocalInv

\* What a status and a report say.
LEMMA StatusFields ==
    ASSUME NEW u, NEW g, NEW p
    PROVE  LET s == [uid |-> u, gen |-> g, params |-> p]
           IN  s.uid = u /\ s.gen = g
OBVIOUS

LEMMA ReportFields ==
    ASSUME NEW u, NEW g, NEW h, NEW p
    PROVE  LET r == [uid |-> u, gen |-> g, healthy |-> h, params |-> p]
           IN  r.uid = u /\ r.gen = g
OBVIOUS

\* Every step keeps the invariant.
LEMMA NextKeepsInv ==
    ASSUME TypeOK, TypeOK', LocalInv, [Next]_vars
    PROVE  LocalInv'
<1>n. Numbers
  BY TypeNumbers
<1>1. CASE UpdateKeepersStatus
  <2>1. UNCHANGED <<initMode, phase, lastUID, cd, pc, cur, rewound, local, dir, owner,
                    signal, pg, info>>
    BY <1>1 DEF UpdateKeepersStatus, stepVars, dirVars
  <2>2. \/ status' = status
        \/ status'.uid = cd.uid /\ status'.gen = info.state.gen
              /\ info.state.uid = cd.uid
    <3>1. \/ status' = status
          \/ /\ info.state.uid = cd.uid
             /\ \E b : status' = [uid |-> cd.uid, gen |-> info.state.gen, params |-> b]
      BY <1>1, ZenonT(30) DEF UpdateKeepersStatus
    <3>2. ASSUME NEW b, status' = [uid |-> cd.uid, gen |-> info.state.gen, params |-> b]
          PROVE  status'.uid = cd.uid /\ status'.gen = info.state.gen
      BY ONLY <3>2, StatusFields, ZenonT(30)
    <3>. QED  BY ONLY <3>1, <3>2, ZenonT(30)
  <2>3. StepMarked' /\ StepData' /\ LocalStateTruthful'
    BY <2>1, DirectoryFrame
  <2>4. UIDOrder' /\ ExistingFirst' /\ GenerationOrder' /\ RoleApplied'
    <3>1. UIDOrder' /\ ExistingFirst'
      BY <2>1, ZenonT(30) DEF LocalInv, UIDOrder, ExistingFirst
    <3>2. GenerationOrder' /\ RoleApplied'
      BY <2>1, ZenonT(30) DEF LocalInv, GenerationOrder, RoleApplied, Adopting
    <3>. QED  BY <3>1, <3>2
  <2>6. ReportsTrue
    BY DEF LocalInv
  <2>7. ReportTruthful(info.state)' /\ LocalStateInvariant'
    BY <2>1, <2>6, ZenonT(30) DEF ReportsTrue, ReportTruthful, LocalStateInvariant, Holds
  <2>8. ReportTruthful(status)' /\ (status'.gen # NoGeneration => status'.uid = cd'.uid)
    BY <2>1, <2>2, <2>6 DEF ReportsTrue, ReportTruthful, Holds
  <2>5. ReportsTrue'
    BY <2>1, <2>6, <2>7, <2>8, ZenonT(30) DEF ReportsTrue, Holds
  <2>. QED  BY <2>3, <2>4, <2>5 DEF LocalInv
<1>2. CASE UpdateKeeperInfo
  <2>1. UNCHANGED <<initMode, phase, lastUID, cd, status, pc, cur, rewound, local, dir,
                    owner, signal, pg>>
    BY <1>2, ZenonT(30) DEF UpdateKeeperInfo, cdVars, stepVars, dirVars
  <2>2. \/ info'.state.uid = local.uid /\ info'.state.gen = local.gen
        \/ info'.state.uid = NoUID /\ info'.state.gen = NoGeneration
    <3>1. PICK healthy \in {FALSE, pg # "down"} :
             info' \in {[boot |-> TRUE, state |-> PGState(healthy)],
                        [boot |-> TRUE, state |-> NoReport]}
      BY <1>2, ZenonT(30) DEF UpdateKeeperInfo
    <3>2. info'.state = PGState(healthy) \/ info'.state = NoReport
      BY ONLY <3>1, SMTT(30)
    <3>3. PGState(healthy).uid = local.uid /\ PGState(healthy).gen = local.gen
      BY ONLY ReportFields, ZenonT(30) DEF PGState
    <3>4. NoReport.uid = NoUID /\ NoReport.gen = NoGeneration
      BY ONLY ReportFields, ZenonT(30) DEF NoReport
    <3>5. CASE info'.state = PGState(healthy)
      BY ONLY <3>3, <3>5, ZenonT(30)
    <3>6. CASE info'.state = NoReport
      BY ONLY <3>4, <3>6, ZenonT(30)
    <3>. QED  BY ONLY <3>2, <3>5, <3>6, ZenonT(30)
  <2>3. StepMarked' /\ StepData' /\ LocalStateTruthful'
    BY <2>1, DirectoryFrame
  <2>4. UIDOrder' /\ ExistingFirst' /\ GenerationOrder' /\ RoleApplied'
    <3>1. UIDOrder' /\ ExistingFirst'
      BY <2>1, ZenonT(30) DEF LocalInv, UIDOrder, ExistingFirst
    <3>2. GenerationOrder' /\ RoleApplied'
      BY <2>1, ZenonT(30) DEF LocalInv, GenerationOrder, RoleApplied, Adopting
    <3>. QED  BY <3>1, <3>2
  <2>5. ReportTruthful(info.state)'
    <3>1. UIDOrder /\ StepMarked
      BY DEF LocalInv
    <3>2. /\ lastUID \in Nat /\ local.uid <= lastUID
          /\ local.gen # NoGeneration => local.uid # NoUID /\ ~local.initializing
      BY <1>n, <3>1 DEF Numbers, UIDOrder, StepMarked
    <3>3. CASE info'.state.uid = local.uid /\ info'.state.gen = local.gen
      BY <2>1, <3>2, <3>3 DEF ReportTruthful, Holds
    <3>4. CASE info'.state.uid = NoUID /\ info'.state.gen = NoGeneration
      BY <2>1, <3>2, <3>4 DEF ReportTruthful, NoUID
    <3>. QED  BY <2>2, <3>3, <3>4
  <2>6. ReportTruthful(status)' /\ LocalStateInvariant'
    BY <2>1 DEF LocalInv, ReportsTrue, ReportTruthful, LocalStateInvariant, Holds
  <2>7. ReportsTrue'
    BY <2>1, <2>5, <2>6 DEF LocalInv, ReportsTrue, Holds
  <2>. QED  BY <2>3, <2>4, <2>7 DEF LocalInv
<1>3. CASE Fail
  <2>1. /\ pc' = "idle"
        /\ UNCHANGED <<initMode, phase, lastUID, cd, status, local, owner, info>>
    BY <1>3 DEF Fail, Return, cdVars
  <2>2. dir' = dir \/ pc \in RemovePoint \cup {"filling"}
    BY <1>3, ZenonT(30) DEF Fail
  <2>3. signal' = signal \/ pc = "tmp" \/ pc = "syncStart"
    BY <1>3, ZenonT(30) DEF Fail
  <2>4. /\ pc \in RemovePoint \cup {"filling", "syncStart"} => local.initializing
        /\ pc \in {"tmp", "syncStart"} => local.gen = NoGeneration
    BY DEF LocalInv, StepMarked, GenerationOrder, RemovePoint, Cleaning, Touching,
         Adopting
  <2>. QED  BY <1>n, <2>1, <2>2, <2>3, <2>4, ReturnKeepsInv
<1>4. CASE KeeperRestart
  <2>1. info'.state = info.state
    BY <1>4 DEF KeeperRestart, TypeOK
  <2>2. /\ pc' = "idle"
        /\ UNCHANGED <<initMode, phase, lastUID, cd, status, local, owner, dir, signal>>
    BY <1>4 DEF KeeperRestart, Return, dirVars
  <2>. QED  BY <1>n, <2>1, <2>2, ReturnKeepsInv
<1>5. CASE UNCHANGED <<cdVars, stepVars, local, dirVars, info>> /\ pg' \in {pg, "down"}
  <2>1. UNCHANGED <<initMode, phase, lastUID, cd, status, pc, cur, rewound, local, dir,
                    owner, signal, info>>
    BY <1>5 DEF cdVars, stepVars, dirVars
  <2>2. UIDOrder' /\ StepMarked' /\ LocalStateTruthful' /\ ExistingFirst'
    BY <2>1 DEF LocalInv, UIDOrder, StepMarked, LocalStateTruthful, ExistingFirst,
                Cleaning, Touching, Adopting, Applying
  <2>3. StepData'
    BY <1>5, <2>1 DEF LocalInv, StepData, Applying
  <2>4. GenerationOrder' /\ RoleApplied'
    BY <2>1 DEF LocalInv, GenerationOrder, RoleApplied, Adopting
  <2>5. ReportsTrue'
    BY <2>1 DEF LocalInv, ReportsTrue, ReportTruthful, LocalStateInvariant, Holds
  <2>. QED  BY <2>2, <2>3, <2>4, <2>5 DEF LocalInv
<1>6. CASE PostgresDies
  BY <1>5, <1>6 DEF PostgresDies
<1>7. CASE CalmDown
  BY <1>5, <1>7 DEF CalmDown
<1>8. CASE UNCHANGED vars
  BY <1>5, <1>8 DEF vars
<1>. QED
  BY <1>1, <1>2, <1>3, <1>4, <1>6, <1>7, <1>8,
     StepKeepsInv, UpdateClusterKeepsInv, ZenonT(30) DEF Next

\* The types and the invariant hold initially.
LEMMA InitInv ==
    ASSUME Init
    PROVE  TypeOK /\ LocalInv
<1>1. bootKnown \in BOOLEAN /\ rewound \in BOOLEAN /\ again \in BOOLEAN
        /\ calm \in BOOLEAN
  BY ZenonT(30) DEF Init
<1>2. signal \in BOOLEAN /\ conf \in BOOLEAN
  BY ZenonT(30) DEF Init
<1>3. info \in [boot: BOOLEAN, state: Report]
  BY NoneTypes DEF Init
<1>4. TypeOK
  <2>1. NoUID \in UIDs
    BY ONLY KeeperAssumption, SMTT(30) DEF KeeperAssumption, UIDs, NoUID
  <2>2. lastUID \in UIDs /\ owner \in UIDs /\ pc \in PC
    BY <2>1, ZenonT(30) DEF Init, PC
  <2>3. dir \in {"none", "partial", "full"} /\ pg \in {"down", "tmp", "run"}
    BY ZenonT(30) DEF Init
  <2>4. initMode \in InitModes /\ phase \in {"initializing", "normal"}
          /\ recovery \in {"none", "recovery", "standby"}
    BY ZenonT(30) DEF Init
  <2>5. cd \in Assignment /\ cur \in Assignment /\ status \in Status /\ local \in LocalState
    BY NoneTypes, ZenonT(30) DEF Init
  <2>. QED
    BY <1>1, <1>2, <1>3, <2>2, <2>3, <2>4, <2>5, ZenonT(30) DEF TypeOK, LocalState
<1>5. /\ lastUID = NoUID /\ pc = "idle"
      /\ initMode = "existing" => dir = "full"
      /\ cd.uid = NoUID /\ cd.mode = "none" /\ phase = "initializing"
  BY DEF Init, NoAssignment
<1>6. /\ local.uid = NoUID /\ local.gen = NoGeneration /\ ~local.initializing
      /\ status.uid = NoUID /\ status.gen = NoGeneration
      /\ info.state.uid = NoUID /\ info.state.gen = NoGeneration
  BY DEF Init, NoLocal, NoStatus, NoReport
<1>7. UIDOrder /\ StepMarked /\ StepData
  <2>1. UIDOrder
    <3>1. NoUID <= NoUID
      BY SMTT(30) DEF NoUID
    <3>. QED  BY <1>5, <1>6, <3>1, ZenonT(30) DEF UIDOrder
  <2>2. StepMarked
    BY <1>5, <1>6, ZenonT(30) DEF StepMarked, Cleaning, Touching, Adopting, Applying
  <2>3. StepData
    BY <1>5, <1>6, ZenonT(30) DEF StepData, Cleaning, Touching, Adopting, Applying
  <2>. QED  BY <2>1, <2>2, <2>3
<1>8. ExistingFirst /\ GenerationOrder /\ LocalStateTruthful /\ RoleApplied
  BY <1>5, <1>6 DEF ExistingFirst, GenerationOrder, LocalStateTruthful, RoleApplied,
                    Adopting
<1>9. ReportsTrue
  <2>1. NoUID <= NoUID
    BY SMTT(30) DEF NoUID
  <2>. QED
    BY <1>5, <1>6, <2>1, ZenonT(30) DEF ReportsTrue, ReportTruthful, LocalStateInvariant
<1>. QED  BY <1>4, <1>7, <1>8, <1>9 DEF LocalInv

\* Every variable of the keeper, of its disk and of its part of the cluster data
\* keeps its type.
THEOREM TypeCorrect == Spec => []TypeOK
  BY InitInv, NextKeepsType, PTL DEF Spec

\* UIDs are initialised in the order they are given out, a step only touches the
\* directory under a local state that says so, and reports stay true.
THEOREM LocalInvHolds == Spec => []LocalInv
  BY TypeCorrect, InitInv, NextKeepsInv, PTL DEF Spec

\* However often a keeper dies or fails inside an initialisation or a resync, its
\* local state names a database only if the directory holds it.
THEOREM LocalStateTrusted == Spec => []LocalStateTruthful
<1>1. LocalInv => LocalStateTruthful
  BY DEF LocalInv
<1>. QED  BY <1>1, LocalInvHolds, PTL

\* The keeper never meets "local database state invariant broken" for the
\* database it is assigned.
THEOREM LocalInvariantKept == Spec => []LocalStateInvariant
<1>1. LocalInv => LocalStateInvariant
  BY DEF LocalInv, ReportsTrue
<1>. QED  BY <1>1, LocalInvHolds, PTL

\* A generation that is saved as applied has its role in force.
THEOREM AppliedRoleInForce == Spec => []RoleApplied
<1>1. LocalInv => RoleApplied
  BY DEF LocalInv
<1>. QED  BY <1>1, LocalInvHolds, PTL

\* A database that was elected master has all its data.
THEOREM ElectionSound == Spec => []ElectedHasData
<1>1. LocalInv => ElectedHasData
  BY DEF LocalInv, ReportsTrue, ElectedHasData, LocalStateTruthful, Holds
<1>. QED  BY <1>1, LocalInvHolds, PTL

\* No step gives up a complete directory unless the local state says that it is
\* being initialised and PostgreSQL is down.
THEOREM DirectoryGivenUpKnowingly == Spec => GivenUpKnowingly
<1>1. ASSUME TypeOK, LocalInv, [Next]_vars, dir = "full", dir' # "full"
      PROVE  local.initializing /\ pg = "down"
  <2>. USE <1>1 DEF dirVars, stepVars, cdVars
  <2>1. CASE Step
    <3>1. CASE RemoveAll
      BY <3>1 DEF RemoveAll, RemovePoint, LocalInv, StepMarked, Cleaning, Touching
    <3>2. CASE BeginFill \/ BeginCopy
      BY <3>2 DEF BeginFill, BeginCopy, LocalInv, StepData
    <3>3. CASE EndFill \/ EndRewind
      BY <3>3 DEF EndFill, EndRewind, LocalInv, StepData
    <3>4. CASE BeginResync
      <4>1. pc = "sync"
        BY <3>4 DEF BeginResync
      <4>. QED  BY <4>1 DEF LocalInv, StepMarked, StepData, Touching
    <3>5. CASE SaveInitParameters \/ EndCopy
      BY <3>5 DEF SaveInitParameters, EndCopy
    <3>6. CASE UNCHANGED dir
      BY <3>6
    <3>7. \/ RemoveAll \/ BeginFill \/ BeginCopy \/ EndFill \/ EndRewind
          \/ BeginResync \/ SaveInitParameters \/ EndCopy \/ UNCHANGED dir
      BY <2>1
      DEF Step, StopAndWait, BeginStep, StopPostgres, ResetLocalState, SameUID,
          BeginInitialization, InvariantBroken, StartTmpMerged, StartResynced,
          CheckRewound, StartMaster, Promote, AlreadyMaster, StartStandby,
          RoleRefused, Reload, SaveGeneration
    <3>. QED  BY <3>1, <3>2, <3>3, <3>4, <3>5, <3>6, <3>7
  <2>2. CASE Fail
    <3>1. (pc \in RemovePoint /\ pg = "down") \/ pc = "filling"
      BY <2>2, ZenonT(30) DEF Fail
    <3>. QED
      BY <3>1 DEF RemovePoint, LocalInv, StepMarked, StepData, Cleaning, Touching
  <2>3. CASE ~Step /\ ~Fail
    BY <2>3, ZenonT(30)
    DEF Next, vars, UpdateKeepersStatus, UpdateCluster, UpdateKeeperInfo,
        KeeperRestart, PostgresDies, CalmDown
  <2>. QED  BY <2>1, <2>2, <2>3
<1>2. TypeOK /\ LocalInv /\ [Next]_vars =>
          [dir = "full" /\ dir' # "full" => local.initializing /\ pg = "down"]_vars
  BY <1>1
<1>. QED
  BY <1>2, TypeCorrect, LocalInvHolds, PTL DEF Spec, GivenUpKnowingly

\* A step of the keeper keeps the initial parameters of the first database: they
\* are only lost with the directory, under a local state that says so, and are
\* back before the local state says that the database is there.
LEMMA StepKeepsParameters ==
    ASSUME TypeOK, LocalInv, ParametersKept, Step
    PROVE  ParametersKept'
<1>a. UNCHANGED <<initMode, phase, cd>>
  BY DEF Step, cdVars
<1>. SUFFICES ASSUME initMode # "existing", phase = "initializing"
              PROVE  StepParameters'
  BY <1>a, ZenonT(30) DEF ParametersKept
<1>b. StepParameters /\ UIDOrder /\ StepMarked
  BY ZenonT(30) DEF ParametersKept, LocalInv
<1>c. initMode \in {"new", "pitr"}
  BY KeeperAssumption DEF TypeOK, InitMode
<1>. USE <1>a, <1>b, <1>c DEF StepParameters, GoTo, Applying, Resyncing
<1>p. pc \in Applying => Parameters
  BY DEF Parameters
<1>1. CASE StopAndWait \/ InvariantBroken \/ RoleRefused
  BY <1>1 DEF StopAndWait, InvariantBroken, RoleRefused, Return, stepVars, dirVars
<1>2. CASE BeginStep
  BY <1>2 DEF BeginStep, dirVars
<1>3. CASE StopPostgres
  BY <1>3 DEF StopPostgres, StopPoint, dirVars
<1>4. CASE RemoveAll
  BY <1>4 DEF RemoveAll, RemovePoint, StepMarked, Cleaning, Touching
<1>5. CASE ResetLocalState
  <2>1. /\ pc = "cleanSave" /\ pc' = "uid" /\ UNCHANGED <<cur, conf>>
        /\ local'.uid = NoUID
    BY <1>5 DEF ResetLocalState, NoLocal, dirVars
  <2>. QED  BY <2>1
<1>6. CASE SameUID
  <2>1. pc = "uid" /\ pc' = "role" /\ local.uid = cur.uid /\ UNCHANGED <<cur, local, conf>>
    BY <1>6, ZenonT(30) DEF SameUID, dirVars
  <2>2. local.uid # NoUID /\ ~local.initializing
    BY <2>1 DEF StepMarked, UIDOrder
  <2>. QED  BY <2>1, <2>2
<1>7. CASE BeginInitialization
  <2>1. local'.initializing
    BY <1>7, ZenonT(30) DEF BeginInitialization
  <2>. QED  BY <1>7, <2>1 DEF BeginInitialization
<1>8. CASE BeginFill
  BY <1>8 DEF BeginFill
<1>9. CASE EndFill
  BY <1>9 DEF EndFill
<1>10. CASE StartTmpMerged
  BY <1>10 DEF StartTmpMerged
<1>11. CASE SaveInitParameters
  BY <1>11, ZenonT(30) DEF SaveInitParameters, TypeOK
<1>12. CASE BeginResync \/ EndRewind \/ BeginCopy \/ EndCopy \/ StartResynced
             \/ CheckRewound
  BY <1>12, ZenonT(30)
  DEF BeginResync, EndRewind, BeginCopy, EndCopy, StartResynced, CheckRewound
<1>13. CASE StartMaster
  BY <1>p, <1>13 DEF StartMaster
<1>14. CASE Promote
  BY <1>p, <1>14 DEF Promote
<1>15. CASE AlreadyMaster
  BY <1>15 DEF AlreadyMaster, dirVars
<1>16. CASE StartStandby
  <2>1. pc = "role" /\ pc' = "reload" /\ UNCHANGED <<cur, local>>
    BY <1>16, ZenonT(30) DEF StartStandby
  <2>2. conf' = conf \/ conf' = Parameters
    BY <1>16, ZenonT(30) DEF StartStandby
  <2>. QED  BY <1>p, <2>1, <2>2, ZenonT(30)
<1>17. CASE Reload
  <2>1. pc = "reload" /\ pc' = "save" /\ UNCHANGED <<cur, local>>
    BY <1>17 DEF Reload
  <2>2. conf' = conf \/ conf' = Parameters
    BY <1>17, ZenonT(30) DEF Reload
  <2>. QED  BY <1>p, <2>1, <2>2, ZenonT(30)
<1>18. CASE SaveGeneration
  <2>1. pc = "save" /\ pc' = "idle" /\ UNCHANGED conf /\ local'.params = local.params
    BY <1>18 DEF SaveGeneration, Return, dirVars, TypeOK
  <2>. QED  BY <2>1
<1>. QED
  BY <1>1, <1>2, <1>3, <1>4, <1>5, <1>6, <1>7, <1>8, <1>9, <1>10, <1>11, <1>12,
     <1>13, <1>14, <1>15, <1>16, <1>17, <1>18, ZenonT(30) DEF Step

\* What the sentinel assigns before the first database has converged asks for the
\* initial parameters, through every change of its DBSpec.
LEMMA UpdateClusterKeepsParameters ==
    ASSUME TypeOK, ParametersKept, UpdateCluster
    PROVE  ParametersKept'
<1>a. UNCHANGED <<pc, cur, local, conf>>
  BY DEF UpdateCluster, stepVars, dirVars
<1>1. CASE phase' = "normal"
  BY <1>1 DEF ParametersKept
<1>2. CASE ChooseInitial
  <2>1. PICK role : cd' = [uid |-> lastUID + 1, gen |-> 1, mode |-> initMode, role |-> role,
                           includeConfig |-> TRUE, merged |-> cd.merged]
    BY <1>2, ZenonT(30) DEF ChooseInitial, Assign
  <2>2. cd'.includeConfig /\ cd'.mode = initMode
    BY ONLY <2>1, SMTT(30)
  <2>3. UNCHANGED <<initMode, phase>>
    BY <1>2, ZenonT(30) DEF ChooseInitial
  <2>. QED
    BY <1>a, <2>2, <2>3, ZenonT(30) DEF ParametersKept, StepParameters
<1>3. CASE InitialFailed
  BY <1>a, <1>3
  DEF InitialFailed, Unassign, NoAssignment, ParametersKept, StepParameters
<1>4. CASE InitialConverged \/ InitializedElsewhere
  BY <1>1, <1>4 DEF InitialConverged, InitializedElsewhere
<1>5. CASE AddStandby \/ RemoveDB \/ CleanInitMode \/ Elect
  BY <1>1, <1>5, ZenonT(30) DEF AddStandby, RemoveDB, CleanInitMode, Elect
<1>6. CASE ChangeSpec
  BY <1>a, <1>6
  DEF ChangeSpec, Change, TypeOK, Assignment, ParametersKept, StepParameters
<1>. QED
  BY <1>2, <1>3, <1>4, <1>5, <1>6, ZenonT(30) DEF UpdateCluster

\* Every step keeps the initial parameters, the ones that fail included.
LEMMA NextKeepsParameters ==
    ASSUME TypeOK, LocalInv, ParametersKept, [Next]_vars
    PROVE  ParametersKept'
<1>1. CASE UNCHANGED <<initMode, phase, cd, pc, cur, local, conf>>
  BY <1>1, ZenonT(30) DEF ParametersKept, StepParameters
<1>2. CASE UpdateKeepersStatus \/ UpdateKeeperInfo
  BY <1>1, <1>2, ZenonT(30)
  DEF UpdateKeepersStatus, UpdateKeeperInfo, cdVars, stepVars, dirVars
<1>3. CASE Fail
  <2>1. UNCHANGED <<initMode, phase, cd, local>> /\ pc' = "idle"
    BY <1>3 DEF Fail, Return, cdVars
  <2>2. conf' = conf \/ (pc \in {"syncStart", "role"} /\ conf' = Parameters)
    BY <1>3, ZenonT(30) DEF Fail
  <2>3. CASE initMode # "existing" /\ phase = "initializing"
    <3>1. StepParameters
      BY <2>3 DEF ParametersKept
    <3>2. pc = "role" => Parameters /\ conf
      BY <3>1 DEF StepParameters, Parameters, Applying
    <3>3. local.uid # NoUID /\ ~local.initializing => conf' /\ local.params
      <4>1. /\ pc # "syncStart"
            /\ local.uid # NoUID /\ ~local.initializing => conf /\ local.params
        BY <3>1, ZenonT(30) DEF StepParameters, Resyncing
      <4>2. CASE conf' = conf
        BY <4>1, <4>2, ZenonT(30)
      <4>3. CASE pc = "role" /\ conf' = Parameters
        BY <3>2, <4>1, <4>3, ZenonT(30)
      <4>. QED  BY <2>2, <4>1, <4>2, <4>3, ZenonT(30)
    <3>. QED
      BY <2>1, <3>1, <3>3 DEF ParametersKept, StepParameters, Resyncing, Applying
  <2>. QED  BY <2>1, <2>3, ZenonT(30) DEF ParametersKept
<1>4. CASE KeeperRestart
  <2>1. UNCHANGED <<initMode, phase, cd, local, conf>> /\ pc' = "idle"
    BY <1>4 DEF KeeperRestart, Return, dirVars
  <2>. QED  BY <2>1 DEF ParametersKept, StepParameters, Resyncing, Applying
<1>5. CASE PostgresDies \/ CalmDown \/ UNCHANGED vars
  BY <1>1, <1>5 DEF PostgresDies, CalmDown, vars, cdVars, stepVars, dirVars
<1>. QED
  BY <1>2, <1>3, <1>4, <1>5, StepKeepsParameters, UpdateClusterKeepsParameters, ZenonT(30)
  DEF Next

\* The whole invariant: what a keeper and the sentinel know of the database, and
\* what the keeper knows of its initial parameters.
THEOREM InvariantHolds == Spec => []KeeperInv
<1>1. Init => ParametersKept
  <2>. SUFFICES ASSUME Init PROVE ParametersKept
    OBVIOUS
  <2>1. cd = NoAssignment /\ local = NoLocal /\ pc = "idle"
    BY ZenonT(30) DEF Init
  <2>2. cd.uid = NoUID /\ local.uid = NoUID
    BY ONLY <2>1, ZenonT(30) DEF NoAssignment, NoLocal, NoUID
  <2>. QED
    BY <2>1, <2>2, ZenonT(30) DEF ParametersKept, StepParameters, Resyncing, Applying
<1>. QED
  BY <1>1, TypeCorrect, LocalInvHolds, NextKeepsParameters, PTL DEF Spec, KeeperInv

\* In a new or a restored cluster the first database, once its keeper has saved a
\* generation as applied, runs on the parameters that initdb or the restore left:
\* no failure between their creation and the end of the step loses them.
THEOREM InitialParametersApplied == Spec => []InitParametersApplied
<1>1. KeeperInv => InitParametersApplied
  BY DEF KeeperInv, LocalInv, StepMarked, ParametersKept, StepParameters,
         InitParametersApplied, ParametersApplied
<1>. QED  BY <1>1, InvariantHolds, PTL

==============================================================================

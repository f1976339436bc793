------------------------- MODULE LogicalSlots_proofs --------------------------
(***************************************************************************)
(* NeverAhead for any slots, any LSNs and any number of failures and         *)
(* failovers.                                                              *)
(*                                                                         *)
(* That a slot is not ahead of its consumer is not inductive: the target was *)
(* computed from cluster data that are old when the worker uses it, and in   *)
(* between WAL may have been lost in a failover, or the slot dropped and     *)
(* created anew.  AheadInv therefore bounds everything a target can come     *)
(* from, twice: by what the consumer has seen, and by what this instance has *)
(* replayed, which a new line of WAL always includes.                       *)
(***************************************************************************)
EXTENDS LogicalSlots, TLAPS

\* Time enough for every step, however busy the machine is.
USE SMTT(30), ZenonT(30)

\* A queued or running operation on s, and the slot itself, go no further than n.
UpTo(s, n) ==
    /\ slot[s] <= n
    /\ pending[s] <= n
    /\ doing.name = s => doing.target <= n

Types ==
    /\ written \in Nat \ {0} /\ replay \in Nat \ {0} /\ replayLSN \in Nat
    /\ seen \in [Slots -> Nat] /\ slot \in [Slots -> Nat]
    /\ masterLSN \in [Slots -> Nat] /\ pending \in [Slots -> Nat]
    /\ role \in {"standby", "master"} /\ carried \in BOOLEAN
    /\ desired \subseteq Slots
    /\ doing = NoOp \/ doing \in [name : Slots, target : Nat]

\* The inductive invariant, of an instance on which no operation was carried over.
AheadInv ==
    /\ replayLSN <= replay /\ replay <= written
    /\ role = "master" => replay = written
    /\ \A s \in Slots :
          /\ UpTo(s, replay)
          /\ seen[s] <= written
          /\ seen[s] # 0 => UpTo(s, seen[s])
          /\ role = "standby" => masterLSN[s] <= written
          /\ role = "standby" /\ seen[s] # 0 => masterLSN[s] <= seen[s]

LogicalInv == Types /\ (~carried => AheadInv)

-----------------------------------------------------------------------------
\* Min and Max of two numbers, as computeLogicalSlotAdvanceTarget uses them.
LEMMA MinOfTwo ==
    ASSUME NEW a \in Nat, NEW b \in Nat
    PROVE  Min({a, b}) \in Nat /\ Min({a, b}) <= a /\ Min({a, b}) <= b
<1>1. \E x \in {a, b} : \A y \in {a, b} : x <= y
  OBVIOUS
<1>2. Min({a, b}) \in {a, b} /\ \A y \in {a, b} : Min({a, b}) <= y
  BY <1>1 DEF Min
<1> QED
  BY <1>2

LEMMA MaxOfTwo ==
    ASSUME NEW a \in Nat, NEW b \in Nat
    PROVE  Max({a, b}) \in {a, b}
<1>1. \E x \in {a, b} : \A y \in {a, b} : x >= y
  OBVIOUS
<1> QED
  BY <1>1 DEF Max

\* A target that is worth an advance is known to the master and replayed here.
LEMMA TargetBounded ==
    ASSUME Types, NEW s \in Slots
    PROVE  LET target == computeLogicalSlotAdvanceTarget(s) IN
           target \in Nat /\ target <= masterLSN[s] /\ target <= replayLSN
<1>1. masterLSN[s] \in Nat /\ replayLSN \in Nat
  BY DEF Types
<1> QED
  BY <1>1, MinOfTwo DEF computeLogicalSlotAdvanceTarget

-----------------------------------------------------------------------------
\* Initially all positions are 1 and no operation is queued.
LEMMA InitLogical == Init => LogicalInv
<1> SUFFICES ASSUME Init
             PROVE  LogicalInv
  OBVIOUS
<1>1. seen \in [Slots -> Nat] /\ slot = seen /\ masterLSN = seen /\ pending \in [Slots -> Nat]
  BY DEF Init, NoLSNs
<1>2. desired \subseteq Slots /\ role \in {"standby", "master"} /\ doing = NoOp
  BY DEF Init
<1>3. carried \in BOOLEAN
  BY ZenonT(30) DEF Init
<1>4. Types
  BY <1>1, <1>2, <1>3 DEF Init, Types
<1>5. \A s \in Slots : UpTo(s, 1)
  BY DEF Init, UpTo, NoLSNs, NoOp
<1>6. AheadInv
  BY <1>5 DEF Init, AheadInv
<1> QED
  BY <1>4, <1>6 DEF LogicalInv

\* PostgreSQL, the consumers and the reports.
LEMMA EnvironmentKeepsInv ==
    ASSUME LogicalInv,
           \/ Write \/ Replay \/ ReportMaster \/ ReportStandby \/ UpdateSpec
           \/ \E s \in Slots : Consume(s) \/ CopySlot(s) \/ Elapse(s)
    PROVE  LogicalInv'
<1> USE DEF LogicalInv, Types, AheadInv, UpTo, NoOp, clusterVars, keeperVars, boundVars
<1>1. CASE Write
  BY <1>1 DEF Write
<1>2. CASE Replay
  BY <1>2 DEF Replay
<1>3. CASE ReportMaster
  BY <1>3 DEF ReportMaster
<1>4. CASE ReportStandby
  BY <1>4 DEF ReportStandby
<1>5. CASE UpdateSpec
  BY <1>5 DEF UpdateSpec
<1>6. ASSUME NEW s \in Slots, Consume(s)
      PROVE  LogicalInv'
  BY <1>6 DEF Consume
<1>7. ASSUME NEW s \in Slots, CopySlot(s)
      PROVE  LogicalInv'
  BY <1>7 DEF CopySlot
<1>8. ASSUME NEW s \in Slots, Elapse(s)
      PROVE  LogicalInv'
  BY <1>8 DEF Elapse
<1> QED
  BY <1>1, <1>2, <1>3, <1>4, <1>5, <1>6, <1>7, <1>8

\* A failover cuts the line of WAL at what the new master has replayed.
LEMMA FailoverKeepsInv ==
    ASSUME LogicalInv, Promote \/ \E f \in 1..MaxLSN : f <= written /\ Failover(f)
    PROVE  LogicalInv'
<1> USE DEF LogicalInv, Types, AheadInv, UpTo, AtMost, NoLSNs, NoOp
<1>1. CASE Promote
  BY <1>1 DEF Promote, keeperVars, boundVars
<1>2. ASSUME NEW f \in 1..MaxLSN, f <= written, Failover(f)
      PROVE  LogicalInv'
  <2>0. f \in Nat \ {0}
    BY LogicalAssumption
  <2>1. CASE replay <= f
    BY <1>2, <2>0, <2>1 DEF Failover
  <2>2. CASE replay > f
    <3>1. doing' = NoOp /\ slot' = NoLSNs /\ masterLSN' = NoLSNs /\ pending' = pending
      BY <1>2, <2>2 DEF Failover
    <3>2. written' = f /\ replay' = f /\ replayLSN' = 0 /\ role' = role /\ desired' = desired
      BY <1>2, <2>0, <2>2 DEF Failover
    <3>3. seen' = AtMost(seen, f) /\ role = "standby"
      BY <1>2 DEF Failover
    <3>4. carried' = (carried \/ pending # NoLSNs)
      BY <1>2, <2>0, <2>2 DEF Failover
    <3>5. Types'
      BY <2>0, <3>1, <3>2, <3>3, <3>4
    <3>6. pending = NoLSNs => AheadInv'
      BY <2>0, <3>1, <3>2, <3>3, <3>5
    <3> QED
      BY <3>4, <3>5, <3>6, ZenonT(30)
  <2> QED
    BY <2>0, <2>1, <2>2
<1> QED
  BY <1>1, <1>2

\* The keeper's loop: it queues operations, or creates and drops slots.
LEMMA RefreshKeepsInv ==
    ASSUME LogicalInv, Refresh \/ RefreshOtherMaster
    PROVE  LogicalInv'
<1> USE DEF LogicalInv, Types, AheadInv, UpTo, NoOp, clusterVars, boundVars
<1>1. CASE RefreshStandby
  <2>1. \A s \in Slots : pending'[s] = pending[s] \/ pending'[s] = computeLogicalSlotAdvanceTarget(s)
    BY <1>1 DEF RefreshStandby, enqueueLogicalSlotAdvanceOperations, AdvanceOperations
  <2>2. pending' \in [Slots -> Nat]
    BY <1>1, <2>1, TargetBounded DEF RefreshStandby, enqueueLogicalSlotAdvanceOperations
  <2> QED
    BY <1>1, <2>1, <2>2, TargetBounded DEF RefreshStandby
<1>2. CASE RefreshDisabled
  BY <1>2 DEF RefreshDisabled, resetLogicalSlotAdvanceState, NoLSNs
<1>3. CASE RefreshMaster
  BY <1>3 DEF RefreshMaster, resetLogicalSlotAdvanceState, NoLSNs, Reconciled
<1>4. CASE RefreshOtherMaster
  BY <1>4 DEF RefreshOtherMaster, Reconciled, keeperVars
<1> QED
  BY <1>1, <1>2, <1>3, <1>4 DEF Refresh

\* The worker: an advance takes the slot to the target or to the replay position.
LEMMA WorkKeepsInv ==
    ASSUME LogicalInv,
           \/ Wake \/ Sleep \/ AdvanceSucceeds \/ AdvanceFails
           \/ \E s \in Slots : Select(s)
    PROVE  LogicalInv'
<1> USE DEF LogicalInv, Types, AheadInv, UpTo, clusterVars, boundVars, NoOp
<1>1. CASE Wake
  BY <1>1 DEF Wake
<1>2. CASE Sleep
  BY <1>2 DEF Sleep
<1>3. CASE AdvanceSucceeds
  <2>1. doing \in [name : Slots, target : Nat]
    BY <1>3 DEF AdvanceSucceeds, Advances
  <2> DEFINE to == Min({doing.target, replay})
  <2>2. to \in Nat /\ to <= doing.target /\ to <= replay
    BY <2>1, MinOfTwo
  <2>3. Max({slot[doing.name], to}) \in {slot[doing.name], to}
    BY <2>1, <2>2, MaxOfTwo, ZenonT(30)
  <2>4. slot' = [slot EXCEPT ![doing.name] = Max({slot[doing.name], to})]
    BY <1>3 DEF AdvanceSucceeds
  <2>5. doing' = NoOp /\ UNCHANGED <<written, seen, clusterVars, replay, pending, boundVars>>
    BY <1>3 DEF AdvanceSucceeds
  <2> HIDE DEF to
  <2>6. slot' \in [Slots -> Nat]
    BY <2>1, <2>2, <2>3, <2>4
  <2>7. \A s \in Slots : slot'[s] = slot[s] \/ (s = doing.name /\ slot'[s] = to)
    BY <2>1, <2>3, <2>4
  <2> QED
    BY <2>1, <2>2, <2>5, <2>6, <2>7
<1>4. CASE AdvanceFails
  BY <1>4 DEF AdvanceFails
<1>5. ASSUME NEW s \in Slots, Select(s)
      PROVE  LogicalInv'
  BY <1>5 DEF Select
<1> QED
  BY <1>1, <1>2, <1>3, <1>4, <1>5

LEMMA NextKeepsLogicalInv == LogicalInv /\ [Next]_vars => LogicalInv'
<1> SUFFICES ASSUME LogicalInv, [Next]_vars
             PROVE  LogicalInv'
  OBVIOUS
<1>1. CASE Next
  BY <1>1, EnvironmentKeepsInv, FailoverKeepsInv, RefreshKeepsInv, WorkKeepsInv DEF Next
<1>2. CASE UNCHANGED vars
  BY <1>2 DEF vars, clusterVars, keeperVars, boundVars, LogicalInv, Types, AheadInv, UpTo
<1> QED
  BY <1>1, <1>2

\* For any slots, LSNs, failures and failovers: unless an operation outlived a
\* resync, no slot of the standby is ahead of what its consumer has seen, so that a
\* consumer that goes on with it after a failover has missed nothing
\* (computeLogicalSlotAdvanceTarget and the worker that advances the slots).
THEOREM SlotsNeverAhead == Spec => []NeverAhead
<1>1. LogicalInv => NeverAhead
  BY DEF LogicalInv, AheadInv, UpTo, NeverAhead, AdvancesSafely
<1> QED
  BY <1>1, InitLogical, NextKeepsLogicalInv, PTL DEF Spec
=============================================================================

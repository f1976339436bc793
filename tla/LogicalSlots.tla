---------------------------- MODULE LogicalSlots -----------------------------
(***************************************************************************)
(* Managed logical replication slots with enableLogicalSlotFailover, before  *)
(* native failover slots (PostgreSQL 16): the keeper of a standby plans      *)
(* advances of its copies of the slots, a worker carries them out, and the   *)
(* instance may be promoted, or replaced by a copy of another master, at any *)
(* time.                                                                   *)
(*                                                                         *)
(* LSNs are small numbers.  A consumer has seen the changes up to seen[s] of *)
(* the current line of WAL; after a failover it goes on from the slot of the *)
(* new master, and what is between seen[s] and a slot ahead of it is lost.   *)
(***************************************************************************)
EXTENDS Integers, FiniteSetsExt

CONSTANTS
    Slots,         \* logical slots, with names of the reserved namespace
    MaxLSN,        \* bound: WAL positions
    MaxFailures,   \* bound: advances that fail for no reason of their own
    MaxFailovers   \* bound: failovers to other databases

ASSUME LogicalAssumption ==
    MaxLSN \in Nat \ {0} /\ MaxFailures \in Nat /\ MaxFailovers \in Nat

VARIABLES
    \* the master and the consumers
    written,      \* end of the master's WAL
    seen,         \* seen[s]: confirmed by the consumer of s, 0 when it has no slot
    \* cluster data
    role,         \* role of the database of this keeper
    desired,      \* ManagedLogicalReplicationSlots
    enabled,      \* EnableLogicalSlotFailover, and not NoStream
    masterLSN,    \* ManagedLogicalSlots of the master's status, 0 if none
    replayLSN,    \* XLogPos of this database's status
    \* this instance
    replay,       \* its replay position
    slot,         \* slot[s]: confirmed_flush_lsn, 0 when there is no such slot
    \* the keeper
    pending,      \* logicalSlotAdvancePending: target of s, 0 when there is none
    retryAfter,   \* slots whose backoff has not elapsed
    notified,     \* logicalSlotAdvanceNotify holds a token
    awake,        \* the worker is in its inner loop
    doing,        \* the operation it carries out, or NoOp
    failures, failovers,
    carried       \* history: an operation outlived the data it was planned for

clusterVars == <<role, desired, enabled, masterLSN, replayLSN>>
keeperVars == <<pending, retryAfter, notified, awake, doing>>
boundVars == <<failures, failovers, carried>>
vars == <<written, seen, clusterVars, replay, slot, keeperVars, boundVars>>

NoOp == [name |-> "none", target |-> 0]
NoLSNs == [s \in Slots |-> 0]

\* A standby, with copies of the slots of the master.
Init ==
    /\ written = 1 /\ replay = 1 /\ replayLSN = 1
    /\ seen = [s \in Slots |-> 1] /\ slot = seen /\ masterLSN = seen
    /\ role = "standby" /\ desired = Slots /\ enabled = TRUE
    /\ pending = NoLSNs /\ retryAfter = {}
    /\ notified = FALSE /\ awake = FALSE /\ doing = NoOp
    /\ failures = 0 /\ failovers = 0 /\ carried = FALSE

-----------------------------------------------------------------------------
\* PostgreSQL and the consumers (external)

Write ==
    /\ written < MaxLSN
    /\ written' = written + 1
    /\ replay' = IF role = "master" THEN written' ELSE replay
    /\ UNCHANGED <<seen, clusterVars, slot, keeperVars, boundVars>>

\* The consumer confirms a change; on this instance that moves the slot.
Consume(s) ==
    /\ seen[s] # 0 /\ seen[s] < written
    /\ role = "master" => slot[s] # 0 /\ slot[s] <= seen[s] + 1
    /\ seen' = [seen EXCEPT ![s] = @ + 1]
    /\ slot' = IF role = "master" THEN [slot EXCEPT ![s] = seen'[s]] ELSE slot
    /\ UNCHANGED <<written, clusterVars, replay, keeperVars, boundVars>>

Replay ==
    /\ role = "standby" /\ replay < written
    /\ replay' = replay + 1
    /\ UNCHANGED <<written, seen, clusterVars, slot, keeperVars, boundVars>>

\* The operator copies a slot of the master that is missing here.
CopySlot(s) ==
    /\ role = "standby" /\ slot[s] = 0 /\ seen[s] # 0 /\ seen[s] <= replay
    /\ slot' = [slot EXCEPT ![s] = seen[s]]
    /\ UNCHANGED <<written, seen, clusterVars, replay, keeperVars, boundVars>>

-----------------------------------------------------------------------------
\* Cluster data

\* The status of the master, and of this database, reach the cluster data.
ReportMaster ==
    /\ role = "standby" /\ masterLSN' = seen
    /\ UNCHANGED <<written, seen, role, desired, enabled, replayLSN, replay, slot, keeperVars, boundVars>>

ReportStandby ==
    /\ role = "standby" /\ replayLSN' = replay
    /\ UNCHANGED <<written, seen, role, desired, enabled, masterLSN, replay, slot, keeperVars, boundVars>>

UpdateSpec ==
    /\ \/ role = "standby" /\ enabled' = ~enabled /\ UNCHANGED desired
       \/ \E D \in SUBSET Slots : desired' = D /\ UNCHANGED enabled
    /\ UNCHANGED <<written, seen, role, masterLSN, replayLSN, replay, slot, keeperVars, boundVars>>

AtMost(lsns, f) == [s \in Slots |-> IF lsns[s] < f THEN lsns[s] ELSE f]

\* This database is elected and promoted: its line of WAL is the one that counts.
Promote ==
    /\ role = "standby" /\ replay > 0
    /\ role' = "master"
    /\ written' = replay
    /\ seen' = AtMost(seen, replay)
    /\ UNCHANGED <<desired, enabled, masterLSN, replayLSN, replay, slot, keeperVars, boundVars>>

\* Another database is, with WAL up to f.  This one follows it if it has no more,
\* else it is resynced: a new instance without slots, a new database status.
Failover(f) ==
    /\ role = "standby" /\ failovers < MaxFailovers
    /\ failovers' = failovers + 1
    /\ written' = f
    /\ seen' = AtMost(seen, f)
    /\ masterLSN' = NoLSNs
    /\ \/ /\ replay <= f
          /\ UNCHANGED <<replayLSN, replay, slot, retryAfter, doing, failures, carried>>
       \/ /\ replay > f
          /\ replay' = f /\ replayLSN' = 0 /\ slot' = NoLSNs
          /\ retryAfter' = IF doing = NoOp THEN retryAfter ELSE retryAfter \cup {doing.name}
          /\ doing' = NoOp
          /\ carried' = (carried \/ pending # NoLSNs)
          /\ UNCHANGED failures
    /\ UNCHANGED <<role, desired, enabled, pending, notified, awake>>

-----------------------------------------------------------------------------
\* The keeper's loop: refreshReplicationSlots, the logical part

\* Mutant: the target is what this standby has replayed, consumed or not.
TargetReplayed(s) == IF replayLSN > slot[s] THEN replayLSN ELSE 0

\* computeLogicalSlotAdvanceTarget for a slot that exists here; 0: no advance.
computeLogicalSlotAdvanceTarget(s) ==
    LET target == Min({masterLSN[s], replayLSN}) IN
    IF slot[s] # 0 /\ target > slot[s] THEN target ELSE 0

\* enqueueLogicalSlotAdvanceOperations
enqueueLogicalSlotAdvanceOperations(ops) ==
    LET queued == {s \in DOMAIN ops : s \notin retryAfter /\ pending[s] < ops[s]} IN
    /\ pending' = [s \in Slots |-> IF s \in queued THEN ops[s] ELSE pending[s]]
    /\ notified' = (notified \/ queued # {})

resetLogicalSlotAdvanceState ==
    /\ pending' = NoLSNs
    /\ retryAfter' = {}

\* evaluateManagedLogicalSlotAdvanceOperations: the target of each slot to advance
AdvanceOperations ==
    [s \in {t \in desired : computeLogicalSlotAdvanceTarget(t) # 0} |->
        computeLogicalSlotAdvanceTarget(s)]

\* shouldReconcileManagedLogicalSlots (wal_level is logical)
Configured == desired # {}

RefreshStandby ==
    /\ role = "standby" /\ Configured /\ enabled
    /\ enqueueLogicalSlotAdvanceOperations(AdvanceOperations)
    /\ UNCHANGED <<written, seen, clusterVars, replay, slot, retryAfter, awake, doing, boundVars>>

RefreshDisabled ==
    /\ role = "standby" /\ Configured /\ ~enabled
    /\ resetLogicalSlotAdvanceState
    /\ UNCHANGED <<written, seen, clusterVars, replay, slot, notified, awake, doing, boundVars>>

\* The slots that exist, given their positions.
GetLogicalReplicationSlots(lsns) == {s \in Slots : lsns[s] # 0}

\* evaluateManagedLogicalSlotsDecision, given the slots that are in no use
SlotsToCreate(present) == desired \ present
SlotsToDrop(present, idle) == (present \ desired) \cap idle

\* A slot is created at the end of the WAL, and its consumer starts over from
\* there; one that is dropped takes the place of its consumer with it.
Reconciled(lsns, create, drop) ==
    [s \in Slots |-> IF s \in create THEN written ELSE IF s \in drop THEN 0 ELSE lsns[s]]

\* On the master the operations are forgotten, unless no slot is configured, and
\* slots are created and dropped one by one, up to the first that fails.
RefreshMaster ==
    /\ role = "master"
    /\ \/ Configured /\ resetLogicalSlotAdvanceState
       \/ ~Configured /\ UNCHANGED <<pending, retryAfter>>
    /\ LET present == GetLogicalReplicationSlots(slot) IN
       \E idle \in SUBSET Slots, create \in SUBSET SlotsToCreate(present) :
          LET drop == IF create = SlotsToCreate(present) THEN SlotsToDrop(present, idle) ELSE {} IN
          /\ slot' = Reconciled(slot, create, drop)
          /\ seen' = Reconciled(seen, create, drop)
    /\ UNCHANGED <<written, clusterVars, replay, notified, awake, doing, boundVars>>

\* The same by the keeper of another database, which is the master.
RefreshOtherMaster ==
    /\ role = "standby"
    /\ LET present == GetLogicalReplicationSlots(seen) IN
       \E idle \in SUBSET Slots, create \in SUBSET SlotsToCreate(present) :
          LET drop == IF create = SlotsToCreate(present) THEN SlotsToDrop(present, idle) ELSE {} IN
          seen' = Reconciled(seen, create, drop)
    /\ UNCHANGED <<written, clusterVars, replay, slot, keeperVars, boundVars>>

-----------------------------------------------------------------------------
\* standbyLogicalSlotAdvanceWorker

Wake ==
    /\ ~awake /\ notified
    /\ awake' = TRUE /\ notified' = FALSE
    /\ UNCHANGED <<written, seen, clusterVars, replay, slot, pending, retryAfter, doing, boundVars>>

Ready == {s \in Slots : pending[s] # 0 /\ s \notin retryAfter}

Select(s) ==
    /\ awake /\ doing = NoOp /\ s \in Ready
    /\ doing' = [name |-> s, target |-> pending[s]]
    /\ pending' = [pending EXCEPT ![s] = 0]
    /\ UNCHANGED <<written, seen, clusterVars, replay, slot, retryAfter, notified, awake, boundVars>>

\* Nothing is pending, or nothing that may be tried yet.
Sleep ==
    /\ awake /\ doing = NoOp /\ Ready = {}
    /\ awake' = FALSE
    /\ UNCHANGED <<written, seen, clusterVars, replay, slot, pending, retryAfter, notified, doing, boundVars>>

\* pg_replication_slot_advance moves a slot forward only, no further than replay.
Advances == doing # NoOp /\ slot[doing.name] # 0 /\ doing.target > slot[doing.name]

AdvanceSucceeds ==
    /\ Advances
    /\ slot' = [slot EXCEPT ![doing.name] = Max({@, Min({doing.target, replay})})]
    /\ retryAfter' = retryAfter \ {doing.name}
    /\ doing' = NoOp
    /\ UNCHANGED <<written, seen, clusterVars, replay, pending, notified, awake, boundVars>>

\* An error (the slot may be in use): backoff, and the operation is forgotten.
AdvanceFails ==
    /\ doing # NoOp
    /\ Advances => failures < MaxFailures
    /\ failures' = IF Advances THEN failures + 1 ELSE failures
    /\ retryAfter' = retryAfter \cup {doing.name}
    /\ doing' = NoOp
    /\ UNCHANGED <<written, seen, clusterVars, replay, slot, pending, notified, awake, failovers, carried>>

\* Mutant: the end of a backoff is not looked at while the slot is behind.
ElapseWhenIdle(s) ==
    /\ s \in retryAfter /\ computeLogicalSlotAdvanceTarget(s) = 0
    /\ retryAfter' = retryAfter \ {s}
    /\ UNCHANGED <<written, seen, clusterVars, replay, slot, pending, notified, awake, doing, boundVars>>

\* pruneLogicalSlotAdvanceRetryAfter, by the loop or the worker: the backoff is over.
Elapse(s) ==
    /\ s \in retryAfter
    /\ retryAfter' = retryAfter \ {s}
    /\ UNCHANGED <<written, seen, clusterVars, replay, slot, pending, notified, awake, doing, boundVars>>

-----------------------------------------------------------------------------
Refresh == RefreshStandby \/ RefreshDisabled \/ RefreshMaster
Work == Wake \/ Sleep \/ AdvanceSucceeds \/ \E s \in Slots : Select(s)

Next ==
    \/ Write \/ Replay \/ ReportMaster \/ ReportStandby \/ UpdateSpec \/ Promote
    \/ \E f \in 1..MaxLSN : f <= written /\ Failover(f)
    \/ \E s \in Slots : Consume(s) \/ CopySlot(s) \/ Elapse(s) \/ Select(s)
    \/ Refresh \/ RefreshOtherMaster \/ Wake \/ Sleep \/ AdvanceSucceeds \/ AdvanceFails

Spec == Init /\ [][Next]_vars

\* The keeper's loop and its worker run, statuses are reported, WAL is replayed,
\* backoffs elapse.
FairSpec ==
    /\ Spec
    /\ WF_vars(Refresh) /\ WF_vars(Work) /\ WF_vars(~Advances /\ AdvanceFails)
    /\ WF_vars(ReportMaster) /\ WF_vars(ReportStandby) /\ WF_vars(Replay)
    /\ \A s \in Slots : WF_vars(Elapse(s))

-----------------------------------------------------------------------------
\* Properties

\* Every variable has the shape of the Go state it stands for.
TypeOK ==
    /\ written \in 1..MaxLSN /\ replay \in 1..MaxLSN /\ replayLSN \in 0..MaxLSN
    /\ seen \in [Slots -> 0..MaxLSN] /\ slot \in [Slots -> 0..MaxLSN]
    /\ masterLSN \in [Slots -> 0..MaxLSN] /\ pending \in [Slots -> 0..MaxLSN]
    /\ role \in {"standby", "master"} /\ desired \subseteq Slots /\ enabled \in BOOLEAN
    /\ retryAfter \subseteq Slots /\ notified \in BOOLEAN /\ awake \in BOOLEAN
    /\ doing = NoOp \/ doing \in [name : Slots, target : 1..MaxLSN]

\* "standby path computes safe advance targets (min(desired_lsn, replay_lsn),
\* forward-only)" (doc/logical_slots.md:19): at no time has this instance a slot
\* that is ahead of what its consumer has seen.
AdvancesSafely == \A s \in Slots : seen[s] # 0 => slot[s] <= seen[s]

\* The same unless an operation outlived a resync: nothing takes it off the queue.
NeverAhead == ~carried => AdvancesSafely

Behind(s) ==
    role = "standby" /\ enabled /\ s \in desired /\ slot[s] # 0 /\ slot[s] < Min({seen[s], replay})

\* "executes queued logical-slot advances with retry backoff" (the comment of
\* standbyLogicalSlotAdvanceWorker): a slot does not stay behind.
CatchesUp == \A s \in Slots : []<>~Behind(s)

\* An operation for s is queued and the worker sleeps, with nothing to wake it.
Stranded(s) == pending[s] # 0 /\ ~notified /\ ~awake

\* The same unless an operation is stranded for good: queued while the worker tried
\* another for the same slot that failed, and of no less target than the next ones.
\* A worker that does not run, a backoff that does not end or an operation that is
\* lost and not planned again is no such case.
NotForgotten == \A s \in Slots : []<>~Behind(s) \/ <>[]Stranded(s)
=============================================================================

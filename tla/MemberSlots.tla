----------------------------- MODULE MemberSlots -----------------------------
(***************************************************************************)
(* The physical replication slots of the members of a cluster.  The leader   *)
(* sentinel records when a follower left the master (OrphanMemberSlots);     *)
(* the keeper of a database creates the slots of its followers and drops     *)
(* those of databases that are gone, from the cluster data it read at the    *)
(* start of its loop and the slots it found then.                          *)
(*                                                                         *)
(* A DB UID is used once: a keeper that comes back gets a new database.      *)
(* Ages of orphans count up to TTL (memberReplicationSlotTTL).              *)
(***************************************************************************)
EXTENDS Integers, FiniteSets

CONSTANTS
    DBs,          \* database UIDs; a slot is named after the follower
    CanLead,      \* the databases that may be elected
    Extras,       \* names in AdditionalMasterReplicationSlots
    Ignored,      \* names an ignore list or matcher keeps out of hysteron's hands
    TTL,          \* memberReplicationSlotTTL, 0 when disabled
    MaxSwitches   \* bound: elections

None == "none"
Names == DBs \cup Extras

ASSUME SlotsAssumption ==
    /\ CanLead \subseteq DBs /\ CanLead # {}
    /\ None \notin Names /\ Ignored \subseteq Names
    /\ Extras \cap DBs = {}
    /\ TTL \in Nat /\ MaxSwitches \in Nat

VARIABLES
    \* cluster data
    master,       \* Cluster.Status.Master
    members,      \* UIDs in DBs
    follow,       \* follow[d]: FollowConfig.DBUID
    followers,    \* followers[d]: Spec.Followers
    orphans,      \* orphans[d]: Status.OrphanMemberSlots, slot |-> age
    additional,   \* AdditionalReplicationSlots
    \* keepers and their instances
    slots,        \* slots[d][s]: "none" | "active" | "idle" | "xmin" (idle, with xmin)
    job,          \* job[d]: the cluster data refreshReplicationSlots works with
    \* history
    used,         \* UIDs that were given out
    left,         \* left[d]: age since d left the cluster data
    switches

cdVars == <<master, members, follow, followers, orphans, additional>>
vars == <<cdVars, slots, job, used, left, switches>>

NoSlots == [s \in Names |-> "none"]
NoOrphans == [s \in {} |-> 0]
Idle == [pc |-> "idle"]

\* A master with its followers, their slots in place.
Init ==
    \E m \in CanLead, n \in SUBSET DBs :
        /\ m \in n
        /\ master = m /\ members = n /\ used = n
        /\ follow = [d \in DBs |-> IF d \in n \ {m} THEN m ELSE None]
        /\ followers = [d \in DBs |-> IF d = m THEN n \ {m} ELSE {}]
        /\ orphans = [d \in DBs |-> NoOrphans]
        /\ additional = {}
        /\ slots = [d \in DBs |-> [s \in Names |->
                      IF d = m /\ s \in n \ ({m} \cup Ignored) THEN "active" ELSE "none"]]
        /\ job = [d \in DBs |-> Idle]
        /\ left = [d \in DBs |-> 0]
        /\ switches = 0

Older(age) == IF age < TTL THEN age + 1 ELSE age

\* Time passes for the tracked orphans, and for those in the copies of keepers.
Tick ==
    LET Aged(o) == [s \in DOMAIN o |-> Older(o[s])] IN
    /\ TTL > 0
    /\ orphans' = [d \in DBs |-> Aged(orphans[d])]
    /\ job' = [d \in DBs |-> IF job[d].pc = "read"
                             THEN [job[d] EXCEPT !.orphans = Aged(@)] ELSE job[d]]
    /\ left' = [d \in DBs |-> IF d \in used \ members THEN Older(left[d]) ELSE left[d]]
    /\ UNCHANGED <<master, members, follow, followers, additional, slots, used, switches>>

-----------------------------------------------------------------------------
\* The sentinel

\* Mutant: the orphans of earlier checks are not carried over.
computeOrphansAnew(prev, cur, old) == [s \in prev \ cur |-> 0]

\* computeOrphanMemberSlots for an unchanged master.
computeOrphanMemberSlots(prev, cur, old) ==
    LET kept == DOMAIN old \ cur IN
    [s \in kept \cup (prev \ cur) |-> IF s \in kept THEN old[s] ELSE 0]

\* updateCluster keeps the master: databases are removed and added, all the
\* standbys that are left follow the master.
Keep ==
    \E gone \in SUBSET (members \ {master}), new \in SUBSET (DBs \ used) :
        LET now == (members \ gone) \cup new
            cur == now \ {master}
        IN
        \* a former master is removed, not made to follow
        /\ \A d \in members \ {master} : follow[d] = None => d \in gone
        /\ members' = now
        /\ used' = used \cup new
        /\ follow' = [d \in DBs |-> IF d \in cur THEN master ELSE None]
        /\ followers' = [d \in DBs |-> IF d = master THEN cur
                                       ELSE IF d \in new THEN {} ELSE followers[d]]
        /\ orphans' = [orphans EXCEPT ![master] =
                         IF TTL = 0 THEN NoOrphans
                         ELSE computeOrphanMemberSlots(followers[master], cur, @)]
        /\ UNCHANGED <<master, additional, slots, job, left, switches>>

\* updateCluster elects w: the standbys go on following the old master, whose list
\* of followers is that of the new one, and orphans are not known any more.
Elect(w) ==
    /\ switches < MaxSwitches
    /\ switches' = switches + 1
    /\ w \in (members \cap CanLead) \ {master}
    /\ master' = w
    /\ follow' = [follow EXCEPT ![w] = None]
    /\ followers' = [followers EXCEPT ![master] = {d \in members : follow'[d] = w}]
    /\ orphans' = [orphans EXCEPT ![w] = NoOrphans]
    /\ UNCHANGED <<members, additional, slots, job, used, left>>

\* An operator changes additionalMasterReplicationSlots.
UpdateSpec ==
    /\ \E a \in SUBSET Extras : additional' = a
    /\ UNCHANGED <<master, members, follow, followers, orphans, slots, job, used, left, switches>>

-----------------------------------------------------------------------------
\* The keeper: refreshReplicationSlots

\* The cluster data are read, by the keeper of a master or former master: a standby
\* has no followers and no slots.  The instance of a database that is gone is
\* stopped and its data are replaced.
Read(d) ==
    /\ job[d].pc = "idle"
    /\ \/ /\ d \in members /\ follow[d] = None
          /\ job' = [job EXCEPT ![d] =
                       [pc |-> "read", followers |-> followers[d], orphans |-> orphans[d],
                        known |-> members, additional |-> additional]]
          /\ UNCHANGED slots
       \/ /\ d \notin members /\ slots[d] # NoSlots
          /\ slots' = [slots EXCEPT ![d] = NoSlots]
          /\ UNCHANGED job
    /\ UNCHANGED <<cdVars, used, left, switches>>

managedReplicationSlots(v, d) == ((v.followers \ {d}) \cup v.additional) \ Ignored

\* Mutant: what is not tracked is kept.
shouldDropTracked(v, found, s) ==
    s \in DOMAIN v.orphans /\ v.orphans[s] >= TTL /\ found[s] = "idle"

\* shouldDropUnmanagedHysteronSlot
shouldDropUnmanagedHysteronSlot(v, found, s) ==
    \/ TTL = 0
    \/ s \notin DOMAIN v.orphans /\ s \notin v.known
    \/ s \in DOMAIN v.orphans /\ v.orphans[s] >= TTL /\ found[s] = "idle"

\* Mutant: no slots found is taken for a failed lookup.
UpdateIfFound(d, found) ==
    LET v == job[d]
        managed == managedReplicationSlots(v, d)
        drop == {s \in Names \ (managed \cup Ignored) :
                   /\ found[s] # "none" /\ slots[d][s] # "active"
                   /\ shouldDropUnmanagedHysteronSlot(v, found, s)}
    IN
    /\ v.pc = "read"
    /\ slots' = [slots EXCEPT ![d] = [s \in Names |->
                   IF s \in drop THEN "none"
                   ELSE IF s \in managed /\ found # NoSlots /\ @[s] = "none" THEN "idle" ELSE @[s]]]
    /\ job' = [job EXCEPT ![d] = Idle]
    /\ UNCHANGED <<cdVars, used, left, switches>>

\* updateReplSlots with the slots that were found (none, if the lookup failed).
\* PostgreSQL refuses to drop a slot that is in use; the loop goes on.  To create
\* one that exists but was not found is an error, which ends the refresh.
updateReplSlots(d, found) ==
    LET v == job[d]
        managed == managedReplicationSlots(v, d)
        present == {s \in Names : found[s] # "none"}
        drop == {s \in present \ (managed \cup Ignored) :
                   shouldDropUnmanagedHysteronSlot(v, found, s) /\ slots[d][s] # "active"}
    IN
    /\ v.pc = "read"
    /\ \E create \in SUBSET {s \in managed : slots[d][s] = "none"} :
        /\ \/ create = {s \in managed : slots[d][s] = "none"}
           \/ \E s \in managed \ present : slots[d][s] # "none"
        /\ slots' = [slots EXCEPT ![d] = [s \in Names |->
                       IF s \in drop THEN "none" ELSE IF s \in create THEN "idle" ELSE @[s]]]
    /\ job' = [job EXCEPT ![d] = Idle]
    /\ UNCHANGED <<cdVars, used, left, switches>>

-----------------------------------------------------------------------------
\* PostgreSQL (external): a standby streams through its slot as long as it runs
\* and may leave xmin in it (hot_standby_feedback).

Connect(d, x) ==
    /\ x \in members /\ follow[x] = d
    /\ slots[d][x] \in {"idle", "xmin"}
    /\ slots' = [slots EXCEPT ![d][x] = "active"]
    /\ UNCHANGED <<cdVars, job, used, left, switches>>

Disconnect(d, x) ==
    /\ slots[d][x] = "active"
    /\ \E s \in {"idle", "xmin"} : slots' = [slots EXCEPT ![d][x] = s]
    /\ UNCHANGED <<cdVars, job, used, left, switches>>

-----------------------------------------------------------------------------
Refresh(d) == Read(d) \/ updateReplSlots(d, slots[d]) \/ updateReplSlots(d, NoSlots)

Next ==
    \/ Tick \/ Keep \/ UpdateSpec
    \/ \E d \in CanLead : Elect(d) \/ Refresh(d)
    \/ \E d \in CanLead, x \in DBs : Connect(d, x) \/ Disconnect(d, x)

Spec == Init /\ [][Next]_vars

\* Keepers run their loop, a lookup of the slots succeeds at times, the connection
\* of a database that is gone ends, time passes.  The sentinel need not do more.
FairSpec ==
    /\ Spec
    /\ WF_vars(Tick)
    /\ \A d \in CanLead :
          /\ WF_vars(Read(d)) /\ SF_vars(updateReplSlots(d, slots[d]))
          /\ \A x \in DBs : WF_vars(x \notin members /\ Disconnect(d, x))

-----------------------------------------------------------------------------
\* Properties

\* Every variable has the shape of the Go state it stands for.
TypeOK ==
    /\ members \subseteq used /\ used \subseteq DBs /\ master \in members
    /\ follow \in [DBs -> DBs \cup {None}]
    /\ followers \in [DBs -> SUBSET DBs]
    /\ \A d \in DBs : /\ DOMAIN orphans[d] \subseteq DBs
                      /\ \A s \in DOMAIN orphans[d] : orphans[d][s] \in 0..TTL
    /\ additional \subseteq Extras
    /\ slots \in [DBs -> [Names -> {"none", "active", "idle", "xmin"}]]
    /\ left \in [DBs -> 0..TTL]
    /\ switches \in 0..MaxSwitches

\* "A slot is dropped only after this age threshold and only when safe guards pass
\* (inactive and no xmin)" (doc/cluster_spec.md:41), with a TTL.
Dropped(d, x) == slots[d][x] # "none" /\ slots'[d][x] = "none"
DroppedByAge ==
    [][\A d \in members, x \in DBs :
         Dropped(d, x) => x \in used \ members /\ left[x] = TTL /\ slots[d][x] = "idle"]_vars

\* The same as long as no master that was replaced is elected again: that election
\* forgets the orphans of the database.
GraceKept ==
    [][switches < 2 => \A d \in members, x \in DBs :
         Dropped(d, x) => x \in used \ members /\ left[x] = TTL /\ slots[d][x] = "idle"]_vars

\* A follower of the master gets its slot, whatever else is in the way of it.
FollowersGetSlots ==
    \A d \in CanLead, x \in DBs \ Ignored :
        (d = master /\ x \in followers[d])
            ~> (d # master \/ x \notin followers[d] \/ slots[d][x] # "none")

\* The slot of a database that is gone is dropped in the end, if it holds no xmin.
OrphansCleaned ==
    \A d \in CanLead, x \in DBs \ Ignored :
        (d = master /\ x \in used \ members /\ slots[d][x] # "none")
            ~> (d # master \/ slots[d][x] \in {"none", "xmin"})
=============================================================================

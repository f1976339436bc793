-------------------------- MODULE ClusterDataUpdates --------------------------
(***************************************************************************)
(* What the writers of the cluster data rely on: the cluster data changes  *)
(* as if every sentinel check and every operator command took place at one *)
(* instant, on the data as they are at that instant, a command at most      *)
(* once, and none but pause and resume in a paused cluster.                *)
(*                                                                         *)
(* The exception is a forced write, which replaces whatever is there.      *)
(* A command that finds what it asks for writes nothing: no step here.     *)
(***************************************************************************)
EXTENDS Integers

CONSTANTS
    Pauses,    \* commands pause
    Resumes,   \* commands resume
    Updates,   \* commands that read, change and write again when they lose a
               \* race: update, patch, failover, switchover, reinit
    Promotes,  \* commands promote, which do the same
    Edits,     \* commands that do so once: remove and fail a keeper
    Inits,     \* commands initialize without --yes
    Skips,     \* commands initialize with --skip-if-present
    Writes,    \* commands write and initialize with --yes
    NoData     \* no cluster data in the store

\* The commands that write with AtomicPutClusterData.
Mutations == Pauses \cup Resumes \cup Updates \cup Promotes \cup Edits
\* The commands that write with PutClusterData.
Puts == Inits \cup Skips \cup Writes
Commands == Mutations \cup Puts

Roles == {"master", "standby"}

\* Cluster data: how many clusters were created before, the role of the cluster
\* specification, PauseActive, the commands whose changes are in it, and the
\* number of sentinel checks in it (each one at least moves ChangeTime).
ClusterData == [cluster : Nat, role : Roles, paused : BOOLEAN, edits : SUBSET Commands,
                checks : Nat]
Value == ClusterData \cup {NoData}

VARIABLES
    data,      \* the cluster data in the store
    created,   \* number of clusters created
    applied    \* commands that had their effect

vars == <<data, created, applied>>

\* cluster.NewClusterData(cluster.NewCluster(uid, spec)), with the role of the spec
NewClusterData(n, r) ==
    [cluster |-> n, role |-> r, paused |-> FALSE, edits |-> {}, checks |-> 0]

\* What a command makes of the cluster data v; r is the role in what an update is given
\* (a patch of the cluster data may change it either way).
Changed(c, v, r) ==
    IF c \in Pauses THEN [v EXCEPT !.paused = TRUE]
    ELSE IF c \in Resumes THEN [v EXCEPT !.paused = FALSE]
    ELSE IF c \in Promotes THEN [v EXCEPT !.role = "master"]
    ELSE [v EXCEPT !.edits = @ \cup {c}, !.role = IF c \in Updates THEN r ELSE @]

\* Commands other than pause and resume are refused in a paused cluster, and
\* all mutations when there is no cluster.
Accepts(c, v) == v # NoData /\ (v.paused => c \in Pauses \cup Resumes)

\* The two commands that succeed without a write: promote when the role is master,
\* initialize --skip-if-present when there are cluster data.
AlreadyThere(c, v) ==
    /\ c \in Promotes \cup Skips
    /\ Accepts(c, v)
    /\ c \in Promotes => v.role = "master"

Init ==
    /\ data \in {NoData} \cup {NewClusterData(0, r) : r \in Roles}
    /\ created = IF data = NoData THEN 0 ELSE 1
    /\ applied = {}

Create ==
    /\ \E r \in Roles : data' = NewClusterData(created, r)
    /\ created' = created + 1

\* A sentinel without cluster data writes the initial cluster specification.
FirstCheck == data = NoData /\ Create /\ UNCHANGED applied

SentinelCheck ==
    /\ data # NoData
    /\ data' = [data EXCEPT !.checks = @ + 1]
    /\ UNCHANGED <<created, applied>>

Mutate(c) ==
    /\ c \in Mutations \ applied
    /\ Accepts(c, data) /\ ~AlreadyThere(c, data)
    /\ \E r \in Roles : data' = Changed(c, data, r)
    /\ applied' = applied \cup {c}
    /\ UNCHANGED created

\* A put without a comparison.
Overwrite(c) ==
    /\ c \in Puts \ applied
    /\ Create
    /\ applied' = applied \cup {c}

Next ==
    \/ FirstCheck
    \/ SentinelCheck
    \/ \E c \in Commands : Mutate(c) \/ Overwrite(c)

Spec == Init /\ [][Next]_vars
=============================================================================

--------------------------- MODULE ClusterDataStore ---------------------------
(***************************************************************************)
(* The cluster data in the store and everyone who writes it: sentinels,    *)
(* any number of which may believe to be the leader, and operator commands. *)
(*                                                                         *)
(* A writer reads the cluster data, computes new data from its snapshot    *)
(* and puts them with AtomicPutClusterData.  The etcd backend compares the *)
(* revision of the snapshot in the transaction that writes.  The           *)
(* Kubernetes backend gets the object again, compares the values, and       *)
(* updates the object on the condition that its resource version is still   *)
(* that of this second read, which it repeats on a conflict.               *)
(*                                                                         *)
(* The effects of the commands on the cluster data, and the specification   *)
(* this one implements, are in ClusterDataUpdates.                         *)
(***************************************************************************)
EXTENDS Integers, FiniteSets

CONSTANTS
    Sentinels, Pauses, Resumes, Updates, Promotes, Edits, Inits, Skips, Writes, NoData,
    Backend,      \* "etcdv3" or "kubernetes"
    MutateRetries,   \* clusterDataMutateRetries, clusterMutateRetries
    ConflictSteps,   \* retry.DefaultRetry.Steps
    MaxChecks,       \* bound: writes of the sentinels
    MaxFaults        \* bound: store calls that fail

VARIABLES data, created, applied

Register == INSTANCE ClusterDataUpdates
    WITH data <- data, created <- created, applied <- applied

Mutations == Pauses \cup Resumes \cup Updates \cup Promotes \cup Edits
Puts == Inits \cup Skips \cup Writes
Commands == Mutations \cup Puts
Writers == Sentinels \cup Commands
Value == Register!Value

ASSUME WriterAssumption ==
    /\ NoData \notin Register!ClusterData
    /\ Sentinels \cap Commands = {}
    /\ Pauses \cap (Resumes \cup Updates \cup Promotes \cup Edits) = {}
    /\ Resumes \cap (Updates \cup Promotes \cup Edits) = {}
    /\ Updates \cap (Promotes \cup Edits) = {}
    /\ Promotes \cap Edits = {}
    /\ Mutations \cap Puts = {}
    /\ Inits \cap (Skips \cup Writes) = {}
    /\ Skips \cap Writes = {}
    /\ Backend \in {"etcdv3", "kubernetes"}
    /\ MutateRetries \in Nat \ {0} /\ ConflictSteps \in Nat \ {0}
    /\ MaxChecks \in Nat /\ MaxFaults \in Nat

VARIABLES
    rev,        \* mod revision of the key, resource version of the object; 0
                \* when there is none
    pc,         \* "idle" | "loaded" | "compared" | "done"
    snap,       \* snap[w]: the cluster data w has read
    snapRev,    \* snapRev[w]: their revision (KVPair.LastIndex)
    gotRev,     \* gotRev[w]: resource version of the second read
    tries,      \* tries[w]: attempts of the command's own loop
    conflicts,  \* conflicts[w]: attempts of RetryOnConflict
    result,     \* result[c]: what the command reported
    checks, faults

storeVars == <<data, created, applied, rev>>
writerVars == <<pc, snap, snapRev, gotRev, tries, conflicts, result>>
vars == <<storeVars, writerVars, checks, faults>>

Init ==
    /\ Register!Init
    /\ rev = IF data = NoData THEN 0 ELSE 1
    /\ pc = [w \in Writers |-> "idle"]
    /\ snap = [w \in Writers |-> NoData]
    /\ snapRev = [w \in Writers |-> 0]
    /\ gotRev = [w \in Writers |-> 0]
    /\ tries = [w \in Writers |-> 0]
    /\ conflicts = [w \in Writers |-> 0]
    /\ result = [c \in Commands |-> "none"]
    /\ checks = 0
    /\ faults = 0

\* Writer w is back at its start, or for a command at its end with result r.
Finish(w, r) ==
    /\ pc' = [pc EXCEPT ![w] = IF w \in Sentinels THEN "idle" ELSE "done"]
    /\ result' = IF w \in Sentinels THEN result ELSE [result EXCEPT ![w] = r]
    /\ snap' = [snap EXCEPT ![w] = NoData]
    /\ snapRev' = [snapRev EXCEPT ![w] = 0]
    /\ gotRev' = [gotRev EXCEPT ![w] = 0]
    /\ conflicts' = [conflicts EXCEPT ![w] = 0]
    /\ UNCHANGED tries

\* Mutants of KeyModified: the last lost race is taken for a success; the write
\* is tried again with the old snapshot.
KeyModifiedIsFine(w) == Finish(w, "ok")
KeyModifiedTryAgain(w) == UNCHANGED writerVars

\* AtomicPutClusterData has failed with ErrKeyModified: update commands start
\* again with a new read, as often as their loop allows.
KeyModified(w) ==
    IF w \in Pauses \cup Resumes \cup Updates \cup Promotes /\ tries[w] + 1 < MutateRetries
    THEN /\ pc' = [pc EXCEPT ![w] = "idle"]
         /\ tries' = [tries EXCEPT ![w] = @ + 1]
         /\ snap' = [snap EXCEPT ![w] = NoData]
         /\ snapRev' = [snapRev EXCEPT ![w] = 0]
         /\ gotRev' = [gotRev EXCEPT ![w] = 0]
         /\ conflicts' = [conflicts EXCEPT ![w] = 0]
         /\ UNCHANGED result
    ELSE Finish(w, "failed")

-----------------------------------------------------------------------------
\* Reading

\* Mutant: updates do not ask whether the cluster is paused.
ProceedsWhenPaused(w, v) ==
    \/ w \in Sentinels
    \/ w \in Mutations /\ v # NoData /\ ~Register!AlreadyThere(w, v)
    \/ w \in Inits \cup Skips /\ v = NoData
    \/ w \in Writes

\* Does the writer go on to write, having read v?
Proceeds(w, v) ==
    \/ w \in Sentinels
    \/ w \in Mutations /\ Register!Accepts(w, v) /\ ~Register!AlreadyThere(w, v)
    \/ w \in Inits \cup Skips /\ v = NoData
    \/ w \in Writes /\ (v # NoData => ~v.paused)

\* The value and the revision of the key, or the value of the object's key.
GetClusterData(w) ==
    /\ snap' = [snap EXCEPT ![w] = data]
    /\ snapRev' = [snapRev EXCEPT ![w] = rev]

\* GetClusterData, and the checks on what it returns: a command that finds what it
\* asks for reports success without a write.
Load(w) ==
    /\ pc[w] = "idle"
    /\ w \in Sentinels => checks < MaxChecks
    /\ IF Proceeds(w, data)
       THEN /\ pc' = [pc EXCEPT ![w] = "loaded"]
            /\ GetClusterData(w)
            /\ UNCHANGED <<gotRev, tries, conflicts, result>>
       ELSE Finish(w, IF Register!AlreadyThere(w, data) THEN "ok" ELSE "refused")
    /\ UNCHANGED <<storeVars, checks, faults>>

\* The command is turned down for what it was given, or for what it makes of the
\* specification it found: ClusterSpec.Validate, a keeper or database that is not
\* there, a negative duration.  (A sentinel's check ends there without a trace.)
Invalid(w) ==
    /\ w \in Commands \ Resumes
    /\ pc[w] = "idle"
    /\ Finish(w, "refused")
    /\ UNCHANGED <<storeVars, checks, faults>>

-----------------------------------------------------------------------------
\* Writing

\* The write of w, computed from its snapshot, reaches the store.
Written(w) ==
    /\ rev' = rev + 1
    /\ IF w \in Sentinels
       THEN /\ \E r \in Register!Roles :
                data' = IF snap[w] = NoData THEN Register!NewClusterData(created, r)
                        ELSE [snap[w] EXCEPT !.checks = @ + 1]
            /\ created' = IF snap[w] = NoData THEN created + 1 ELSE created
            /\ applied' = applied
            /\ checks' = checks + 1
            /\ checks < MaxChecks
       ELSE IF w \in Mutations
       THEN /\ \E r \in Register!Roles : data' = Register!Changed(w, snap[w], r)
            /\ applied' = applied \cup {w}
            /\ UNCHANGED <<created, checks>>
       ELSE /\ \E r \in Register!Roles : data' = Register!NewClusterData(created, r)
            /\ created' = created + 1
            /\ applied' = applied \cup {w}
            /\ UNCHANGED checks

\* The two outcomes of a write that is accepted: the writer learns of it, or
\* the answer is lost.
Accepted(w) ==
    /\ Written(w)
    /\ \/ Finish(w, "ok") /\ UNCHANGED faults
       \/ Finish(w, "unknown") /\ faults < MaxFaults /\ faults' = faults + 1

NotWritten == UNCHANGED <<storeVars, checks>>

\* Mutant: the transaction has no condition.
AtomicPutBlind(w) ==
    /\ Backend = "etcdv3"
    /\ w \in Sentinels \cup Mutations
    /\ pc[w] = "loaded"
    /\ Accepted(w)

\* etcdV3Store.AtomicPut: one transaction.
AtomicPut(w) ==
    /\ Backend = "etcdv3"
    /\ w \in Sentinels \cup Mutations
    /\ pc[w] = "loaded"
    /\ IF rev = snapRev[w]
       THEN Accepted(w)
       ELSE NotWritten /\ KeyModified(w) /\ UNCHANGED faults

\* Mutant: the value that was read is not compared.
GetOnly(w) ==
    /\ Backend = "kubernetes"
    /\ w \in Sentinels \cup Mutations
    /\ pc[w] = "loaded"
    /\ pc' = [pc EXCEPT ![w] = "compared"]
    /\ gotRev' = [gotRev EXCEPT ![w] = rev]
    /\ UNCHANGED <<snap, snapRev, tries, conflicts, result>>
    /\ NotWritten /\ UNCHANGED faults

\* The object holds the value that was read, or still none.
SameValue(w) == data = snap[w]

\* KubeStore.atomicPut...ClusterData: read the object and compare.
GetAndCompare(w) ==
    /\ Backend = "kubernetes"
    /\ w \in Sentinels \cup Mutations
    /\ pc[w] = "loaded"
    /\ IF SameValue(w)
       THEN /\ pc' = [pc EXCEPT ![w] = "compared"]
            /\ gotRev' = [gotRev EXCEPT ![w] = rev]
            /\ UNCHANGED <<snap, snapRev, tries, conflicts, result>>
       ELSE KeyModified(w)
    /\ NotWritten /\ UNCHANGED faults

\* Mutant: an object that was missing is written without a condition.
UpdateOrReplace(w) ==
    /\ Backend = "kubernetes"
    /\ pc[w] = "compared"
    /\ rev = gotRev[w] \/ gotRev[w] = 0
    /\ Accepted(w)

\* Then update it, or create it if there was none.  A conflict of an update is
\* retried from the read, one of a creation is not.
UpdateOrCreate(w) ==
    /\ Backend = "kubernetes"
    /\ pc[w] = "compared"
    /\ IF rev = gotRev[w]
       THEN Accepted(w)
       ELSE /\ NotWritten /\ UNCHANGED faults
            /\ IF gotRev[w] # 0 /\ conflicts[w] + 1 < ConflictSteps
               THEN /\ pc' = [pc EXCEPT ![w] = "loaded"]
                    /\ conflicts' = [conflicts EXCEPT ![w] = @ + 1]
                    /\ gotRev' = [gotRev EXCEPT ![w] = 0]
                    /\ UNCHANGED <<snap, snapRev, tries, result>>
               ELSE Finish(w, "failed")

\* PutClusterData: whatever is there is replaced; a conflict is retried.
PutClusterData(w) == Accepted(w)

Put(w) ==
    /\ w \in Puts
    /\ pc[w] = "loaded"
    /\ PutClusterData(w)

\* A store call fails without effect, or a sentinel's check ends early.
Fail(w) ==
    /\ pc[w] \in {"loaded", "compared"}
    /\ faults < MaxFaults
    /\ faults' = faults + 1
    /\ NotWritten
    /\ Finish(w, "unknown")

-----------------------------------------------------------------------------
Step(w) == Load(w) \/ Invalid(w) \/ AtomicPut(w) \/ GetAndCompare(w) \/ UpdateOrCreate(w) \/ Put(w)

\* All commands have returned and the sentinels' writes are used up.
Done ==
    /\ \A c \in Commands : pc[c] = "done"
    /\ checks = MaxChecks
    /\ UNCHANGED vars

Next == (\E w \in Writers : Step(w) \/ Fail(w)) \/ Done

Spec == Init /\ [][Next]_vars

\* A command runs until it returns.
FairSpec == Spec /\ \A c \in Commands : WF_vars(Step(c))

-----------------------------------------------------------------------------
\* Properties

\* Every variable has the shape of the Go state it stands for.
TypeOK ==
    /\ data \in Value
    /\ created \in Nat
    /\ applied \in SUBSET Commands
    /\ rev \in Nat
    /\ pc \in [Writers -> {"idle", "loaded", "compared", "done"}]
    /\ snap \in [Writers -> Value]
    /\ snapRev \in [Writers -> Nat]
    /\ gotRev \in [Writers -> Nat]
    /\ tries \in [Writers -> 0..MutateRetries - 1]
    /\ conflicts \in [Writers -> 0..ConflictSteps - 1]
    /\ result \in [Commands -> {"none", "ok", "refused", "failed", "unknown"}]
    /\ checks \in 0..MaxChecks
    /\ faults \in 0..MaxFaults

\* What a command reports is what happened, whatever races it lost on the way.
\* Success means that the step that reports it wrote the command's change, or, of
\* promote and initialize --skip-if-present, that what they ask for was there at that
\* instant.  A refusal or "key modified" means that there was no write.  Only a store
\* error leaves it open.  A report is final: the command has no effect after it.
TrueReport(c) ==
    /\ result[c] # "none" => result'[c] = result[c] /\ (c \in applied' => c \in applied)
    /\ result[c] = "none" /\ result'[c] = "ok" =>
          c \in applied' \ applied \/ (Register!AlreadyThere(c, data) /\ UNCHANGED data)
    /\ result'[c] \in {"none", "refused", "failed"} => c \notin applied'

ReportsTruly == [][\A c \in Commands : TrueReport(c)]_vars

\* The inductive invariant behind it.  A revision identifies the cluster data:
\* a writer whose revision is still the current one, of its snapshot or of its
\* second read, has the current cluster data as its snapshot, and its command
\* is one that these data allow and that had no effect yet.
Writing(w) == pc[w] \in {"loaded", "compared"}

SnapshotsCurrent ==
    /\ rev = 0 <=> data = NoData
    /\ \A w \in Writers : Writing(w) =>
          /\ snapRev[w] <= rev
          /\ snapRev[w] = rev => snap[w] = data
          /\ w \in Mutations => Register!Accepts(w, snap[w]) /\ ~Register!AlreadyThere(w, snap[w])
          /\ pc[w] = "compared" =>
                /\ w \in Sentinels \cup Mutations
                /\ gotRev[w] <= rev
                /\ gotRev[w] = rev => snap[w] = data

PendingHaveNoEffect ==
    \A c \in Commands : /\ pc[c] # "done" <=> result[c] = "none"
                        /\ pc[c] # "done" => c \notin applied

DeniedHaveNoEffect ==
    \A c \in Commands : result[c] \in {"refused", "failed"} => c \notin applied

StoreInv == SnapshotsCurrent /\ PendingHaveNoEffect /\ DeniedHaveNoEffect

\* Two sentinels and a store without cluster data: the cluster is created once.
\* (doc of --skip-if-present, and of the sentinel's initial cluster spec)
CreatedOnce == Writes = {} => created <= 1

\* Writes are never lost, reordered or based on stale data: the store with its
\* writers implements the register that every writer believes to have.
RegisterSpec == Register!Spec

\* A command always returns: its loops are bounded.
CommandsReturn == \A c \in Commands : <>(pc[c] = "done")
=============================================================================

------------------------ MODULE ClusterDataStore_proofs ------------------------
(***************************************************************************)
(* Proofs about the writers of the cluster data, for both backends and any *)
(* number of sentinels and commands.                                       *)
(***************************************************************************)
EXTENDS ClusterDataStore, TLAPS

\* Time enough for every step, however busy the machine is.
USE SMTT(30), ZenonT(30)

USE DEF Register!Mutations, Register!Puts, Register!Commands, Mutations, Puts, Commands, Writers

\* The effects of the commands and of the sentinels on cluster data are cluster
\* data.
LEMMA EffectType ==
    ASSUME NEW v \in Register!ClusterData, NEW c \in Mutations, NEW r \in Register!Roles
    PROVE  /\ Register!Changed(c, v, r) \in Register!ClusterData
           /\ [v EXCEPT !.checks = @ + 1] \in Register!ClusterData
<1>1. [v EXCEPT !.checks = @ + 1] \in Register!ClusterData
  BY DEF Register!ClusterData
<1>2. [v EXCEPT !.paused = TRUE] \in Register!ClusterData
  BY ZenonT(30) DEF Register!ClusterData
<1>3. [v EXCEPT !.paused = FALSE] \in Register!ClusterData
  BY ZenonT(30) DEF Register!ClusterData
<1>4. [v EXCEPT !.role = "master"] \in Register!ClusterData
  BY DEF Register!ClusterData, Register!Roles
<1>5. [v EXCEPT !.edits = @ \cup {c}, !.role = IF c \in Updates THEN r ELSE @] \in Register!ClusterData
  BY ZenonT(30) DEF Register!ClusterData
<1>6. QED
  BY <1>1, <1>2, <1>3, <1>4, <1>5, ZenonT(30) DEF Register!Changed

LEMMA NewIsClusterData ==
    ASSUME NEW n \in Nat, NEW r \in Register!Roles
    PROVE  Register!NewClusterData(n, r) \in Register!ClusterData
BY DEF Register!ClusterData, Register!NewClusterData

\* The end of an attempt of writer w, one way or the other.
Returned(w) ==
    \/ \E r \in {"ok", "unknown", "failed", "refused"} : Finish(w, r)
    \/ KeyModified(w)

\* However an attempt ends (success, error, refusal, or KeyModified with another
\* attempt to come), the writer's own state keeps its types.
LEMMA ReturnType ==
    ASSUME TypeOK, NEW w \in Writers, Returned(w)
    PROVE  /\ pc' \in [Writers -> {"idle", "loaded", "compared", "done"}]
           /\ snap' \in [Writers -> Value]
           /\ snapRev' \in [Writers -> Nat]
           /\ gotRev' \in [Writers -> Nat]
           /\ tries' \in [Writers -> 0..MutateRetries - 1]
           /\ conflicts' \in [Writers -> 0..ConflictSteps - 1]
           /\ result' \in [Commands -> {"none", "ok", "refused", "failed", "unknown"}]
<1>1. NoData \in Value
  BY DEF Value, Register!Value
<1>2. ASSUME NEW r \in {"ok", "unknown", "failed", "refused"}, Finish(w, r)
      PROVE  /\ pc' \in [Writers -> {"idle", "loaded", "compared", "done"}]
             /\ snap' \in [Writers -> Value]
             /\ snapRev' \in [Writers -> Nat]
             /\ gotRev' \in [Writers -> Nat]
             /\ tries' \in [Writers -> 0..MutateRetries - 1]
             /\ conflicts' \in [Writers -> 0..ConflictSteps - 1]
             /\ result' \in [Commands -> {"none", "ok", "refused", "failed", "unknown"}]
  BY <1>1, <1>2, WriterAssumption DEF Finish, TypeOK
<1>3. CASE KeyModified(w)
  <2>1. CASE w \in Pauses \cup Resumes \cup Updates \cup Promotes /\ tries[w] + 1 < MutateRetries
    BY <1>1, <1>3, <2>1, WriterAssumption DEF KeyModified, TypeOK
  <2>2. CASE ~(w \in Pauses \cup Resumes \cup Updates \cup Promotes /\ tries[w] + 1 < MutateRetries)
    BY <1>2, <1>3, <2>2 DEF KeyModified
  <2>3. QED
    BY <2>1, <2>2
<1>4. QED
  BY <1>2, <1>3 DEF Returned

\* A write computed from a snapshot stores cluster data, never the empty value,
\* under the next revision.
LEMMA WriteType ==
    ASSUME TypeOK, NEW w \in Writers, Written(w),
           w \in Mutations => snap[w] # NoData
    PROVE  /\ data' \in Register!ClusterData
           /\ created' \in Nat
           /\ applied' \in SUBSET Commands
           /\ rev' \in Nat /\ rev' = rev + 1
           /\ checks' \in 0..MaxChecks
<1>1. rev' = rev + 1 /\ rev' \in Nat
  BY DEF Written, TypeOK
<1>2. \A n \in Nat, r \in Register!Roles : Register!NewClusterData(n, r) \in Register!ClusterData
  BY NewIsClusterData
<1>3. snap[w] # NoData => snap[w] \in Register!ClusterData
  BY DEF TypeOK, Value, Register!Value
<1>4. CASE w \in Sentinels
  <2>1. snap[w] # NoData => [snap[w] EXCEPT !.checks = @ + 1] \in Register!ClusterData
    BY <1>3 DEF Register!ClusterData
  <2>2. data' \in Register!ClusterData /\ created' \in Nat
    BY <1>2, <1>4, <2>1 DEF Written, TypeOK
  <2>3. applied' \in SUBSET Commands /\ checks' \in 0..MaxChecks
    BY <1>4, WriterAssumption DEF Written, TypeOK
  <2>4. QED
    BY <1>1, <2>2, <2>3
<1>5. CASE w \in Mutations
  <2>1. w \notin Sentinels
    BY <1>5, WriterAssumption
  <2>2. \A r \in Register!Roles : Register!Changed(w, snap[w], r) \in Register!ClusterData
    BY <1>3, <1>5, EffectType, ZenonT(30)
  <2>3. QED
    BY <1>1, <1>5, <2>1, <2>2, WriterAssumption DEF Written, TypeOK
<1>6. CASE w \in Puts
  BY <1>1, <1>2, <1>6, WriterAssumption DEF Written, TypeOK
<1>7. QED
  BY <1>4, <1>5, <1>6

\* Every step keeps the types; that a command never writes the empty value
\* comes from the check of its snapshot.
LEMMA TypeStep ==
    ASSUME TypeOK, SnapshotsCurrent, [Next]_vars
    PROVE  TypeOK'
<1> USE DEF storeVars, writerVars
<1>1. ASSUME NEW w \in Writers, Accepted(w), Writing(w)
      PROVE  TypeOK'
  <2>1. w \in Mutations => snap[w] # NoData
    BY <1>1 DEF SnapshotsCurrent, Register!Accepts
  <2>2. Written(w) /\ Returned(w) /\ faults' \in 0..MaxFaults
    BY <1>1, WriterAssumption DEF Accepted, Returned, TypeOK
  <2>3. QED
    BY <2>1, <2>2, WriteType, ReturnType DEF TypeOK, Value, Register!Value
<1>2. ASSUME NEW w \in Writers, NotWritten, Returned(w), faults' \in 0..MaxFaults
      PROVE  TypeOK'
  BY <1>2, ReturnType DEF NotWritten, TypeOK
<1>3. ASSUME NEW w \in Writers, Load(w)
      PROVE  TypeOK'
  <2>1. CASE Proceeds(w, data)
    BY <1>3, <2>1 DEF Load, GetClusterData, TypeOK
  <2>2. CASE ~Proceeds(w, data)
    BY <1>2, <1>3, <2>2 DEF Load, GetClusterData, NotWritten, Returned, TypeOK
  <2>3. QED
    BY <2>1, <2>2
<1>3a. ASSUME NEW w \in Writers, Invalid(w)
       PROVE  TypeOK'
  BY <1>2, <1>3a DEF Invalid, NotWritten, Returned, TypeOK
<1>4. ASSUME NEW w \in Writers, AtomicPut(w)
      PROVE  TypeOK'
  BY <1>1, <1>2, <1>4 DEF AtomicPut, Writing, Returned, TypeOK
<1>5. ASSUME NEW w \in Writers, GetAndCompare(w)
      PROVE  TypeOK'
  <2>1. CASE data = snap[w]
    BY <1>5, <2>1 DEF GetAndCompare, SameValue, NotWritten, TypeOK
  <2>2. CASE data # snap[w]
    BY <1>2, <1>5, <2>2 DEF GetAndCompare, SameValue, Returned, TypeOK
  <2>3. QED
    BY <2>1, <2>2
<1>6. ASSUME NEW w \in Writers, UpdateOrCreate(w)
      PROVE  TypeOK'
  <2>1. CASE rev = gotRev[w]
    BY <1>1, <1>6, <2>1 DEF UpdateOrCreate, Writing
  <2>2. CASE rev # gotRev[w] /\ gotRev[w] # 0 /\ conflicts[w] + 1 < ConflictSteps
    <3>1. /\ pc' = [pc EXCEPT ![w] = "loaded"]
          /\ conflicts' = [conflicts EXCEPT ![w] = @ + 1]
          /\ gotRev' = [gotRev EXCEPT ![w] = 0]
          /\ UNCHANGED <<data, created, applied, rev, checks, faults, snap, snapRev, tries, result>>
      BY <1>6, <2>2, ZenonT(30) DEF UpdateOrCreate, NotWritten
    <3>2. conflicts' \in [Writers -> 0..ConflictSteps - 1]
      BY ONLY <2>2, <3>1, TypeOK, WriterAssumption, SMTT(30) DEF TypeOK
    <3>3. pc' \in [Writers -> {"idle", "loaded", "compared", "done"}] /\ gotRev' \in [Writers -> Nat]
      BY ONLY <3>1, TypeOK, SMTT(30) DEF TypeOK
    <3>4. QED
      BY ONLY <3>1, <3>2, <3>3, TypeOK, ZenonT(30) DEF TypeOK
  <2>3. CASE rev # gotRev[w] /\ ~(gotRev[w] # 0 /\ conflicts[w] + 1 < ConflictSteps)
    BY <1>2, <1>6, <2>3 DEF UpdateOrCreate, Returned, TypeOK
  <2>4. QED
    BY <2>1, <2>2, <2>3
<1>7. ASSUME NEW w \in Writers, Put(w)
      PROVE  TypeOK'
  BY <1>1, <1>7 DEF Put, PutClusterData, Writing
<1>8. ASSUME NEW w \in Writers, Fail(w)
      PROVE  TypeOK'
  <2>1. NotWritten /\ Returned(w)
    BY <1>8, ZenonT(30) DEF Fail, Returned
  <2>2. faults' \in 0..MaxFaults
    BY ONLY <1>8, TypeOK, WriterAssumption, SMTT(30) DEF Fail, TypeOK
  <2>3. QED
    BY <1>2, <2>1, <2>2, ZenonT(30)
<1>9. CASE Done \/ UNCHANGED vars
  BY <1>9 DEF Done, vars, TypeOK
<1>10. QED
  BY <1>3, <1>3a, <1>4, <1>5, <1>6, <1>7, <1>8, <1>9 DEF Next, Step

\* SnapshotsCurrent, for one writer.
SnapshotCurrent(w) ==
    Writing(w) =>
        /\ snapRev[w] <= rev
        /\ snapRev[w] = rev => snap[w] = data
        /\ w \in Mutations => Register!Accepts(w, snap[w]) /\ ~Register!AlreadyThere(w, snap[w])
        /\ pc[w] = "compared" =>
              /\ w \in Sentinels \cup Mutations
              /\ gotRev[w] <= rev
              /\ gotRev[w] = rev => snap[w] = data

\* What w does to its own variables is nothing to the other writers.
LEMMA OthersCurrent ==
    ASSUME SnapshotsCurrent, NEW w \in Writers, UNCHANGED <<data, rev>>,
           \A v \in Writers \ {w} : /\ pc'[v] = pc[v] /\ snap'[v] = snap[v]
                                    /\ snapRev'[v] = snapRev[v] /\ gotRev'[v] = gotRev[v],
           SnapshotCurrent(w)'
    PROVE  SnapshotsCurrent'
<1>1. ASSUME NEW v \in Writers
      PROVE  SnapshotCurrent(v)'
  <2>1. CASE v = w
    BY <2>1, ZenonT(30)
  <2>2. CASE v # w
    <3>1. SnapshotCurrent(v)
      BY ZenonT(30) DEF SnapshotsCurrent, SnapshotCurrent
    <3>2. /\ pc'[v] = pc[v] /\ snap'[v] = snap[v]
          /\ snapRev'[v] = snapRev[v] /\ gotRev'[v] = gotRev[v]
      BY <2>2, ZenonT(30)
    <3>3. UNCHANGED <<data, rev>>
      OBVIOUS
    <3>4. QED
      BY ONLY <3>1, <3>2, <3>3, ZenonT(30) DEF SnapshotCurrent, Writing
  <2>3. QED
    BY <2>1, <2>2, ZenonT(30)
<1>2. rev' = 0 <=> data' = NoData
  BY ZenonT(30) DEF SnapshotsCurrent
<1>3. QED
  BY <1>1, <1>2, ZenonT(30) DEF SnapshotsCurrent, SnapshotCurrent

\* A new revision is none that another writer has read.
LEMMA OthersOlder ==
    ASSUME SnapshotsCurrent, TypeOK, NEW v \in Writers, rev' = rev + 1,
           pc'[v] = pc[v], snap'[v] = snap[v], snapRev'[v] = snapRev[v], gotRev'[v] = gotRev[v]
    PROVE  SnapshotCurrent(v)'
<1>1. SnapshotCurrent(v)
  BY ZenonT(30) DEF SnapshotsCurrent, SnapshotCurrent
<1>2. rev \in Nat /\ snapRev[v] \in Nat /\ gotRev[v] \in Nat
  BY DEF TypeOK
<1>3. /\ snapRev[v] <= rev => snapRev[v] <= rev' /\ snapRev[v] # rev'
      /\ gotRev[v] <= rev => gotRev[v] <= rev' /\ gotRev[v] # rev'
  BY ONLY <1>2, rev' = rev + 1, SMTT(30)
<1>4. QED
  BY <1>1, <1>3, ZenonT(30) DEF SnapshotCurrent, Writing

\* A write by w, whose snapshot is the current cluster data or which overwrites
\* them, leaves every other snapshot with an older revision.
LEMMA SnapshotsStep ==
    ASSUME TypeOK, TypeOK', SnapshotsCurrent, [Next]_vars
    PROVE  SnapshotsCurrent'
<1> USE DEF storeVars, writerVars, Writing
<1>1. ASSUME NEW w \in Writers, Accepted(w), Writing(w)
      PROVE  SnapshotsCurrent'
  <2>1. w \in Mutations => snap[w] # NoData
    BY <1>1 DEF SnapshotsCurrent, Register!Accepts
  <2>2. data' \in Register!ClusterData /\ rev' = rev + 1
    BY <1>1, <2>1, WriteType DEF Accepted
  <2>3. data' # NoData /\ rev' # 0
    BY <2>2, WriterAssumption DEF TypeOK
  <2>4. PICK r \in {"ok", "unknown"} : Finish(w, r)
    BY <1>1 DEF Accepted
  <2>5. pc'[w] \in {"idle", "done"}
    BY <2>4 DEF Finish, TypeOK
  <2>6. \A v \in Writers \ {w} : /\ pc'[v] = pc[v] /\ snap'[v] = snap[v]
                                  /\ snapRev'[v] = snapRev[v] /\ gotRev'[v] = gotRev[v]
    BY <2>4 DEF Finish, TypeOK
  <2>7. \A v \in Writers \ {w} : SnapshotCurrent(v)'
    BY <2>2, <2>6, OthersOlder, ZenonT(30)
  <2>8. ~Writing(w)'
    BY <2>5, ZenonT(30)
  <2>9. QED
    BY <2>3, <2>7, <2>8, ZenonT(30) DEF SnapshotsCurrent, SnapshotCurrent
<1>2. ASSUME NEW w \in Writers, NotWritten, Returned(w)
      PROVE  SnapshotsCurrent'
  <2>1. ASSUME NEW r \in {"ok", "unknown", "failed", "refused"}, Finish(w, r)
        PROVE  SnapshotsCurrent'
    BY <1>2, <2>1 DEF NotWritten, Finish, SnapshotsCurrent, TypeOK
  <2>2. CASE KeyModified(w)
    <3>1. CASE Finish(w, "failed")
      BY <2>1, <3>1
    <3>2. CASE /\ pc' = [pc EXCEPT ![w] = "idle"]
               /\ snap' = [snap EXCEPT ![w] = NoData]
               /\ snapRev' = [snapRev EXCEPT ![w] = 0]
               /\ gotRev' = [gotRev EXCEPT ![w] = 0]
      <4>1. pc'[w] = "idle"
        BY <3>2 DEF TypeOK
      <4>2. \A v \in Writers \ {w} : /\ pc'[v] = pc[v] /\ snap'[v] = snap[v]
                                      /\ snapRev'[v] = snapRev[v] /\ gotRev'[v] = gotRev[v]
        BY <3>2 DEF TypeOK
      <4>3. UNCHANGED <<data, rev>>
        BY <1>2 DEF NotWritten
      <4>4. SnapshotCurrent(w)'
        BY <4>1, ZenonT(30) DEF SnapshotCurrent
      <4>5. QED
        BY <4>2, <4>3, <4>4, OthersCurrent, ZenonT(30)
    <3>3. QED
      BY <2>2, <3>1, <3>2, ZenonT(30) DEF KeyModified
  <2>3. QED
    BY <1>2, <2>1, <2>2 DEF Returned
<1>3. ASSUME NEW w \in Writers, Load(w)
      PROVE  SnapshotsCurrent'
  <2>1. CASE Proceeds(w, data)
    <3>1. w \in Mutations => Register!Accepts(w, data) /\ ~Register!AlreadyThere(w, data)
      BY <2>1, WriterAssumption DEF Proceeds
    <3>2. /\ pc' = [pc EXCEPT ![w] = "loaded"]
          /\ snap' = [snap EXCEPT ![w] = data]
          /\ snapRev' = [snapRev EXCEPT ![w] = rev]
          /\ UNCHANGED <<gotRev, data, rev>>
      BY <1>3, <2>1, ZenonT(30) DEF Load, GetClusterData
    <3>3. /\ pc'[w] = "loaded" /\ snap'[w] = data /\ snapRev'[w] = rev
          /\ \A v \in Writers \ {w} : pc'[v] = pc[v] /\ snap'[v] = snap[v] /\ snapRev'[v] = snapRev[v]
      BY ONLY <3>2, TypeOK, SMTT(30) DEF TypeOK
    <3>4. rev <= rev
      BY ONLY TypeOK, SMTT(30) DEF TypeOK
    <3>5. SnapshotCurrent(w)'
      BY <3>1, <3>2, <3>3, <3>4, ZenonT(30) DEF SnapshotCurrent, Register!Accepts, Register!AlreadyThere
    <3>6. QED
      BY <3>2, <3>3, <3>5, OthersCurrent, ZenonT(30)
  <2>2. CASE ~Proceeds(w, data)
    BY <1>2, <1>3, <2>2 DEF Load, GetClusterData, NotWritten, Returned
  <2>3. QED
    BY <2>1, <2>2
<1>3a. ASSUME NEW w \in Writers, Invalid(w)
       PROVE  SnapshotsCurrent'
  BY <1>2, <1>3a DEF Invalid, NotWritten, Returned
<1>4. ASSUME NEW w \in Writers, AtomicPut(w)
      PROVE  SnapshotsCurrent'
  BY <1>1, <1>2, <1>4 DEF AtomicPut, Returned
<1>5. ASSUME NEW w \in Writers, GetAndCompare(w)
      PROVE  SnapshotsCurrent'
  <2>1. CASE data = snap[w]
    <3>1. /\ pc' = [pc EXCEPT ![w] = "compared"]
          /\ gotRev' = [gotRev EXCEPT ![w] = rev]
          /\ UNCHANGED <<snap, snapRev, data, rev>> /\ Writing(w)
          /\ w \in Sentinels \cup Mutations
      BY <1>5, <2>1, ZenonT(30) DEF GetAndCompare, SameValue, NotWritten
    <3>2. /\ pc'[w] = "compared" /\ gotRev'[w] = rev
          /\ \A v \in Writers \ {w} : pc'[v] = pc[v] /\ gotRev'[v] = gotRev[v]
      BY <3>1 DEF TypeOK
    <3>3. SnapshotCurrent(w) /\ rev <= rev
      <4>1. rev <= rev
        BY ONLY TypeOK, SMTT(30) DEF TypeOK
      <4>2. QED
        BY <4>1, ZenonT(30) DEF SnapshotsCurrent, SnapshotCurrent
    <3>4. SnapshotCurrent(w)'
      BY <2>1, <3>1, <3>2, <3>3, ZenonT(30) DEF SnapshotCurrent
    <3>5. QED
      BY <3>1, <3>2, <3>4, OthersCurrent, ZenonT(30)
  <2>2. CASE data # snap[w]
    BY <1>2, <1>5, <2>2 DEF GetAndCompare, SameValue, Returned
  <2>3. QED
    BY <2>1, <2>2
<1>6. ASSUME NEW w \in Writers, UpdateOrCreate(w)
      PROVE  SnapshotsCurrent'
  <2>1. CASE rev = gotRev[w]
    BY <1>1, <1>6, <2>1 DEF UpdateOrCreate
  <2>2. CASE rev # gotRev[w] /\ gotRev[w] # 0 /\ conflicts[w] + 1 < ConflictSteps
    <3>1. /\ pc' = [pc EXCEPT ![w] = "loaded"]
          /\ gotRev' = [gotRev EXCEPT ![w] = 0]
          /\ UNCHANGED <<snap, snapRev, data, rev>> /\ Writing(w)
      BY <1>6, <2>2, ZenonT(30) DEF UpdateOrCreate, NotWritten
    <3>2. pc'[w] = "loaded" /\ \A v \in Writers \ {w} : pc'[v] = pc[v] /\ gotRev'[v] = gotRev[v]
      BY <3>1 DEF TypeOK
    <3>3. SnapshotCurrent(w)
      BY ZenonT(30) DEF SnapshotsCurrent, SnapshotCurrent
    <3>4. SnapshotCurrent(w)'
      BY <3>1, <3>2, <3>3, ZenonT(30) DEF SnapshotCurrent
    <3>5. QED
      BY <3>1, <3>2, <3>4, OthersCurrent, ZenonT(30)
  <2>3. CASE rev # gotRev[w] /\ ~(gotRev[w] # 0 /\ conflicts[w] + 1 < ConflictSteps)
    BY <1>2, <1>6, <2>3 DEF UpdateOrCreate, Returned
  <2>4. QED
    BY <2>1, <2>2, <2>3
<1>7. ASSUME NEW w \in Writers, Put(w)
      PROVE  SnapshotsCurrent'
  BY <1>1, <1>7 DEF Put, PutClusterData
<1>8. ASSUME NEW w \in Writers, Fail(w)
      PROVE  SnapshotsCurrent'
  BY <1>2, <1>8 DEF Fail, Returned
<1>9. CASE Done \/ UNCHANGED vars
  BY <1>9 DEF Done, vars, SnapshotsCurrent
<1>10. QED
  BY <1>3, <1>3a, <1>4, <1>5, <1>6, <1>7, <1>8, <1>9 DEF Next, Step

\* Every step is one of three kinds: a write of data computed from the current
\* ones or meant to replace them; the end of a writer without a write; or a
\* step that neither writes nor ends anything.
LEMMA StepKinds ==
    ASSUME TypeOK, SnapshotsCurrent, [Next]_vars
    PROVE  \/ \E w \in Writers : /\ Writing(w) /\ Accepted(w)
                                 /\ w \in Puts \/ snap[w] = data
           \/ /\ UNCHANGED <<data, created, applied>>
              /\ \E w \in Writers, r \in {"ok", "refused", "failed", "unknown"} :
                    /\ pc[w] # "done" /\ Finish(w, r)
                    /\ w \in Commands /\ r = "ok" => Register!AlreadyThere(w, data)
           \/ /\ UNCHANGED <<data, created, applied, result>>
              /\ \A c \in Commands : pc'[c] = "done" <=> pc[c] = "done"
<1> DEFINE Writes1(w) == /\ Writing(w) /\ Accepted(w)
                         /\ w \in Puts \/ snap[w] = data
           Ends(w) == /\ UNCHANGED <<data, created, applied>>
                      /\ \E r \in {"ok", "refused", "failed", "unknown"} :
                            /\ pc[w] # "done" /\ Finish(w, r)
                            /\ w \in Commands /\ r = "ok" => Register!AlreadyThere(w, data)
           Moves == /\ UNCHANGED <<data, created, applied, result>>
                    /\ \A c \in Commands : pc'[c] = "done" <=> pc[c] = "done"
<1> USE DEF storeVars, writerVars, NotWritten, TypeOK
<1>1. ASSUME NEW w \in Writers, NotWritten, KeyModified(w), Writing(w)
      PROVE  Ends(w) \/ Moves
  BY <1>1 DEF KeyModified, Writing
<1>2. ASSUME NEW w \in Writers, Load(w)
      PROVE  Ends(w) \/ Moves
  BY <1>2 DEF Load, GetClusterData
<1>2a. ASSUME NEW w \in Writers, Invalid(w)
       PROVE  Ends(w)
  BY <1>2a DEF Invalid
<1>3. ASSUME NEW w \in Writers, AtomicPut(w)
      PROVE  Writes1(w) \/ Ends(w) \/ Moves
  BY <1>1, <1>3 DEF AtomicPut, Writing, SnapshotsCurrent
<1>4. ASSUME NEW w \in Writers, GetAndCompare(w)
      PROVE  Ends(w) \/ Moves
  BY <1>1, <1>4 DEF GetAndCompare, SameValue, Writing
<1>5. ASSUME NEW w \in Writers, UpdateOrCreate(w)
      PROVE  Writes1(w) \/ Ends(w) \/ Moves
  BY <1>5 DEF UpdateOrCreate, Writing, SnapshotsCurrent
<1>6. ASSUME NEW w \in Writers, Put(w)
      PROVE  Writes1(w)
  BY <1>6 DEF Put, PutClusterData, Writing
<1>7. ASSUME NEW w \in Writers, Fail(w)
      PROVE  Ends(w)
  BY <1>7 DEF Fail
<1>8. CASE Done \/ UNCHANGED vars
  BY <1>8 DEF Done, vars
<1>9. QED
  <2> HIDE DEF Writes1, Ends, Moves
  <2>1. (\E w \in Writers : Writes1(w) \/ Ends(w)) \/ Moves
    <3>1. CASE \E w \in Writers : Step(w) \/ Fail(w)
      BY <1>2, <1>2a, <1>3, <1>4, <1>5, <1>6, <1>7, <3>1 DEF Step
    <3>2. CASE Done \/ UNCHANGED vars
      BY <1>8, <3>2 DEF Moves, Done, vars
    <3>3. QED
      BY <3>1, <3>2 DEF Next
  <2>2. QED
    BY <2>1 DEF Writes1, Ends, Moves

\* A command has an effect only when it ends, and reports it.
LEMMA ReportsStep ==
    ASSUME TypeOK, StoreInv, [Next]_vars
    PROVE  /\ PendingHaveNoEffect' /\ DeniedHaveNoEffect'
           /\ \A c \in Commands : TrueReport(c)
<1> DEFINE Kept == /\ PendingHaveNoEffect' /\ DeniedHaveNoEffect'
                   /\ \A c \in Commands : TrueReport(c)
<1> USE DEF StoreInv, PendingHaveNoEffect, DeniedHaveNoEffect, TrueReport, TypeOK
<1>1. ASSUME NEW w \in Writers, Writing(w), Accepted(w)
      PROVE  Kept
  <2>1. PICK r \in {"ok", "unknown"} : Finish(w, r)
    BY <1>1 DEF Accepted
  <2>2. applied' = IF w \in Sentinels THEN applied ELSE applied \cup {w}
    BY <1>1 DEF Accepted, Written
  <2>3. pc[w] # "done"
    BY <1>1 DEF Writing
  <2>4. QED
    BY <2>1, <2>2, <2>3, WriterAssumption DEF Finish
<1>2. ASSUME NEW w \in Writers, NEW r \in {"ok", "refused", "failed", "unknown"},
             UNCHANGED <<data, applied>>, pc[w] # "done", Finish(w, r),
             w \in Commands /\ r = "ok" => Register!AlreadyThere(w, data)
      PROVE  Kept
  BY <1>2, WriterAssumption DEF Finish
<1>3. ASSUME UNCHANGED <<applied, result>>,
             \A c \in Commands : pc'[c] = "done" <=> pc[c] = "done"
      PROVE  Kept
  BY <1>3
<1>4. QED
  <2> HIDE DEF Kept
  <2>1. Kept
    BY <1>1, <1>2, <1>3, StepKinds DEF StoreInv
  <2>2. QED
    BY <2>1 DEF Kept

\* Every writer's revision identifies its snapshot, and no command has had an
\* effect it does not know of.
THEOREM StoreInvariant == Spec => [](TypeOK /\ StoreInv)
<1>1. Init => TypeOK /\ StoreInv
  <2> SUFFICES ASSUME Init PROVE TypeOK /\ StoreInv
    OBVIOUS
  <2>1. \A r \in Register!Roles : Register!NewClusterData(0, r) \in Register!ClusterData
    BY NewIsClusterData
  <2>2. TypeOK
    <3>1. data \in Value /\ created \in Nat /\ applied \in SUBSET Commands /\ rev \in Nat
      BY <2>1 DEF Init, Register!Init, Value, Register!Value
    <3>2. /\ pc \in [Writers -> {"idle", "loaded", "compared", "done"}]
          /\ result \in [Commands -> {"none", "ok", "refused", "failed", "unknown"}]
      BY DEF Init
    <3>3. snap \in [Writers -> Value] /\ snapRev \in [Writers -> Nat] /\ gotRev \in [Writers -> Nat]
      BY DEF Init, Value, Register!Value
    <3>4. /\ tries \in [Writers -> 0..MutateRetries - 1]
          /\ conflicts \in [Writers -> 0..ConflictSteps - 1]
      BY WriterAssumption DEF Init
    <3>5. checks \in 0..MaxChecks /\ faults \in 0..MaxFaults
      BY WriterAssumption DEF Init
    <3>6. QED
      BY <3>1, <3>2, <3>3, <3>4, <3>5, ZenonT(30) DEF TypeOK
  <2>3. StoreInv
    <3>1. rev = 0 <=> data = NoData
      BY <2>1, WriterAssumption DEF Init, Register!Init
    <3>2. \A w \in Writers : ~Writing(w) /\ pc[w] # "done"
      BY DEF Init, Writing
    <3>3. applied = {} /\ \A c \in Commands : result[c] = "none"
      BY DEF Init, Register!Init
    <3>4. QED
      BY <3>1, <3>2, <3>3, ZenonT(30)
         DEF StoreInv, SnapshotsCurrent, PendingHaveNoEffect, DeniedHaveNoEffect
  <2>4. QED
    BY <2>2, <2>3
<1>2. TypeOK /\ StoreInv /\ [Next]_vars => (TypeOK /\ StoreInv)'
  BY TypeStep, SnapshotsStep, ReportsStep DEF StoreInv
<1>3. QED
  BY <1>1, <1>2, PTL DEF Spec

\* What a command reports is what happened at that step: success is a write of its
\* change or, of promote and initialize --skip-if-present, that the cluster data were
\* as it asks; a refusal or a lost race is no write; and no effect comes after it.
THEOREM ReportsAreTrue == Spec => ReportsTruly
<1>1. TypeOK /\ StoreInv /\ [Next]_vars => [\A c \in Commands : TrueReport(c)]_vars
  BY ReportsStep
<1>2. QED
  BY <1>1, StoreInvariant, PTL DEF Spec, ReportsTruly

\* Cluster data that are compared and swapped by revision (etcd) or by value
\* and resource version (Kubernetes) are a register on which every sentinel
\* check and every command is one atomic step.
THEOREM ImplementsRegister == Spec => RegisterSpec
<1>1. Init => Register!Init
  BY DEF Init
<1>2. ASSUME TypeOK, StoreInv, [Next]_vars
      PROVE  [Register!Next]_Register!vars
  <2> USE DEF StoreInv
  <2>1. ASSUME NEW w \in Writers, Writing(w), Accepted(w),
               w \in Puts \/ snap[w] = data
        PROVE  Register!Next
    <3>1. Written(w)
      BY <2>1 DEF Accepted
    <3>2. w \in Commands => w \notin applied
      BY <1>2, <2>1 DEF Writing, PendingHaveNoEffect
    <3>3. CASE w \in Sentinels
      <4>1. snap[w] = data
        BY <2>1, <3>3, WriterAssumption
      <4>2. CASE data = NoData
        BY <3>1, <3>3, <4>1, <4>2
           DEF Written, Register!Next, Register!FirstCheck, Register!Create
      <4>3. CASE data # NoData
        BY <3>1, <3>3, <4>1, <4>3
           DEF Written, Register!Next, Register!SentinelCheck
      <4>4. QED
        BY <4>2, <4>3
    <3>4. CASE w \in Mutations
      <4>1. snap[w] = data /\ w \notin Sentinels
        BY <2>1, <3>4, WriterAssumption
      <4>2. Register!Accepts(w, data) /\ ~Register!AlreadyThere(w, data)
        BY <1>2, <2>1, <3>4, <4>1 DEF SnapshotsCurrent
      <4>3. Register!Mutate(w)
        BY <3>1, <3>2, <3>4, <4>1, <4>2 DEF Written, Register!Mutate
      <4>4. QED
        BY <3>4, <4>3 DEF Register!Next
    <3>5. CASE w \in Puts
      <4>1. w \notin Sentinels /\ w \notin Mutations
        BY <3>5, WriterAssumption
      <4>2. Register!Overwrite(w)
        BY <3>1, <3>2, <3>5, <4>1 DEF Written, Register!Overwrite, Register!Create
      <4>3. QED
        BY <3>5, <4>2 DEF Register!Next
    <3>6. QED
      BY <3>3, <3>4, <3>5
  <2>2. QED
    BY <1>2, <2>1, StepKinds DEF Register!vars
<1>3. QED
  BY <1>1, <1>2, StoreInvariant, PTL DEF Spec, RegisterSpec, Register!Spec

\* Without overwriting commands, sentinels that race to write the initial
\* cluster data create one cluster.
THEOREM OneCreation == Inits \cup Skips = {} => (Spec => []CreatedOnce)
<1> SUFFICES ASSUME Inits = {}, Skips = {} PROVE Spec => []CreatedOnce
  OBVIOUS
<1> DEFINE Inv == Writes = {} => created = IF data = NoData THEN 0 ELSE 1
<1>1. Init => Inv
  BY WriterAssumption DEF Init, Register!Init, Register!NewClusterData, Register!ClusterData
<1>2. ASSUME TypeOK, StoreInv, Inv, [Next]_vars
      PROVE  Inv'
  <2> SUFFICES ASSUME Writes = {} PROVE created' = IF data' = NoData THEN 0 ELSE 1
    OBVIOUS
  <2>1. ASSUME NEW w \in Writers, Writing(w), Accepted(w), snap[w] = data
        PROVE  Inv'
    <3>1. Written(w)
      BY <2>1 DEF Accepted
    <3>2. w \in Mutations => snap[w] # NoData
      BY <1>2, <2>1 DEF StoreInv, SnapshotsCurrent, Register!Accepts
    <3>3. data' # NoData
      BY <1>2, <3>1, <3>2, WriteType, WriterAssumption
    <3>4. QED
      BY <1>2, <2>1, <3>1, <3>2, <3>3 DEF Written
  <2>2. QED
    BY <1>2, <2>1, StepKinds DEF StoreInv
<1>3. Inv => CreatedOnce
  BY DEF CreatedOnce
<1>4. QED
  BY <1>1, <1>2, <1>3, StoreInvariant, PTL DEF Spec
=============================================================================

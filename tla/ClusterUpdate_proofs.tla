------------------------ MODULE ClusterUpdate_proofs ------------------------
(***************************************************************************)
(* What the sentinel concludes from old reports, for any number of keepers,  *)
(* timelines, faults and requests: there is always a master, a standby it    *)
(* removes as invalid cannot follow that master, one it takes for valid was   *)
(* on the master's line, and an election gives up a bounded part of that line.*)
(*                                                                         *)
(* The argument: what was reported of a database is a part of what it has,   *)
(* and a timeline it has left since ended after the reported position.      *)
(* The history of a master that reports its current generation does not      *)
(* change any more, for only a promotion or a copy would change it, and both *)
(* belong to another generation.  So of the two histories the sentinel       *)
(* compares one is the present one, and the other can only have grown in a   *)
(* way that leaves the verdict as it was.  For the other direction, records  *)
(* go with histories: where two histories agree, and no two writers took the  *)
(* same timeline, the records are the same.                                 *)
(***************************************************************************)
EXTENDS ClusterUpdate, FiniteSetTheorems, WellFoundedInduction, TLAPS

\* Time enough for every step, however busy the machine is.
USE SMTT(30), ZenonT(30)

\* A record of WAL, and the parts of the cluster data of a database.
WALRecord == [tl : 1..MaxTimeline, by : DBs]
SpecType == [role : {"master", "standby", "none"}, follow : DBs \cup {NoDB},
             init : {"none", "resync"}, followers : SUBSET DBs]
StatusType == [healthy : BOOLEAN, gen : {"none", "stale", "current"},
               wal : Seq(WALRecord), hist : Seq(0..MaxPos)]

\* The types of the cluster data and of the timers.
DataTypes ==
    /\ master \in DBs
    /\ spec \in [DBs -> SpecType]
    /\ status \in [DBs -> StatusType]
    /\ alive \in [DBs -> BOOLEAN]
    /\ request \in DBs \cup {NoDB}
    /\ late \subseteq DBs
    /\ faults \in 0..MaxFaults /\ requests \in 0..MaxRequests

\* The types of the keepers and their instances.
KeeperTypes ==
    /\ net \in [DBs -> {"up", "cut", "down"}]
    /\ acting \in [DBs -> {"master", "standby", "stopped"}]
    /\ source \in [DBs -> DBs \cup {NoDB}]
    /\ fresh \in [DBs -> BOOLEAN] /\ current \in [DBs -> BOOLEAN]
    /\ wal \in [DBs -> Seq(WALRecord)] /\ hist \in [DBs -> Seq(0..MaxPos)]
    /\ \A d \in DBs : Len(wal[d]) <= MaxPos /\ Len(hist[d]) < MaxTimeline

\* What the report r says is still true of a database with WAL w and history h:
\* it has what was reported, and has left the reported timeline, if at all, after
\* the reported position.
StillTrue(r, w, h) ==
    /\ IsPrefix(r.wal, w) /\ IsPrefix(r.hist, h)
    /\ Len(r.hist) < Len(h) => Len(r.wal) <= h[Len(r.hist) + 1]

\* What is known of a database: its report is true, there is none of one that is
\* still to be created, a master that has applied its generation acts as one and
\* has reported its last history with it.
DBInv(d) ==
    /\ StillTrue(status[d], wal[d], hist[d])
    /\ fresh[d] => status[d].gen = "none" /\ status[d].wal = <<>> /\ status[d].hist = <<>>
    /\ spec[d].role = "standby" => spec[d].follow \in DBs
    /\ IsMaster(d) => ~fresh[d] /\ (current[d] => acting[d] = "master")
    /\ status[d].gen = "current" =>
          current[d] /\ (IsMaster(d) => status[d].hist = hist[d])

\* The inductive invariant.
UpdateInv ==
    DataTypes /\ KeeperTypes /\ MasterPresent /\ \A d \in DBs : DBInv(d)

-----------------------------------------------------------------------------
\* The empty sequence is a prefix, and a prefix stays one when the longer sequence
\* grows.
LEMMA PrefixGrows ==
    ASSUME NEW S, NEW t \in Seq(S)
    PROVE  /\ IsPrefix(t, t) /\ IsPrefix(<<>>, t)
           /\ \A s \in Seq(S), x \in S : IsPrefix(s, t) => IsPrefix(s, Append(t, x))
<1>1. IsPrefix(t, t) /\ IsPrefix(<<>>, t)
  BY DEF IsPrefix
<1>2. ASSUME NEW s \in Seq(S), NEW x \in S, IsPrefix(s, t)
      PROVE  IsPrefix(s, Append(t, x))
  <2>1. /\ Append(t, x) \in Seq(S) /\ Len(Append(t, x)) = Len(t) + 1
        /\ \A i \in 1..Len(t) : Append(t, x)[i] = t[i]
    OBVIOUS
  <2>. QED  BY <1>2, <2>1 DEF IsPrefix
<1>. QED  BY <1>1, <1>2, ZenonT(30)

\* A report that was just made is true, and so is one that says nothing.
LEMMA NewReport ==
    ASSUME NEW S, NEW w \in Seq(S), NEW h \in Seq(Nat), NEW r,
           \/ r.wal = w /\ r.hist = h
           \/ r.wal = <<>> /\ r.hist = <<>>
    PROVE  StillTrue(r, w, h)
<1>1. IsPrefix(r.wal, w) /\ IsPrefix(r.hist, h)
  BY PrefixGrows
<1>2. Len(r.hist) < Len(h) => Len(r.wal) <= h[Len(r.hist) + 1]
  OBVIOUS
<1>. QED  BY <1>1, <1>2 DEF StillTrue

\* Writing or receiving a record keeps a report true.
LEMMA RecordKeepsReport ==
    ASSUME NEW S, NEW w \in Seq(S), NEW h, NEW r, r.wal \in Seq(S), NEW x \in S,
           StillTrue(r, w, h)
    PROVE  StillTrue(r, Append(w, x), h)
  BY PrefixGrows, ZenonT(30) DEF StillTrue

\* A promotion, or the switch to the timeline of one, keeps a report true: the
\* timeline ends at the last record.
LEMMA SwitchKeepsReport ==
    ASSUME NEW S, NEW w \in Seq(S), NEW h \in Seq(Nat), NEW r,
           r.wal \in Seq(S), r.hist \in Seq(Nat), StillTrue(r, w, h)
    PROVE  StillTrue(r, w, Append(h, Len(w)))
<1>1. /\ Len(w) \in Nat
      /\ \A i \in 1..Len(h) : Append(h, Len(w))[i] = h[i]
      /\ Append(h, Len(w))[Len(h) + 1] = Len(w)
  OBVIOUS
<1>2. IsPrefix(r.wal, w) /\ IsPrefix(r.hist, h)
  BY DEF StillTrue
<1>3. IsPrefix(r.hist, Append(h, Len(w)))
  BY <1>1, <1>2, PrefixGrows
<1>4. Len(r.wal) <= Len(w) /\ Len(r.hist) <= Len(h)
  BY <1>2 DEF IsPrefix
<1>5. Len(r.wal) <= Append(h, Len(w))[Len(r.hist) + 1]
  <2>1. CASE Len(r.hist) = Len(h)
    BY <1>1, <1>4, <2>1
  <2>2. CASE Len(r.hist) < Len(h)
    <3>1. Len(r.hist) + 1 \in 1..Len(h)
      BY <2>2
    <3>. QED  BY <1>1, <2>2, <3>1 DEF StillTrue
  <2>. QED  BY <1>4, <2>1, <2>2
<1>. QED  BY <1>2, <1>3, <1>5 DEF StillTrue

\* What DetectTimelineBranchDivergence finds, in terms of the lengths of the
\* histories.
LEMMA DetectCases ==
    ASSUME NEW f, NEW r, Len(f.hist) \in Nat, Len(r.hist) \in Nat,
           DetectTimelineBranchDivergence(f, r)
    PROVE  \/ Len(f.hist) < Len(r.hist)
           \/ /\ Len(f.hist) = Len(r.hist) /\ Len(r.hist) > 0
              /\ f.hist[Len(r.hist)] # r.hist[Len(r.hist)]
           \/ /\ Len(f.hist) > Len(r.hist)
              /\ f.hist[Len(r.hist) + 1] < Len(r.wal)
<1>1. CASE Timeline(f.hist) < Timeline(r.hist)
  BY <1>1 DEF Timeline
<1>2. CASE OtherSwitchPoint(f, r)
  <2>1. Len(f.hist) = Len(r.hist) /\ Timeline(r.hist) - 1 = Len(r.hist)
    BY <1>2 DEF OtherSwitchPoint, Timeline
  <2>2. Len(r.hist) \in 1..Len(r.hist) /\ f.hist[Len(r.hist)] # r.hist[Len(r.hist)]
    BY <1>2, <2>1, ZenonT(30) DEF OtherSwitchPoint, HasEntry
  <2>. QED  BY <2>1, <2>2
<1>3. CASE Timeline(f.hist) > Timeline(r.hist) /\ f.hist[Timeline(r.hist)] < Len(r.wal)
  BY <1>3 DEF Timeline
<1>. QED  BY <1>1, <1>2, <1>3, ZenonT(30) DEF DetectTimelineBranchDivergence

\* DetectTimelineBranchDivergence stays right as the judged database goes on: if it
\* said of a report r that its database cannot follow one with the history f.hist,
\* then it cannot now either.
LEMMA DivergenceIsForGood ==
    ASSUME NEW S, NEW w \in Seq(S), NEW h \in Seq(Nat), NEW r, NEW f, NEW g,
           r.wal \in Seq(S), r.hist \in Seq(Nat), f.hist \in Seq(Nat),
           g.hist = f.hist, StillTrue(r, w, h),
           DetectTimelineBranchDivergence(f, r)
    PROVE  ~OnLine([wal |-> w, hist |-> h], g)
<1>. SUFFICES ASSUME OnLine([wal |-> w, hist |-> h], g)
              PROVE  FALSE
  OBVIOUS
<1>1. /\ IsPrefix(h, f.hist)
      /\ Len(h) < Len(f.hist) => Len(w) <= f.hist[Len(h) + 1]
  BY DEF OnLine, Timeline
<1>2. Len(h) <= Len(f.hist) /\ \A i \in 1..Len(h) : h[i] = f.hist[i]
  BY <1>1 DEF IsPrefix
<1>3. IsPrefix(r.wal, w) /\ IsPrefix(r.hist, h)
      /\ (Len(r.hist) < Len(h) => Len(r.wal) <= h[Len(r.hist) + 1])
  BY DEF StillTrue
<1>4. Len(r.hist) <= Len(h) /\ \A i \in 1..Len(r.hist) : r.hist[i] = h[i]
  BY <1>3 DEF IsPrefix
<1>5. Len(r.wal) <= Len(w)
  BY <1>3 DEF IsPrefix
<1>6. /\ Len(r.hist) \in Nat /\ Len(f.hist) \in Nat /\ Len(h) \in Nat
      /\ Len(w) \in Nat /\ Len(r.wal) \in Nat
  OBVIOUS
<1>7. CASE Len(f.hist) < Len(r.hist)
  BY <1>2, <1>4, <1>6, <1>7
<1>8. CASE Len(f.hist) = Len(r.hist)
  <2>1. Len(r.hist) > 0 /\ f.hist[Len(r.hist)] # r.hist[Len(r.hist)]
    BY <1>6, <1>8, DetectCases
  <2>2. Len(r.hist) \in 1..Len(r.hist) /\ Len(r.hist) \in 1..Len(h)
    BY <1>4, <1>6, <2>1
  <2>. QED  BY <1>2, <1>4, <2>1, <2>2, ZenonT(30)
<1>9. CASE Len(f.hist) > Len(r.hist)
  <2>1. f.hist[Len(r.hist) + 1] < Len(r.wal)
    BY ONLY <1>6, <1>9, DetectTimelineBranchDivergence(f, r), DetectCases
  <2>2. f.hist[Len(r.hist) + 1] \in Nat
    <3>1. Len(r.hist) + 1 \in 1..Len(f.hist)
      BY ONLY <1>6, <1>9
    <3>2. \A t \in 1..Len(f.hist) : f.hist[t] \in Nat
      BY ONLY f.hist \in Seq(Nat)
    <3>. QED  BY <3>1, <3>2, ZenonT(30)
  <2>3. CASE Len(r.hist) = Len(h)
    BY ONLY <1>1, <1>5, <1>6, <1>9, <2>1, <2>2, <2>3
  <2>4. CASE Len(r.hist) < Len(h)
    <3>1. Len(r.hist) + 1 \in 1..Len(h)
      BY <1>6, <2>4
    <3>2. h[Len(r.hist) + 1] = f.hist[Len(r.hist) + 1]
      BY <1>2, <3>1, ZenonT(30)
    <3>3. Len(r.wal) <= f.hist[Len(r.hist) + 1]
      BY <1>3, <2>4, <3>2, ZenonT(30)
    <3>. QED  BY <1>6, <2>1, <2>2, <3>3
  <2>. QED  BY <1>4, <1>6, <2>3, <2>4
<1>. QED  BY <1>6, <1>7, <1>8, <1>9

\* There are finitely many databases, and 0 is none of them.
LEMMA FiniteDBs == IsFiniteSet(DBs) /\ NoDB \notin DBs /\ DBs \subseteq Nat
<1>1. N \in Int /\ N \in Nat
  BY UpdateAssumption
<1>2. IsFiniteSet(DBs)
  BY <1>1, FS_Interval DEF DBs
<1>3. NoDB \notin DBs /\ DBs \subseteq Nat
  BY <1>1 DEF DBs, NoDB
<1>. QED  BY <1>2, <1>3

\* A nonempty set of natural numbers has a least one.
LEMMA LeastNumber ==
    ASSUME NEW S, S \subseteq Nat, S # {}
    PROVE  \E x \in S : \A y \in S : x <= y
<1>. DEFINE R == OpToRel(<, Nat)
<1>1. IsWellFoundedOn(R, Nat)
  BY NatLessThanWellFounded, ZenonT(30)
<1>. HIDE DEF R
<1>2. PICK x \in S : \A y \in S : ~(<<y, x>> \in R)
  BY <1>1, WFMin, ZenonT(30)
<1>3. ASSUME NEW y \in S
      PROVE  x <= y
  <2>. SUFFICES ASSUME y < x  PROVE FALSE
    OBVIOUS
  <2>1. <<y, x>> \in R
    BY DEF R, OpToRel
  <2>. QED  BY <1>2, <2>1
<1>. QED  BY <1>3

\* sortCandidateMasters orders every set of candidates that have reported a
\* position: no two of them are equal, and the order is transitive.
LEMMA BeforeOrders ==
    ASSUME \A d \in DBs : Position(d) \in Nat,
           NEW a \in DBs, NEW b \in DBs
    PROVE  /\ ~Before(a, a)
           /\ a # b => Before(a, b) \/ Before(b, a)
           /\ \A c \in DBs : Before(a, b) /\ Before(b, c) => Before(a, c)
<1>1. \A d \in DBs : Priority[d] \in Nat /\ d \in Nat
  BY UpdateAssumption, FiniteDBs
<1>. QED  BY <1>1 DEF Before

\* And so there is a first candidate: the one with the fewest before it.
LEMMA FirstIsCandidate ==
    ASSUME \A d \in DBs : Position(d) \in Nat,
           NEW S, S \subseteq DBs, S # {}
    PROVE  First(S) \in S /\ \A b \in S \ {First(S)} : Before(First(S), b)
<1>. DEFINE Ahead(a) == {c \in S : Before(c, a)}
            Counts == {Cardinality(Ahead(a)) : a \in S}
<1>1. ASSUME NEW a \in S
      PROVE  IsFiniteSet(Ahead(a)) /\ Cardinality(Ahead(a)) \in Nat
  <2>1. Ahead(a) \in SUBSET DBs
    OBVIOUS
  <2>2. IsFiniteSet(Ahead(a))
    BY <2>1, FiniteDBs, FS_Subset
  <2>. QED  BY <2>2, FS_CardinalityType
<1>2. PICK n \in Counts : \A m \in Counts : n <= m
  <2>1. Counts \subseteq Nat /\ Counts # {}
    BY <1>1, ZenonT(30)
  <2>. HIDE DEF Counts
  <2>. QED  BY <2>1, LeastNumber, ZenonT(30)
<1>3. PICK a \in S : n = Cardinality(Ahead(a))
  OBVIOUS
<1>4. ASSUME NEW b \in S, b # a
      PROVE  Before(a, b)
  <2>. SUFFICES ASSUME Before(b, a)  PROVE FALSE
    BY <1>4, BeforeOrders
  <2>1. Ahead(b) \in SUBSET Ahead(a)
    BY BeforeOrders
  <2>2. b \in Ahead(a) /\ b \notin Ahead(b)
    BY BeforeOrders
  <2>. HIDE DEF Ahead
  <2>3. Cardinality(Ahead(a)) <= Cardinality(Ahead(b))
    BY <1>2, <1>3
  <2>4. Cardinality(Ahead(b)) <= Cardinality(Ahead(a))
        /\ Cardinality(Ahead(a)) # Cardinality(Ahead(b))
    BY <1>1, <2>1, <2>2, FS_Subset
  <2>. QED  BY <1>1, <2>3, <2>4
<1>5. \E x \in S : \A b \in S \ {x} : Before(x, b)
  BY <1>4
<1>. QED  BY <1>5, ZenonT(30) DEF First

-----------------------------------------------------------------------------
\* The numbers a database has reported and has are numbers of the invariant's
\* sequences.
LEMMA SequenceTypes ==
    ASSUME DataTypes, KeeperTypes, NEW d \in DBs
    PROVE  /\ wal[d] \in Seq(WALRecord) /\ status[d].wal \in Seq(WALRecord)
           /\ hist[d] \in Seq(Nat) /\ status[d].hist \in Seq(Nat)
           /\ hist[d] \in Seq(0..MaxPos) /\ status[d].hist \in Seq(0..MaxPos)
           /\ Len(wal[d]) \in Nat /\ Len(hist[d]) \in Nat
           /\ Position(d) \in Nat
<1>1. /\ wal[d] \in Seq(WALRecord) /\ hist[d] \in Seq(0..MaxPos)
      /\ status[d] \in StatusType
  BY DEF DataTypes, KeeperTypes
<1>2. status[d].wal \in Seq(WALRecord) /\ status[d].hist \in Seq(0..MaxPos)
  BY <1>1 DEF StatusType
<1>3. ASSUME NEW q \in Seq(0..MaxPos)
      PROVE  q \in Seq(Nat)
  <2>1. 0..MaxPos \subseteq Nat
    BY UpdateAssumption
  <2>2. ASSUME NEW S, NEW T, S \subseteq T, NEW s \in Seq(S)
        PROVE  s \in Seq(T)
    <3>1. Len(s) \in Nat /\ DOMAIN s = 1..Len(s) /\ s = [i \in 1..Len(s) |-> s[i]]
      OBVIOUS
    <3>2. \A i \in 1..Len(s) : s[i] \in T
      BY <2>2
    <3>. QED  BY <3>1, <3>2
  <2>. QED  BY <2>1, <2>2, ZenonT(30)
<1>. QED  BY <1>1, <1>2, <1>3 DEF Position

\* A database that nothing happens to keeps what is known of it.
LEMMA DBFrame ==
    ASSUME NEW d \in DBs, DBInv(d), spec'[d] = spec[d],
           status'[d].wal = status[d].wal, status'[d].hist = status[d].hist,
           status'[d].gen = status[d].gen, fresh'[d] = fresh[d],
           current'[d] = current[d], acting'[d] = acting[d], wal'[d] = wal[d],
           hist'[d] = hist[d]
    PROVE  DBInv(d)'
  BY ZenonT(30) DEF DBInv, StillTrue, IsMaster

\* The types of what a check stores.
LEMMA PutTypes ==
    ASSUME DataTypes, KeeperTypes, NEW specs \in [DBs -> SpecType],
           NEW removed, NEW added, PutSpecs(specs, removed, added),
           master' \in DBs, request' \in DBs \cup {NoDB}
    PROVE  DataTypes' /\ KeeperTypes'
<1>1. NoStatus \in StatusType
  BY DEF NoStatus, StatusType
<1>2. ASSUME NEW r \in StatusType
      PROVE  [r EXCEPT !.gen = "stale"] \in StatusType
  BY <1>2, ZenonT(30) DEF StatusType
<1>3. status' \in [DBs -> StatusType]
  BY <1>1, <1>2, ZenonT(30) DEF PutSpecs, DataTypes
<1>4. current' \in [DBs -> BOOLEAN] /\ fresh' \in [DBs -> BOOLEAN]
  BY ZenonT(30) DEF PutSpecs
<1>5. spec' \in [DBs -> SpecType] /\ late' \subseteq DBs
      /\ UNCHANGED <<alive, net, acting, source, wal, hist, faults, requests>>
  BY ZenonT(30) DEF PutSpecs, DataTypes
<1>6. DataTypes'
  BY <1>3, <1>5 DEF DataTypes
<1>7. KeeperTypes'
  BY <1>4, <1>5, ZenonT(30) DEF KeeperTypes
<1>. QED  BY <1>6, <1>7

\* What a check stores of a database: nothing of one that it removes or adds, and
\* a new generation of one whose specification it changes.
LEMMA PutDB ==
    ASSUME NEW specs, NEW removed, NEW added, PutSpecs(specs, removed, added),
           DataTypes, KeeperTypes, NEW d \in DBs, DBInv(d),
           specs[d].role = "standby" => specs[d].follow \in DBs,
           specs[d].role = "master" =>
               /\ d \notin removed \cup added
               /\ IsMaster(d) \/ status[d].gen # "none"
    PROVE  DBInv(d)'
<1>0. spec' = specs /\ UNCHANGED <<acting, wal, hist>>
  BY ZenonT(30) DEF PutSpecs
<1>1. CASE d \in removed \cup added
  <2>1. status'[d] = NoStatus /\ current'[d] = FALSE /\ specs[d].role # "master"
    BY <1>1, ZenonT(30) DEF PutSpecs
  <2>2. status'[d].gen = "none" /\ status'[d].wal = <<>> /\ status'[d].hist = <<>>
    BY <2>1 DEF NoStatus
  <2>3. StillTrue(status'[d], wal[d], hist[d])
    BY <2>2, SequenceTypes, NewReport
  <2>. QED  BY <1>0, <2>1, <2>2, <2>3 DEF DBInv, IsMaster
<1>2. CASE d \notin removed \cup added
  <2>1. (fresh'[d] <=> fresh[d]) /\ (current'[d] <=> current[d] /\ specs[d] = spec[d])
    BY <1>2, ZenonT(30) DEF PutSpecs
  <2>2. status'[d] = IF specs[d] # spec[d] /\ Converged(d)
                     THEN [status[d] EXCEPT !.gen = "stale"] ELSE status[d]
    BY <1>2, ZenonT(30) DEF PutSpecs
  <2>3. status[d] \in StatusType
    BY DEF DataTypes
  <2>4. /\ status'[d].wal = status[d].wal /\ status'[d].hist = status[d].hist
        /\ status[d].gen = "none" => status'[d].gen = "none"
        /\ status'[d].gen = "current" =>
              specs[d] = spec[d] /\ status[d].gen = "current"
    BY <2>2, <2>3 DEF StatusType, Converged
  <2>5. StillTrue(status'[d], wal[d], hist[d])
    BY <2>4, ZenonT(30) DEF DBInv, StillTrue
  <2>6. specs[d].role = "master" => ~fresh[d]
    BY ZenonT(30) DEF DBInv
  <2>. QED  BY <1>0, <2>1, <2>4, <2>5, <2>6, ZenonT(30) DEF DBInv, IsMaster
<1>. QED  BY <1>1, <1>2

\* A check whose new specifications give the master its role, standbys something
\* to follow, and the role of a master to a database that has reported only, keeps
\* the invariant.
LEMMA PutKeeps ==
    ASSUME UpdateInv, NEW specs \in [DBs -> SpecType], NEW removed, NEW added,
           PutSpecs(specs, removed, added),
           master' \in DBs, request' \in DBs \cup {NoDB},
           specs[master'].role = "master",
           \A d \in DBs :
              /\ specs[d].role = "standby" => specs[d].follow \in DBs
              /\ specs[d].role = "master" =>
                    /\ d \notin removed \cup added
                    /\ IsMaster(d) \/ status[d].gen # "none"
    PROVE  UpdateInv'
<1>1. DataTypes' /\ KeeperTypes'
  BY PutTypes, ZenonT(30) DEF UpdateInv
<1>2. MasterPresent'
  BY ZenonT(30) DEF PutSpecs, MasterPresent, IsMaster
<1>3. ASSUME NEW d \in DBs
      PROVE  DBInv(d)'
  BY PutDB, ZenonT(30) DEF UpdateInv
<1>. QED  BY <1>1, <1>2, <1>3, ZenonT(30) DEF UpdateInv

\* Candidates are other databases than the master, that have converged.
LEMMA Candidates ==
    ASSUME NEW w \in BestNewMasters
    PROVE  w \in DBs /\ w # master /\ status[w].gen = "current"
  BY ZenonT(30) DEF BestNewMasters, Present, Good, Converged

\* Specifications with a role, an upstream or followers of a database replaced are
\* specifications.
LEMMA SpecTypes ==
    ASSUME NEW m \in DBs, NEW c \in SpecType, NEW f \in SUBSET DBs
    PROVE  /\ [c EXCEPT !.role = "master"] \in SpecType
           /\ [c EXCEPT !.follow = NoDB] \in SpecType
           /\ [c EXCEPT !.followers = f] \in SpecType
           /\ [[[c EXCEPT !.init = "resync"] EXCEPT !.role = "standby"]
                  EXCEPT !.follow = m] \in SpecType
           /\ MasterSpec(f) \in SpecType /\ NoSpec \in SpecType
           /\ StandbySpec(m) \in SpecType
           /\ \A i \in {"none", "resync"} :
                 [StandbySpec(m) EXCEPT !.init = i] \in SpecType
<1>1. /\ [c EXCEPT !.role = "master"] \in SpecType
      /\ [c EXCEPT !.follow = NoDB] \in SpecType
      /\ [c EXCEPT !.followers = f] \in SpecType
  BY DEF SpecType
<1>2. [[[c EXCEPT !.init = "resync"] EXCEPT !.role = "standby"]
                  EXCEPT !.follow = m] \in SpecType
  BY ZenonT(30) DEF SpecType
<1>3. /\ MasterSpec(f) \in SpecType /\ NoSpec \in SpecType
      /\ StandbySpec(m) \in SpecType
      /\ \A i \in {"none", "resync"} :
            [StandbySpec(m) EXCEPT !.init = i] \in SpecType
  BY DEF SpecType, MasterSpec, StandbySpec, NoSpec
<1>. QED  BY <1>1, <1>2, <1>3

\* Setting the followers of a database changes nothing else.
LEMMA SetFollowers ==
    ASSUME NEW specs \in [DBs -> SpecType], NEW m \in DBs, NEW f \in SUBSET DBs
    PROVE  /\ [specs EXCEPT ![m].followers = f] \in [DBs -> SpecType]
           /\ \A d \in DBs :
                 /\ [specs EXCEPT ![m].followers = f][d].role = specs[d].role
                 /\ [specs EXCEPT ![m].followers = f][d].follow = specs[d].follow
<1>1. specs[m] \in SpecType
  OBVIOUS
<1>2. [specs[m] EXCEPT !.followers = f] \in SpecType
  BY <1>1, SpecTypes, ZenonT(30)
<1>3. /\ [specs[m] EXCEPT !.followers = f].role = specs[m].role
      /\ [specs[m] EXCEPT !.followers = f].follow = specs[m].follow
  BY <1>1 DEF SpecType
<1>4. [specs EXCEPT ![m].followers = f]
         = [specs EXCEPT ![m] = [specs[m] EXCEPT !.followers = f]]
  OBVIOUS
<1>. QED  BY <1>2, <1>3, <1>4

\* The election of a candidate keeps the invariant: it gets the role of a master
\* with a new generation, unless it has it already.
LEMMA ElectKeeps ==
    ASSUME UpdateInv, NEW w \in BestNewMasters, Elect(w),
           request' \in DBs \cup {NoDB}
    PROVE  UpdateInv'
<1>. DEFINE elected == [spec EXCEPT ![w].role = "master", ![w].follow = NoDB]
            f == Followers(elected, master, w)
            specs == [elected EXCEPT ![master].followers = f]
<1>0. w \in DBs /\ status[w].gen = "current"
  BY Candidates
<1>1. spec \in [DBs -> SpecType] /\ master \in DBs /\ \A d \in DBs : DBInv(d)
  BY DEF UpdateInv, DataTypes
<1>2. elected \in [DBs -> SpecType]
      /\ elected[w].role = "master"
      /\ \A d \in DBs : d # w => elected[d] = spec[d]
  <2>1. elected = [spec EXCEPT ![w] = [[spec[w] EXCEPT !.role = "master"]
                                                EXCEPT !.follow = NoDB]]
    BY <1>0, <1>1, ZenonT(30)
  <2>2. spec[w] \in SpecType
    BY <1>0, <1>1
  <2>3. [[spec[w] EXCEPT !.role = "master"] EXCEPT !.follow = NoDB] \in SpecType
        /\ [[spec[w] EXCEPT !.role = "master"] EXCEPT !.follow = NoDB].role = "master"
    BY <2>2, ZenonT(30) DEF SpecType
  <2>. QED  BY <1>0, <1>1, <2>1, <2>3
<1>. HIDE DEF elected
<1>3. f \in SUBSET DBs
  BY ZenonT(30) DEF Followers
<1>4. master' = w /\ PutSpecs(specs, {}, {})
  BY ZenonT(30) DEF Elect, elected
<1>. HIDE DEF f
<1>5. specs \in [DBs -> SpecType]
      /\ \A d \in DBs : specs[d].role = elected[d].role /\ specs[d].follow = elected[d].follow
  <2>1. elected \in [DBs -> SpecType] /\ master \in DBs /\ f \in SUBSET DBs
    BY <1>1, <1>2, <1>3, ZenonT(30)
  <2>2. /\ [elected EXCEPT ![master].followers = f] \in [DBs -> SpecType]
        /\ \A d \in DBs :
              /\ [elected EXCEPT ![master].followers = f][d].role = elected[d].role
              /\ [elected EXCEPT ![master].followers = f][d].follow = elected[d].follow
    BY ONLY <2>1, SetFollowers
  <2>. QED  BY <2>2, ZenonT(30)
<1>. HIDE DEF specs
<1>6. ASSUME NEW d \in DBs
      PROVE  /\ specs[d].role = "standby" => specs[d].follow \in DBs
             /\ specs[d].role = "master" =>
                    /\ d \notin {} \cup {}
                    /\ IsMaster(d) \/ status[d].gen # "none"
  <2>1. CASE d = w
    BY <1>0, <1>2, <1>5, <2>1
  <2>2. CASE d # w
    <3>1. specs[d].role = spec[d].role /\ specs[d].follow = spec[d].follow
      BY <1>2, <1>5, <2>2, ZenonT(30)
    <3>. QED  BY <1>1, <3>1, ZenonT(30) DEF DBInv, IsMaster
  <2>. QED  BY <2>1, <2>2
<1>7. master' \in DBs /\ specs[master'].role = "master"
  BY <1>0, <1>2, <1>4, <1>5, ZenonT(30)
<1>. QED  BY <1>4, <1>5, <1>6, <1>7, PutKeeps, ZenonT(30)

\* The check that keeps a healthy and converged master keeps the invariant: it
\* makes no other master, and neither removes nor adds this one.
LEMMA KeepKeeps ==
    ASSUME UpdateInv, Keep
    PROVE  UpdateInv'
<1>. DEFINE gone == {d \in Present \ {master} : IsMaster(d) \/ Invalid(d)}
            rest == Present \ (gone \cup {master})
            good == {d \in rest : Good(d)}
            free == {d \in DBs \ (rest \cup {master}) : alive[d]}
            specs(kept, added) ==
                [d \in DBs |->
                    IF d = master THEN MasterSpec(kept \cup added)
                    ELSE IF d \in added
                    THEN [StandbySpec(master) EXCEPT !.init = "resync"]
                    ELSE IF d \in kept
                    THEN [StandbySpec(master) EXCEPT !.init =
                            IF d \in good THEN "none" ELSE spec[d].init]
                    ELSE NoSpec]
<1>1. PICK excess \in SUBSET rest, added \in SUBSET free :
         PutSpecs(specs(rest \ excess, added), gone \cup excess, added)
  BY ZenonT(30) DEF Keep
<1>2. gone \subseteq DBs \ {master} /\ rest \subseteq DBs \ {master}
      /\ free \subseteq DBs \ {master}
  BY ZenonT(30) DEF Present
<1>3. UNCHANGED master /\ request' \in {NoDB, request}
  BY ZenonT(30) DEF Keep
<1>4. master \in DBs /\ request \in DBs \cup {NoDB} /\ IsMaster(master)
      /\ spec \in [DBs -> SpecType]
  BY ZenonT(30) DEF UpdateInv, DataTypes, MasterPresent
<1>. DEFINE kept == rest \ excess
<1>5. kept \subseteq DBs \ {master} /\ added \subseteq DBs \ {master}
      /\ master \notin gone \cup excess \cup added
  BY <1>2, ZenonT(30)
<1>6. \A d \in DBs : spec[d].init \in {"none", "resync"}
  BY <1>4 DEF SpecType
<1>7. PutSpecs(specs(kept, added), gone \cup excess, added)
  BY <1>1, ZenonT(30)
<1>. HIDE DEF gone, rest, good, free, kept
<1>8. ASSUME NEW d \in DBs
      PROVE  /\ specs(kept, added)[d] \in SpecType
             /\ specs(kept, added)[d].role = "standby" =>
                    specs(kept, added)[d].follow = master
             /\ specs(kept, added)[d].role = "master" <=> d = master
  <2>0. NoSpec \in SpecType /\ NoSpec.role = "none"
    BY DEF NoSpec, SpecType
  <2>1. CASE d = master
    <3>1. specs(kept, added)[d] = MasterSpec(kept \cup added)
      BY <2>1
    <3>2. kept \cup added \in SUBSET DBs
      BY <1>5, ZenonT(30)
    <3>3. MasterSpec(kept \cup added) \in SpecType
      BY <1>4, <2>0, <3>2, SpecTypes, ZenonT(30)
    <3>4. MasterSpec(kept \cup added).role = "master"
      BY DEF MasterSpec
    <3>. QED  BY <2>1, <3>1, <3>3, <3>4
  <2>2. CASE d # master /\ d \in kept \cup added
    <3>1. PICK i \in {"none", "resync"} :
             specs(kept, added)[d] = [StandbySpec(master) EXCEPT !.init = i]
      BY <1>6, <2>2, ZenonT(30)
    <3>2. [StandbySpec(master) EXCEPT !.init = i] \in SpecType
      BY <1>4, <2>0, SpecTypes, ZenonT(30)
    <3>3. [StandbySpec(master) EXCEPT !.init = i].role = "standby"
          /\ [StandbySpec(master) EXCEPT !.init = i].follow = master
      BY DEF StandbySpec
    <3>. QED  BY <2>2, <3>1, <3>2, <3>3
  <2>3. CASE d # master /\ d \notin kept \cup added
    <3>1. specs(kept, added)[d] = NoSpec
      BY <2>3, ZenonT(30)
    <3>. QED  BY <2>0, <2>3, <3>1
  <2>. QED  BY <2>1, <2>2, <2>3
<1>9. specs(kept, added) = [d \in DBs |-> specs(kept, added)[d]]
  BY ZenonT(30)
<1>. HIDE DEF specs
<1>10. specs(kept, added) \in [DBs -> SpecType]
  BY <1>8, <1>9, ZenonT(30)
<1>. QED
  BY <1>3, <1>4, <1>5, <1>7, <1>8, <1>10, PutKeeps

\* A switch, a failover and a failback elect a candidate.
LEMMA Elections ==
    ASSUME UpdateInv, ManualSwitch \/ Failover \/ AutoFailback
    PROVE  /\ \E w \in BestNewMasters : Elect(w)
           /\ request' \in {request, NoDB}
<1>p. \A d \in DBs : Position(d) \in Nat
  BY SequenceTypes DEF UpdateInv
<1>b. BestNewMasters \subseteq DBs
  BY Candidates, ZenonT(30)
<1>1. CASE ManualSwitch
  BY <1>1, ZenonT(30) DEF ManualSwitch
<1>2. CASE Failover
  BY <1>2, <1>p, <1>b, FirstIsCandidate, ZenonT(30) DEF Failover
<1>3. CASE AutoFailback
  <2>1. PICK d \in FailbackTargets : Elect(d)
    BY <1>3, ZenonT(30) DEF AutoFailback
  <2>2. PICK best \in SUBSET BestNewMasters : best # {} /\ d = First(best)
    BY <2>1, ZenonT(30) DEF FailbackTargets
  <2>3. best \subseteq DBs
    BY <1>b, ZenonT(30)
  <2>4. First(best) \in best
    BY <1>p, <2>2, <2>3, FirstIsCandidate, ZenonT(30)
  <2>. QED  BY <1>3, <2>1, <2>2, <2>4, ZenonT(30) DEF AutoFailback
<1>. QED  BY <1>1, <1>2, <1>3

\* Every check of the sentinel keeps the invariant.
LEMMA SentinelKeeps ==
    ASSUME UpdateInv, Sentinel
    PROVE  UpdateInv'
<1>0. DataTypes /\ KeeperTypes /\ request \in DBs \cup {NoDB} /\ master \in DBs
  BY ZenonT(30) DEF UpdateInv, DataTypes
<1>1. CASE ManualSwitch \/ Failover \/ AutoFailback
  BY <1>0, <1>1, Elections, ElectKeeps, ZenonT(30)
<1>2. CASE KeepUnconverged
  <2>. DEFINE f == Followers(spec, master, master)
              specs == [spec EXCEPT ![master].followers = f]
  <2>1. spec \in [DBs -> SpecType] /\ master \in DBs /\ f \in SUBSET DBs
    BY <1>0, ZenonT(30) DEF DataTypes, Followers
  <2>2. PutSpecs(specs, {}, {}) /\ master' = master /\ request' \in {NoDB, request}
    BY <1>2, ZenonT(30) DEF KeepUnconverged
  <2>. HIDE DEF f
  <2>3. /\ [spec EXCEPT ![master].followers = f] \in [DBs -> SpecType]
        /\ \A d \in DBs :
              /\ [spec EXCEPT ![master].followers = f][d].role = spec[d].role
              /\ [spec EXCEPT ![master].followers = f][d].follow = spec[d].follow
    BY ONLY <2>1, SetFollowers
  <2>4. specs \in [DBs -> SpecType]
        /\ \A d \in DBs : specs[d].role = spec[d].role /\ specs[d].follow = spec[d].follow
    BY <2>3, ZenonT(30)
  <2>. HIDE DEF specs
  <2>5. ASSUME NEW d \in DBs
        PROVE  /\ specs[d].role = "standby" => specs[d].follow \in DBs
               /\ specs[d].role = "master" =>
                      /\ d \notin {} \cup {}
                      /\ IsMaster(d) \/ status[d].gen # "none"
    BY <2>4, ZenonT(30) DEF UpdateInv, DBInv, IsMaster
  <2>6. specs[master'].role = "master"
    BY <2>1, <2>2, <2>4, ZenonT(30) DEF UpdateInv, MasterPresent, IsMaster
  <2>. QED  BY <1>0, <2>2, <2>4, <2>5, <2>6, PutKeeps, ZenonT(30)
<1>. QED
  BY <1>1, <1>2, KeepKeeps, ZenonT(30) DEF Sentinel

-----------------------------------------------------------------------------
\* An action that concerns the instance of one database keeps the invariant if it
\* keeps the types and what is known of that one.
LEMMA InstanceStep ==
    ASSUME UpdateInv, NEW d \in DBs, KeeperTypes', DBInv(d)',
           UNCHANGED <<master, spec, status, alive, request, late, faults, requests>>,
           \A e \in DBs \ {d} :
              /\ fresh'[e] = fresh[e] /\ current'[e] = current[e]
              /\ acting'[e] = acting[e] /\ wal'[e] = wal[e] /\ hist'[e] = hist[e]
    PROVE  UpdateInv'
<1>1. DataTypes' /\ MasterPresent'
  BY ZenonT(30) DEF UpdateInv, DataTypes, MasterPresent, IsMaster
<1>2. ASSUME NEW e \in DBs
      PROVE  DBInv(e)'
  <2>1. CASE e = d
    BY <2>1, ZenonT(30)
  <2>2. CASE e # d
    BY <2>2, DBFrame, ZenonT(30) DEF UpdateInv
  <2>. QED  BY <2>1, <2>2
<1>. QED  BY <1>1, <1>2, ZenonT(30) DEF UpdateInv

\* A record is appended to the WAL of a running instance.
LEMMA RecordStep ==
    ASSUME UpdateInv, NEW d \in DBs, NEW x \in WALRecord, Len(wal[d]) < MaxPos,
           wal' = [wal EXCEPT ![d] = Append(@, x)],
           UNCHANGED <<cdVars, net, acting, source, fresh, current, hist, faults, requests>>
    PROVE  UpdateInv'
<1>1. DataTypes /\ KeeperTypes /\ DBInv(d)
  BY ZenonT(30) DEF UpdateInv
<1>2. wal[d] \in Seq(WALRecord) /\ wal \in [DBs -> Seq(WALRecord)]
      /\ status[d].wal \in Seq(WALRecord)
  BY <1>1, SequenceTypes DEF KeeperTypes
<1>3. wal'[d] = Append(wal[d], x) /\ \A e \in DBs \ {d} : wal'[e] = wal[e]
  BY <1>2, ZenonT(30)
<1>4. Append(wal[d], x) \in Seq(WALRecord) /\ Len(Append(wal[d], x)) = Len(wal[d]) + 1
  BY <1>2
<1>5. KeeperTypes'
  <2>1. wal' \in [DBs -> Seq(WALRecord)]
    BY <1>2, <1>4, ZenonT(30)
  <2>2. \A e \in DBs : Len(wal'[e]) <= MaxPos
    <3>1. Len(wal'[d]) <= MaxPos
      BY <1>2, <1>3, <1>4, UpdateAssumption
    <3>. QED  BY <1>1, <1>3, <3>1, ZenonT(30) DEF KeeperTypes
  <2>. QED  BY <1>1, <2>1, <2>2, ZenonT(30) DEF KeeperTypes
<1>6. StillTrue(status[d], wal'[d], hist[d])
  BY <1>1, <1>2, <1>3, RecordKeepsReport DEF DBInv
<1>7. DBInv(d)'
  BY <1>1, <1>6, ZenonT(30) DEF DBInv, IsMaster, cdVars
<1>. QED  BY <1>3, <1>5, <1>7, InstanceStep, ZenonT(30) DEF cdVars

\* An instance that is not in recovery writes.
LEMMA WriteWALKeeps ==
    ASSUME UpdateInv, NEW d \in DBs, WriteWAL(d)
    PROVE  UpdateInv'
<1>1. Len(hist[d]) \in Nat /\ Len(hist[d]) < MaxTimeline
  BY SequenceTypes, ZenonT(30) DEF UpdateInv, KeeperTypes
<1>2. [tl |-> Timeline(hist[d]), by |-> d] \in WALRecord
  BY <1>1, UpdateAssumption DEF WALRecord, Timeline
<1>. QED  BY <1>2, RecordStep, ZenonT(30) DEF WriteWAL

\* A new timeline begins at the last record: the history is well formed, and what
\* was reported stays true.
LEMMA NewTimeline ==
    ASSUME UpdateInv, NEW d \in DBs, Timeline(hist[d]) < MaxTimeline
    PROVE  /\ Append(hist[d], Len(wal[d])) \in Seq(0..MaxPos)
           /\ Len(Append(hist[d], Len(wal[d]))) < MaxTimeline
           /\ StillTrue(status[d], wal[d], Append(hist[d], Len(wal[d])))
<1>1. DataTypes /\ KeeperTypes /\ DBInv(d)
  BY ZenonT(30) DEF UpdateInv
<1>2. /\ wal[d] \in Seq(WALRecord) /\ status[d].wal \in Seq(WALRecord)
      /\ hist[d] \in Seq(Nat) /\ status[d].hist \in Seq(Nat)
      /\ hist[d] \in Seq(0..MaxPos) /\ Len(wal[d]) \in Nat /\ Len(wal[d]) <= MaxPos
  BY <1>1, SequenceTypes, ZenonT(30) DEF KeeperTypes
<1>3. Len(wal[d]) \in 0..MaxPos
  BY <1>2, UpdateAssumption
<1>4. /\ Append(hist[d], Len(wal[d])) \in Seq(0..MaxPos)
      /\ Len(Append(hist[d], Len(wal[d]))) = Len(hist[d]) + 1
  BY <1>2, <1>3
<1>5. StillTrue(status[d], wal[d], Append(hist[d], Len(wal[d])))
  BY <1>1, <1>2, SwitchKeepsReport, ZenonT(30) DEF DBInv
<1>. QED  BY <1>4, <1>5 DEF Timeline

\* The types survive a change of one history and of the variables of the keeper.
LEMMA HistoryTypes ==
    ASSUME KeeperTypes, NEW d \in DBs, NEW h \in Seq(0..MaxPos), Len(h) < MaxTimeline,
           hist' = [hist EXCEPT ![d] = h], UNCHANGED <<net, fresh, wal>>,
           acting' \in [DBs -> {"master", "standby", "stopped"}],
           source' \in [DBs -> DBs \cup {NoDB}], current' \in [DBs -> BOOLEAN]
    PROVE  /\ KeeperTypes'
           /\ hist'[d] = h /\ \A e \in DBs \ {d} : hist'[e] = hist[e]
<1>1. hist \in [DBs -> Seq(0..MaxPos)]
  BY ZenonT(30) DEF KeeperTypes
<1>2. /\ hist' \in [DBs -> Seq(0..MaxPos)]
      /\ hist'[d] = h /\ \A e \in DBs \ {d} : hist'[e] = hist[e]
  BY <1>1, ZenonT(30)
<1>3. \A e \in DBs : Len(hist'[e]) < MaxTimeline
  BY <1>2, ZenonT(30) DEF KeeperTypes
<1>. QED  BY <1>2, <1>3, ZenonT(30) DEF KeeperTypes

\* A standby receives a record, or the end of its timeline.
LEMMA StreamKeeps ==
    ASSUME UpdateInv, NEW d \in DBs, Stream(d)
    PROVE  UpdateInv'
<1>. DEFINE s == source[d]
<1>0. DataTypes /\ KeeperTypes /\ DBInv(d)
  BY ZenonT(30) DEF UpdateInv
<1>1. s \in DBs /\ acting[d] = "standby"
      /\ UNCHANGED <<cdVars, net, acting, source, fresh, current, faults, requests>>
  BY <1>0, ZenonT(30) DEF Stream, KeeperTypes
<1>2. /\ Len(hist[d]) \in Nat /\ Len(hist[s]) \in Nat /\ Len(hist[s]) < MaxTimeline
      /\ Len(wal[d]) \in Nat /\ Len(wal[s]) \in Nat /\ Len(wal[s]) <= MaxPos
      /\ wal[s] \in Seq(WALRecord)
  BY <1>0, <1>1, SequenceTypes, ZenonT(30) DEF KeeperTypes
<1>3. \/ /\ Len(hist[d]) < Len(hist[s])
         /\ hist' = [hist EXCEPT ![d] = Append(@, Len(wal[d]))] /\ UNCHANGED wal
      \/ /\ Len(wal[d]) < Len(wal[s])
         /\ wal' = [wal EXCEPT ![d] = Append(@, wal[s][Len(@) + 1])] /\ UNCHANGED hist
  BY ZenonT(30) DEF Stream
<1>. HIDE DEF s
<1>4. CASE /\ Len(hist[d]) < Len(hist[s])
           /\ hist' = [hist EXCEPT ![d] = Append(@, Len(wal[d]))] /\ UNCHANGED wal
  <2>. DEFINE h == Append(hist[d], Len(wal[d]))
  <2>1. Timeline(hist[d]) < MaxTimeline
    BY <1>2, <1>4, UpdateAssumption DEF Timeline
  <2>2. h \in Seq(0..MaxPos) /\ Len(h) < MaxTimeline /\ StillTrue(status[d], wal[d], h)
    BY <2>1, NewTimeline, ZenonT(30)
  <2>3. hist' = [hist EXCEPT ![d] = h]
    BY <1>4, ZenonT(30)
  <2>. HIDE DEF h
  <2>4. KeeperTypes' /\ hist'[d] = h /\ \A e \in DBs \ {d} : hist'[e] = hist[e]
    BY <1>0, <1>1, <1>4, <2>2, <2>3, HistoryTypes, ZenonT(30) DEF KeeperTypes
  <2>5. DBInv(d)'
    <3>1. ~(IsMaster(d) /\ status[d].gen = "current")
      BY <1>0, <1>1, ZenonT(30) DEF DBInv
    <3>. QED  BY <1>0, <1>1, <1>4, <2>2, <2>4, <3>1, ZenonT(30) DEF DBInv, IsMaster, cdVars
  <2>. QED  BY <1>1, <1>4, <2>4, <2>5, InstanceStep, ZenonT(30) DEF cdVars
<1>5. CASE /\ Len(wal[d]) < Len(wal[s])
           /\ wal' = [wal EXCEPT ![d] = Append(@, wal[s][Len(@) + 1])] /\ UNCHANGED hist
  <2>1. Len(wal[d]) + 1 \in 1..Len(wal[s]) /\ Len(wal[d]) < MaxPos
    BY <1>2, <1>5, UpdateAssumption
  <2>2. wal[s][Len(wal[d]) + 1] \in WALRecord
    BY <1>2, <2>1
  <2>. DEFINE x == wal[s][Len(wal[d]) + 1]
  <2>3. wal' = [wal EXCEPT ![d] = Append(@, x)] /\ x \in WALRecord
    BY <1>5, <2>2, ZenonT(30)
  <2>. HIDE DEF x
  <2>. QED  BY <1>1, <1>5, <2>1, <2>3, RecordStep, ZenonT(30)
<1>. QED  BY <1>3, <1>4, <1>5

\* A keeper stops an instance that is not wanted.
LEMMA KeeperStopKeeps ==
    ASSUME UpdateInv, NEW d \in DBs, KeeperStop(d)
    PROVE  UpdateInv'
<1>0. DataTypes /\ KeeperTypes /\ DBInv(d)
  BY ZenonT(30) DEF UpdateInv
<1>1. /\ acting' = [acting EXCEPT ![d] = "stopped"]
      /\ UNCHANGED <<cdVars, net, source, fresh, current, wal, hist, faults, requests>>
      /\ spec[d].role = "none" \/ fresh[d]
  BY ZenonT(30) DEF KeeperStop
<1>2. KeeperTypes' /\ \A e \in DBs \ {d} : acting'[e] = acting[e]
  BY <1>0, <1>1, ZenonT(30) DEF KeeperTypes
<1>3. ~IsMaster(d)
  BY <1>0, <1>1 DEF DBInv, IsMaster
<1>4. DBInv(d)'
  BY <1>0, <1>1, <1>3, ZenonT(30) DEF DBInv, IsMaster, cdVars
<1>. QED  BY <1>1, <1>2, <1>4, InstanceStep, ZenonT(30) DEF cdVars

\* A keeper copies the followed database.
LEMMA KeeperResyncKeeps ==
    ASSUME UpdateInv, NEW d \in DBs, KeeperResync(d)
    PROVE  UpdateInv'
<1>. DEFINE s == spec[d].follow
<1>0. DataTypes /\ KeeperTypes /\ DBInv(d)
  BY ZenonT(30) DEF UpdateInv
<1>1. /\ spec[d].role = "standby" /\ fresh[d] /\ s \in DBs
      /\ acting' = [acting EXCEPT ![d] = "standby"] /\ source' = [source EXCEPT ![d] = s]
      /\ fresh' = [fresh EXCEPT ![d] = FALSE] /\ current' = [current EXCEPT ![d] = TRUE]
      /\ wal' = [wal EXCEPT ![d] = wal[s]] /\ hist' = [hist EXCEPT ![d] = hist[s]]
      /\ UNCHANGED <<cdVars, net, faults, requests>>
  BY <1>0, ZenonT(30) DEF KeeperResync, DBInv
<1>. HIDE DEF s
<1>2. /\ wal \in [DBs -> Seq(WALRecord)] /\ hist \in [DBs -> Seq(0..MaxPos)]
      /\ acting \in [DBs -> {"master", "standby", "stopped"}]
      /\ source \in [DBs -> DBs \cup {NoDB}]
      /\ fresh \in [DBs -> BOOLEAN] /\ current \in [DBs -> BOOLEAN]
      /\ net \in [DBs -> {"up", "cut", "down"}]
      /\ \A e \in DBs : Len(wal[e]) <= MaxPos /\ Len(hist[e]) < MaxTimeline
  BY <1>0, ZenonT(30) DEF KeeperTypes
<1>3. wal'[d] = wal[s] /\ hist'[d] = hist[s] /\ fresh'[d] = FALSE
  BY <1>1, <1>2, ZenonT(30)
<1>4. \A e \in DBs \ {d} :
         /\ fresh'[e] = fresh[e] /\ current'[e] = current[e]
         /\ acting'[e] = acting[e] /\ wal'[e] = wal[e] /\ hist'[e] = hist[e]
  BY <1>1, <1>2, ZenonT(30)
<1>5. KeeperTypes'
  <2>1. wal' \in [DBs -> Seq(WALRecord)] /\ hist' \in [DBs -> Seq(0..MaxPos)]
    BY <1>1, <1>2, ZenonT(30)
  <2>2. /\ acting' \in [DBs -> {"master", "standby", "stopped"}]
        /\ source' \in [DBs -> DBs \cup {NoDB}]
        /\ fresh' \in [DBs -> BOOLEAN] /\ current' \in [DBs -> BOOLEAN]
    BY <1>1, <1>2, ZenonT(30)
  <2>3. \A e \in DBs : Len(wal'[e]) <= MaxPos /\ Len(hist'[e]) < MaxTimeline
    BY <1>1, <1>2, <1>3, <1>4, ZenonT(30)
  <2>. QED  BY <1>1, <1>2, <2>1, <2>2, <2>3, ZenonT(30) DEF KeeperTypes
<1>6. status[d].gen = "none" /\ status[d].wal = <<>> /\ status[d].hist = <<>>
  BY <1>0, <1>1, ZenonT(30) DEF DBInv
<1>7. StillTrue(status[d], wal'[d], hist'[d])
  <2>1. wal[s] \in Seq(WALRecord) /\ hist[s] \in Seq(Nat)
    BY <1>0, <1>1, SequenceTypes, ZenonT(30)
  <2>. QED  BY <1>3, <1>6, <2>1, NewReport, ZenonT(30)
<1>8. DBInv(d)'
  BY <1>0, <1>1, <1>3, <1>6, <1>7 DEF DBInv, IsMaster, cdVars
<1>. QED  BY <1>1, <1>4, <1>5, <1>8, InstanceStep, ZenonT(30) DEF cdVars

\* A keeper makes its instance a master; a standby is promoted, to a new timeline.
LEMMA KeeperMasterKeeps ==
    ASSUME UpdateInv, NEW d \in DBs, KeeperMaster(d)
    PROVE  UpdateInv'
<1>. DEFINE h == IF acting[d] = "standby" THEN Append(hist[d], Len(wal[d])) ELSE hist[d]
<1>0. DataTypes /\ KeeperTypes /\ DBInv(d)
  BY ZenonT(30) DEF UpdateInv
<1>1. /\ spec[d].role = "master" /\ ~current[d]
      /\ acting[d] = "standby" => Timeline(hist[d]) < MaxTimeline
      /\ acting' = [acting EXCEPT ![d] = "master"] /\ source' = [source EXCEPT ![d] = NoDB]
      /\ current' = [current EXCEPT ![d] = TRUE] /\ hist' = [hist EXCEPT ![d] = h]
      /\ UNCHANGED <<cdVars, net, fresh, wal, faults, requests>>
  BY ZenonT(30) DEF KeeperMaster
<1>2. h \in Seq(0..MaxPos) /\ Len(h) < MaxTimeline /\ StillTrue(status[d], wal[d], h)
  <2>1. CASE acting[d] = "standby"
    BY <1>1, <2>1, NewTimeline, ZenonT(30)
  <2>2. CASE acting[d] # "standby"
    BY <1>0, <2>2, ZenonT(30) DEF KeeperTypes, DBInv
  <2>. QED  BY <2>1, <2>2, ZenonT(30)
<1>. HIDE DEF h
<1>3. /\ acting' \in [DBs -> {"master", "standby", "stopped"}]
      /\ source' \in [DBs -> DBs \cup {NoDB}] /\ current' \in [DBs -> BOOLEAN]
      /\ acting'[d] = "master"
      /\ \A e \in DBs \ {d} : acting'[e] = acting[e] /\ current'[e] = current[e]
  BY <1>0, <1>1, ZenonT(30) DEF KeeperTypes
<1>4. KeeperTypes' /\ hist'[d] = h /\ \A e \in DBs \ {d} : hist'[e] = hist[e]
  BY <1>0, <1>1, <1>2, <1>3, HistoryTypes, ZenonT(30)
<1>5. status[d].gen # "current"
  BY <1>0, <1>1, ZenonT(30) DEF DBInv
<1>6. DBInv(d)'
  BY <1>0, <1>1, <1>2, <1>3, <1>4, <1>5, ZenonT(30) DEF DBInv, IsMaster, cdVars
<1>. QED  BY <1>1, <1>3, <1>4, <1>6, InstanceStep, ZenonT(30) DEF cdVars

\* A keeper makes its standby follow the assigned database.
LEMMA KeeperStandbyKeeps ==
    ASSUME UpdateInv, NEW d \in DBs, KeeperStandby(d)
    PROVE  UpdateInv'
<1>0. DataTypes /\ KeeperTypes /\ DBInv(d)
  BY ZenonT(30) DEF UpdateInv
<1>1. /\ spec[d].role = "standby"
      /\ source' = [source EXCEPT ![d] = spec[d].follow]
      /\ current' = [current EXCEPT ![d] = TRUE]
      /\ UNCHANGED <<cdVars, net, acting, fresh, wal, hist, faults, requests>>
  BY ZenonT(30) DEF KeeperStandby
<1>2. spec[d].follow \in DBs /\ ~IsMaster(d)
  BY <1>0, <1>1 DEF DBInv, IsMaster
<1>3. /\ source' \in [DBs -> DBs \cup {NoDB}] /\ current' \in [DBs -> BOOLEAN]
      /\ current'[d] = TRUE /\ \A e \in DBs \ {d} : current'[e] = current[e]
  BY <1>0, <1>1, <1>2, ZenonT(30) DEF KeeperTypes
<1>4. KeeperTypes'
  BY <1>0, <1>1, <1>3, ZenonT(30) DEF KeeperTypes
<1>5. DBInv(d)'
  BY <1>0, <1>1, <1>2, <1>3, ZenonT(30) DEF DBInv, IsMaster, cdVars
<1>. QED  BY <1>1, <1>3, <1>4, <1>5, InstanceStep, ZenonT(30) DEF cdVars

-----------------------------------------------------------------------------
\* An action that concerns the status or the specification of one database, and
\* neither the master nor the instances, keeps the invariant if it keeps the types
\* and what is known of that one.
LEMMA DataStep ==
    ASSUME UpdateInv, NEW d \in DBs, DataTypes', DBInv(d)', UNCHANGED <<master, net, pgVars>>,
           spec'[master].role = spec[master].role,
           \A e \in DBs \ {d} : spec'[e] = spec[e] /\ status'[e] = status[e]
    PROVE  UpdateInv'
<1>1. KeeperTypes' /\ MasterPresent'
  BY ZenonT(30) DEF UpdateInv, KeeperTypes, MasterPresent, IsMaster, pgVars
<1>2. ASSUME NEW e \in DBs
      PROVE  DBInv(e)'
  <2>1. CASE e = d
    BY <2>1, ZenonT(30)
  <2>2. CASE e # d
    <3>1. DBInv(e)
      BY ZenonT(30) DEF UpdateInv
    <3>2. UNCHANGED <<fresh, current, acting, wal, hist>>
      BY ZenonT(30) DEF pgVars
    <3>. QED  BY <2>2, <3>1, <3>2, DBFrame, ZenonT(30)
  <2>. QED  BY <2>1, <2>2
<1>. QED  BY <1>1, <1>2, ZenonT(30) DEF UpdateInv

\* A report is true when it is taken in.
LEMMA ReportKeeps ==
    ASSUME UpdateInv, NEW d \in DBs, Report(d)
    PROVE  UpdateInv'
<1>. DEFINE r == [healthy |-> acting[d] # "stopped",
                  gen |-> IF current[d] THEN "current" ELSE "stale",
                  wal |-> wal[d], hist |-> hist[d]]
<1>0. DataTypes /\ KeeperTypes /\ DBInv(d)
  BY ZenonT(30) DEF UpdateInv
<1>1. /\ UNCHANGED <<master, spec, request, net, pgVars, faults, requests>>
      /\ alive' = [alive EXCEPT ![d] = TRUE]
      /\ \/ UNCHANGED <<status, late>>
         \/ /\ ~fresh[d] /\ status' = [status EXCEPT ![d] = r]
            /\ late' = IF current[d] THEN late \ {d} ELSE late
  BY ZenonT(30) DEF Report
<1>2. /\ r.wal = wal[d] /\ r.hist = hist[d] /\ r.gen # "none"
      /\ r.gen = "current" <=> current[d]
  OBVIOUS
<1>3. r \in StatusType
  <2>1. wal[d] \in Seq(WALRecord) /\ hist[d] \in Seq(0..MaxPos)
    BY <1>0, SequenceTypes
  <2>. QED  BY <2>1, ZenonT(30) DEF StatusType
<1>. HIDE DEF r
<1>4. alive' \in [DBs -> BOOLEAN]
  BY <1>0, <1>1, ZenonT(30) DEF DataTypes
<1>5. CASE UNCHANGED <<status, late>>
  <2>1. DataTypes'
    BY <1>0, <1>1, <1>4, <1>5, ZenonT(30) DEF DataTypes
  <2>2. UNCHANGED <<fresh, current, acting, wal, hist>>
    BY <1>1, ZenonT(30) DEF pgVars
  <2>3. DBInv(d)'
    BY <1>0, <1>1, <1>5, <2>2, DBFrame, ZenonT(30)
  <2>. QED  BY <1>1, <1>5, <2>1, <2>3, DataStep, ZenonT(30)
<1>6. CASE /\ ~fresh[d] /\ status' = [status EXCEPT ![d] = r]
           /\ late' = IF current[d] THEN late \ {d} ELSE late
  <2>1. status' \in [DBs -> StatusType] /\ status'[d] = r
        /\ \A e \in DBs \ {d} : status'[e] = status[e]
    BY <1>0, <1>3, <1>6, ZenonT(30) DEF DataTypes
  <2>2. DataTypes'
    BY <1>0, <1>1, <1>4, <1>6, <2>1, ZenonT(30) DEF DataTypes
  <2>3. StillTrue(r, wal[d], hist[d])
    <3>1. wal[d] \in Seq(WALRecord) /\ hist[d] \in Seq(Nat)
      BY <1>0, SequenceTypes
    <3>. QED  BY <1>2, <3>1, NewReport, ZenonT(30)
  <2>4. UNCHANGED <<spec, fresh, current, acting, wal, hist>>
    BY <1>1, ZenonT(30) DEF pgVars
  <2>5. DBInv(d)'
    BY <1>0, <1>2, <1>6, <2>1, <2>3, <2>4, ZenonT(30) DEF DBInv, IsMaster
  <2>. QED  BY <1>1, <2>1, <2>2, <2>5, DataStep, ZenonT(30)
<1>. QED  BY <1>1, <1>5, <1>6, ZenonT(30)

\* A database of which no report came in time is not healthy; what it had reported
\* is kept.
LEMMA FailKeeps ==
    ASSUME UpdateInv, NEW d \in DBs, Fail(d)
    PROVE  UpdateInv'
<1>0. DataTypes /\ KeeperTypes /\ DBInv(d)
  BY ZenonT(30) DEF UpdateInv
<1>1. /\ UNCHANGED <<master, spec, request, late, net, pgVars, requests>>
      /\ alive' = [alive EXCEPT ![d] = FALSE]
      /\ status' = [status EXCEPT ![d].healthy = FALSE]
      /\ net[d] = "up" => faults < MaxFaults
      /\ faults' = IF net[d] = "up" THEN faults + 1 ELSE faults
  BY ZenonT(30) DEF Fail
<1>2. status[d] \in StatusType /\ status \in [DBs -> StatusType]
  BY <1>0 DEF DataTypes
<1>3. /\ [status[d] EXCEPT !.healthy = FALSE] \in StatusType
      /\ [status[d] EXCEPT !.healthy = FALSE].wal = status[d].wal
      /\ [status[d] EXCEPT !.healthy = FALSE].hist = status[d].hist
      /\ [status[d] EXCEPT !.healthy = FALSE].gen = status[d].gen
  BY <1>2, ZenonT(30) DEF StatusType
<1>4. /\ status' \in [DBs -> StatusType]
      /\ status'[d] = [status[d] EXCEPT !.healthy = FALSE]
      /\ \A e \in DBs \ {d} : status'[e] = status[e]
  BY <1>1, <1>2, <1>3, ZenonT(30)
<1>5. faults' \in 0..MaxFaults
  BY <1>0, <1>1, UpdateAssumption DEF DataTypes
<1>6. DataTypes'
  BY <1>0, <1>1, <1>4, <1>5, ZenonT(30) DEF DataTypes
<1>7. DBInv(d)'
  <2>1. UNCHANGED <<spec, fresh, current, acting, wal, hist>>
    BY <1>1, ZenonT(30) DEF pgVars
  <2>. QED  BY <1>0, <1>3, <1>4, <2>1, DBFrame, ZenonT(30)
<1>. QED  BY <1>1, <1>4, <1>6, <1>7, DataStep, ZenonT(30)

\* An operator has a database reinitialised: it becomes a standby of the master,
\* which it is not.
LEMMA ReinitializeKeeps ==
    ASSUME UpdateInv, NEW d \in DBs, ReinitializeReplica(d)
    PROVE  UpdateInv'
<1>. DEFINE c == [[[spec[d] EXCEPT !.init = "resync"] EXCEPT !.role = "standby"]
                    EXCEPT !.follow = master]
<1>0. DataTypes /\ KeeperTypes /\ DBInv(d)
  BY ZenonT(30) DEF UpdateInv
<1>1. spec \in [DBs -> SpecType] /\ spec[d] \in SpecType /\ master \in DBs
  BY <1>0, ZenonT(30) DEF DataTypes
<1>2. /\ UNCHANGED <<master, status, alive, late, net, pgVars, faults>>
      /\ d # master /\ request' = NoDB
      /\ requests < MaxRequests /\ requests' = requests + 1
      /\ spec' = [spec EXCEPT ![d] = c]
  BY <1>1, ZenonT(30) DEF ReinitializeReplica
<1>3. c \in SpecType
  BY <1>1, SpecTypes, ZenonT(30)
<1>4. c.role = "standby" /\ c.follow = master
  BY <1>1 DEF SpecType
<1>. HIDE DEF c
<1>5. spec' \in [DBs -> SpecType] /\ spec'[d] = c
      /\ \A e \in DBs \ {d} : spec'[e] = spec[e]
  BY <1>1, <1>2, <1>3, ZenonT(30)
<1>6. requests' \in 0..MaxRequests
  BY <1>0, <1>2, UpdateAssumption DEF DataTypes
<1>7. DataTypes'
  BY <1>0, <1>2, <1>5, <1>6, ZenonT(30) DEF DataTypes
<1>8. DBInv(d)'
  <2>1. UNCHANGED <<status, fresh, current, acting, wal, hist>>
    BY <1>2, ZenonT(30) DEF pgVars
  <2>2. ~IsMaster(d)' /\ spec'[d].follow \in DBs
    BY <1>1, <1>4, <1>5 DEF IsMaster
  <2>. QED  BY <1>0, <2>1, <2>2, ZenonT(30) DEF DBInv
<1>9. spec'[master].role = spec[master].role
  BY <1>1, <1>2, <1>5, ZenonT(30)
<1>. QED  BY <1>2, <1>5, <1>7, <1>8, <1>9, DataStep, ZenonT(30)

\* Faults, timeouts and requests change counters and flags alone.
LEMMA OtherKeeps ==
    ASSUME UpdateInv, NEW d \in DBs,
           \/ Fault(d) \/ Recover(d) \/ ConvergenceTimeout(d) \/ RequestManualSwitch(d)
    PROVE  UpdateInv'
<1>0. DataTypes /\ KeeperTypes
  BY ZenonT(30) DEF UpdateInv
<1>1. UNCHANGED <<master, spec, status, alive, pgVars>>
  BY ZenonT(30) DEF Fault, Recover, ConvergenceTimeout, RequestManualSwitch, cdVars
<1>2. late' \in {late, late \cup {d}} /\ request' \in {request, d}
  BY ZenonT(30) DEF Fault, Recover, ConvergenceTimeout, RequestManualSwitch, cdVars
<1>3. \E s \in {"up", "cut", "down"} : net' = net \/ net' = [net EXCEPT ![d] = s]
  BY ZenonT(30) DEF Fault, Recover, ConvergenceTimeout, RequestManualSwitch
<1>4. \/ faults' = faults
      \/ faults < MaxFaults /\ faults' = faults + 1
  BY ZenonT(30) DEF Fault, Recover, ConvergenceTimeout, RequestManualSwitch
<1>5. \/ requests' = requests
      \/ requests < MaxRequests /\ requests' = requests + 1
  BY ZenonT(30) DEF Fault, Recover, ConvergenceTimeout, RequestManualSwitch
<1>6. faults' \in 0..MaxFaults /\ requests' \in 0..MaxRequests
  BY <1>0, <1>4, <1>5, UpdateAssumption DEF DataTypes
<1>7. DataTypes'
  BY <1>0, <1>1, <1>2, <1>6, ZenonT(30) DEF DataTypes
<1>8. KeeperTypes'
  BY <1>0, <1>1, <1>3, ZenonT(30) DEF KeeperTypes, pgVars
<1>9. MasterPresent' /\ \A e \in DBs : DBInv(e)'
  BY <1>1, DBFrame, ZenonT(30) DEF UpdateInv, MasterPresent, IsMaster, pgVars
<1>. QED  BY <1>7, <1>8, <1>9, ZenonT(30) DEF UpdateInv

\* Every step keeps the invariant.
LEMMA NextKeepsInv ==
    ASSUME UpdateInv, [Next]_vars
    PROVE  UpdateInv'
<1>1. CASE Sentinel
  BY <1>1, SentinelKeeps
<1>2. ASSUME NEW d \in DBs,
             \/ WriteWAL(d) \/ Stream(d) \/ Fault(d) \/ Recover(d)
             \/ Keeper(d) \/ Report(d) \/ Fail(d) \/ ConvergenceTimeout(d)
             \/ RequestManualSwitch(d) \/ ReinitializeReplica(d)
      PROVE  UpdateInv'
  BY <1>2, WriteWALKeeps, StreamKeeps, KeeperStopKeeps, KeeperResyncKeeps,
     KeeperMasterKeeps, KeeperStandbyKeeps, ReportKeeps, FailKeeps, ReinitializeKeeps,
     OtherKeeps, ZenonT(30) DEF Keeper
<1>3. CASE UNCHANGED vars
  <2>1. DataTypes' /\ KeeperTypes' /\ MasterPresent'
    BY <1>3, ZenonT(30) DEF UpdateInv, DataTypes, KeeperTypes, MasterPresent, IsMaster, vars,
                       cdVars, pgVars
  <2>2. ASSUME NEW d \in DBs
        PROVE  DBInv(d)'
    BY <1>3, DBFrame, ZenonT(30) DEF UpdateInv, vars, cdVars, pgVars
  <2>. QED  BY <2>1, <2>2, ZenonT(30) DEF UpdateInv
<1>. QED  BY <1>1, <1>2, <1>3, ZenonT(30) DEF Next

\* The state the model starts in, for the keepers that were lost.
Started(lost) ==
    /\ MayBeLost(lost)
    /\ master = 1 /\ request = NoDB /\ late = {}
    /\ spec = [d \in DBs |-> IF d = 1 THEN MasterSpec(DBs \ {1}) ELSE StandbySpec(1)]
    /\ status = [d \in DBs |->
                    IF d \in lost THEN [NoStatus EXCEPT !.gen = "stale"]
                    ELSE [NoStatus EXCEPT !.healthy = TRUE, !.gen = "current", !.hist = StartHistory]]
    /\ alive = [d \in DBs |-> d \notin lost]
    /\ net = [d \in DBs |-> IF d \in lost THEN "cut" ELSE "up"]
    /\ acting = [d \in DBs |-> IF d = 1 THEN "master" ELSE "standby"]
    /\ source = [d \in DBs |-> IF d = 1 THEN NoDB ELSE 1]
    /\ fresh = [d \in DBs |-> FALSE]
    /\ current = [d \in DBs |-> d \notin lost]
    /\ \E w \in LostWAL : wal = [d \in DBs |-> IF d \in lost THEN w ELSE <<>>]
    /\ hist = [d \in DBs |-> IF d \in lost THEN <<>> ELSE StartHistory]
    /\ faults = Cardinality(lost) /\ requests = 0

LEMMA StartedSomehow == Init => \E lost \in SUBSET DBs : Started(lost)
  BY ZenonT(30) DEF Init, Started

\* The histories before the start, and what a lost keeper may have.
LEMMA StartHistoryType ==
    /\ StartHistory \in Seq(0..MaxPos) /\ StartHistory \in Seq(Nat)
    /\ Len(StartHistory) = 2 * Rounds /\ Len(StartHistory) < MaxTimeline
    /\ \A i \in 1..Len(StartHistory) : StartHistory[i] = 0
<1>1. 2 * Rounds \in Nat /\ 2 * Rounds < MaxTimeline /\ 0 \in 0..MaxPos
  BY UpdateAssumption
<1>. DEFINE n == 2 * Rounds
<1>. HIDE DEF n
<1>2. n \in Nat /\ n < MaxTimeline /\ StartHistory = [i \in 1..n |-> 0]
  BY <1>1 DEF StartHistory, n
<1>3. StartHistory \in Seq(0..MaxPos) /\ StartHistory \in Seq(Nat) /\ Len(StartHistory) = n
  BY ONLY <1>1, <1>2, SMTT(30)
<1>4. \A i \in 1..n : StartHistory[i] = 0
  BY ONLY <1>2, ZenonT(30)
<1>. QED  BY <1>2, <1>3, <1>4 DEF n

LEMMA LostWALType ==
    ASSUME NEW w \in LostWAL
    PROVE  /\ w \in Seq(WALRecord) /\ Len(w) <= MaxPos
           /\ Len(w) \in Nat /\ \A i \in 1..Len(w) : w[i].tl = 1 /\ w[i].by = 1
<1>. DEFINE x == [tl |-> 1, by |-> 1]
<1>1. x \in WALRecord /\ x.tl = 1 /\ x.by = 1
  BY UpdateAssumption DEF WALRecord, DBs
<1>2. w \in {<<>>, <<x>>} /\ Len(w) <= MaxPos
  BY DEF LostWAL
<1>. HIDE DEF x
<1>3. CASE w = <<>>
  BY <1>2, <1>3
<1>4. CASE w = <<x>>
  <2>1. Len(w) = 1 /\ w \in Seq(WALRecord) /\ w[1] = x
    BY <1>1, <1>4
  <2>2. \A i \in 1..Len(w) : i = 1
    BY <2>1
  <2>. QED  BY <1>1, <1>2, <2>1, <2>2
<1>. QED  BY <1>2, <1>3, <1>4

\* The invariant holds of a cluster in service.
LEMMA InitInv ==
    ASSUME Init
    PROVE  UpdateInv
<1>0. 1 \in DBs /\ MaxPos \in Nat /\ MaxTimeline \in Nat \ {0}
      /\ MaxFaults \in Nat /\ MaxRequests \in Nat
  BY UpdateAssumption DEF DBs
<1>1. <<>> \in Seq(WALRecord) /\ <<>> \in Seq(0..MaxPos) /\ <<>> \in Seq(Nat)
      /\ Len(<<>>) = 0 /\ Len(<<>>) <= MaxPos /\ Len(<<>>) < MaxTimeline
  BY <1>0
<1>h. PICK lost \in SUBSET DBs : Started(lost)
  BY StartedSomehow
<1>s. /\ StartHistory \in Seq(0..MaxPos) /\ StartHistory \in Seq(Nat)
      /\ Len(StartHistory) < MaxTimeline
  BY StartHistoryType
<1>. DEFINE r == [NoStatus EXCEPT !.healthy = TRUE, !.gen = "current", !.hist = StartHistory]
            q == [NoStatus EXCEPT !.gen = "stale"]
<1>2. /\ r \in StatusType /\ r.gen = "current" /\ r.wal = <<>> /\ r.hist = StartHistory
      /\ q \in StatusType /\ q.gen = "stale" /\ q.wal = <<>> /\ q.hist = <<>>
  BY <1>1, <1>s, ZenonT(30) DEF NoStatus, StatusType
<1>. HIDE DEF r, q
<1>3. spec \in [DBs -> SpecType] /\ spec[1].role = "master"
      /\ \A d \in DBs : spec[d].role = "standby" => spec[d].follow \in DBs
  <2>1. DBs \ {1} \in SUBSET DBs
    OBVIOUS
  <2>2. MasterSpec(DBs \ {1}) \in SpecType /\ StandbySpec(1) \in SpecType
        /\ NoSpec \in SpecType
    BY <1>0, <2>1 DEF MasterSpec, StandbySpec, NoSpec, SpecType
  <2>3. MasterSpec(DBs \ {1}).role = "master" /\ StandbySpec(1).role = "standby"
        /\ StandbySpec(1).follow = 1
    BY DEF MasterSpec, StandbySpec
  <2>4. \A d \in DBs : spec[d] = IF d = 1 THEN MasterSpec(DBs \ {1}) ELSE StandbySpec(1)
    BY <1>h, ZenonT(30) DEF Started
  <2>5. spec = [d \in DBs |-> spec[d]]
    BY <1>h, ZenonT(30) DEF Started
  <2>6. ASSUME NEW d \in DBs
        PROVE  spec[d] \in SpecType /\ (spec[d].role = "standby" => spec[d].follow = 1)
    BY <2>2, <2>3, <2>4
  <2>7. spec \in [DBs -> SpecType]
    BY <2>5, <2>6, ZenonT(30)
  <2>. QED  BY <1>0, <2>3, <2>4, <2>6, <2>7
<1>4. status \in [DBs -> StatusType]
      /\ \A d \in DBs : status[d] = IF d \in lost THEN q ELSE r
  <2>1. status = [d \in DBs |-> IF d \in lost THEN q ELSE r]
    BY <1>h, ZenonT(30) DEF Started, r, q
  <2>2. \A d \in DBs : (IF d \in lost THEN q ELSE r) \in StatusType
    BY <1>2, ZenonT(30)
  <2>. QED  BY ONLY <2>1, <2>2, ZenonT(30)
<1>5. DataTypes
  <2>1. faults \in 0..MaxFaults /\ requests \in 0..MaxRequests
    <3>1. faults \in Nat /\ faults <= MaxFaults
      BY <1>h, FiniteDBs, FS_Subset, FS_CardinalityType, ZenonT(30) DEF Started, MayBeLost
    <3>2. requests = 0
      BY <1>h, ZenonT(30) DEF Started
    <3>. QED  BY <1>0, <3>1, <3>2
  <2>2. /\ master = 1 /\ request = NoDB /\ late = {}
        /\ alive = [d \in DBs |-> d \notin lost]
    BY <1>h, ZenonT(30) DEF Started
  <2>. QED  BY <1>0, <1>3, <1>4, <2>1, <2>2, ZenonT(30) DEF DataTypes
<1>w. /\ wal \in [DBs -> Seq(WALRecord)] /\ \A d \in DBs : Len(wal[d]) <= MaxPos
      /\ \A d \in DBs \ lost : wal[d] = <<>>
  <2>1. PICK w \in LostWAL : wal = [d \in DBs |-> IF d \in lost THEN w ELSE <<>>]
    BY <1>h, ZenonT(30) DEF Started
  <2>2. w \in Seq(WALRecord) /\ Len(w) <= MaxPos
    BY LostWALType
  <2>. QED  BY ONLY <1>1, <2>1, <2>2, ZenonT(30)
<1>t. /\ hist \in [DBs -> Seq(0..MaxPos)] /\ \A d \in DBs : Len(hist[d]) < MaxTimeline
      /\ \A d \in DBs : hist[d] = IF d \in lost THEN <<>> ELSE StartHistory
  <2>1. hist = [d \in DBs |-> IF d \in lost THEN <<>> ELSE StartHistory]
    BY <1>h, ZenonT(30) DEF Started
  <2>. QED  BY ONLY <1>1, <1>s, <2>1, ZenonT(30)
<1>6. KeeperTypes
  <2>1. /\ net = [d \in DBs |-> IF d \in lost THEN "cut" ELSE "up"]
        /\ acting = [d \in DBs |-> IF d = 1 THEN "master" ELSE "standby"]
        /\ source = [d \in DBs |-> IF d = 1 THEN NoDB ELSE 1]
        /\ fresh = [d \in DBs |-> FALSE]
        /\ current = [d \in DBs |-> d \notin lost]
    BY <1>h, ZenonT(30) DEF Started
  <2>2. /\ net \in [DBs -> {"up", "cut", "down"}]
        /\ acting \in [DBs -> {"master", "standby", "stopped"}]
        /\ source \in [DBs -> DBs \cup {NoDB}]
        /\ fresh \in [DBs -> BOOLEAN] /\ current \in [DBs -> BOOLEAN]
    BY ONLY <1>0, <2>1, ZenonT(30)
  <2>. QED  BY <1>w, <1>t, <2>2, ZenonT(30) DEF KeeperTypes
<1>7. MasterPresent
  <2>1. master = 1
    BY <1>h, ZenonT(30) DEF Started
  <2>. QED  BY <1>3, <2>1, ZenonT(30) DEF MasterPresent, IsMaster
<1>8. ASSUME NEW d \in DBs
      PROVE  DBInv(d)
  <2>1. fresh[d] = FALSE /\ (current[d] <=> d \notin lost) /\ (d = 1 => acting[d] = "master")
    BY <1>h, ZenonT(30) DEF Started
  <2>2. StillTrue(status[d], wal[d], hist[d])
    <3>1. wal[d] \in Seq(WALRecord) /\ hist[d] \in Seq(Nat)
      BY <1>1, <1>s, <1>w, <1>t, ZenonT(30)
    <3>2. \/ status[d].wal = wal[d] /\ status[d].hist = hist[d]
          \/ status[d].wal = <<>> /\ status[d].hist = <<>>
      BY <1>2, <1>4, <1>w, <1>t, ZenonT(30)
    <3>. QED  BY ONLY <3>1, <3>2, NewReport, ZenonT(30)
  <2>3. IsMaster(d) => d = 1
    <3>1. spec[d] = IF d = 1 THEN MasterSpec(DBs \ {1}) ELSE StandbySpec(1)
      BY <1>h, ZenonT(30) DEF Started
    <3>. QED  BY <3>1 DEF IsMaster, StandbySpec
  <2>4. status[d].gen # "none" /\ (status[d].gen = "current" => d \notin lost)
    BY <1>2, <1>4, ZenonT(30)
  <2>5. d \notin lost => status[d].hist = hist[d]
    BY <1>2, <1>4, <1>t, ZenonT(30)
  <2>. QED  BY <1>3, <2>1, <2>2, <2>3, <2>4, <2>5, ZenonT(30) DEF DBInv
<1>. QED  BY <1>5, <1>6, <1>7, <1>8, ZenonT(30) DEF UpdateInv

-----------------------------------------------------------------------------
\* The inductive invariant holds: reports stay true, and a master that has reported
\* its current generation keeps its history.
THEOREM InvariantHolds == Spec => []UpdateInv
  BY InitInv, NextKeepsInv, PTL DEF Spec

\* Every variable keeps the shape of the Go state it stands for, and what was
\* reported of a database is a part of what it has.
THEOREM TypeCorrect == Spec => []TypeOK
<1>1. ASSUME UpdateInv
      PROVE  TypeOK
  <2>0. DataTypes /\ KeeperTypes
    BY <1>1, ZenonT(30) DEF UpdateInv
  <2>1. ASSUME NEW d \in DBs
        PROVE  /\ spec[d] \in SpecType
               /\ status[d].healthy \in BOOLEAN
               /\ status[d].gen \in {"none", "stale", "current"}
               /\ \A i \in 1..Len(wal[d]) : wal[d][i] \in WALRecord
               /\ IsPrefix(status[d].wal, wal[d]) /\ IsPrefix(status[d].hist, hist[d])
               /\ \A t \in 1..Len(hist[d]) : hist[d][t] \in 0..MaxPos
    <3>1. spec[d] \in SpecType /\ status[d] \in StatusType
      BY <2>0, ZenonT(30) DEF DataTypes
    <3>2. status[d].healthy \in BOOLEAN /\ status[d].gen \in {"none", "stale", "current"}
      BY <3>1, ZenonT(30) DEF StatusType
    <3>3. IsPrefix(status[d].wal, wal[d]) /\ IsPrefix(status[d].hist, hist[d])
      BY <1>1, ZenonT(30) DEF UpdateInv, DBInv, StillTrue
    <3>4. wal[d] \in Seq(WALRecord) /\ hist[d] \in Seq(0..MaxPos)
      BY <2>0, ZenonT(30) DEF KeeperTypes
    <3>5. ASSUME NEW T, NEW q \in Seq(T), NEW i \in 1..Len(q)
          PROVE  q[i] \in T
      OBVIOUS
    <3>. QED  BY <3>1, <3>2, <3>3, <3>4, <3>5, ZenonT(30)
  <2>. QED
    BY <2>0, <2>1, ZenonT(30) DEF TypeOK, DataTypes, KeeperTypes, SpecType, WALRecord
<1>. QED  BY <1>1, InvariantHolds, PTL

\* Through every failover, switch, failback and reinitialisation the cluster data
\* have a database for the master, with the role of one.
THEOREM MasterAlwaysPresent == Spec => []MasterPresent
<1>1. UpdateInv => MasterPresent
  BY DEF UpdateInv
<1>. QED  BY <1>1, InvariantHolds, PTL

\* A standby that updateCluster removes as invalid, with a healthy and converged
\* master, cannot follow that master, however old the reports are it was judged by.
THEOREM InvalidIsNeverMisjudged == Spec => []InvalidIsDiverged
<1>1. ASSUME UpdateInv, InService, NEW d \in Replicas, Invalid(d)
      PROVE  ~OnLine(Actual(d), Actual(master))
  <2>0. DataTypes /\ KeeperTypes /\ d \in DBs /\ master \in DBs
    BY <1>1, ZenonT(30) DEF UpdateInv, DataTypes, Replicas, Present
  <2>1. status[master].hist = hist[master]
    BY <1>1, <2>0, ZenonT(30) DEF UpdateInv, DBInv, MasterPresent, InService, Converged
  <2>2. StillTrue(status[d], wal[d], hist[d])
    BY <1>1, <2>0, ZenonT(30) DEF UpdateInv, DBInv
  <2>3. DetectTimelineBranchDivergence(status[master], status[d])
    BY <1>1, ZenonT(30) DEF Invalid
  <2>4. /\ wal[d] \in Seq(WALRecord) /\ hist[d] \in Seq(Nat)
        /\ status[d].wal \in Seq(WALRecord) /\ status[d].hist \in Seq(Nat)
        /\ status[master].hist \in Seq(Nat)
    BY <2>0, SequenceTypes, ZenonT(30)
  <2>5. Actual(master).hist = status[master].hist
    BY <2>1 DEF Actual
  <2>. QED  BY <2>2, <2>3, <2>4, <2>5, DivergenceIsForGood, ZenonT(30) DEF Actual
<1>2. UpdateInv => InvalidIsDiverged
  BY <1>1, ZenonT(30) DEF InvalidIsDiverged
<1>. QED  BY <1>2, InvariantHolds, PTL

\* The number of records that a change of master costs, of those the old master had
\* reported: never more than maxStandbyLag.
ElectedWithinLag ==
    [][master' # master => Position(master) - Len(wal[master']) <= MaxStandbyLag]_vars

\* A candidate has all but maxStandbyLag of the number of records that the master
\* had reported.
LEMMA LagIsBounded ==
    ASSUME UpdateInv, NEW w \in BestNewMasters
    PROVE  /\ Position(master) - Position(w) <= MaxStandbyLag
           /\ Position(master) - Len(wal[w]) <= MaxStandbyLag
<1>0. DataTypes /\ KeeperTypes /\ master \in DBs
  BY ZenonT(30) DEF UpdateInv, DataTypes
<1>1. w \in DBs /\ isLagBelowMax(w)
  BY Candidates, ZenonT(30) DEF BestNewMasters
<1>2. Position(master) \in Nat /\ Position(w) \in Nat /\ Len(wal[w]) \in Nat
  BY <1>0, <1>1, SequenceTypes
<1>3. Position(master) - Position(w) <= MaxStandbyLag
  <2>. DEFINE lag == Position(master) - Position(w)
  <2>1. lag \in Int
    BY <1>2
  <2>. HIDE DEF lag
  <2>2. \E x \in {0, lag} : \A y \in {0, lag} : x >= y
    BY <2>1
  <2>3. \A y \in {0, lag} : Max({0, lag}) >= y /\ Max({0, lag}) \in {0, lag}
    BY <2>2 DEF Max
  <2>4. Max({0, lag}) <= MaxStandbyLag
    BY <1>1, ZenonT(30) DEF isLagBelowMax, lag
  <2>5. lag <= MaxStandbyLag
    BY <2>1, <2>3, <2>4, UpdateAssumption
  <2>. QED  BY <2>5 DEF lag
<1>4. Position(w) <= Len(wal[w])
  <2>1. IsPrefix(status[w].wal, wal[w])
    BY <1>1, ZenonT(30) DEF UpdateInv, DBInv, StillTrue
  <2>. QED  BY <2>1, ZenonT(30) DEF IsPrefix, Position
<1>. QED  BY <1>2, <1>3, <1>4, UpdateAssumption

\* Only an election changes the master, and to a candidate.
LEMMA NewMasterIsCandidate ==
    ASSUME UpdateInv, Next, master' # master
    PROVE  master' \in BestNewMasters /\ UNCHANGED <<wal, hist>>
<1>1. ManualSwitch \/ Failover \/ AutoFailback
  BY ZenonT(60)
  DEF Next, Sentinel, Keeper, Keep, KeepUnconverged, WriteWAL, Stream, Fault, Recover,
      KeeperStop, KeeperResync, KeeperMaster, KeeperStandby, Report, Fail,
      ConvergenceTimeout, RequestManualSwitch, ReinitializeReplica, cdVars
<1>. QED  BY <1>1, Elections, ZenonT(30) DEF Elect, PutSpecs

\* findBestNewMasters judges a standby by the position it had reported; it has at
\* least that when it is elected, by a failover, a switch or a failback.
THEOREM ElectionsWithinLag == Spec => ElectedWithinLag
<1>1. ASSUME UpdateInv, Next, master' # master
      PROVE  Position(master) - Len(wal[master']) <= MaxStandbyLag
  BY <1>1, LagIsBounded, NewMasterIsCandidate, ZenonT(30)
<1>2. UpdateInv /\ [Next]_vars =>
         [master' # master => Position(master) - Len(wal[master']) <= MaxStandbyLag]_vars
  BY <1>1, ZenonT(30) DEF vars, cdVars
<1>. QED  BY <1>2, InvariantHolds, PTL DEF Spec, ElectedWithinLag

-----------------------------------------------------------------------------
\* The records w go with the history h: a timeline ends within the WAL, a record is
\* of timeline t or an earlier one exactly if it lies before the end of t, and the
\* first timeline is the first master's.
Written(w, h) ==
    /\ \A t \in 1..Len(h) : h[t] <= Len(w)
    /\ \A i \in 1..Len(w) :
          /\ w[i].tl <= Len(h) + 1
          /\ \A t \in 1..Len(h) : w[i].tl <= t <=> i <= h[t]
          /\ w[i].tl = 1 => w[i].by = 1

\* What every database has and has reported is written so.  Nobody but the first
\* master acts as one on the first timeline, as an instance that is stopped is one
\* to be created anew.
Line(d) ==
    /\ Written(wal[d], hist[d]) /\ Written(status[d].wal, status[d].hist)
    /\ acting[d] = "master" /\ hist[d] = <<>> => d = 1
    /\ acting[d] = "stopped" \/ spec[d].role = "none" => fresh[d]

LineInv == \A d \in DBs : Line(d)

\* A record that fits the history keeps it so.
LEMMA RecordFits ==
    ASSUME NEW w \in Seq(WALRecord), NEW h \in Seq(Nat), NEW x \in WALRecord,
           Written(w, h), x.tl <= Len(h) + 1, x.tl = 1 => x.by = 1,
           \A t \in 1..Len(h) : x.tl <= t <=> Len(w) + 1 <= h[t]
    PROVE  Written(Append(w, x), h)
<1>1. /\ Len(Append(w, x)) = Len(w) + 1 /\ Len(w) \in Nat /\ Len(h) \in Nat
      /\ \A i \in 1..Len(w) : Append(w, x)[i] = w[i]
      /\ Append(w, x)[Len(w) + 1] = x
  OBVIOUS
<1>2. \A t \in 1..Len(h) : h[t] \in Nat
  OBVIOUS
<1>. DEFINE v == Append(w, x)
<1>. HIDE DEF v
<1>3. \A t \in 1..Len(h) : h[t] <= Len(v)
  BY <1>1, <1>2 DEF Written, v
<1>4. ASSUME NEW i \in 1..Len(v)
      PROVE  /\ v[i].tl <= Len(h) + 1
             /\ \A t \in 1..Len(h) : v[i].tl <= t <=> i <= h[t]
             /\ v[i].tl = 1 => v[i].by = 1
  <2>1. i \in 1..Len(w) \/ i = Len(w) + 1
    BY <1>1 DEF v
  <2>2. CASE i \in 1..Len(w)
    <3>1. v[i] = w[i]
      BY <1>1, <2>2 DEF v
    <3>. QED  BY <2>2, <3>1, ZenonT(30) DEF Written
  <2>3. CASE i = Len(w) + 1
    <3>1. v[i] = x
      BY <1>1, <2>3 DEF v
    <3>. QED  BY <2>3, <3>1, ZenonT(30)
  <2>. QED  BY <2>1, <2>2, <2>3
<1>. QED  BY <1>3, <1>4, ZenonT(30) DEF Written, v

\* A promotion, or the switch to the timeline of one, ends a timeline at the last
\* record.
LEMMA SwitchFits ==
    ASSUME NEW w \in Seq(WALRecord), NEW h \in Seq(Nat), Written(w, h)
    PROVE  Written(w, Append(h, Len(w))) /\ Append(h, Len(w)) # <<>>
<1>1. /\ Len(Append(h, Len(w))) = Len(h) + 1 /\ Len(h) \in Nat /\ Len(w) \in Nat
      /\ \A t \in 1..Len(h) : Append(h, Len(w))[t] = h[t]
      /\ Append(h, Len(w))[Len(h) + 1] = Len(w)
  OBVIOUS
<1>2. \A i \in 1..Len(w) : w[i].tl \in Nat
  <2>1. \A i \in 1..Len(w) : w[i] \in WALRecord
    OBVIOUS
  <2>2. \A r \in WALRecord : r.tl \in Nat
    BY UpdateAssumption DEF WALRecord
  <2>. QED  BY <2>1, <2>2, ZenonT(30)
<1>. DEFINE g == Append(h, Len(w))
<1>3. g # <<>>
  BY <1>1
<1>. HIDE DEF g
<1>4. ASSUME NEW t \in 1..Len(g)
      PROVE  /\ g[t] <= Len(w)
             /\ \A i \in 1..Len(w) : w[i].tl <= t <=> i <= g[t]
  <2>1. t \in 1..Len(h) \/ t = Len(h) + 1
    BY <1>1 DEF g
  <2>2. CASE t \in 1..Len(h)
    <3>1. g[t] = h[t]
      BY <1>1, <2>2 DEF g
    <3>. QED  BY <2>2, <3>1, ZenonT(30) DEF Written
  <2>3. CASE t = Len(h) + 1
    <3>1. g[t] = Len(w)
      BY <1>1, <2>3 DEF g
    <3>2. \A i \in 1..Len(w) : w[i].tl <= t
      BY <2>3, ZenonT(30) DEF Written
    <3>. QED  BY <1>1, <3>1, <3>2
  <2>. QED  BY <2>1, <2>2, <2>3
<1>5. \A i \in 1..Len(w) : w[i].tl <= Len(g) + 1 /\ (w[i].tl = 1 => w[i].by = 1)
  <2>1. \A i \in 1..Len(w) : w[i].tl <= Len(h) + 1 /\ (w[i].tl = 1 => w[i].by = 1)
    BY ZenonT(30) DEF Written
  <2>. QED  BY <1>1, <1>2, <2>1 DEF g
<1>. QED  BY <1>3, <1>4, <1>5, ZenonT(30) DEF Written, g

\* The next record of an upstream fits the history of a standby that can continue
\* with the upstream's WAL and has not reached the end of its timeline.
LEMMA ReceivedFits ==
    ASSUME NEW w \in Seq(WALRecord), NEW h \in Seq(Nat),
           NEW v \in Seq(WALRecord), NEW g \in Seq(Nat), Written(v, g),
           IsPrefix(h, g), Len(w) < Len(v),
           Len(h) < Len(g) => g[Len(h) + 1] > Len(w)
    PROVE  LET x == v[Len(w) + 1] IN
           /\ x.tl <= Len(h) + 1 /\ (x.tl = 1 => x.by = 1)
           /\ \A t \in 1..Len(h) : x.tl <= t <=> Len(w) + 1 <= h[t]
<1>. DEFINE k == Len(w) + 1
<1>1. /\ Len(w) \in Nat /\ Len(h) \in Nat /\ Len(g) \in Nat /\ k \in 1..Len(v)
      /\ Len(h) <= Len(g) /\ \A t \in 1..Len(h) : t \in 1..Len(g) /\ h[t] = g[t]
      /\ \A t \in 1..Len(g) : g[t] \in Nat
  BY DEF IsPrefix
<1>2. /\ v[k].tl <= Len(g) + 1
      /\ \A t \in 1..Len(g) : v[k].tl <= t <=> k <= g[t]
      /\ v[k].tl = 1 => v[k].by = 1
  BY <1>1, ZenonT(30) DEF Written
<1>3. v[k].tl <= Len(h) + 1
  <2>1. CASE Len(h) = Len(g)
    BY <1>2, <2>1
  <2>2. CASE Len(h) < Len(g)
    <3>1. Len(h) + 1 \in 1..Len(g) /\ k <= g[Len(h) + 1]
      BY <1>1, <2>2
    <3>. QED  BY <1>2, <3>1, ZenonT(30)
  <2>. QED  BY <1>1, <2>1, <2>2
<1>. QED  BY <1>1, <1>2, <1>3, ZenonT(30)

\* What a check of the sentinel stores keeps reports as they are or drops them; a
\* database without a specification is to be created anew.
LEMMA PutLine ==
    ASSUME UpdateInv, LineInv, NEW specs, NEW removed, NEW added,
           PutSpecs(specs, removed, added),
           \A d \in DBs : specs[d].role = "none" =>
               spec[d].role = "none" \/ d \in removed \cup added
    PROVE  LineInv'
<1>1. ASSUME NEW d \in DBs
      PROVE  Line(d)'
  <2>0. Line(d) /\ status[d] \in StatusType
    BY ZenonT(30) DEF LineInv, UpdateInv, DataTypes
  <2>1. /\ UNCHANGED <<acting, wal, hist>> /\ spec'[d] = specs[d]
        /\ fresh'[d] <=> fresh[d] \/ d \in removed \cup added
        /\ status'[d] \in {NoStatus, status[d], [status[d] EXCEPT !.gen = "stale"]}
    BY ZenonT(30) DEF PutSpecs
  <2>2. Written(<<>>, <<>>)
    BY DEF Written
  <2>3. /\ NoStatus.wal = <<>> /\ NoStatus.hist = <<>>
        /\ [status[d] EXCEPT !.gen = "stale"].wal = status[d].wal
        /\ [status[d] EXCEPT !.gen = "stale"].hist = status[d].hist
    BY <2>0 DEF NoStatus, StatusType
  <2>4. Written(status'[d].wal, status'[d].hist)
    BY <2>0, <2>1, <2>2, <2>3, ZenonT(30) DEF Line
  <2>. QED  BY <2>0, <2>1, <2>4, ZenonT(30) DEF Line
<1>. QED  BY <1>1, ZenonT(30) DEF LineInv

\* No check takes the specification of a database away without having it created
\* anew.
LEMMA SentinelLine ==
    ASSUME UpdateInv, LineInv, Sentinel
    PROVE  LineInv'
<1>0. spec \in [DBs -> SpecType] /\ master \in DBs
  BY ZenonT(30) DEF UpdateInv, DataTypes
<1>r. ASSUME NEW specs \in [DBs -> SpecType], NEW f \in SUBSET DBs, NEW d \in DBs
      PROVE  [specs EXCEPT ![master].followers = f][d].role = specs[d].role
  BY ONLY <1>0, <1>r, SetFollowers
<1>1. CASE ManualSwitch \/ Failover \/ AutoFailback
  <2>1. PICK w \in BestNewMasters : Elect(w)
    BY <1>1, Elections, ZenonT(30)
  <2>. DEFINE elected == [spec EXCEPT ![w].role = "master", ![w].follow = NoDB]
              f == Followers(elected, master, w)
  <2>2. PutSpecs([elected EXCEPT ![master].followers = f], {}, {}) /\ f \in SUBSET DBs
    BY <2>1, ZenonT(30) DEF Elect, Followers
  <2>3. elected \in [DBs -> SpecType]
        /\ \A d \in DBs : elected[d].role = "none" => spec[d].role = "none"
    <3>1. w \in DBs /\ spec[w] \in SpecType
      BY <1>0, Candidates, ZenonT(30)
    <3>2. elected = [spec EXCEPT ![w] = [[spec[w] EXCEPT !.role = "master"]
                                                  EXCEPT !.follow = NoDB]]
      BY <1>0, <3>1, ZenonT(30)
    <3>3. [[spec[w] EXCEPT !.role = "master"] EXCEPT !.follow = NoDB] \in SpecType
          /\ [[spec[w] EXCEPT !.role = "master"] EXCEPT !.follow = NoDB].role = "master"
      BY <3>1, ZenonT(30) DEF SpecType
    <3>. QED  BY <1>0, <3>1, <3>2, <3>3
  <2>. HIDE DEF elected, f
  <2>4. \A d \in DBs : [elected EXCEPT ![master].followers = f][d].role = "none" =>
                          spec[d].role = "none" \/ d \in {} \cup {}
    BY <1>r, <2>2, <2>3, ZenonT(30)
  <2>. DEFINE specs == [elected EXCEPT ![master].followers = f]
  <2>5. PutSpecs(specs, {}, {}) /\ \A d \in DBs : specs[d].role = "none" =>
                          spec[d].role = "none" \/ d \in {} \cup {}
    BY <2>2, <2>4, ZenonT(30)
  <2>. HIDE DEF specs
  <2>. QED  BY <2>5, PutLine, ZenonT(30)
<1>2. CASE KeepUnconverged
  <2>. DEFINE f == Followers(spec, master, master)
              specs == [spec EXCEPT ![master].followers = f]
  <2>1. PutSpecs(specs, {}, {}) /\ f \in SUBSET DBs
    BY <1>2, ZenonT(30) DEF KeepUnconverged, Followers
  <2>. HIDE DEF f
  <2>2. \A d \in DBs : specs[d].role = "none" => spec[d].role = "none" \/ d \in {} \cup {}
    BY <1>0, <1>r, <2>1, ZenonT(30)
  <2>. HIDE DEF specs
  <2>. QED  BY <2>1, <2>2, PutLine, ZenonT(30)
<1>3. CASE Keep
  <2>. DEFINE gone == {d \in Present \ {master} : IsMaster(d) \/ Invalid(d)}
              rest == Present \ (gone \cup {master})
              good == {d \in rest : Good(d)}
              specsOf(kept, added) ==
                  [d \in DBs |->
                      IF d = master THEN MasterSpec(kept \cup added)
                      ELSE IF d \in added
                      THEN [StandbySpec(master) EXCEPT !.init = "resync"]
                      ELSE IF d \in kept
                      THEN [StandbySpec(master) EXCEPT !.init =
                              IF d \in good THEN "none" ELSE spec[d].init]
                      ELSE NoSpec]
  <2>1. PICK excess \in SUBSET rest, added \in SUBSET DBs :
           PutSpecs(specsOf(rest \ excess, added), gone \cup excess, added)
    BY <1>3, ZenonT(30) DEF Keep
  <2>. DEFINE kept == rest \ excess
              specs == specsOf(kept, added)
  <2>2. ASSUME NEW k, NEW i
        PROVE  /\ MasterSpec(k).role # "none"
               /\ [StandbySpec(master) EXCEPT !.init = i].role # "none"
    BY DEF MasterSpec, StandbySpec
  <2>3. ASSUME NEW d \in DBs, specs[d].role = "none"
        PROVE  spec[d].role = "none" \/ d \in (gone \cup excess) \cup added
    <3>1. d \notin kept /\ d # master
      <4>. HIDE DEF gone, rest, good, kept
      <4>. QED  BY <2>2, <2>3, ZenonT(30)
    <3>. QED  BY <3>1, ZenonT(30) DEF Present
  <2>4. PutSpecs(specs, gone \cup excess, added)
    BY <2>1, ZenonT(30)
  <2>. HIDE DEF gone, rest, specs
  <2>. QED  BY <2>3, <2>4, PutLine, ZenonT(30)
<1>. QED  BY <1>1, <1>2, <1>3, ZenonT(30) DEF Sentinel

\* Nothing changes for the other databases when one writes, receives, is copied,
\* promoted, stopped or reports.
LEMMA LineStep ==
    ASSUME LineInv, NEW d \in DBs, Line(d)',
           \A e \in DBs \ {d} :
              /\ wal'[e] = wal[e] /\ hist'[e] = hist[e] /\ acting'[e] = acting[e]
              /\ fresh'[e] = fresh[e] /\ spec'[e] = spec[e] /\ status'[e] = status[e]
    PROVE  LineInv'
<1>1. ASSUME NEW e \in DBs, e # d
      PROVE  Line(e)'
  <2>1. Line(e)
    BY ZenonT(30) DEF LineInv
  <2>2. /\ wal'[e] = wal[e] /\ hist'[e] = hist[e] /\ acting'[e] = acting[e]
        /\ fresh'[e] = fresh[e] /\ spec'[e] = spec[e] /\ status'[e] = status[e]
    BY <1>1, ZenonT(30)
  <2>. QED  BY ONLY <2>1, <2>2, ZenonT(30) DEF Line
<1>. QED  BY <1>1, ZenonT(30) DEF LineInv

\* The records go with the history after every write and every step of replication.
LEMMA PostgresLine ==
    ASSUME UpdateInv, LineInv, NEW d \in DBs, WriteWAL(d) \/ Stream(d)
    PROVE  LineInv'
<1>0. /\ DataTypes /\ KeeperTypes /\ Line(d)
      /\ UNCHANGED <<cdVars, acting, source, fresh>>
  BY ZenonT(30) DEF UpdateInv, LineInv, WriteWAL, Stream
<1>1. /\ wal[d] \in Seq(WALRecord) /\ hist[d] \in Seq(Nat)
      /\ Len(wal[d]) \in Nat /\ Len(hist[d]) \in Nat
      /\ wal \in [DBs -> Seq(WALRecord)] /\ hist \in [DBs -> Seq(0..MaxPos)]
  BY <1>0, SequenceTypes, ZenonT(30) DEF KeeperTypes
<1>2. ASSUME NEW x \in WALRecord, wal' = [wal EXCEPT ![d] = Append(@, x)],
             UNCHANGED hist, x.tl <= Len(hist[d]) + 1, x.tl = 1 => x.by = 1,
             \A t \in 1..Len(hist[d]) : x.tl <= t <=> Len(wal[d]) + 1 <= hist[d][t]
      PROVE  LineInv'
  <2>1. Written(Append(wal[d], x), hist[d])
    BY <1>0, <1>1, <1>2, RecordFits DEF Line
  <2>2. wal'[d] = Append(wal[d], x) /\ \A e \in DBs \ {d} : wal'[e] = wal[e]
    BY <1>1, <1>2, ZenonT(30)
  <2>3. Line(d)'
    BY <1>0, <1>2, <2>1, <2>2, ZenonT(30) DEF Line, cdVars
  <2>. QED  BY <1>0, <1>2, <2>2, <2>3, LineStep, ZenonT(30) DEF cdVars
<1>3. CASE WriteWAL(d)
  <2>. DEFINE x == [tl |-> Len(hist[d]) + 1, by |-> d]
  <2>1. acting[d] = "master" /\ wal' = [wal EXCEPT ![d] = Append(@, x)] /\ UNCHANGED hist
    BY <1>3, ZenonT(30) DEF WriteWAL, Timeline
  <2>2. Len(hist[d]) < MaxTimeline
    BY <1>0, ZenonT(30) DEF KeeperTypes
  <2>3. x \in WALRecord /\ x.tl = Len(hist[d]) + 1 /\ x.by = d
    BY <1>1, <2>2, UpdateAssumption DEF WALRecord
  <2>4. x.tl = 1 => x.by = 1
    <3>1. Len(hist[d]) = 0 => hist[d] = <<>>
      BY <1>1
    <3>2. x.tl = 1 => Len(hist[d]) = 0
      BY <1>1, <2>3
    <3>. QED  BY <1>0, <2>1, <2>3, <3>1, <3>2, ZenonT(30) DEF Line
  <2>5. \A t \in 1..Len(hist[d]) : x.tl <= t <=> Len(wal[d]) + 1 <= hist[d][t]
    <3>1. \A t \in 1..Len(hist[d]) : hist[d][t] <= Len(wal[d])
      BY <1>0, ZenonT(30) DEF Line, Written
    <3>2. \A t \in 1..Len(hist[d]) : hist[d][t] \in Nat
      BY <1>1
    <3>. QED  BY <1>1, <2>3, <3>1, <3>2
  <2>6. x.tl <= Len(hist[d]) + 1
    BY <1>1, <2>3
  <2>. HIDE DEF x
  <2>. QED  BY <1>2, <2>1, <2>3, <2>4, <2>5, <2>6, ZenonT(30)
<1>4. CASE Stream(d)
  <2>. DEFINE s == source[d]
  <2>0. s \in DBs /\ IsPrefix(hist[d], hist[s]) /\ Written(wal[s], hist[s])
    BY <1>0, <1>4, ZenonT(30) DEF Stream, Streams, KeeperTypes, LineInv, Line
  <2>1. /\ wal[s] \in Seq(WALRecord) /\ hist[s] \in Seq(Nat)
        /\ Len(wal[s]) \in Nat /\ Len(hist[s]) \in Nat
    BY <1>0, <2>0, SequenceTypes, ZenonT(30)
  <2>2. \/ hist' = [hist EXCEPT ![d] = Append(@, Len(wal[d]))] /\ UNCHANGED wal
        \/ /\ Len(hist[d]) < Len(hist[s]) => hist[s][Len(hist[d]) + 1] > Len(wal[d])
           /\ Len(wal[d]) < Len(wal[s])
           /\ wal' = [wal EXCEPT ![d] = Append(@, wal[s][Len(@) + 1])] /\ UNCHANGED hist
    BY <1>4, ZenonT(30) DEF Stream, Timeline
  <2>3. acting[d] = "standby"
    BY <1>4, ZenonT(30) DEF Stream
  <2>. HIDE DEF s
  <2>4. CASE hist' = [hist EXCEPT ![d] = Append(@, Len(wal[d]))] /\ UNCHANGED wal
    <3>1. Written(wal[d], Append(hist[d], Len(wal[d])))
      BY <1>0, <1>1, SwitchFits, ZenonT(30) DEF Line
    <3>2. hist'[d] = Append(hist[d], Len(wal[d])) /\ \A e \in DBs \ {d} : hist'[e] = hist[e]
      BY <1>1, <2>4, ZenonT(30)
    <3>3. Line(d)'
      <4>1. acting'[d] # "master"
        BY <1>0, <2>3
      <4>. QED  BY <1>0, <2>4, <3>1, <3>2, <4>1, ZenonT(30) DEF Line, cdVars
    <3>. QED  BY <1>0, <2>4, <3>2, <3>3, LineStep, ZenonT(30) DEF cdVars
  <2>5. CASE /\ Len(hist[d]) < Len(hist[s]) => hist[s][Len(hist[d]) + 1] > Len(wal[d])
             /\ Len(wal[d]) < Len(wal[s])
             /\ wal' = [wal EXCEPT ![d] = Append(@, wal[s][Len(@) + 1])] /\ UNCHANGED hist
    <3>. DEFINE x == wal[s][Len(wal[d]) + 1]
    <3>1. x \in WALRecord
      BY <1>1, <2>1, <2>5
    <3>2. /\ x.tl <= Len(hist[d]) + 1 /\ (x.tl = 1 => x.by = 1)
          /\ \A t \in 1..Len(hist[d]) : x.tl <= t <=> Len(wal[d]) + 1 <= hist[d][t]
      BY <1>1, <2>0, <2>1, <2>5, ReceivedFits
    <3>3. wal' = [wal EXCEPT ![d] = Append(@, x)] /\ UNCHANGED hist
      BY <2>5, ZenonT(30)
    <3>. HIDE DEF x
    <3>. QED  BY <1>2, <3>1, <3>2, <3>3, ZenonT(30)
  <2>. QED  BY <2>2, <2>4, <2>5
<1>. QED  BY <1>3, <1>4

\* A keeper stops what is not wanted, copies a database with its history, and makes
\* a master of a standby alone, with a timeline that ends at its last record.
LEMMA KeeperLine ==
    ASSUME UpdateInv, LineInv, NEW d \in DBs, Keeper(d)
    PROVE  LineInv'
<1>0. DataTypes /\ KeeperTypes /\ DBInv(d) /\ Line(d)
  BY ZenonT(30) DEF UpdateInv, LineInv
<1>1. /\ acting \in [DBs -> {"master", "standby", "stopped"}]
      /\ fresh \in [DBs -> BOOLEAN]
      /\ wal \in [DBs -> Seq(WALRecord)] /\ hist \in [DBs -> Seq(0..MaxPos)]
      /\ wal[d] \in Seq(WALRecord) /\ hist[d] \in Seq(Nat)
  BY <1>0, SequenceTypes, ZenonT(30) DEF KeeperTypes
<1>2. CASE KeeperStop(d)
  <2>1. /\ acting' = [acting EXCEPT ![d] = "stopped"]
        /\ UNCHANGED <<cdVars, fresh, wal, hist>>
        /\ spec[d].role = "none" \/ fresh[d]
    BY <1>2, ZenonT(30) DEF KeeperStop
  <2>2. acting'[d] = "stopped" /\ \A e \in DBs \ {d} : acting'[e] = acting[e]
    BY <1>1, <2>1, ZenonT(30)
  <2>3. Line(d)'
    <3>1. acting'[d] # "master"
      BY <2>2
    <3>. QED  BY <1>0, <2>1, <3>1, ZenonT(30) DEF Line, cdVars
  <2>. QED  BY <2>1, <2>2, <2>3, LineStep, ZenonT(30) DEF cdVars
<1>3. CASE KeeperResync(d)
  <2>. DEFINE s == spec[d].follow
  <2>1. /\ spec[d].role = "standby" /\ s \in DBs
        /\ acting' = [acting EXCEPT ![d] = "standby"]
        /\ fresh' = [fresh EXCEPT ![d] = FALSE]
        /\ wal' = [wal EXCEPT ![d] = wal[s]] /\ hist' = [hist EXCEPT ![d] = hist[s]]
        /\ UNCHANGED cdVars
    BY <1>0, <1>3, ZenonT(30) DEF KeeperResync, DBInv
  <2>. HIDE DEF s
  <2>2. /\ acting'[d] = "standby" /\ wal'[d] = wal[s] /\ hist'[d] = hist[s]
        /\ \A e \in DBs \ {d} : /\ wal'[e] = wal[e] /\ hist'[e] = hist[e]
                                /\ acting'[e] = acting[e] /\ fresh'[e] = fresh[e]
    BY <1>1, <2>1, ZenonT(30)
  <2>3. Written(wal[s], hist[s])
    BY <2>1, ZenonT(30) DEF LineInv, Line
  <2>4. Line(d)'
    <3>1. acting'[d] # "master" /\ acting'[d] # "stopped" /\ spec[d].role # "none"
      BY <2>1, <2>2
    <3>. QED  BY <1>0, <2>1, <2>2, <2>3, <3>1, ZenonT(30) DEF Line, cdVars
  <2>. QED  BY <2>1, <2>2, <2>4, LineStep, ZenonT(30) DEF cdVars
<1>4. CASE KeeperMaster(d)
  <2>1. /\ IsMaster(d) /\ acting' = [acting EXCEPT ![d] = "master"]
        /\ hist' = [hist EXCEPT ![d] =
                       IF acting[d] = "standby" THEN Append(@, Len(wal[d])) ELSE @]
        /\ UNCHANGED <<cdVars, fresh, wal>>
    BY <1>4, ZenonT(30) DEF KeeperMaster, IsMaster
  <2>2. acting[d] = "master" \/ acting[d] = "standby"
    <3>1. acting[d] # "stopped"
      BY <1>0, <2>1, ZenonT(30) DEF DBInv, Line
    <3>. QED  BY <1>1, <3>1
  <2>3. /\ acting'[d] = "master"
        /\ hist'[d] = IF acting[d] = "standby" THEN Append(hist[d], Len(wal[d])) ELSE hist[d]
        /\ \A e \in DBs \ {d} : hist'[e] = hist[e] /\ acting'[e] = acting[e]
    BY <1>1, <2>1, ZenonT(30)
  <2>4. Written(wal[d], hist'[d]) /\ (hist'[d] = <<>> => d = 1)
    <3>1. CASE acting[d] = "standby"
      BY <1>0, <1>1, <2>3, <3>1, SwitchFits, ZenonT(30) DEF Line
    <3>2. CASE acting[d] = "master"
      <4>1. hist'[d] = hist[d]
        BY <2>3, <3>2
      <4>. QED  BY <1>0, <3>2, <4>1, ZenonT(30) DEF Line
    <3>. QED  BY <2>2, <3>1, <3>2
  <2>5. Line(d)'
    <3>1. acting'[d] # "stopped" /\ spec[d].role # "none"
      BY <2>1, <2>3 DEF IsMaster
    <3>. QED  BY <1>0, <2>1, <2>4, <3>1, ZenonT(30) DEF Line, cdVars
  <2>. QED  BY <2>1, <2>3, <2>5, LineStep, ZenonT(30) DEF cdVars
<1>5. CASE KeeperStandby(d)
  <2>1. UNCHANGED <<cdVars, acting, fresh, wal, hist>>
    BY <1>5, ZenonT(30) DEF KeeperStandby
  <2>. QED  BY <2>1, ZenonT(30) DEF LineInv, Line, cdVars
<1>. QED  BY <1>2, <1>3, <1>4, <1>5, ZenonT(30) DEF Keeper

\* A report repeats what the database has; the other actions of the sentinel and of
\* operators leave WAL and histories alone.
LEMMA OtherLine ==
    ASSUME UpdateInv, LineInv, NEW d \in DBs,
           \/ Report(d) \/ Fail(d) \/ ReinitializeReplica(d)
           \/ Fault(d) \/ Recover(d) \/ ConvergenceTimeout(d) \/ RequestManualSwitch(d)
    PROVE  LineInv'
<1>0. DataTypes /\ Line(d) /\ status \in [DBs -> StatusType] /\ spec \in [DBs -> SpecType]
  BY ZenonT(30) DEF UpdateInv, DataTypes, LineInv
<1>1. CASE Report(d)
  <2>. DEFINE r == [healthy |-> acting[d] # "stopped",
                    gen |-> IF current[d] THEN "current" ELSE "stale",
                    wal |-> wal[d], hist |-> hist[d]]
  <2>1. /\ UNCHANGED <<spec, acting, fresh, wal, hist>>
        /\ status' = status \/ status' = [status EXCEPT ![d] = r]
    BY <1>1, ZenonT(30) DEF Report, pgVars
  <2>2. r.wal = wal[d] /\ r.hist = hist[d]
    OBVIOUS
  <2>. HIDE DEF r
  <2>3. status'[d] \in {status[d], r} /\ \A e \in DBs \ {d} : status'[e] = status[e]
    BY <1>0, <2>1, ZenonT(30)
  <2>4. Line(d)'
    BY <1>0, <2>1, <2>2, <2>3, ZenonT(30) DEF Line
  <2>. QED  BY <2>1, <2>3, <2>4, LineStep, ZenonT(30)
<1>2. CASE Fail(d)
  <2>1. /\ UNCHANGED <<spec, acting, fresh, wal, hist>>
        /\ status' = [status EXCEPT ![d] = [status[d] EXCEPT !.healthy = FALSE]]
    BY <1>2, ZenonT(30) DEF Fail, pgVars
  <2>2. /\ [status[d] EXCEPT !.healthy = FALSE].wal = status[d].wal
        /\ [status[d] EXCEPT !.healthy = FALSE].hist = status[d].hist
    BY <1>0 DEF StatusType
  <2>3. /\ status'[d] = [status[d] EXCEPT !.healthy = FALSE]
        /\ \A e \in DBs \ {d} : status'[e] = status[e]
    BY <1>0, <2>1, ZenonT(30)
  <2>4. Line(d)'
    BY <1>0, <2>1, <2>2, <2>3, ZenonT(30) DEF Line
  <2>. QED  BY <2>1, <2>3, <2>4, LineStep, ZenonT(30)
<1>3. CASE ReinitializeReplica(d)
  <2>. DEFINE c == [[[spec[d] EXCEPT !.init = "resync"] EXCEPT !.role = "standby"]
                      EXCEPT !.follow = master]
  <2>1. /\ UNCHANGED <<status, acting, fresh, wal, hist>>
        /\ spec' = [spec EXCEPT ![d] = c]
    BY <1>0, <1>3, ZenonT(30) DEF ReinitializeReplica, pgVars
  <2>2. c.role # "none"
    BY <1>0 DEF SpecType
  <2>. HIDE DEF c
  <2>3. spec'[d] = c /\ \A e \in DBs \ {d} : spec'[e] = spec[e]
    BY <1>0, <2>1, ZenonT(30)
  <2>4. Line(d)'
    BY <1>0, <2>1, <2>2, <2>3, ZenonT(30) DEF Line
  <2>. QED  BY <2>1, <2>3, <2>4, LineStep, ZenonT(30)
<1>4. CASE Fault(d) \/ Recover(d) \/ ConvergenceTimeout(d) \/ RequestManualSwitch(d)
  <2>1. UNCHANGED <<spec, status, acting, fresh, wal, hist>>
    BY <1>4, ZenonT(30)
    DEF Fault, Recover, ConvergenceTimeout, RequestManualSwitch, cdVars, pgVars
  <2>. QED  BY <2>1, ZenonT(30) DEF LineInv, Line
<1>. QED  BY <1>1, <1>2, <1>3, <1>4

\* Every record of every database, and of every report, is on the timeline that the
\* history says it is on.
THEOREM LineHolds == Spec => []LineInv
<1>1. Init => LineInv
  <2>1. ASSUME Init, NEW d \in DBs
        PROVE  Line(d)
    <3>0. PICK lost \in SUBSET DBs : Started(lost)
      BY <2>1, StartedSomehow
    <3>1. PICK w \in LostWAL :
              /\ wal[d] = IF d \in lost THEN w ELSE <<>>
              /\ hist[d] = IF d \in lost THEN <<>> ELSE StartHistory
      BY <3>0, ZenonT(30) DEF Started
    <3>2. status[d].wal = <<>> /\ status[d].hist = IF d \in lost THEN <<>> ELSE StartHistory
      <4>1. status[d] = IF d \in lost THEN [NoStatus EXCEPT !.gen = "stale"]
                        ELSE [NoStatus EXCEPT !.healthy = TRUE, !.gen = "current", !.hist = StartHistory]
        BY <3>0, ZenonT(30) DEF Started
      <4>. QED  BY ONLY <4>1, ZenonT(30) DEF NoStatus
    <3>3. /\ acting[d] = "master" => d = 1
          /\ acting[d] # "stopped" /\ spec[d].role # "none"
      <4>1. /\ acting[d] = IF d = 1 THEN "master" ELSE "standby"
            /\ spec[d] = IF d = 1 THEN MasterSpec(DBs \ {1}) ELSE StandbySpec(1)
        BY <3>0, ZenonT(30) DEF Started
      <4>. QED  BY ONLY <4>1, SMTT(30) DEF MasterSpec, StandbySpec
    <3>4. Written(<<>>, <<>>) /\ Written(<<>>, StartHistory)
      BY StartHistoryType DEF Written
    <3>5. Written(w, <<>>)
      BY LostWALType DEF Written
    <3>. QED  BY <3>1, <3>2, <3>3, <3>4, <3>5, ZenonT(30) DEF Line
  <2>. QED  BY <2>1, ZenonT(30) DEF LineInv
<1>2. UpdateInv /\ LineInv /\ [Next]_vars => LineInv'
  <2>. SUFFICES ASSUME UpdateInv, LineInv, [Next]_vars
                PROVE  LineInv'
    OBVIOUS
  <2>1. CASE Sentinel
    BY <2>1, SentinelLine
  <2>2. ASSUME NEW d \in DBs,
               \/ WriteWAL(d) \/ Stream(d) \/ Fault(d) \/ Recover(d)
               \/ Keeper(d) \/ Report(d) \/ Fail(d) \/ ConvergenceTimeout(d)
               \/ RequestManualSwitch(d) \/ ReinitializeReplica(d)
        PROVE  LineInv'
    BY <2>2, PostgresLine, KeeperLine, OtherLine, ZenonT(30)
  <2>3. CASE UNCHANGED vars
    BY <2>3, ZenonT(30) DEF LineInv, Line, vars, cdVars, pgVars
  <2>. QED  BY <2>1, <2>2, <2>3, ZenonT(30) DEF Next
<1>. QED  BY <1>1, <1>2, InvariantHolds, PTL DEF Spec

\* What follows when DetectTimelineBranchDivergence finds nothing, and no entry is
\* missing that would have shown a fork.
LEMMA NothingDetected ==
    ASSUME NEW f, NEW c, Len(f.hist) \in Nat, Len(c.hist) \in Nat, Len(c.wal) \in Nat,
           \A t \in 1..Len(f.hist) : f.hist[t] \in Nat,
           ~DetectTimelineBranchDivergence(f, c), ~ForkedUnseen(c, f)
    PROVE  /\ Len(c.hist) <= Len(f.hist)
           /\ Len(c.hist) < Len(f.hist) => Len(c.wal) <= f.hist[Len(c.hist) + 1]
<1>. DEFINE m == Len(f.hist)
            n == Len(c.hist)
<1>1. m \in Nat /\ n \in Nat
  OBVIOUS
<1>2. ~(m + 1 < n + 1)
  <2>1. ~(Timeline(f.hist) < Timeline(c.hist))
    <3>. SUFFICES ASSUME Timeline(f.hist) < Timeline(c.hist)
                  PROVE  FALSE
      OBVIOUS
    <3>. QED  BY ZenonT(30) DEF DetectTimelineBranchDivergence
  <2>. QED  BY <2>1, ZenonT(30) DEF Timeline
<1>3. CASE m + 1 = n + 1
  BY <1>1, <1>3
<1>4. CASE m + 1 > n + 1
  <2>1. n + 1 \in 1..m /\ f.hist[n + 1] \in Nat
    BY <1>1, <1>4
  <2>2. ~(f.hist[n + 1] < Len(c.wal))
    <3>1. Timeline(c.hist) = n + 1 /\ Timeline(f.hist) > n + 1 /\ n < m
      BY <1>1, <1>4 DEF Timeline
    <3>2. CASE HasEntry(f.hist, n + 1)
      BY <3>1, <3>2, ZenonT(30) DEF DetectTimelineBranchDivergence
    <3>3. CASE ~HasEntry(f.hist, n + 1)
      BY <3>1, <3>3, ZenonT(30) DEF ForkedUnseen
    <3>. QED  BY <3>2, <3>3
  <2>. QED  BY <1>1, <1>4, <2>1, <2>2
<1>. QED  BY <1>1, <1>2, <1>3, <1>4

\* A record is a timeline and a writer.
LEMMA RecordIs ==
    ASSUME NEW r \in WALRecord
    PROVE  /\ r.tl \in 1..MaxTimeline
           /\ \A q \in WALRecord : r # q /\ r.tl = q.tl => r.by # q.by
  BY DEF WALRecord

\* A timeline up to n + 1 is told by the timelines up to n that it does not exceed.
LEMMA SameTimeline ==
    ASSUME NEW n \in Nat, NEW k \in Nat, NEW a \in 1..k, NEW b \in 1..k,
           a <= n + 1, b <= n + 1, \A t \in 1..n : a <= t <=> b <= t
    PROVE  /\ a = b
           /\ a # 1 => a \in 2..k /\ a - 1 \in 1..n
<1>1. ~(a < b)
  <2>1. a < b => a \in 1..n
    OBVIOUS
  <2>. QED  BY <2>1
<1>2. ~(b < a)
  <2>1. b < a => b \in 1..n
    OBVIOUS
  <2>. QED  BY <2>1
<1>. QED  BY <1>1, <1>2

\* Two databases with the same history up to the timeline of the one, which the
\* other has not left before its position: their records are of the same timelines,
\* so that a difference shows two writers on one timeline.
LEMMA SameLine ==
    ASSUME NEW c, NEW f, c.wal \in Seq(WALRecord), f.wal \in Seq(WALRecord),
           c.hist \in Seq(Nat), f.hist \in Seq(Nat),
           Written(c.wal, c.hist), Written(f.wal, f.hist),
           ~DetectTimelineBranchDivergence(f, c), ~ForkedEarlier(c, f), ~ForkedUnseen(c, f)
    PROVE  OnLine(c, f) \/ Twins(c, f)
<1>. DEFINE n == Len(c.hist)
            m == Len(f.hist)
<1>1. /\ n \in Nat /\ m \in Nat /\ Len(c.wal) \in Nat /\ Len(f.wal) \in Nat
      /\ \A t \in 1..m : f.hist[t] \in Nat
  OBVIOUS
<1>2. n <= m /\ (n < m => Len(c.wal) <= f.hist[n + 1])
  BY <1>1, NothingDetected
<1>3. \A t \in 1..n : t \in 1..m /\ c.hist[t] = f.hist[t]
  <2>1. \A t \in 1..n : t \in 1..m /\ t <= m
    BY ONLY <1>1, <1>2
  <2>2. \A t \in 1..n : c.hist[t] = f.hist[t]
    BY <2>1, ZenonT(30) DEF ForkedEarlier
  <2>. QED  BY <2>1, <2>2, ZenonT(30)
<1>4. IsPrefix(c.hist, f.hist)
  BY <1>2, <1>3, ZenonT(30) DEF IsPrefix
<1>5. ASSUME NEW i \in 1..Len(c.wal), i \in 1..Len(f.wal), c.wal[i] # f.wal[i]
      PROVE  Twins(c, f)
  <2>1. c.wal[i] \in WALRecord /\ f.wal[i] \in WALRecord
    BY <1>5
  <2>. DEFINE a == c.wal[i].tl
              b == f.wal[i].tl
  <2>2. a \in 1..MaxTimeline /\ b \in 1..MaxTimeline
        /\ (a = b => c.wal[i].by # f.wal[i].by)
    BY <1>5, <2>1, RecordIs, ZenonT(30)
  <2>3. /\ a <= n + 1 /\ \A t \in 1..n : a <= t <=> i <= c.hist[t]
        /\ b <= m + 1 /\ \A t \in 1..m : b <= t <=> i <= f.hist[t]
        /\ a = 1 => c.wal[i].by = 1
        /\ b = 1 => f.wal[i].by = 1
    BY <1>5, ZenonT(30) DEF Written
  <2>. HIDE DEF a, b
  <2>4. \A t \in 1..n : a <= t <=> b <= t
    BY <1>3, <2>3, ZenonT(30)
  <2>5. b <= n + 1
    <3>1. CASE n = m
      BY <2>3, <3>1, ZenonT(30)
    <3>2. CASE n < m
      <4>1. n + 1 \in 1..m /\ i <= f.hist[n + 1]
        <5>1. n + 1 \in 1..m
          BY ONLY <1>1, <3>2, SMTT(30)
        <5>2. f.hist[n + 1] \in Nat /\ Len(c.wal) <= f.hist[n + 1] /\ Len(c.wal) \in Nat
          BY <1>1, <1>2, <3>2, <5>1, ZenonT(30)
        <5>3. i \in 1..Len(c.wal)
          BY ZenonT(30)
        <5>. QED  BY ONLY <5>1, <5>2, <5>3, SMTT(30)
      <4>. QED  BY <2>3, <4>1, ZenonT(30)
    <3>. QED  BY <1>1, <1>2, <3>1, <3>2
  <2>a. a \in 1..MaxTimeline /\ b \in 1..MaxTimeline /\ a <= n + 1
    BY <2>2, <2>3, ZenonT(30)
  <2>b. n \in Nat /\ MaxTimeline \in Nat
    BY <1>1, UpdateAssumption
  <2>6. a = b
    BY ONLY <2>a, <2>b, <2>4, <2>5, SameTimeline, ZenonT(30)
  <2>7. a # 1
    BY <2>2, <2>3, <2>6, ZenonT(30)
  <2>8. a \in 2..MaxTimeline /\ a - 1 \in 1..n
    BY ONLY <2>a, <2>b, <2>4, <2>5, <2>7, SameTimeline, ZenonT(30)
  <2>9. a <= n + 1 /\ a <= m + 1 /\ c.hist[a - 1] = f.hist[a - 1]
    BY <1>3, <2>3, <2>6, <2>8, ZenonT(30)
  <2>. QED  BY <1>5, <2>2, <2>6, <2>8, <2>9, ZenonT(30) DEF Twins, Timeline, a, b
<1>6. ASSUME \A i \in 1..Len(c.wal) : i \in 1..Len(f.wal) => c.wal[i] = f.wal[i]
      PROVE  IsPrefix(c.wal, f.wal) \/ IsPrefix(f.wal, c.wal)
  <2>0. Len(c.wal) \in Nat /\ Len(f.wal) \in Nat
    BY <1>1, ZenonT(30)
  <2>1. CASE Len(c.wal) <= Len(f.wal)
    <3>1. \A i \in 1..Len(c.wal) : i \in 1..Len(f.wal)
      BY ONLY <2>0, <2>1, SMTT(30)
    <3>. QED  BY <1>6, <2>1, <3>1, ZenonT(30) DEF IsPrefix
  <2>2. CASE Len(f.wal) <= Len(c.wal)
    <3>1. \A i \in 1..Len(f.wal) : i \in 1..Len(c.wal)
      BY ONLY <2>0, <2>2, SMTT(30)
    <3>. QED  BY <1>6, <2>2, <3>1, ZenonT(30) DEF IsPrefix
  <2>. QED
    BY ONLY <2>0, <2>1, <2>2, SMTT(30)
<1>. QED  BY <1>2, <1>4, <1>5, <1>6, ZenonT(30) DEF OnLine, Timeline

\* What the sentinel knows of a database that is not found to have diverged.
LEMMA ValidLine ==
    ASSUME UpdateInv, LineInv, NEW d \in DBs, Valid(d)
    PROVE  \/ OnLine(status[d], status[master])
           \/ Twins(status[d], status[master])
           \/ ForkedEarlier(status[d], status[master])
           \/ ForkedUnseen(status[d], status[master])
<1>1. master \in DBs /\ DataTypes /\ KeeperTypes
  BY ZenonT(30) DEF UpdateInv, DataTypes
<1>2. /\ status[d].wal \in Seq(WALRecord) /\ status[d].hist \in Seq(Nat)
      /\ status[master].wal \in Seq(WALRecord) /\ status[master].hist \in Seq(Nat)
  BY <1>1, SequenceTypes, ZenonT(30)
<1>3. /\ Written(status[d].wal, status[d].hist)
      /\ Written(status[master].wal, status[master].hist)
  BY <1>1, ZenonT(30) DEF LineInv, Line
<1>4. ~DetectTimelineBranchDivergence(status[master], status[d])
  BY ZenonT(30) DEF Valid
<1>. QED  BY <1>2, <1>3, <1>4, SameLine, ZenonT(30)

\* What the sentinel concludes when a database is not found to have diverged, for
\* any number of keepers and any history of failovers, from reports that hold the last
\* two entries of a history: the only errors it can make are the three that the
\* definition of ValidIsOnLine names.
THEOREM ValidIsNeverMisjudged == Spec => []ValidIsOnLine
<1>1. Present \subseteq DBs
  BY ZenonT(30) DEF Present
<1>2. UpdateInv /\ LineInv => ValidIsOnLine
  BY <1>1, ValidLine, ZenonT(30) DEF ValidIsOnLine
<1>. QED  BY <1>2, InvariantHolds, LineHolds, PTL

\* Two writers on one timeline stay apparent as the WAL and the history grow.
LEMMA TwinsStay ==
    ASSUME NEW a, NEW b, NEW x, a.wal \in Seq(WALRecord), x.wal \in Seq(WALRecord),
           a.hist \in Seq(Nat), x.hist \in Seq(Nat),
           IsPrefix(a.wal, x.wal), IsPrefix(a.hist, x.hist), Twins(a, b)
    PROVE  Twins(b, x)
<1>1. PICK t \in 2..MaxTimeline :
        /\ t <= Timeline(a.hist) /\ t <= Timeline(b.hist)
        /\ a.hist[t - 1] = b.hist[t - 1]
        /\ \E i \in 1..Len(a.wal), j \in 1..Len(b.wal) :
              a.wal[i].tl = t /\ b.wal[j].tl = t /\ a.wal[i].by # b.wal[j].by
  BY ZenonT(30) DEF Twins
<1>2. PICK i \in 1..Len(a.wal), j \in 1..Len(b.wal) :
         a.wal[i].tl = t /\ b.wal[j].tl = t /\ a.wal[i].by # b.wal[j].by
  BY <1>1, ZenonT(30)
<1>3. i \in 1..Len(x.wal) /\ x.wal[i] = a.wal[i]
  BY DEF IsPrefix
<1>4. t - 1 \in 1..Len(a.hist) /\ t <= Timeline(x.hist)
  <2>1. Len(a.hist) \in Nat /\ Len(x.hist) \in Nat
    OBVIOUS
  <2>2. MaxTimeline \in Nat
    BY UpdateAssumption
  <2>3. Len(a.hist) <= Len(x.hist)
    BY ZenonT(30) DEF IsPrefix
  <2>4. t <= Len(a.hist) + 1
    BY <1>1, ZenonT(30) DEF Timeline
  <2>. DEFINE la == Len(a.hist)
              lx == Len(x.hist)
  <2>5. Timeline(x.hist) = lx + 1
    BY ZenonT(30) DEF Timeline
  <2>. HIDE DEF la, lx
  <2>6. la \in Nat /\ lx \in Nat /\ la <= lx /\ t <= la + 1
    BY ONLY <2>1, <2>3, <2>4, ZenonT(30) DEF la, lx
  <2>7. t - 1 \in 1..la /\ t <= lx + 1
    BY ONLY <2>2, <2>6, t \in 2..MaxTimeline, SMTT(30)
  <2>. QED  BY ONLY <2>5, <2>7, ZenonT(30) DEF la
<1>5. b.hist[t - 1] = x.hist[t - 1]
  <2>1. x.hist[t - 1] = a.hist[t - 1]
    BY <1>4, ZenonT(30) DEF IsPrefix
  <2>. QED  BY ONLY <1>1, <2>1, ZenonT(30)
<1>6. \E k \in 1..Len(b.wal), l \in 1..Len(x.wal) :
         b.wal[k].tl = t /\ x.wal[l].tl = t /\ b.wal[k].by # x.wal[l].by
  BY <1>2, <1>3
<1>. QED  BY <1>1, <1>4, <1>5, <1>6, ZenonT(30) DEF Twins

\* Of two sequences one continues the other; the one, longer by n at most, is then
\* the other's but for its last n elements.
LEMMA AllButTheLast ==
    ASSUME NEW S, NEW q \in Seq(S), NEW p \in Seq(S), NEW u \in Seq(S), NEW n \in Nat,
           IsPrefix(p, q) \/ IsPrefix(q, p), IsPrefix(p, u), Len(q) - Len(p) <= n
    PROVE  IsPrefix(SubSeq(q, 1, Len(q) - n), u)
<1>. DEFINE k == Len(q) - n
<1>1. /\ Len(q) \in Nat /\ Len(p) \in Nat /\ Len(u) \in Nat
      /\ k \in Int /\ k <= Len(p) /\ k <= Len(q)
  OBVIOUS
<1>2. \A i \in 1..k : q[i] = u[i] /\ i \in 1..Len(u)
  BY <1>1 DEF IsPrefix
<1>3. CASE k >= 1
  <2>1. Len(SubSeq(q, 1, k)) = k /\ \A i \in 1..k : SubSeq(q, 1, k)[i] = q[i]
    BY <1>1, <1>3
  <2>2. k <= Len(u)
    BY <1>1 DEF IsPrefix
  <2>. QED  BY <1>2, <2>1, <2>2 DEF IsPrefix
<1>4. CASE k < 1
  <2>1. SubSeq(q, 1, k) = <<>>
    BY <1>1, <1>4
  <2>. QED  BY <2>1, PrefixGrows, ZenonT(30)
<1>. QED  BY <1>1, <1>3, <1>4

\* Whoever is elected has all of what the old master had reported, but for its last
\* maxStandbyLag records: by the theorem above the two are on one line, unless their
\* lines forked in a way the sentinel does not see.
THEOREM LossIsBounded == Spec => BoundedLoss
<1>1. ASSUME UpdateInv, LineInv, NEW w \in BestNewMasters
      PROVE  \/ Twins(status[master], [wal |-> wal[w], hist |-> hist[w]])
             \/ ForkedEarlier(status[w], status[master])
             \/ IsPrefix(SubSeq(status[master].wal, 1,
                                Len(status[master].wal) - MaxStandbyLag), wal[w])
  <2>1. w \in DBs /\ master \in DBs /\ DataTypes /\ KeeperTypes /\ Valid(w)
    BY <1>1, Candidates, ZenonT(30) DEF UpdateInv, DataTypes, BestNewMasters, Good
  <2>2. /\ status[w].wal \in Seq(WALRecord) /\ status[w].hist \in Seq(Nat)
        /\ status[master].wal \in Seq(WALRecord)
        /\ wal[w] \in Seq(WALRecord) /\ hist[w] \in Seq(Nat)
    BY <2>1, SequenceTypes, ZenonT(30)
  <2>3. IsPrefix(status[w].wal, wal[w]) /\ IsPrefix(status[w].hist, hist[w])
    BY <1>1, <2>1, ZenonT(30) DEF UpdateInv, DBInv, StillTrue
  <2>4. CASE Twins(status[w], status[master])
    <3>. DEFINE x == [wal |-> wal[w], hist |-> hist[w]]
    <3>1. x.wal = wal[w] /\ x.hist = hist[w]
      OBVIOUS
    <3>. HIDE DEF x
    <3>2. Twins(status[master], x)
      BY <2>2, <2>3, <2>4, <3>1, TwinsStay, ZenonT(30)
    <3>. QED  BY <3>2, ZenonT(30) DEF x
  <2>5. CASE OnLine(status[w], status[master])
    <3>1. /\ \/ IsPrefix(status[w].wal, status[master].wal)
             \/ IsPrefix(status[master].wal, status[w].wal)
          /\ Len(status[master].wal) - Len(status[w].wal) <= MaxStandbyLag
          /\ MaxStandbyLag \in Nat
      BY <1>1, <2>5, LagIsBounded, UpdateAssumption, ZenonT(30) DEF OnLine, Position
    <3>. QED  BY <2>2, <2>3, <3>1, AllButTheLast, ZenonT(30)
  <2>6. ~ForkedUnseen(status[w], status[master])
    <3>1. Timeline(status[w].hist) = Timeline(status[master].hist)
      BY <1>1, ZenonT(30) DEF BestNewMasters
    <3>2. Len(status[w].hist) \in Nat /\ Len(status[master].hist) \in Nat
      BY <2>1, <2>2, SequenceTypes
    <3>3. ~(Len(status[w].hist) < Len(status[master].hist))
      BY ONLY <3>1, <3>2, SMTT(30) DEF Timeline
    <3>. QED  BY <3>3, ZenonT(30) DEF ForkedUnseen
  <2>. QED  BY <1>1, <2>1, <2>4, <2>5, <2>6, ValidLine, ZenonT(30)
<1>2. UpdateInv /\ LineInv /\ [Next]_vars =>
         [master' # master =>
            \/ Twins(status[master], [wal |-> wal[master'], hist |-> hist[master']])
            \/ ForkedEarlier(status[master'], status[master])
            \/ IsPrefix(SubSeq(status[master].wal, 1, Len(status[master].wal) - MaxStandbyLag),
                        wal[master'])]_vars
  BY <1>1, NewMasterIsCandidate, ZenonT(30) DEF vars, cdVars
<1>. QED  BY <1>2, InvariantHolds, LineHolds, PTL DEF Spec, BoundedLoss

==============================================================================
